CONSTANTS
    None = None
    Now = 100000
    Numbers <- MCNumbers
    Lower <- MCLower
    CommandLines <- MCHelpLines
    Disk <- MCDisk
SPECIFICATION Spec
INVARIANT HelpExamplesAccepted
