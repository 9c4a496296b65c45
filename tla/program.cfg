CONSTANTS
    None = None
    Now = 100000
    Numbers <- MCNumbers
    Lower <- MCLower
    CommandLines <- MCCommandLines
    Disk <- MCDisk
SPECIFICATION FairSpec
INVARIANT ParseRight
INVARIANT MetricsRight
INVARIANT ReportsRight
INVARIANT UndefinedOnlyWithoutTree
PROPERTY CachesSettled
PROPERTY ProgramEnds
