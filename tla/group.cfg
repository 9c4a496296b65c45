CONSTANTS
    File <- ThreeFiles
    Group <- ThreeGroup
    NoFile = none
    Content <- ThreeContent
    Faulty <- OneFaulty
    SAMPLE = 1
    Size = 4
    WINDOW = 6
    CHUNK = 3
    FILES = 2
    SqEntries = 6
SPECIFICATION FairSpec
INVARIANT GroupTypeOK
INVARIANT SlotsApart
INVARIANT CountsExact
INVARIANT WaiterIsSignalled
INVARIANT HeldSamplesKept
INVARIANT ReadsItsOwnFile
INVARIANT QuietAtReset
INVARIANT BucketsAreRight
INVARIANT HashIsOfWholeFile
INVARIANT DuplicatesFound
PROPERTY GroupEnds
CHECK_DEADLOCK FALSE
