CONSTANTS
    NumWorkers = 2
    STEAL_ATTEMPTS = 1
    Root = 0
    NoTask = none
    Dir <- FourDirs
    Name <- FourNames
    Listing <- FourListing
    Task <- FourIds
    RootDir = "root"
    RootStatus <- AnyRoot
    Reads <- FourReads
    OffsetRange = 16
SPECIFICATION FairSpec
INVARIANT ScanTypeOK
INVARIANT ActiveTasksExact
INVARIANT TreeShaped
INVARIANT NamesMatch
INVARIANT TreeComplete
PROPERTY TreeFrozen
PROPERTY BuildReturns
