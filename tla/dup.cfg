CONSTANTS
    NumThreads = 3
    Trees <- BothTrees
SPECIFICATION FairSpec
INVARIANT DupTypeOK
INVARIANT ReportedOnce
INVARIANT EndReportsAll
PROPERTY PushedIsYielded
