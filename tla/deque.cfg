CONSTANTS
    NumStealers = 2
    Cap0 = 1
    SbDepth = 4
    MaxItems = 4
SPECIFICATION Spec
INVARIANT TypeOK
INVARIANT ReclaimSafe
PROPERTY ImplementsDeque
