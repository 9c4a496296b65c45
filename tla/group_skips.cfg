CONSTANTS
    File <- ThreeFiles
    Group <- ThreeGroup
    NoFile = none
    Content <- ThreeContent
    Faulty <- OneFaulty
    SAMPLE = 1
    Size = 4
    WINDOW = 6
    CHUNK = 3
    FILES = 1
    SqEntries = 6
SPECIFICATION Spec
INVARIANT OnlyFailedSkipped
CHECK_DEADLOCK FALSE
