CONSTANTS
    File <- SmallFiles
    Group <- SmallGroup
    NoFile = none
    Content <- SmallContent
    Faulty <- TwoFaulty
    SAMPLE = 1
    Size = 1
    WINDOW = 3
    CHUNK = 1
    FILES = 2
    SqEntries = 3
SPECIFICATION Spec
INVARIANT GenuineDuplicates
CHECK_DEADLOCK FALSE
