CONSTANTS
    NumThreads = 2
    Trees <- JustTwoGroups
SPECIFICATION FairSpec
PROPERTY GeneratorEnds
