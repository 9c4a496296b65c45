CONSTANTS
    BLOCK = 3
    MaxLen = 40
SPECIFICATION Spec
INVARIANT ChunkingInvisible
