SPECIFICATION Spec
CONSTANTS
    NEON_SIZE_BYTE = 4
    MAX_LIFTING_SIZE = 13
    BG1_K = 3
    BG1_M = 6
    BG2_K = 3
    BG2_M = 5
    Graphs <- MCGraphs
    Messages <- MCMessages
    OutputSizes <- MCOutputSizes
    UninitializedBytes = {0, 255}
    MaxCalls = 2
CHECK_DEADLOCK FALSE
INVARIANTS
    TypeOK
    OutputIsCodeword
