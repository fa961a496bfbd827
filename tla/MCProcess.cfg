SPECIFICATION LiveSpec
CONSTANTS
    MAX_PROC = 3
    MaxPid = 2
    CreateWords = 15
    SpawnWords = 15
    Pages = {1, 2, 3, 4}
CHECK_DEADLOCK FALSE
INVARIANTS StacksTracked TablesBacked Identity
PROPERTY ChildReaped
