SPECIFICATION Spec
CONSTANTS
    MAX_PROC = 3
    MaxPid = 2
    CreateWords = 16
    SpawnWords = 14
    Pages = {1, 2, 3, 4}
CHECK_DEADLOCK FALSE
INVARIANT NoFault
