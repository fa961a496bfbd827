SPECIFICATION LiveSpec
CONSTANTS
    MAX_PROC = 2
    MaxPid = 1
    CreateWords = 15
    SpawnWords = 15
    Pages = {1, 2, 3, 4}
CHECK_DEADLOCK FALSE
PROPERTY WaitReturns
