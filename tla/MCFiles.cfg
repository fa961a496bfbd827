SPECIFICATION Spec
CONSTANTS
    MAX_FDS = 5
    Names = {a, b}
    Byte = {1, 2, 3}
    Buffers <- MCBuffers
    Foreign = 0
    TMP = 2
    WORD = 8
    MaxLine = 2
    Keys = {key, nl, etx}
    NL = nl
    ETX = etx
SYMMETRY Symmetry
INVARIANTS ReadsExact KeysReturned
