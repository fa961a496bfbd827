SPECIFICATION MemorySpec
CONSTANTS
    Ctx = {c1}
    MAX_ORDER = 2
    Size <- MCSize
    Caches = {1024, 2048}
    MaxObjs = 3
INVARIANTS SlabExact ObjectsBacked MagicExact ReapTiled ReapComplete
PROPERTY ReapSparesKernel
