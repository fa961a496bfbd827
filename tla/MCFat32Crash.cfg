SPECIFICATION CrashSpec
CONSTANTS
  Last = 4
  RootMax = 1
  SlotCount = 3
  SectorSize = 2
  Byte = {0, 1, 2}
  Buffers <- FewBuffers
  FileNames = {A, B}
  DirNames = {D}
  Cut <- BaseName
  STACK = 2
CONSTRAINT Used
INVARIANTS
  NoCrossLink
