SPECIFICATION FairSpec
CONSTANTS
  Last = 4
  RootMax = 2
  SlotCount = 3
  SectorSize = 2
  Byte = {0, 1, 2}
  Buffers <- TwoBuffers
  FileNames = {A}
  DirNames = {"D", "D.X"}
  Cut <- BaseName
  STACK = 2
CONSTRAINT Used
INVARIANTS
  NoCrossLink
  SizeCovered
  NoDangling
  PathRight
  TreeOK
  NothingHidden
PROPERTIES
  Isolation
  ReadBack
  OnlyEmptyFreed
  OperationsEnd
