CONSTANTS
  HeapSize = 300
  Hdr = 16
  MaxStack = 10
  ObjSize = 40
  FuncLen = 24
  IfaceLen = 16
  EnumLen = 32
  VA_OBJECT_MAX_SIZE = 4096
  Lens = {8}
  ArgLens = {8, 88}
  MaxLocals = 1
  Entries = {"class", "callback"}
  Ops <- FrameOps
  DiscardsShared = FALSE
  ModifiesEnumerated = FALSE
SPECIFICATION FairSpec
INVARIANTS
  FramesAligned
  NoDangling
  GarbageGone
PROPERTY CollectorTerminates
CHECK_DEADLOCK FALSE
