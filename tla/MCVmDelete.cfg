CONSTANTS
  HeapSize = 240
  Hdr = 16
  MaxStack = 9
  ObjSize = 40
  FuncLen = 24
  IfaceLen = 16
  EnumLen = 32
  VA_OBJECT_MAX_SIZE = 4096
  Lens = {8}
  ArgLens = {8}
  MaxLocals = 2
  Entries = {"class"}
  Ops <- DeleteOps
  DiscardsShared = TRUE
  ModifiesEnumerated = FALSE
SPECIFICATION Spec
INVARIANT NoDangling
CHECK_DEADLOCK FALSE
