CONSTANTS
  HeapSize = 236
  Hdr = 16
  MaxStack = 8
  ObjSize = 40
  FuncLen = 24
  IfaceLen = 16
  EnumLen = 32
  VA_OBJECT_MAX_SIZE = 8
  Lens = {8, 12}
  ArgLens = {8}
  MaxLocals = 2
  Entries = {"class"}
  Ops <- ValueOps
  DiscardsShared = FALSE
  ModifiesEnumerated = FALSE
SPECIFICATION Spec
INVARIANTS
  TypeOK
  HeapAgrees
  NoDangling
  CountCovers
PROPERTY GcSparesReachable
CHECK_DEADLOCK FALSE
