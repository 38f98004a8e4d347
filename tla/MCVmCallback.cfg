CONSTANTS
  HeapSize = 500
  Hdr = 16
  MaxStack = 9
  ObjSize = 40
  FuncLen = 24
  IfaceLen = 16
  EnumLen = 32
  VA_OBJECT_MAX_SIZE = 4096
  Lens = {8}
  ArgLens = {8, 80, 88}
  MaxLocals = 1
  Entries = {"callback"}
  Ops <- PushOps
  DiscardsShared = FALSE
  ModifiesEnumerated = FALSE
SPECIFICATION Spec
INVARIANT CandidateIsObject
CHECK_DEADLOCK FALSE
