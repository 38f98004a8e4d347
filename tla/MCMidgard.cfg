CONSTANTS
  HeapSize = 19
  Hdr = 2
  Sizes = {1, 3, 5}
  Uninit = {0, 7}
SPECIFICATION Spec
INVARIANTS
  TypeOK
  ChainOrdered
  HeldOnChain
  NothingLost
  FailsOnlyWhenFull
PROPERTY ImplementsContract
