SPECIFICATION MCSpec
CONSTANTS
  Conns = {a, b}
  Secure = {b}
  Requests <- MCRequests
  Scripts <- MCScripts
  Spaces <- MCSpaces
  Pages <- MCPages
  MaxFds = 2
  BufferSize = 6
  MaxArgs = 2
  Size <- MCSize
  Start <- MCStart
INVARIANTS
  FdsAccounted
  RunsWhatWasAsked
  BodyWhole
PROPERTIES
  PlainAnswered
CHECK_DEADLOCK FALSE
