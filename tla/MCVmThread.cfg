CONSTANTS
  Objs = {"o1", "o2"}
  MaxArgs = 3
  ArgCounts = {0, 1, 2, 3}
  CloneLimit = 2
  MaxVars = 3
  MaxTouch = 3
SPECIFICATION Spec
INVARIANTS
  TypeOK
  AbortHitsMachine
  BlockOutlivesThread
  PassedOnceStaysAlive
PROPERTY StopReturns
CHECK_DEADLOCK FALSE
