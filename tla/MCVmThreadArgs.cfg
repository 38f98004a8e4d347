CONSTANTS
  Objs = {"o1"}
  MaxArgs = 15
  ArgCounts = {1}
  CloneLimit = 14
  MaxVars = 1
  MaxTouch = 0
SPECIFICATION Spec
INVARIANT ArgumentsArrive
CHECK_DEADLOCK FALSE
