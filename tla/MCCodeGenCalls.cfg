SPECIFICATION Spec
CONSTANTS
  Functions = {f, g}
  UserLabels = {l}
  Variables = {v}
  Constructs = {"while", "lambda", "goto", "label", "call", "ref"}
  MaxStatements = 4
  MaxNesting = 2
  MaxCases = 0
INVARIANT UnresolvedReported
