SPECIFICATION Spec
CONSTANTS
  Functions = {f, g}
  UserLabels = {l}
  Variables = {v}
  Constructs = {"while", "if", "switch", "try", "catch_arg", "lambda", "break", "continue", "return", "goto", "label", "call", "ref", "var", "declare"}
  MaxStatements = 4
  MaxNesting = 3
  MaxCases = 2
INVARIANTS
  TypeOK
  PendingExact
  ImageDecodes
  FrameCovers
  BranchesStayHome
  LambdaSkipped
SYMMETRY Symmetry
