SPECIFICATION Spec
CONSTANTS
  NumFunctions = 2
  MaxStatements = 4
  MaxNesting = 4
  MaxIterations = 1
  MaxStack = 10
  Shapes = {"catch", "catch_arg", "while", "break", "return", "call"}
INVARIANTS
  ArmedAreEnclosing
  FramesAligned
  OperandsBalanced
PROPERTIES
  RaiseFindsInnermost
  RunEnds
