SPECIFICATION Spec
CONSTANTS
  MaxLength = 5
  TempSize = 4
  Numbers <- MCNumbers
  Operands = {2, 5}
  MaxNodes = 5
  MaxTree = 5
  MaxComplete = 20
  NodeValues <- MCNodeValues
  Nallocs = {1, 2, 4}
  MaxPushed = 9
  PolicyArgs <- MCPolicyArgs
INVARIANTS
  ParsedAsWritten
  ExercisesRight
CHECK_DEADLOCK FALSE
