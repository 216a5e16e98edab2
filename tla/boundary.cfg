SPECIFICATION Spec
CONSTANTS
  Codes <- MCCodes
  n1 = n1
  n2 = n2
  Nodes = {n1, n2}
  NoNode = null
  Values = {0, 1}
  Fresh = 0
  Files <- MCFiles
  MaxLength = 2
  MaxList = 2
  MaxCalls = 3
CHECK_DEADLOCK FALSE
INVARIANTS
  SizedUnlessRetyped
  HashCurrent
PROPERTIES
  EditsKeep
  ReadRestores
