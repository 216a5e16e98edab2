SPECIFICATION Spec
CONSTANTS
  Names = {"a", "b", "c"}
  Values = {0, 1}
  Fort13 <- AllFiles
  Meshes <- AllMeshes
  RowLengths = {0, 2, 3}
  New <- AddedOnes
  Junk = {0, 3}
  MaxParams = 3
  MaxCalls = 3
INVARIANTS
  FileHonoured
  NodesAttached
  WriteFaithful
  DeathExplained13
CHECK_DEADLOCK FALSE
