SPECIFICATION SearchSpec
CONSTANTS
  Meshes <- SearchMeshes
  Numbers = {1, 2}
  Positions = {1, 3, 4}
  Sizes = {0, 1, 3}
  Corners <- SomeCorners
  MaxNodes = 6
  MaxElements = 3
  MaxListed = 0
  MaxEdits = 3
INVARIANTS
  TreesFit
  SearchDeathExplained
CHECK_DEADLOCK FALSE
