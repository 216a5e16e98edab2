SPECIFICATION FilesSpec
CONSTANTS
  Meshes <- AllMeshes
  Numbers = {1, 2}
  Positions = {1, 3, 4}
  Sizes = {0, 1, 3}
  Corners <- SomeCorners
  MaxNodes = 6
  MaxElements = 3
  MaxListed = 4
  MaxEdits = 3
INVARIANTS
  VerticesLive
  ReadFaithful
  FoundByNumber
  TableExact
  OverlapsFound
  DeathExplained
  TripRestores
CHECK_DEADLOCK FALSE
