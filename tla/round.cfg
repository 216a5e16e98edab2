SPECIFICATION SpecRound
CONSTANTS
  Files <- RoundNames
  Disks <- RoundDisks
  UserIds = {}
  Cursors = {}
  Targets <- BothOut
  NcTargets <- NcOut
  Meshes <- NoMeshes
  MaxWritten = 2
  MaxLines = 3
  MaxRecords = 2
  MaxSnap = 2
  MaxVarids = 2
INVARIANTS
  ReadBack
CONSTRAINT OneTarget
CHECK_DEADLOCK FALSE
