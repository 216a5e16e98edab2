SPECIFICATION FairScope
CONSTANTS
  Files <- NetcdfRound
  Disks <- ToNetcdf
  UserIds = {}
  Cursors = {}
  Targets <- NcOut
  NcTargets <- NcOut
  Meshes = {1, 2}
  Global = "in"
  Output = "out.nc"
  MaxWritten = 4
  MaxLines = 12
  MaxRecords = 5
  MaxSnap = 6
  MaxVarids = 3
INVARIANT
  Trimmed
PROPERTY
  ScopeEnds
CHECK_DEADLOCK FALSE
