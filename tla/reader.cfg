SPECIFICATION Spec
CONSTANTS
  Files <- TwoNames
  Disks <- AllDisks
  UserIds = {1}
  Cursors = {0, 3}
  MaxRecords = 2
  MaxSnap = 3
  MaxVarids = 4
INVARIANTS
  TypeOK
  MapSound
  MapTotal
  MapLatest
  AsciiFaithful
  NetcdfFaithful
  CrashExplained
PROPERTY
  OrphansHidden
CHECK_DEADLOCK FALSE
