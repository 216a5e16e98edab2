SPECIFICATION FairStations
CONSTANTS
  Files <- StationNames
  Disks <- StationDisks
  UserIds = {}
  Cursors = {}
  NcNames <- NcNamed
  StartSnaps <- Starts
  EndSnaps <- Ends3
  Reaches = {0, 2, 3}
  MaxRecords = 3
  MaxSnap = 6
  MaxVarids = 4
INVARIANTS
  OneRecordAtATime
PROPERTIES
  DeliversWindow
  Ends
CHECK_DEADLOCK FALSE
