SPECIFICATION Spec
CONSTANTS
  NumNodes = 3
  here = here
  there = there
  Places = {here, there}
  Depths = {0, 1}
  Types = {md5, sha1}
  Default = md5
  Project <- MCProject
  Files <- MCFiles
  BoundaryLength = 1
  MaxElements = 2
  MaxCalls = 3
CHECK_DEADLOCK FALSE
INVARIANTS
  StaleExplained
PROPERTIES
  ForcedExact
