SPECIFICATION Spec
CONSTANTS
  Dates <- MCDates
  Tick = 10
  Values <- MCValues
  Null = 0
  Texts <- MCTexts
  Empty = ""
  Size <- SizeOf
  Ids <- MCIds
  Plain <- PlainText
  Printed <- PrintedAs
  Series <- MCSeries
  Calendars <- MCCalendars
  Starts <- MCStarts
  MaxStations = 2
  MaxSnaps = 2
  MaxCalls = 4
INVARIANTS
  DeathExplainedHmdf
  AdcircConsistent
PROPERTIES
  ReadsBack
CHECK_DEADLOCK FALSE
