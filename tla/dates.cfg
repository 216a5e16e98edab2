SPECIFICATION Spec
CONSTANTS
  Starts <- MCStarts
  Shifts <- MCShifts
  Years <- MCYears
  Small <- MCSmall
  MaxCalls = 2
  WindFiles <- MCWindFiles
  Spins <- MCSpins
  SwanSteps <- MCSwan
  NoStep = none
CHECK_DEADLOCK FALSE
INVARIANTS
  MonthsExact
  TripsTruncate
  EndsOnCycle
PROPERTIES
  SettersExact
