SPECIFICATION FairSpec
CONSTANTS
  Doys <- MidJune
  Schedules <- DefaultAndEarly
  Cells <- Good
  NoReading = silent
  RoundTakes <- NoneOrTwo
  PUBLISH_EVERY = 3
  RETRY_MIN = 360
  WAIT = 4
  LONG = 120
  DRIFT = 1
  MaxAhead = 1
  MaxBehind = 4
  MaxActs = 1
  MaxFaults = 2
INVARIANTS
  IdleBounded
  ResetCostsOneRound
PROPERTIES
  LightsAgain
