SPECIFICATION Spec
CONSTANTS
  Doys <- MidJune
  Schedules <- DefaultAndEarly
  Cells <- Good
  NoReading = silent
  RoundTakes <- NoneOrTwo
  PUBLISH_EVERY = 5
  RETRY_MIN = 60
  WAIT = 10
  LONG = 120
  DRIFT = 1
  MaxAhead = 1
  MaxBehind = 10
  MaxActs = 0
  MaxFaults = 0
PROPERTIES
  WaitsForTonight
