SPECIFICATION Spec
CONSTANTS
  Loads <- TwoLoads
  Configs <- OneSetting
  Cells <- GoodCell
  Nights <- Daylight
  NoWeight = noweight
  MIN_PUBLISH_GAP_SECS = 3
  STUCK_AFTER_SECS = 6
  UNEXPLAINED_ADOPT_AFTER_SECS = 6
  VISIT_MAX = 3
  PARK_INTERVAL = 8
  AnyRtc = FALSE
  Crashes = TRUE
  MaxRounds = 7
  MaxSince = 40
  MaxTurns = 2
INVARIANTS
  RateLimitedAlways
