SPECIFICATION Spec
CONSTANTS
  Loads <- FourLoads
  Configs <- TwoSettings
  Cells <- SomeCells
  Nights <- Dusk
  NoWeight = noweight
  MIN_PUBLISH_GAP_SECS = 3
  STUCK_AFTER_SECS = 5
  UNEXPLAINED_ADOPT_AFTER_SECS = 5
  VISIT_MAX = 3
  PARK_INTERVAL = 4
  AnyRtc = TRUE
  Crashes = TRUE
  MaxRounds = 5
  MaxSince = 40
  MaxTurns = 1
INVARIANTS
  RateLimited
  NeverMute
  CountsOnce
