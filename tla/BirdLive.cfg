SPECIFICATION FairSpec
CONSTANTS
  Loads <- FourLoads
  Configs <- OneSetting
  Cells <- GoodCell
  Nights <- Dusk
  NoWeight = noweight
  MIN_PUBLISH_GAP_SECS = 3
  STUCK_AFTER_SECS = 6
  UNEXPLAINED_ADOPT_AFTER_SECS = 6
  VISIT_MAX = 3
  PARK_INTERVAL = 8
  AnyRtc = TRUE
  Crashes = TRUE
  MaxRounds = 7
  MaxSince = 0
  MaxTurns = 1
PROPERTIES
  Relearns
  CatchesUp
