SPECIFICATION Spec
CONSTANTS
  good = good
  next = next
  mute = mute
  deaf = deaf
  Cabled = good
  Torn = torn
  NoOffer = none
  NoRecord = blank
  Images <- AllImages
  Joins <- GoodAndMute
  Publishes <- GoodAndNext
  Profiles <- AllProfiles
  MAX_ATTEMPTS = 3
  MAX_RECORDED_BOOTS = 2
  MaxSeq = 4
  MaxCuts = 2
  MaxFaults = 1
  FaultAt <- AnyWriteButConfirm
  TornRecords = TRUE
INVARIANTS
  SelectionBootable
  TrialHasWayBack
