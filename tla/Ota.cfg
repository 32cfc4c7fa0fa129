SPECIFICATION FairSpec
CONSTANTS
  good = good
  next = next
  mute = mute
  deaf = deaf
  Cabled = good
  Torn = torn
  NoOffer = none
  NoRecord = blank
  Images <- GoodAndMute
  Joins <- GoodAndMute
  Publishes <- GoodAndNext
  Profiles <- AllProfiles
  MAX_ATTEMPTS = 3
  MAX_RECORDED_BOOTS = 2
  MaxSeq = 5
  MaxCuts = 2
  MaxFaults = 1
  FaultAt <- AnyWriteButConfirm
  TornRecords = FALSE
INVARIANTS
  UnprovedOnRecord
PROPERTIES
  KeepsPromise
  LeavesMuteImage
