SPECIFICATION FairSpec
CONSTANTS
  good = good
  next = next
  mute = mute
  deaf = deaf
  Cabled = good
  Torn = torn
  NoOffer = none
  NoRecord = blank
  Images <- GoodAndDeaf
  Joins <- OnlyGood
  Publishes <- OnlyGood
  Profiles <- OnlyBattery
  MAX_ATTEMPTS = 3
  MAX_RECORDED_BOOTS = 1
  MaxSeq = 3
  MaxCuts = 0
  MaxFaults = 0
  FaultAt <- NoWrite
  TornRecords = FALSE
PROPERTIES
  LeavesDeafImage
