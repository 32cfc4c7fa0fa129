SPECIFICATION Spec
CONSTANTS
  good = good
  next = next
  mute = mute
  deaf = deaf
  Cabled = good
  Torn = torn
  NoOffer = none
  NoRecord = blank
  Images <- GoodAndNext
  Joins <- GoodAndNext
  Publishes <- GoodAndNext
  Profiles <- OnlyBattery
  MAX_ATTEMPTS = 3
  MAX_RECORDED_BOOTS = 1
  MaxSeq = 4
  MaxCuts = 0
  MaxFaults = 1
  FaultAt <- AnyWrite
  TornRecords = FALSE
INVARIANTS
  SelectionBootable
