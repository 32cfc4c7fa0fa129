SPECIFICATION FairSpec
CONSTANTS
  Feed <- OldAndNew
  Intervals <- AnyDay
  Retentions <- OneRetention
  Unset = unset
  MaxMishaps = 2
INVARIANTS
  NothingHidden
PROPERTIES
  ChartsWhole
  RepairedServeAgain
  StaysOpen
