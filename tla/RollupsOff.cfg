\* Rollups switched off over views that are there: this fails.
SPECIFICATION Spec
CONSTANTS
  Feed <- OldAndNew
  Intervals <- AnyDay
  Retentions <- OneRetention
  Unset = unset
  MaxMishaps = 1
INVARIANTS
  OffReadsBase
