SPECIFICATION FairSpec
CONSTANTS
  Nodes = {n1}
  Nothing = nothing
  CAPACITY = 1
  BATCH_MAX = 2
  MAX_PENDING_LINES = 3
  MaxDeeds = 3
  MaxFaults = 2
INVARIANTS
  Kept
  BacklogBounded
  OncePerReading
  TransitionsOnly
PROPERTIES
  HeadRecovered
  StatusSettles
