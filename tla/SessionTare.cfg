SPECIFICATION Spec
CONSTANTS
  Last = 2
  Offsets = {1}
  Zeros = {5}
  Heartbeats = {10, 20}
  Images = {"old", "new"}
  FirstImage = "old"
  Defaults <- AsFlashed
  NoValue = none
  DRAIN = 3
  MaxVisits = 1
  MaxActs = 3
  MaxFaults = 0
INVARIANTS
  TareStands
