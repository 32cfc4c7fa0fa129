SPECIFICATION Spec
CONSTANTS
  Anna = Anna
  Ben = Ben
  Terrace = Terrace
  Fleet = Fleet
  People <- TwoPeople
  Places <- TwoPlaces
  CONFIRM_ATTEMPTS = 2
  MaxNotes = 3
  MaxVoids = 2
  MaxFaults = 2
SYMMETRY Same
INVARIANTS
  VoidedStaysGone
  ConfirmedIsStored
CHECK_DEADLOCK FALSE
