SPECIFICATION FairSpec
CONSTANTS
  Pairs <- AllPairs
  NoPair = nopair
  NoSsid = nossid
  StoredPairs <- AnyStored
  BuiltIns <- HomeOnly
  Networks <- OneOrBoth
  Sleeps <- Either
  FALLBACK_AFTER = 3
  MaxCount = 8
INVARIANTS
  AbandonsOnlyRefused
  JoinsWithChosen
PROPERTIES
  Rejoins
