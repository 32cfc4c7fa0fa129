SPECIFICATION FairSpec
CONSTANTS
  Pairs <- AllPairs
  NoPair = nopair
  NoSsid = nossid
  StoredPairs <- TypoOnly
  BuiltIns <- HomeOnly
  Networks <- HomeNetwork
  Sleeps <- Awake
  FALLBACK_AFTER = 3
  MaxCount = 4
PROPERTIES
  RejoinsAwake
