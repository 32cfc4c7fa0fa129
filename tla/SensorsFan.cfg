SPECIFICATION Spec
CONSTANTS
  MAX_ENTITIES = 16
  MAX_CONTROLS = 20
  MIN_EXPIRY_SECS = 120
  MISSED_ROUNDS = 3
  FAN_PERIOD_SECS = 120
  NoOverride = "none"
  Offsets <- MCOffsets
  DEFAULT_OFFSET = 400
  SELF_TEST_AFTER = 3
  CONDITIONING_STEPS = 2
  FAILURES_BEFORE_BACKOFF = 2
  BACKOFF_TICKS = 2
  BLACKOUT = 1
  BuiltAs = "climate-co2"
  Told <- MCTold
  FittedGas = "Sgp41"
  MAX_SAMPLES = 14
  STABLE_FRAMES = 3
  MaxFrames = 4
  GasSteps = 2
  MaxActs = 2
  MaxFaults = 3
INVARIANTS
  NoErrorPathLeavesFan
