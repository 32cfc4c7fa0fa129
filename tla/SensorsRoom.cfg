SPECIFICATION Spec
CONSTANTS
  MAX_ENTITIES = 16
  MAX_CONTROLS = 20
  MIN_EXPIRY_SECS = 120
  MISSED_ROUNDS = 3
  FAN_PERIOD_SECS = 900
  NoOverride = "none"
  Offsets <- MCOffsets
  DEFAULT_OFFSET = 400
  SELF_TEST_AFTER = 3
  CONDITIONING_STEPS = 10
  FAILURES_BEFORE_BACKOFF = 10
  BACKOFF_TICKS = 59
  BLACKOUT = 45
  BuiltAs = "air-quality"
  Told <- MCNowhere
  FittedGas = "Sgp41"
  MAX_SAMPLES = 14
  STABLE_FRAMES = 3
  MaxFrames = 30
  GasSteps = 60
  MaxActs = 0
  MaxFaults = 0
INVARIANTS
  RoomForAll
