CONSTANTS
  Counts = 4
  Keeps = {{0, 1}, {0, 2}}
  None = None
  MaxBeats = 4
  BeatBytes = 3
  MinFrame = 2
  PADDING_MODE = 1
  Bytes = {0, 1}
  MaxSent = 3
  Modulus = 4
  MAX_SAMPLES = 2
  Requests = {0, 1, 3}
  Rates = {0, 2}
  KeepBytes = {3}
  SliceDepth = 1
  MaxCalls = 3
  MaxCycles = 3
SPECIFICATION MCFairSpec
INVARIANTS
  PassesOn
  CountersExact
  FramesPadded
  SampleExact
  LeftOverExact
PROPERTIES
  Returns
CHECK_DEADLOCK FALSE
