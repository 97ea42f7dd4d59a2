CONSTANTS
  None = None
  MayFail = TRUE
  MayReset = TRUE
SPECIFICATION FairSpec
INVARIANTS
  UpMeansEnabled
PROPERTIES
  ComesUp
  FailureStops
