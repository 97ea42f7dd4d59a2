CONSTANTS
  Counts = 2
  Keep = {0, 1}
  LastCount = 2
  HostWrites = {"one", "other"}
SPECIFICATION StatsFairSpec
INVARIANTS
  Snapshot
PROPERTIES
  KeptTenCycles
  ResetEnds
