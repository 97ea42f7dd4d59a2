CONSTANTS
  BeatBytes = 8
  PacketBytes = 24
  Modulus = 256
  Slots = 2
  MaxMatches = 1
  Sizes = {24, 56}
  OutFactor = 1
  StreamDepth = 2
SPECIFICATION Spec
INVARIANTS
  LastAtMultiples
CHECK_DEADLOCK FALSE
