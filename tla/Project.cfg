CONSTANTS
  BeatBytes = 8
  PacketBytes = 24
  Modulus = 1024
  Slots = 2
  MaxMatches = 5
  Sizes = {0, 8, 16, 24, 32, 40, 48, 56}
  OutFactor = 1
  StreamDepth = 2
  Reg = {ip_address}
  Byte = {low, high}
  Val = {0, 1}
  Unmapped = Unmapped
  None = None
  AwEn = TRUE
SPECIFICATION MCFairSpec
INVARIANTS
  StoredIsPrefix
  PacketsAgree
PROPERTIES
  AllDone
  MemorySpec
  WritesPerformed
