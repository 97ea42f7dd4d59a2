SPECIFICATION MCFairSpec
CONSTANTS
  None = None
  Modes = {"producer", "latency", "loopback", "consumer"}
  Packets = {2}
  Beats = {1, 2}
  Gaps = {0, 2}
  MAX_TIMEOUT = 4
  MaxStarts = 2
  MaxResets = 1
  MaxLost = 1
  NetDepth = 2
  MaxWaited = 2
  Lanes = 2
  Rows = 2
  Stamps = 8
  Latencies = 4
  Times = {3, 5}
  Unset = Unset
  Closing = Closing
  Depth = 2
  MaxPackets = 9
INVARIANTS ProducedInOrder SummaryPerPacket ClosedOnce StatusHonest AllCollected
PROPERTIES GapKept Completes
