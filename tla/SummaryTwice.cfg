SPECIFICATION Spec
CONSTANTS
  None = None
  Modes = {"latency"}
  Packets = {2}
  Beats = {1}
  Gaps = {0}
  MAX_TIMEOUT = 4
  MaxStarts = 1
  MaxResets = 0
  MaxLost = 0
  NetDepth = 2
  MaxWaited = 1
INVARIANTS NoSummaryTwice
