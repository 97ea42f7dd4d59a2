CONSTANTS
  BeatPairs = 2
  Depth = 2
  Slots = 3
  RuleId = {1}
  MaxPackets = 2
  MaxBeats = 2
  OutDepth = 1
SPECIFICATION FairSpec
INVARIANTS
  NoStall
  OneBeatAtATime
PROPERTIES
  ReportSpec
  ReportedInOrder
  Completes
