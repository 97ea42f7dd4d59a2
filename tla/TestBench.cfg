CONSTANTS
  Byte = {"a", "b", "c", "0"}
  HistoryLen = 5
  Rules <- MCRules
  MaxPacketBytes = 8
  BeatBytes = 4
  PacketBytes = 8
  Slots = 2
  Zero = "0"
  Background = "c"
  EndMark = 238
  RandomData <- MCRandomData
  PlacedSize = 16
  NoEvent = NoEvent
  Garbage <- MCGarbage
SPECIFICATION TestBenchSpec
INVARIANTS
  DetectsExactlyVisible
  ReportsPriorityRule
  EventsParsed
  FlagsHonest
  VerdictHonest
