SPECIFICATION CountersSpec
CONSTANTS
  Counts = 4
  Keeps = {{0, 1}}
  None = None
  MaxBeats = 3
PROPERTIES EdgeResets
