SPECIFICATION CommandsSpec
CONSTANTS
  Lengths = {7}
  Points = {1}
  Window = 1
  kRunUp = 3
  Order = 1
  LimiterContext = 2
  SpanBlend = 1
  Short = {3}
  Silence = Silence
  Lost = Lost
  ExportBlock = 2
  MostCommands = 2
  MostFrames = 10
  MostMarkers = 2
CHECK_DEADLOCK FALSE
INVARIANTS
  WalkMovesOn
