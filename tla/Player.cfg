SPECIFICATION FairSpec
CONSTANTS
  SourceFrames = 2
  RingFrames = 1
  RenderBlock = 2
  BlockFrames = 2
  MaxUnderruns = 1
  Processors = {p}
  None = None
INVARIANTS
  PlaysTheDocument
PROPERTIES
  NothingRunsBehindACall
  PlayerAnswers
