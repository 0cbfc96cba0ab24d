SPECIFICATION Spec
CONSTANTS
  Control = {c1, c2}
  Thread = {t1}
  None = None
  BlockFrames = 2
  MaxChunk = 3
INVARIANT
  StopJoinsAnUnwindingLoop
