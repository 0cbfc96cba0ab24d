SPECIFICATION Spec
CONSTANTS
  MaxGain = 2
  MaxFade = 6
  Processed = 500
  Documents <- DocumentState
  Labels = {"drag", "edit"}
  MaxDepth = 2
  OpenedFrames = 3
  Factors = {2}
  MarkerPositions = {2}
  MaxNextId = 5
  MaxFrames = 3
  MaxFaded = 1
  MaxCopied = 1
INVARIANT FailureLeavesNoTrace
