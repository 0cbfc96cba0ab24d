SPECIFICATION Spec
CONSTANTS
  Documents <- DocumentState
  Labels = {"edit"}
  MaxDepth = 2
  Paths = {p, q}
  Audio = {x, y}
  Recording = Recording
  Silence = Silence
  Broken = Broken
  None = None
  Unreliable = {p}
  MaxNextId = 6
SYMMETRY AudioSymmetry
INVARIANT
  SavedMeansReopens
