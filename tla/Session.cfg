SPECIFICATION Spec
CONSTANTS
  Documents <- DocumentState
  Labels = {"edit"}
  MaxDepth = 2
  Paths = {p}
  Audio = {x, y}
  Recording = Recording
  Silence = Silence
  Broken = Broken
  None = None
  Unreliable = {p}
  MaxNextId = 8
SYMMETRY AudioSymmetry
VIEW WhatIsRead
INVARIANTS
  WholeFilesReopen
PROPERTY
  SavingIsInaudible
