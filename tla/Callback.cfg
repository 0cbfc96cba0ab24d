\* The ring: sizes that do not divide each other, so that copies wrap. The slot:
\* three values of two words. The stage: blocks shorter and longer than a piece
\* and than a fade, with one frame to fade over at the least.
SPECIFICATION CallbackSpec
CONSTANTS
  Capacity = 3
  MaxCount = 3
  Sample = {0, 1}
  Silence = 0
  Value = {v0, v1, v2}
  Default = v0
  Word = {w1, w2}
  Nothing = Nothing
  Settings = {flat, bell}
  DefaultSettings = flat
  Sections <- NoneForTheDefault
  Dry = Dry
  NothingFresh = NothingFresh
  CrossfadeFrames = {2, 3}
  BlockSizes = {1, 2}
  MaxFrames = 3
  MaxRefused = 1
INVARIANTS
  NoSlotRace
  NoTornValue
  CurvesPlayWhole
PROPERTIES
  ImplementsQueue
  ImplementsMailbox
  LastChangeArrives
