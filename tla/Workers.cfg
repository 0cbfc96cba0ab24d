\* Four calls to the meters, three to the musical panel, six generations of the
\* build over two documents, five gestures at the window: enough for a run to be
\* superseded twice while it works, and for a command inside a command.
CONSTANTS
  None = None
  MeterBlocks = 2
  MaxMeterCalls = 4
  MaxAnalysisCalls = 3
  Wants <- WithAndWithoutRoom
  MaxVersions = 2
  MaxBuilds = 6
  Duration = 2
  Formats = {f1, f2}
  Selections <- ACaretAndTwoHalves
  MaxGestures = 5
  MaxWaits = 2
SPECIFICATION WorkersSpec
INVARIANTS
  OnlyWholeAnswers
  WorkersEndFirst
  WindowKeepsItsWord
PROPERTIES
  AnswersTheLatest
  NobodyStaysBusy
  WindowSettles
\* A user may stop, and a window may be closed.
CHECK_DEADLOCK FALSE
