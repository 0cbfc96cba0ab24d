SPECIFICATION ProgramsSpec
CONSTANTS
  recordingA = recordingA
  recordingB = recordingB
  session = session
  Path = {recordingA, recordingB, session}
  Extension <- Names
  Disks <- Beginnings
  Request <- Requests
  kBlock = 2
  ExportBlock = 2
  kDefaultWindow <- DefaultWindow
  kMinimumWindow <- MinimumWindow
  kGrabbable <- Grabbable
  kLargestPane = 100
  RecentKeys <- RecentFiles
  IntLimit = 128
  Respelled = 100
  StoredFiles <- SettingsFound
  Desktops <- Screens
  Frames <- Dragged
  Chosen <- PreferencesSet
  Recordings = {1, 101}
  MostChanges = 2
  Lists <- Machines
  NullId = "null"
  Asked <- Wishes
  kMinBufferFrames = 10
  kMaxBufferFrames = 90
  kDefaultBufferFrames = 50
  kSampleRate48000 = 48
  Durations = {0, 4, 7}
  Widths = {2, 4}
  MostGestures = 4
  Lengths = {2, 7}
  Points = {1, 5}
  Window = 1
  kRunUp = 3
  Order = 1
  LimiterContext = 2
  SpanBlend = 1
  Short = {}
  Silence = Silence
  Lost = Lost
  MostCommands = 3
  MostFrames = 10
  MostMarkers = 2
  Nyquists = {3, 4}
  PlotColumns = 2
  PlotRows = 1
  kHandleRadius = 1
  kGainLimit = 1
  kMaximumQ = 2
  kDefaultQ = 1
  kMaxBands = 2
  MostStrokes = 5
CHECK_DEADLOCK FALSE
INVARIANTS
  CommandsTellTheTruth
  SettingsSurvive
  SomethingPlays
  CommandsKeepToTheirTarget
PROPERTIES
  ViewsKeepTogether
