SPECIFICATION RecordingsSpec
CONSTANTS
  Process = {p1, p2}
  overviewEntry = overviewEntry
  tileEntry = tileEntry
  Name = {overviewEntry, tileEntry}
  SizeOf <- Sizes
  HeaderBytes = 1
  Budget = 4
  HopSize = 2
  FineFrames = 7
  TileFrames = 2
  CoarseLevel = 1
  DetailBudget = 6
  Magnitudes <- Clicks
  Views <- Ranges
  SourceLength = 9
  fftSize = 4
  hopSize = 1
  kReadBlock = 3
  None = None
  ResidualLimit = 64
  BlockFrames = 3
  MostSamples = 10
  SizeLimits = {80, 660}
  BytesPerFrame = {1, 2, 3}
  Titles = {0, 3, 4}
  ChunkOrders <- Orders
  CueSets <- Cues
  LabelSets <- Labels
  MostFrames = 8
  MediaFiles <- Media
  MostFramesRead = 3
  PeakSources <- Waves
  BaseBinSize = 2
  PeakBlockFrames = 4
  TopLevelFrames = 2
  kHalfWidth = 1
  RatePairs <- Rates
  kPhaseGrid = 6
  SourceLengths = {0, 5, 6}
  kConvertFrames = 4
  MostFed = 12
  MostCalls = 5
  InputPairs <- LevelPairs
  kMaxLookAhead = 2
  kDetectorLatency = 1
  HoldTimes = {0, 1, 2}
  MostSamplesIn = 5
  MostChanges = 1
  Speakers <- SpeakerLayout
  FullWeight = 2
  kSurroundWeight = 3
  SubBlockFrames = 2
  kSubBlocksPerBlock = 2
  kSubBlocksPerShortTerm = 3
  kShortTermHopSubBlocks = 2
  kAbsoluteGate = 3
  kRelativeGate = 3
  kRangeGate = 6
  kHistogramBinCount = 6
  Levels <- ProgrammeLevels
  ChunkLengths = {3, 5}
  MostHeard = 15
  PointSteps = {1, 3}
  RepairFrames = 10
  kOrder = 1
  kBlockSize = 4
  kMaximumGap = 4
  kGuard = 1
  kMergeDistance = 1
  ClippedWaves <- CutPeaks
  kTolerance = 1
  kMinimumRun = 2
  kMaximumRun = 3
  kRecovery = 2
  Guesses <- Answers
  kFitCeiling = 3
CHECK_DEADLOCK FALSE
SYMMETRY ProcessSymmetry
INVARIANTS
  NeverTheWrongPicture
  BudgetsHold
  PicturesShowTheRecording
  FilesSayWhatTheyHold
  CodingLosesNothing
  ReadersTellTheTruth
  ConversionKeepsTime
  ProcessorsKeepTheirWord
