SPECIFICATION DevicesSpec
CONSTANTS
  Control = {c1, c2}
  NullControl = {c1, c2, c3}
  Thread = {t1, t2}
  None = None
  BlockFrames = 2
  MaxChunk = 3
  Endpoint = {e1, e2}
  DefaultId = DefaultId
  WantedRate = 1
  Mixes <- ThreeMixes
  BufferFrames = 2
  MaxPeriod = 3
  PcmRates = {1, 2}
INVARIANTS
  NoDeviceLeavesAnything
PROPERTIES
  DevicesFallSilent
  DevicesKeepContract
  CallsReturn
  AudioComesBack
