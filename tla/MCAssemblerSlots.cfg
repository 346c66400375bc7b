CONSTANTS
  c1 = c1
  c2 = c2
  i1 = i1
  i2 = i2
  None = None
  Cameras <- TwoCameras
  IdModulus = 4
  Images <- OneImage
  ImageChunks = 1
  Metas <- SlotMetas
  HistorySize = 1
  MetaCap = 1
SPECIFICATION SlotsSpec
INVARIANTS
  TimerCoversWork
  PendingUnambiguousAtWrap
PROPERTIES
  ImagesSurvive
  NoSilentLoss
