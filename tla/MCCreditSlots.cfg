CONSTANTS
  c1 = c1
  c2 = c2
  i1 = i1
  i2 = i2
  None = None
  Cameras <- TwoCameras
  IdModulus = 6
  Images <- TwoImages
  ImageChunks = 2
  Metas <- SlotMetas
  HistorySize = 2
  MetaCap = 2
  FirstId = 5
  Window = 2
  MaxFrames = 2
  LinkCap = 2
  Captured <- SameImage
  StrayImages = FALSE
SPECIFICATION CreditSpec
PROPERTIES
  HealthyFramesComplete
