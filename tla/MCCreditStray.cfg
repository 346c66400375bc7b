CONSTANTS
  c1 = c1
  c2 = c2
  i1 = i1
  i2 = i2
  None = None
  Cameras <- TwoCameras
  IdModulus = 6
  Images <- OneImage
  ImageChunks = 2
  Metas <- StrayMetas
  HistorySize = 1
  MetaCap = 2
  FirstId = 5
  Window = 1
  MaxFrames = 3
  LinkCap = 2
  Captured <- SameImage
  StrayImages = TRUE
SPECIFICATION CreditSpec
INVARIANTS
  AcksMatchCredit
