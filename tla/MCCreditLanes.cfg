CONSTANTS
  c1 = c1
  c2 = c2
  i1 = i1
  i2 = i2
  None = None
  Cameras <- OneCamera
  IdModulus = 6
  Images <- OneImage
  ImageChunks = 2
  Metas <- LaneMetas
  HistorySize = 2
  MetaCap = 2
  FirstId = 5
  Window = 2
  MaxFrames = 3
  LinkCap = 2
  Captured <- SameImage
  StrayImages = FALSE
SPECIFICATION FairCreditSpec
INVARIANTS
  AcksMatchCredit
PROPERTIES
  CreditReturned
