CONSTANTS
  c1 = c1
  c2 = c2
  i1 = i1
  i2 = i2
  None = None
  Cameras <- OneCamera
  IdModulus = 4
  Images <- TwoImages
  ImageChunks = 2
  Metas <- LaneMetas
  HistorySize = 2
  MetaCap = 2
SYMMETRY Symmetry
SPECIFICATION Spec
INVARIANTS
  TypeOK
  DeliveredWhole
  SettledFrameReleased
  ImagesOnlyAtNewest
  HistorySound
PROPERTY
  DeliveredOnce
