SPECIFICATION MCSpec
CONSTANTS
  c1 = c1
  c2 = c2
  i1 = i1
  i2 = i2
  None = None
  Cameras <- TwoCameras
  Images <- TwoImages
  Size <- Sizes
  PixelBits = 3
  BlockPixels = 4
  ByteBits = 2
  SeedBytes = 2
  LengthBytes = 0
  Blocks <- FewBlocks
  Headers <- FewHeaders
  Messages <- FewMessages
  Batches <- FewBatches
  Bases = {0, 70001, 10000000}
  MaxTime = 10050000
  TickNs = 100
  Logs <- BothLogs
  Kept = 3
  PerAnswer = 2
  MaxRaw = 5
  MaxRuns = 2
  MaxRead = 7
  GsvSentences <- Parts
  GsaSentences <- Fixes
  CycleAge = 1
  ShownAge = 2
  CycleCap = 1
  MaxSentences = 4
  MaxClock = 3
INVARIANTS
  DataTypesOK
  DeliversExactlyWholeRuns
  BlocksCanonical
  TwinsAgree
  PointsKept
  HonestAccepted
  LostOnlyAtHeads
  CyclesAreWholeRuns
  ShownIsRecent
SYMMETRY Symmetry
CHECK_DEADLOCK FALSE
