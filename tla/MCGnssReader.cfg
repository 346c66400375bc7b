SPECIFICATION Spec
CONSTANTS
  GGA = GGA
  RTK = RTK
  e1 = e1
  e2 = e2
  None = None
  Sources <- OneSource
  Epochs <- TwoEpochs
  FreshAge = 0
  RecordAge = 1
  TrackCap = 2
  Retained = 1
  MaxTime = 2
  MaxRecords = 3
  MaxSessions = 1
  MaxRewinds = 0
INVARIANTS
  TypeOK
  JoinedPointsContinuous
PROPERTY
  EveryRecordReported
CHECK_DEADLOCK FALSE
