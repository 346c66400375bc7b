SPECIFICATION Spec
CONSTANTS
  GGA = GGA
  RTK = RTK
  e1 = e1
  e2 = e2
  None = None
  Sources <- OneSource
  Epochs <- OneEpoch
  FreshAge = 0
  RecordAge = 1
  TrackCap = 1
  Retained = 2
  MaxTime = 1
  MaxRecords = 2
  MaxSessions = 2
  MaxRewinds = 1
INVARIANTS
  ShownIsCurrent
  StandingIsUsable
PROPERTIES
  ReaderAgreesWithModel
  ShownOnce
  EveryRecordReported
CHECK_DEADLOCK FALSE
