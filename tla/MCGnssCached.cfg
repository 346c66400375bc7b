SPECIFICATION Spec
CONSTANTS
  GGA = GGA
  RTK = RTK
  e1 = e1
  e2 = e2
  None = None
  Sources <- BothSources
  Epochs <- OneEpoch
  FreshAge = 0
  RecordAge = 0
  TrackCap = 1
  Retained = 1
  MaxTime = 1
  MaxRecords = 2
  MaxSessions = 1
  MaxRewinds = 1
INVARIANT
  NothingCachedPrinted
CHECK_DEADLOCK FALSE
