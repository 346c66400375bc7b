SPECIFICATION MCSpec
CONSTANTS
  a = a
  b = b
  NoStatus = NoStatus
  NoTask = NoTask
  Writers <- Both
  Callers <- Both
  Cameras <- TwoCameras
  FirstConfig <- Defaults
  Edits <- FewEdits
  MaxWrites = 2
  MaxEpoch = 2
  Tasks <- FewTasks
  Endpoints = {"here", "there"}
  MaxSaves = 2
  Programs <- Everyone
  Hosts <- AllHosts
  Faults <- FewFaults
INVARIANTS
  HostTypesOK
  SuccessMeansStopped
  StartedNotAbandoned
  NothingDangling
  EndsClean
  VerdictTrue
  SuccessMeansDone
PROPERTIES
  ForeignCaptureKept
  NoLostUpdate
  OnlyAsAgreed
CHECK_DEADLOCK FALSE
