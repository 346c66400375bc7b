SPECIFICATION LoadSpec
CONSTANTS
  Hosts <- DeviceInfo
  Faults <- NoFault
INVARIANT
  LibraryOutlivesItsObjects
CHECK_DEADLOCK FALSE
