SPECIFICATION Spec
CONSTANT
  Programs <- UsbOnly
INVARIANT
  NotAbandoned
CHECK_DEADLOCK FALSE
