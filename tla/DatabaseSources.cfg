CONSTANTS
  Injected = Injected
  None = None
  Scans = {scan1, scan2}
  Connections = {conn1, conn2, conn3, Injected}
SPECIFICATION Spec
INVARIANTS
  TypeOK
  SessionsReleased
  InjectedStaysOpen
  ScansDoNotShare
  NothingOutlivesClose
  CloseLeavesNoStream
CHECK_DEADLOCK FALSE
