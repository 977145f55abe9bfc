\* The connection in use and the one that stands by.
SPECIFICATION AdbFairSpec
CONSTANTS
  Conn = {c1, c2}
  WorkerCount = 3
  Nobody = Nobody
INVARIANTS PortUnderLock ProxyHasHost
PROPERTIES HostLossEndsProxy StandingConnectionProceeds
CHECK_DEADLOCK FALSE
