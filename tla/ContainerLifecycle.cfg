SPECIFICATION FairSpec
CONSTANTS
  MaxSessions = 2
  MaxRestarts = 1
INVARIANT ContainerOwned
PROPERTIES
  GoneSessionStopped
  LostManagerEndsSession
CHECK_DEADLOCK FALSE
