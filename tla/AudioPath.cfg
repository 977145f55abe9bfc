SPECIFICATION AudioFairSpec
CONSTANTS
  MaxConns = 2
  MaxBytes = 4
  WriteSizes = {2, 4}
  SocketSize = 2
  QueueSize = 2
  Wanted = 2
  MaxDeaths = 1
INVARIANTS
  SoundIntact
  HarmOnlyByDeath
PROPERTIES
  CallReturns
  PlayedToTheEnd
CHECK_DEADLOCK FALSE
