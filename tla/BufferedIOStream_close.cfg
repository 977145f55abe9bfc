\* One command; the connection may end at any moment.
SPECIFICATION StreamFairSpec
CONSTANTS
  CommandBytes = 2
  ChunkSizes = {2}
  InCapacity = 1
  OutCapacity = 1
  BufSize = 2
  CommandSize = 2
  ReplySize = 1
PROPERTY CloseWakesWaiters
CHECK_DEADLOCK FALSE
