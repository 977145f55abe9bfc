\* Three commands of two bytes, each with a reply, through queues of two and one
\* buffers; the read buffer starts with room for one byte.
SPECIFICATION StreamFairSpec
CONSTANTS
  CommandBytes = 6
  ChunkSizes = {1, 2, 4}
  InCapacity = 2
  OutCapacity = 1
  BufSize = 1
  CommandSize = 2
  ReplySize = 2
PROPERTIES CommandsDecoded RenderThreadEnds
INVARIANTS CommandsIntact RepliesIntact
CHECK_DEADLOCK FALSE
