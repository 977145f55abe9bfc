SPECIFICATION FairSpec
CONSTANTS
  Socks = {c1, c2}
  NumChannels = 3
  MaxLast = 5
  MaxWrites = 4
  MaxHost = 1
INVARIANTS
  ClientsConsistent
  HostAgrees
  NothingLost
  FreedUseKnown
PROPERTY Answered
CHECK_DEADLOCK FALSE
