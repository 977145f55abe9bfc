\* Two threads, three calls of two methods, two connections of the guest.
SPECIFICATION FairSpec
CONSTANTS
  Callers = {c1, c2}
  Methods = {m1, m2}
  MaxCalls = 3
  MaxLinks = 2
ACTION_CONSTRAINT FirstIsFixed
INVARIANTS CallsAccounted NoDanglingRequest OwnAnswer ReaderLives
PROPERTY CallsAnswered
CHECK_DEADLOCK FALSE
