\* One producer and one consumer, as in BufferedIOStream.
SPECIFICATION QueueFairSpec
CONSTANTS
  Producers = {p1}
  Consumers = {c1}
  Data = {d1, d2}
  NoData = NoData
  Capacity = 3
INVARIANT NoLostWakeup
PROPERTIES IsFifo BlockedCallsReturn
CHECK_DEADLOCK FALSE
