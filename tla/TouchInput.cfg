SPECIFICATION Spec
CONSTANTS
  Fingers = {0, 1}
  MaxFingers = 2
  MaxTrackingId = 10
  MaxClients = 2
  MaxInits = 2
INVARIANTS
  SlotsConsistent
  GuestSeesFingers
  ReplacedShowNone
CHECK_DEADLOCK FALSE
