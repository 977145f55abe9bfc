SPECIFICATION Spec
CONSTANTS
  Sizes = {small, large}
  Torn = torn
  Mixed = mixed
  Buffers = {b1, b2, b3}
  NoBuffer = none
  MaxResizes = 2
INVARIANTS
  BuffersConsistent
  GrowthByResize
CHECK_DEADLOCK FALSE
SYMMETRY Symmetry
