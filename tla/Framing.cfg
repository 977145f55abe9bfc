\* Four frames with bodies of 0, 1 or 5 bytes, in both protocols.
SPECIFICATION FramingSpec
CONSTANTS
  HeaderSize = 4
  Frames = 4
  Streams <- AllStreams
  SizeRange = 8
  ReadSizes = {1, 2, 3, 4, 5, 6, 9, 12}
INVARIANTS BrokenOnlyInsideHeader LeftBehindOnlyIfEqual
CHECK_DEADLOCK FALSE
