\* Three frames with bodies of up to 2 bytes, through a buffer of 3 that may grow.
CONSTANTS
  Byte = {0, 1}
  Junk = 0
  InitialSize = 3
  MaxSize = 7
  MaxData = 2
  Width = 1
  MaxFrames = 3
SPECIFICATION FramingSpec
CHECK_DEADLOCK FALSE
INVARIANTS
  FramesInOrder
PROPERTIES
  FifoSpec
