\* A frame that is not found, because another call moved the file.
CONSTANTS
  Classes <- MC_Measured
  Frames <- MC_Frames
  Streams <- MC_Streams
  KL = 2
  PackLen = 3
  IndexEnd = 30
  StrayLens = {4}
  MaxCalls = 5
SPECIFICATION Spec
INVARIANT
  InRangeFrameIsRead
CHECK_DEADLOCK FALSE
