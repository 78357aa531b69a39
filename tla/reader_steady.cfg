\* Every history of six calls of one reader, with any faults.
CONSTANTS
  Classes <- MC_AllClasses
  Frames <- MC_Frames
  Streams <- MC_Streams
  KL = 2
  PackLen = 3
  IndexEnd = 30
  StrayLens = {4}
  MaxCalls = 6
SPECIFICATION Spec
INVARIANTS
  TypeOK
  FrameFound
  NeverWrongFrame
CHECK_DEADLOCK FALSE
