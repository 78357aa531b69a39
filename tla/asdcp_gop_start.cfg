\* Where FindFrameGOPStart leads in a fault-free MPEG2 file of up to 5 frames.
CONSTANTS
  Kinds <- MC_Pictures
  HeaderLen = 4
  PackLen = 2
  PackLost = 1
  EntriesPerSegment = 2
  FrameLens = {2, 3}
  UnitLen = 3
  StreamLen = 2
  DescriptorDuration = 2
  KeyModulus = 4
  MaxCalls = 5
  MaxStreams = 2
  MaxFaults = 0
SPECIFICATION Spec
INVARIANT
  GOPStartFound
CHECK_DEADLOCK FALSE
