\* Every fault-free history of one file: 6 frames, up to two generic-stream partitions.
CONSTANTS
  Kinds <- MC_AllKinds
  PartitionSpace = 2
  EntriesPerSegment = 2
  HeaderLen = 4
  PackLen = 2
  PackLost = 1
  IndexLen = 3
  StreamLen = 1
  FrameLens = {2, 3}
  MetaLen = 1
  MaxCalls = 6
  MaxStreams = 2
  MaxFaults = 0
SPECIFICATION Spec
INVARIANTS
  WritePosition
  IndexLocatesFrames
  PartitionChain
  StreamsFound
PROPERTY
  ReadsBack
CHECK_DEADLOCK FALSE
