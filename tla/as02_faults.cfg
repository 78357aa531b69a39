\* One or two faults anywhere in a short history of one file.
CONSTANTS
  Kinds <- MC_AllKinds
  PartitionSpace = 2
  EntriesPerSegment = 2
  HeaderLen = 4
  PackLen = 2
  PackLost = 1
  IndexLen = 3
  StreamLen = 1
  FrameLens = {2}
  MetaLen = 1
  MaxCalls = 5
  MaxStreams = 1
  MaxFaults = 2
SPECIFICATION Spec
INVARIANTS
  TypeOK
  FinalizedResolves
  EarlierFramesSurvive
PROPERTY
  ReadsBack
CHECK_DEADLOCK FALSE
