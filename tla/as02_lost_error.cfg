\* An error of WriteFrame at a partition boundary is not returned.
CONSTANTS
  Kinds <- MC_Plain
  PartitionSpace = 2
  EntriesPerSegment = 2
  HeaderLen = 4
  PackLen = 2
  PackLost = 1
  IndexLen = 3
  StreamLen = 1
  FrameLens = {2}
  MetaLen = 1
  MaxCalls = 5
  MaxStreams = 1
  MaxFaults = 1
SPECIFICATION Spec
INVARIANT
  WriteFrameReportsErrors
CHECK_DEADLOCK FALSE
