\* The HMAC sequence numbers of a generic-stream payload differ.
CONSTANTS
  Kinds <- MC_Streams
  PartitionSpace = 2
  EntriesPerSegment = 2
  HeaderLen = 4
  PackLen = 2
  PackLost = 1
  IndexLen = 3
  StreamLen = 1
  FrameLens = {2}
  MetaLen = 1
  MaxCalls = 5
  MaxStreams = 1
  MaxFaults = 0
SPECIFICATION Spec
INVARIANT
  StreamSequence
CHECK_DEADLOCK FALSE
