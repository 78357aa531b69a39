SPECIFICATION Spec
CONSTANTS
  MaxNames = 3
  MaxOptions = 2
  MaxFrames = 3
  MaxExtras = 2
  MaxLength = 2
  MaxItems = 2
  Words = 8
  PackLen = 2
  PackLost = 0
  EntriesPerSegment = 2
  \* Buffers of a sample and a half, of a part of a frame, and of a frame and a half
  SampleLen = 2
  FrameLen = 4
  BlockLens = {2, 3, 6}
  MaxBlocks = 3
  MaxTexts = 2
  MaxFaults = 2
  Threads = {t1, t2}
  Objects = {"md", "md02"}
  MaxRequests = 2
  IOVecMaxEntries = 4
  MaxPackets = 3
  MaxOpens = 2
  MaxSize = 3
  Names = {"a", "b"}
  Links <- LinkTargets
  Asked <- AskedPaths
  MaxLinks = 2
  MaxEvents = 1
  Units <- EditUnits
  KL = 2
  StrayLens = {0, 4, 5}
  MaxCalls = 4
INVARIANTS
  TypeOK
  WrapComplete
  UnwrapComplete
  
  ClipReadsBack
  MadeOnce
  WholeBlocksDiffer
  FilesHold
  TreesHold
  PairsMatch
PROPERTY
  RunsEnd
