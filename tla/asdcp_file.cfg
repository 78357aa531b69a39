\* Every history of one file of each class: 5 packets, 2 resources, one fault.
CONSTANTS
  Kinds <- MC_AllKinds
  HeaderLen = 4
  PackLen = 2
  PackLost = 1
  EntriesPerSegment = 2
  FrameLens = {2, 3}
  UnitLen = 3
  StreamLen = 2
  DescriptorDuration = 2
  KeyModulus = 4
  MaxCalls = 5
  MaxStreams = 2
  MaxFaults = 1
SPECIFICATION Spec
INVARIANTS
  TypeOK
  WritePosition
  IndexLocatesFrames
  EyesPaired
  AllOrNothing
  EarlierFramesSurvive
  ResourcesFound
  KeyOffsetsLead
PROPERTY
  ReadsBack
CHECK_DEADLOCK FALSE
