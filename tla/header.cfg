SPECIFICATION Spec
CONSTANTS
  Confs <- AllConfs
  MaxFrames = 2
  MaxTexts = 2
  Reuse = FALSE
INVARIANTS
  TypeOK
  RoundTrip
  TagsUnique
  DurationsAgree
  TrackIDsDistinct
  ReferencesResolve
  EssenceLinked
  InfoOfOpenFile
