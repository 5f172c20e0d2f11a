SPECIFICATION Spec
CONSTANTS
  MaxCoord = 65535
  MaxMetadata = 300
  MaxSamples = 3
  MaxLevels = 3
  LibTiffBuilds = {TRUE, FALSE}
  NoRequest = NoRequest
  Images <- MCImages
  Requests <- MCRequests
INVARIANTS
  TypeOK
  FailuresAreReported
  ChainIsBounded
  OnlyMetadataIsRead
  MetadataIsOfTheFirst
  LayoutIsSound
  LevelIsItsDirectory
  CoarsestLevelIsRead
  GeoreferenceIsExplained
PROPERTIES
  EveryParseEnds
