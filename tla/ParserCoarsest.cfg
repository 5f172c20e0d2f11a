SPECIFICATION Spec
CONSTANTS
  MaxCoord = 65535
  MaxMetadata = 300
  MaxSamples = 3
  MaxLevels = 3
  LibTiffBuilds = {TRUE}
  NoRequest = NoRequest
  Images <- MCUnsortedFiles
  Requests <- MCRequests
INVARIANT
  CoarsestLevelIsAlwaysRead
