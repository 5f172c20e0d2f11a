SPECIFICATION Spec
CONSTANTS
  MaxCoord = 65535
  MaxMetadata = 300
  MaxSamples = 3
  MaxLevels = 4
  LibTiffBuilds = {TRUE}
  NoRequest = NoRequest
  Images <- MCGapFiles
  Requests <- MCRequests
INVARIANT
  LevelIsAlwaysItsDirectory
