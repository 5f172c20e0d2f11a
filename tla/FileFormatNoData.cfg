SPECIFICATION Spec
CONSTANTS
  One = 4
  ByteBits = 2
  NaN = NaN
  Nothing = Nothing
  Infinity = 1000000
  Collapse = 1000
  MaxMeshIndex = 100
  VertexCeiling = 12
  Contents <- MCContents
  ArgumentSets <- MCArgumentSets
  FailingSets <- MCFailingSets
  ParseFailures = {"SourceUnavailable", "ShortRead"}
  PixelFailures = {"ShortRead", "MemoryBudgetExceeded", "UnsupportedCompression"}
INVARIANTS
  NoDataNeverShows
CHECK_DEADLOCK FALSE
