SPECIFICATION MCSpec
CONSTANTS
  MaxOffset = 7
  Sizes = {0, 2, 3}
  Reads <- MCReads
  MaxReads = 3
  One = 4
  ByteBits = 3
  NaN = NaN
  WordBytes = 2
  MantissaBits = 3
  NameOf <- MCNameOf
  Adds <- MCAdds
  Requests <- MCRequests
  Tiles <- MCTiles
  Segments <- MCFittingSegments
  FloatValues <- MCFloatValues
  MaxCoord = 7
  Windows <- MCWindows
  Grains <- MCGrains
INVARIANTS
  IntersectIsExact
  OverviewWindowIsTight
  RoundTripOnlyWidens
  SubdivisionTilesTheWindow
  OverviewFactorIsRecovered
  RecordedRangesAgree
  SourcesAgreeOnWhatSucceeds
  KeysTellRequestsApart
  PredictorsUndoDifferencing
  ConversionIsExactWhenSaid
CHECK_DEADLOCK FALSE
