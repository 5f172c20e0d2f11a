SPECIFICATION Spec
CONSTANTS
  MaxCoord = 65535
  MaxBatch = 8
  SampleSize = 8
  LibTiffBuilds = {TRUE, FALSE}
  NoQuestion = NoQuestion
  Files <- MCFiles
  Questions <- MCQuestions
INVARIANTS
  TypeOK
  FailureIsClean
  SegmentIsInItsBatch
  BatchesAreBounded
  EachBatchIsReadOnce
  OnlyUsefulBytesAreRead
  StatisticsCountTheReads
  BudgetCoversTheRead
PROPERTIES
  ReaderKeepsItsPromise
  EveryReadEnds
