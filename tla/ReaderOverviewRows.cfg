SPECIFICATION Spec
CONSTANTS
  MaxCoord = 65535
  MaxBatch = 8
  SampleSize = 8
  LibTiffBuilds = {TRUE, FALSE}
  NoQuestion = NoQuestion
  Files <- MCQuarterFiles
  Questions <- MCQuarterQuestions
INVARIANTS
  EverySampleIsRead
