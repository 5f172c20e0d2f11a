SPECIFICATION Spec
CONSTANTS
  MaxCoord = 65535
  MaxBatch = 8
  SampleSize = 8
  LibTiffBuilds = {TRUE}
  NoQuestion = NoQuestion
  Files <- MCCompressedFiles
  Questions <- MCCompressedQuestions
INVARIANTS
  ExplicitLevelIsRead
