SPECIFICATION Spec
CONSTANTS
  MaxCoord = 65535
  MaxBatch = 8
  SampleSize = 8
  LibTiffBuilds = {FALSE}
  NoQuestion = NoQuestion
  Files <- MCPredictorFiles
  Questions <- MCPredictorQuestions
INVARIANTS
  BudgetIsNeverExceeded
