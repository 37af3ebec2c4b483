SPECIFICATION FairSpec
CONSTANTS
  MaxModelRequests = 6
  MaxCompactions = 1
  MaxToolCalls = 5
  MaxWrites = 2
  FailedCallLimit = 2
  ToolRounds <- MCToolRounds
  Estimates <- MCEstimates
  CompactThreshold = 2
  MaxInput = 4
  Headroom = 1
  BurstLimit = 5
  MaxBatch = 2
INVARIANTS
  FinalSlotIsFinish
  AnswersAreHandled
  CommitIsClean
PROPERTIES
  FinalizationIsSticky
  FittedIsSent
  CycleEnds
