SPECIFICATION FairSpec
CONSTANTS
  Ids = {c1}
  Waiters = {}
  Reads = {}
  MaxTrackedCommands = 1
  MaxCommandsPerFrame = 2
  MaxReadRequestsPerFrame = 1
  BuildOutcomes = {TRUE, FALSE}
  MaxVersion = 1
  MaxBatch = 2
  MaxCycles = 5
PROPERTY UncertainIsReconciled
