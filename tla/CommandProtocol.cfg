SPECIFICATION Spec
CONSTANTS
  Ids = {c1, c2}
  Waiters = {}
  Reads = {}
  MaxTrackedCommands = 1
  MaxCommandsPerFrame = 2
  MaxReadRequestsPerFrame = 1
  BuildOutcomes = {TRUE, FALSE}
  MaxVersion = 1
  MaxBatch = 2
  MaxCycles = 0
INVARIANTS NothingForgotten ConfirmedRan
PROPERTIES BaselineIsSettled FreshStateShowsConfirmed
