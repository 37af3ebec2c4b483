SPECIFICATION FairBridgeSpec
CONSTANTS
  Ids = {c1, c2}
  Waiters = {w1}
  Reads = {r1}
  MaxTrackedCommands = 1
  MaxCommandsPerFrame = 1
  MaxReadRequestsPerFrame = 1
  BuildOutcomes = {TRUE, FALSE}
  MaxVersion = 2
INVARIANTS LedgerConsistent AtMostOnce CompletedIsVisible NoLostWakeup
PROPERTIES ImplementsService OnlyFailuresAreStale AcceptedCompletes ReadsDrain
