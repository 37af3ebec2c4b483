SPECIFICATION FairSchedulerSpec
CONSTANTS
  Problems = {threat, idle}
  NoProblem = NoProblem
  Urgent = {threat}
  Recoverable = {threat, idle}
  Idleness = {idle}
  Scopes = {home}
  NoScope = NoScope
  CooldownTicks = 2
  MaxDecisions = 3
  MaxImmediateFollowups = 1
  MaxProblemAttempts = 2
  MaxConsecutiveFailures = 2
  MaxConsecutiveUncertain = 2
  MaxSessionSpend = 2
  MaxSessionModelRequests = 2
  GraceTicks = 2
  UrgentGraceTicks = 1
  AllowUnpriced = TRUE
  MaxRequestsPerCycle = 2
  MaxFingerprints = 2
  IdlePersistenceTicks = 1
  CycleCosts <- Costs
  MaxTick = 4
  MaxLoads = 0
CHECK_DEADLOCK FALSE
INVARIANTS WithinLimits HaltIsConclusive SpendGuard
PROPERTY VerificationEnds
