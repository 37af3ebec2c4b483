SPECIFICATION FairSchedulerSpec
CONSTANTS
  Problems = {threat, fire, idle}
  NoProblem = NoProblem
  Urgent = {threat, fire}
  Recoverable = {threat, fire, idle}
  Idleness = {idle}
  Scopes = {home}
  NoScope = NoScope
  CooldownTicks = 2
  MaxDecisions = 3
  MaxImmediateFollowups = 1
  MaxProblemAttempts = 2
  MaxConsecutiveFailures = 2
  MaxConsecutiveUncertain = 2
  MaxSessionSpend = 2
  MaxSessionModelRequests = 2
  GraceTicks = 2
  UrgentGraceTicks = 1
  AllowUnpriced = FALSE
  MaxRequestsPerCycle = 1
  MaxFingerprints = 3
  IdlePersistenceTicks = 2
  CycleCosts <- NoCost
  MaxTick = 5
  MaxLoads = 0
CHECK_DEADLOCK FALSE
PROPERTY UrgentEvidenceIsKept
