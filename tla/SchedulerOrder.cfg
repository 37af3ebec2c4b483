SPECIFICATION SchedulerSpec
CONSTANTS
  Problems = {threat, idle, review}
  NoProblem = NoProblem
  Urgent = {threat}
  Recoverable = {threat, idle}
  Idleness = {idle}
  Scopes = {home, away}
  NoScope = NoScope
  CooldownTicks = 2
  MaxDecisions = 3
  MaxImmediateFollowups = 2
  MaxProblemAttempts = 2
  MaxConsecutiveFailures = 3
  MaxConsecutiveUncertain = 1
  MaxSessionSpend = 2
  MaxSessionModelRequests = 3
  GraceTicks = 2
  UrgentGraceTicks = 1
  AllowUnpriced = FALSE
  MaxRequestsPerCycle = 1
  MaxFingerprints = 3
  IdlePersistenceTicks = 1
  CycleCosts <- NoCost
  MaxTick = 3
  MaxLoads = 1
CHECK_DEADLOCK FALSE
INVARIANTS ObservationOnlyGrace CooldownRespected
PROPERTY PendingIsNotLost
