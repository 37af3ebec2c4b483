------------------------- MODULE AutonomousScheduler -------------------------
(***************************************************************************)
(* AutonomousScheduler.step (autonomous_scheduler.py): one observation, at  *)
(* most one decision cycle, and the safety limits around them.              *)
(*                                                                          *)
(* The game runs on its own clock and may load another save or map between  *)
(* two observations and during a decision. The observer's TriggerEvaluator  *)
(* is reduced to its memory: it emits any problem it does not remember,     *)
(* because which transitions the colony goes through is data. Progress,     *)
(* which compares two game states, is a free choice for the same reason.    *)
(*                                                                          *)
(* A problem is a trigger fingerprint. step runs as phases that follow its  *)
(* methods; the game's clock is read by an observation and moves only       *)
(* between steps and during a decision cycle, where it can be observed.     *)
(***************************************************************************)
EXTENDS Integers, Sequences

CONSTANTS
    Problems, NoProblem,    \* trigger fingerprints; should_trigger = False
    Urgent,                 \* problems of priority "urgent"
    Recoverable,            \* problems whose kind is in RECOVERABLE_KINDS
    Idleness,               \* problems of kind productive_idleness
    Scopes, NoScope,        \* (colony lineage, map) pairs; none accepted yet
    CooldownTicks, MaxDecisions, MaxImmediateFollowups, MaxProblemAttempts,
    MaxConsecutiveFailures, MaxConsecutiveUncertain, MaxSessionSpend,
    MaxSessionModelRequests, GraceTicks, UrgentGraceTicks, AllowUnpriced,
    MaxRequestsPerCycle,    \* AgentController.max_model_requests_per_cycle
    MaxFingerprints,        \* TriggerEvaluator.max_fingerprints
    IdlePersistenceTicks,
    CycleCosts,             \* costs one cycle can have (0 - 1: not calculable)
    MaxTick, MaxLoads       \* bounds: the game's clock, loaded saves

Limits == <<CooldownTicks, MaxDecisions, MaxImmediateFollowups, MaxProblemAttempts,
            MaxConsecutiveFailures, MaxConsecutiveUncertain, MaxSessionSpend,
            MaxSessionModelRequests, GraceTicks, UrgentGraceTicks,
            MaxRequestsPerCycle, MaxFingerprints, IdlePersistenceTicks>>
Unpriced == -1

ASSUME SchedulerAssumption ==
    /\ NoProblem \notin Problems /\ NoScope \notin Scopes
    /\ Urgent \subseteq Problems /\ Recoverable \subseteq Problems /\ Idleness \subseteq Problems
    /\ \A i \in 1..13 : Limits[i] \in Nat \ {0}
    /\ AllowUnpriced \in BOOLEAN
    /\ CycleCosts \subseteq Nat \cup {Unpriced}
    /\ MaxTick \in Nat /\ MaxLoads \in Nat

VARIABLES
    tick, scope, loads,               \* the game: clock, colony and map
    lastSeen, fingerprints, idleSince,\* the observer: last state, evaluator memory
    pc, observed, selected, immediate,\* step: its phase and local variables
    outcome, postTrigger,             \* step: the decision's result and observation
    halted, haltReason, pauses,
    decisions, modelRequests, cost, costCalculable,
    failures, uncertains, followups,  \* the consecutive_... counters
    lastDecisionTick, lastHandled, attempts, pending, recovery, verification,
    observationScope,
    endedAt                           \* history: when the last decision of the scope ended

gameVars == <<tick, scope, loads>>
observerVars == <<lastSeen, fingerprints, idleSince>>
localVars == <<observed, selected, immediate, outcome, postTrigger>>
haltVars == <<halted, haltReason, pauses>>
spentVars == <<decisions, modelRequests, cost, costCalculable>>
streakVars == <<failures, uncertains>>
memoryVars == <<lastDecisionTick, lastHandled, attempts, pending, recovery, verification,
                observationScope, endedAt>>
vars == <<gameVars, observerVars, pc, localVars, haltVars, spentVars, streakVars, followups,
          memoryVars>>

-----------------------------------------------------------------------------
(* Types *)

None == 0                                   \* no tick: ticks start at 1
Triggers == [problem : Problems, at : Nat]
NoTrigger == [problem |-> NoProblem, at |-> None]
MaybeTriggers == [problem : Problems \cup {NoProblem}, at : Nat]
Outcomes == [success : BOOLEAN, uncertain : BOOLEAN, cost : CycleCosts, progress : BOOLEAN]
NoOutcome == [success |-> FALSE, uncertain |-> FALSE, cost |-> Unpriced, progress |-> FALSE]
Verifications == [problem : Problems \cup {NoProblem}, at : Nat, attempt : Nat, started : Nat]
NoVerification == [problem |-> NoProblem, at |-> None, attempt |-> 0, started |-> None]
Reasons == {"none", "session_decision_limit", "session_model_request_limit",
            "immediate_followup_limit", "repeated_no_progress", "repeated_uncertain_commands",
            "session_spend_limit", "session_cost_unavailable", "repeated_failed_outcomes"}

SchedulerTypeOK ==
    /\ tick \in Nat /\ scope \in Scopes /\ loads \in Nat
    /\ lastSeen \in [scope : Scopes \cup {NoScope}, tick : Nat]
    /\ fingerprints \in Seq(Problems) /\ idleSince \in Nat
    /\ pc \in {"observe", "verify", "select", "admit", "decide", "settle"}
    /\ observed \in MaybeTriggers /\ selected \in MaybeTriggers
    /\ postTrigger \in MaybeTriggers /\ pending \in MaybeTriggers /\ recovery \in MaybeTriggers
    /\ immediate \in BOOLEAN /\ outcome \in Outcomes \cup {NoOutcome}
    /\ halted \in BOOLEAN /\ haltReason \in Reasons /\ pauses \in Nat
    /\ decisions \in Nat /\ modelRequests \in Nat /\ cost \in Nat /\ costCalculable \in BOOLEAN
    /\ failures \in Nat /\ uncertains \in Nat /\ followups \in Nat
    /\ lastDecisionTick \in Nat /\ lastHandled \in Problems \cup {NoProblem}
    /\ attempts \in [Problems -> Nat]
    /\ verification \in Verifications
    /\ observationScope \in Scopes \cup {NoScope} /\ endedAt \in Nat

SchedulerInit ==
    /\ tick = 1 /\ scope \in Scopes /\ loads = 0
    /\ lastSeen = [scope |-> NoScope, tick |-> None]
    /\ fingerprints = <<>> /\ idleSince = None
    /\ pc = "observe" /\ observed = NoTrigger /\ selected = NoTrigger /\ immediate = FALSE
    /\ outcome = NoOutcome /\ postTrigger = NoTrigger
    /\ halted = FALSE /\ haltReason = "none" /\ pauses = 0
    /\ decisions = 0 /\ modelRequests = 0 /\ cost = 0
    /\ costCalculable \in {TRUE, ~AllowUnpriced}
    /\ failures = 0 /\ uncertains = 0 /\ followups = 0
    /\ lastDecisionTick = None /\ lastHandled = NoProblem
    /\ attempts = [p \in Problems |-> 0]
    /\ pending = NoTrigger /\ recovery = NoTrigger /\ verification = NoVerification
    /\ observationScope = NoScope /\ endedAt = None

-----------------------------------------------------------------------------
(* The game *)

Observable == pc \in {"observe", "decide"} /\ ~halted

Play ==
    /\ Observable
    /\ tick < MaxTick
    /\ tick' = tick + 1
    /\ UNCHANGED <<scope, loads, observerVars, pc, localVars, haltVars, spentVars, streakVars,
                   followups, memoryVars>>

(* A save is loaded, or the player looks at another map.                    *)
LoadGame ==
    /\ Observable
    /\ loads < MaxLoads
    /\ loads' = loads + 1
    /\ scope' \in Scopes
    /\ tick' \in 1..tick
    /\ UNCHANGED <<observerVars, pc, localVars, haltVars, spentVars, streakVars, followups,
                   memoryVars>>

-----------------------------------------------------------------------------
(* StateObserver.observe_once and the memory of TriggerEvaluator *)

Present(trigger) == trigger.problem # NoProblem
IsUrgent(trigger) == trigger.problem \in Urgent
At(problem) == [problem |-> problem, at |-> tick]

Remember(problem) ==
    IF Len(fingerprints) >= MaxFingerprints THEN Append(Tail(fingerprints), problem)
    ELSE Append(fingerprints, problem)

(* compatible_observation_stream; nothing seen yet is not compatible.       *)
Compatible == lastSeen.scope = scope /\ tick >= lastSeen.tick

Emittable(problem) ==
    /\ Compatible
    /\ \A i \in 1..Len(fingerprints) : fingerprints[i] # problem
    /\ problem \in Idleness => tick - idleSince >= IdlePersistenceTicks

(* The memory after an observation that emitted problem (or nothing).       *)
Observed(problem) ==
    /\ problem = NoProblem \/ (problem \in Problems /\ Emittable(problem))
    /\ lastSeen' = [scope |-> scope, tick |-> tick]
    /\ fingerprints' = IF ~Compatible THEN <<>>
                       ELSE IF problem = NoProblem THEN fingerprints ELSE Remember(problem)
    /\ idleSince' = IF Compatible THEN idleSince ELSE tick

-----------------------------------------------------------------------------
(* step *)

(* Mutant: the scheduler stops but leaves the game running.                 *)
MutHalt(reason) ==
    /\ halted' = TRUE /\ haltReason' = reason
    /\ UNCHANGED pauses

Halt(reason) ==
    /\ halted' = TRUE /\ haltReason' = reason
    /\ pauses' = pauses + 1                     \* send_command_and_wait: setSpeed 0

(* step returns; its local variables are gone.                              *)
Return ==
    /\ pc' = "observe"
    /\ observed' = NoTrigger /\ selected' = NoTrigger /\ immediate' = FALSE
    /\ outcome' = NoOutcome /\ postTrigger' = NoTrigger

(* observe_once, _accept_observation_scope, and urgent evidence that goes   *)
(* ahead of everything else.                                                *)
ScopeChanged == observationScope \notin {NoScope, scope}

Observe ==
    /\ pc = "observe" /\ ~halted
    /\ \E problem \in Problems \cup {NoProblem} :
         /\ Observed(problem)
         /\ observed' = At(problem)
         /\ IF problem \in Urgent /\ (ScopeChanged \/ problem # lastHandled)
            THEN pc' = "admit" /\ selected' = At(problem)
            ELSE pc' = "verify" /\ selected' = NoTrigger
    /\ observationScope' = scope
    /\ IF ScopeChanged
       THEN /\ attempts' = [p \in Problems |-> 0]
            /\ pending' = NoTrigger /\ recovery' = NoTrigger /\ verification' = NoVerification
            /\ lastHandled' = NoProblem /\ lastDecisionTick' = None /\ endedAt' = None
            /\ followups' = 0
       ELSE UNCHANGED <<attempts, pending, recovery, verification, lastHandled,
                        lastDecisionTick, endedAt, followups>>
    /\ UNCHANGED <<gameVars, immediate, outcome, postTrigger, haltVars, spentVars, streakVars>>

(* _advance_verification *)

(* Mutant: any pending trigger, not only an urgent one, ends the waiting.   *)
MutVerifying == Present(verification) /\ ~Present(pending)

Verifying == Present(verification) /\ ~IsUrgent(pending)
Grace(problem) == IF problem \in Urgent THEN UrgentGraceTicks ELSE GraceTicks
GraceOver == observed.at - verification.started >= Grace(verification.problem)

(* Mutant: a trigger seen in passing takes the slot of one that waits.      *)
MutRetained(trigger, handled) ==
    IF Present(trigger) /\ trigger.problem # handled.problem THEN trigger ELSE pending

(* A trigger seen in passing is kept if the one slot is free.               *)
Retained(trigger, handled) ==
    IF Present(trigger) /\ trigger.problem # handled.problem /\ ~Present(pending)
    THEN trigger ELSE pending

NothingToVerify ==
    /\ pc = "verify" /\ ~Verifying
    /\ pc' = "select"
    /\ UNCHANGED <<gameVars, observerVars, localVars, haltVars, spentVars, streakVars,
                   followups, memoryVars>>

VerificationResolved ==
    /\ pc = "verify" /\ Verifying
    /\ verification' = NoVerification
    /\ attempts' = [attempts EXCEPT ![verification.problem] = 0]
    /\ followups' = 0
    /\ pending' = Retained(observed, verification)
    /\ Return
    /\ UNCHANGED <<gameVars, observerVars, haltVars, spentVars, streakVars, lastDecisionTick,
                   lastHandled, recovery, observationScope, endedAt>>

(* Mutant: every poll during the grace period starts it anew.               *)
MutVerificationWait ==
    /\ pc = "verify" /\ Verifying /\ ~GraceOver
    /\ verification' = [verification EXCEPT !.started = observed.at]
    /\ pending' = Retained(observed, verification)
    /\ Return
    /\ UNCHANGED <<gameVars, observerVars, haltVars, spentVars, streakVars, followups,
                   lastDecisionTick, lastHandled, attempts, recovery, observationScope,
                   endedAt>>

(* A clock that stands still or went back keeps the grace period open.      *)
VerificationWait ==
    /\ pc = "verify" /\ Verifying /\ ~GraceOver
    /\ pending' = Retained(observed, verification)
    /\ Return
    /\ UNCHANGED <<gameVars, observerVars, haltVars, spentVars, streakVars, followups,
                   lastDecisionTick, lastHandled, attempts, recovery, verification,
                   observationScope, endedAt>>

RepeatedNoProgress ==
    /\ pc = "verify" /\ Verifying /\ GraceOver
    /\ verification.attempt >= MaxProblemAttempts
    /\ verification' = NoVerification
    /\ Halt("repeated_no_progress")
    /\ Return
    /\ UNCHANGED <<gameVars, observerVars, spentVars, streakVars, followups, lastDecisionTick,
                   lastHandled, attempts, pending, recovery, observationScope, endedAt>>

RequestRecovery ==
    /\ pc = "verify" /\ Verifying /\ GraceOver
    /\ verification.attempt < MaxProblemAttempts
    /\ verification' = NoVerification
    /\ recovery' = [problem |-> verification.problem, at |-> verification.at]
    /\ pc' = "select"
    /\ UNCHANGED <<gameVars, observerVars, localVars, haltVars, spentVars, streakVars,
                   followups, lastDecisionTick, lastHandled, attempts, pending,
                   observationScope, endedAt>>

(* _select_trigger; its first test repeats the one step has just made.      *)

Select(trigger, followup) ==
    /\ pc = "select"
    /\ selected' = trigger /\ immediate' = followup
    /\ pc' = "admit"
    /\ UNCHANGED <<gameVars, observerVars, observed, outcome, postTrigger, haltVars, spentVars,
                   streakVars, followups, lastDecisionTick, lastHandled, attempts,
                   verification, observationScope, endedAt>>

SelectRecovery ==
    /\ Present(recovery) /\ ~IsUrgent(pending)
    /\ recovery' = NoTrigger
    /\ Select(recovery, TRUE)
    /\ UNCHANGED pending

SelectPending ==
    /\ IsUrgent(pending) \/ (Present(pending) /\ ~Present(recovery))
    /\ pending' = NoTrigger
    /\ Select(pending, FALSE)
    /\ UNCHANGED recovery

NewlyObserved == Present(observed) /\ observed.problem # lastHandled

SelectObserved ==
    /\ ~Present(pending) /\ ~Present(recovery) /\ NewlyObserved
    /\ Select(observed, FALSE)
    /\ UNCHANGED <<pending, recovery>>

NothingSelected ==
    /\ pc = "select"
    /\ ~Present(pending) /\ ~Present(recovery) /\ ~NewlyObserved
    /\ Return
    /\ UNCHANGED <<gameVars, observerVars, haltVars, spentVars, streakVars, followups,
                   memoryVars>>

-----------------------------------------------------------------------------
(* The limits before a decision *)

AdmissionLimit ==
    IF decisions >= MaxDecisions THEN "session_decision_limit"
    ELSE IF modelRequests >= MaxSessionModelRequests THEN "session_model_request_limit"
    ELSE IF immediate /\ followups >= MaxImmediateFollowups THEN "immediate_followup_limit"
    ELSE "none"

(* Mutant: no cooldown in the very tick a decision ended.                   *)
MutCooldownActive ==
    /\ ~immediate /\ ~IsUrgent(selected)
    /\ lastDecisionTick # None
    /\ observed.at > lastDecisionTick
    /\ observed.at - lastDecisionTick < CooldownTicks

CooldownActive ==
    /\ ~immediate /\ ~IsUrgent(selected)
    /\ lastDecisionTick # None
    /\ observed.at >= lastDecisionTick
    /\ observed.at - lastDecisionTick < CooldownTicks

RefuseDecision ==
    /\ pc = "admit" /\ AdmissionLimit # "none"
    /\ Halt(AdmissionLimit)
    /\ Return
    /\ UNCHANGED <<gameVars, observerVars, spentVars, streakVars, followups, memoryVars>>

(* The trigger goes back to the one pending slot, whatever that holds.      *)
WaitForCooldown ==
    /\ pc = "admit" /\ AdmissionLimit = "none" /\ CooldownActive
    /\ followups' = 0
    /\ pending' = selected
    /\ Return
    /\ UNCHANGED <<gameVars, observerVars, haltVars, spentVars, streakVars, lastDecisionTick,
                   lastHandled, attempts, recovery, verification, observationScope, endedAt>>

BeginDecision ==
    /\ pc = "admit" /\ AdmissionLimit = "none" /\ ~CooldownActive
    /\ followups' = IF immediate THEN followups + 1 ELSE 0
    /\ pc' = "decide"
    /\ UNCHANGED <<gameVars, observerVars, localVars, haltVars, spentVars, streakVars,
                   memoryVars>>

-----------------------------------------------------------------------------
(* run_once under _run_decision's request cap, then the second observation  *)

(* Mutant: the cycle's own cap ignores what is left of the session.         *)
MutRequestCap == MaxRequestsPerCycle

RequestCap == LET remaining == MaxSessionModelRequests - modelRequests IN
              IF remaining < MaxRequestsPerCycle THEN remaining ELSE MaxRequestsPerCycle

(* final_ticks_game: a successful cycle ends on a state it read; a failed   *)
(* one has the state it began with or none.                                 *)
FinalTicks(success) == IF success THEN {tick} ELSE {None, observed.at, tick}

(* _record_cost *)
Charged(c) == IF c = Unpriced THEN cost ELSE cost + c

EndDecision ==
    /\ pc = "decide"
    /\ \E o \in Outcomes, requests \in 0..RequestCap :
         /\ o.success => ~o.uncertain
         /\ \E final \in FinalTicks(o.success) :
              lastDecisionTick' = IF final # None THEN final ELSE selected.at
         /\ \/ \E problem \in Problems \cup {NoProblem} :
                 Observed(problem) /\ postTrigger' = At(problem)
            \/ /\ ~o.progress                   \* no second state to compare with
               /\ postTrigger' = NoTrigger
               /\ UNCHANGED observerVars
         /\ outcome' = o
         /\ modelRequests' = modelRequests + requests
         /\ cost' = Charged(o.cost)
         /\ costCalculable' = (costCalculable /\ o.cost # Unpriced)
    /\ decisions' = decisions + 1
    /\ lastHandled' = selected.problem
    /\ endedAt' = tick
    /\ pc' = "settle"
    /\ UNCHANGED <<gameVars, observed, selected, immediate, haltVars, streakVars, followups,
                   attempts, pending, recovery, verification, observationScope>>

-----------------------------------------------------------------------------
(* _process_outcome, then the trigger of the second observation is kept     *)

Uncertains == IF outcome.uncertain THEN uncertains + 1 ELSE 0

(* Mutant: the limit itself may still be spent again.                       *)
MutSpendLimitReached == costCalculable /\ cost > MaxSessionSpend

SpendLimitReached == costCalculable /\ cost >= MaxSessionSpend

OutcomeLimit ==
    IF Uncertains >= MaxConsecutiveUncertain THEN "repeated_uncertain_commands"
    ELSE IF SpendLimitReached THEN "session_spend_limit"
    ELSE IF outcome.cost = Unpriced /\ ~AllowUnpriced THEN "session_cost_unavailable"
    ELSE IF modelRequests >= MaxSessionModelRequests THEN "session_model_request_limit"
    ELSE IF decisions >= MaxDecisions THEN "session_decision_limit"
    ELSE IF ~outcome.success /\ failures + 1 >= MaxConsecutiveFailures
         THEN "repeated_failed_outcomes"
    ELSE "none"

(* deque.remove; a fingerprint is remembered once.                          *)
Forgotten(problem) ==
    LET places == {i \in 1..Len(fingerprints) : fingerprints[i] = problem}
        place == CHOOSE i \in places : TRUE
    IN IF places = {} THEN fingerprints
       ELSE SubSeq(fingerprints, 1, place - 1)
              \o SubSeq(fingerprints, place + 1, Len(fingerprints))

(* observer.acknowledge_trigger: an idleness problem may be emitted again.  *)
Acknowledge ==
    IF selected.problem \in Idleness
    THEN /\ fingerprints' = Forgotten(selected.problem)
         /\ idleSince' = lastSeen.tick
         /\ UNCHANGED lastSeen
    ELSE UNCHANGED observerVars

OutcomeHalts ==
    /\ pc = "settle" /\ OutcomeLimit # "none"
    /\ Halt(OutcomeLimit)
    /\ uncertains' = Uncertains
    /\ failures' = IF OutcomeLimit = "repeated_failed_outcomes" THEN failures + 1 ELSE failures
    /\ Return
    /\ UNCHANGED <<gameVars, observerVars, spentVars, followups, memoryVars>>

DecisionFailed ==
    /\ pc = "settle" /\ OutcomeLimit = "none" /\ ~outcome.success
    /\ uncertains' = Uncertains /\ failures' = failures + 1
    /\ recovery' = selected
    /\ pending' = Retained(postTrigger, selected)
    /\ Return
    /\ UNCHANGED <<gameVars, observerVars, haltVars, spentVars, followups, lastDecisionTick,
                   lastHandled, attempts, verification, observationScope, endedAt>>

Decided ==
    /\ pc = "settle" /\ OutcomeLimit = "none" /\ outcome.success
    /\ selected.problem \notin Recoverable \/ outcome.progress
    /\ uncertains' = Uncertains /\ failures' = 0
    /\ Acknowledge
    /\ attempts' = [attempts EXCEPT ![selected.problem] = 0]
    /\ followups' = 0
    /\ pending' = Retained(postTrigger, selected)
    /\ Return
    /\ UNCHANGED <<gameVars, haltVars, spentVars, lastDecisionTick, lastHandled, recovery,
                   verification, observationScope, endedAt>>

AwaitProgress ==
    /\ pc = "settle" /\ OutcomeLimit = "none" /\ outcome.success
    /\ selected.problem \in Recoverable /\ ~outcome.progress
    /\ uncertains' = Uncertains /\ failures' = 0
    /\ Acknowledge
    /\ LET attempt == attempts[selected.problem] + 1 IN
         /\ attempts' = [attempts EXCEPT ![selected.problem] = attempt]
         /\ verification' = [problem |-> selected.problem, at |-> selected.at,
                             attempt |-> attempt, started |-> lastSeen.tick]
    /\ pending' = Retained(postTrigger, selected)
    /\ Return
    /\ UNCHANGED <<gameVars, haltVars, spentVars, followups, lastDecisionTick, lastHandled,
                   recovery, observationScope, endedAt>>

-----------------------------------------------------------------------------

Step ==
    \/ Observe
    \/ NothingToVerify \/ VerificationResolved \/ VerificationWait
    \/ RepeatedNoProgress \/ RequestRecovery
    \/ SelectRecovery \/ SelectPending \/ SelectObserved \/ NothingSelected
    \/ RefuseDecision \/ WaitForCooldown \/ BeginDecision
    \/ EndDecision
    \/ OutcomeHalts \/ DecisionFailed \/ Decided \/ AwaitProgress

SchedulerNext == Step \/ Play \/ LoadGame

SchedulerSpec == SchedulerInit /\ [][SchedulerNext]_vars

(* autonomous.py calls step until it halts. The game is not left paused for *)
(* ever; its clock does not wait for the phases of a step to pass.          *)
FairSchedulerSpec == SchedulerSpec /\ WF_vars(Step) /\ SF_vars(Play)

-----------------------------------------------------------------------------
(* Properties *)

(* The session's budgets hold whatever a decision costs and however         *)
(* observations, failures, recoveries and reloaded saves alternate.         *)
WithinLimits ==
    /\ decisions <= MaxDecisions
    /\ modelRequests <= MaxSessionModelRequests
    /\ followups <= MaxImmediateFollowups
    /\ failures <= MaxConsecutiveFailures
    /\ uncertains <= MaxConsecutiveUncertain

(* "A conclusive safety halt issues one pause command", and its reason is   *)
(* the limit that was reached. A halt for want of progress has behind it at *)
(* least as many decisions as the problem was allowed attempts; not that    *)
(* its count of attempts still stands there, which a later success on the   *)
(* same problem takes back while the older verification stays open.         *)
HaltIsConclusive ==
    /\ pauses = IF halted THEN 1 ELSE 0
    /\ halted <=> haltReason # "none"
    /\ haltReason = "session_decision_limit" => decisions = MaxDecisions
    /\ haltReason = "session_model_request_limit" => modelRequests = MaxSessionModelRequests
    /\ haltReason = "immediate_followup_limit" => followups = MaxImmediateFollowups
    /\ haltReason = "repeated_failed_outcomes" => failures = MaxConsecutiveFailures
    /\ haltReason = "repeated_uncertain_commands" => uncertains = MaxConsecutiveUncertain
    /\ haltReason = "repeated_no_progress" => decisions >= MaxProblemAttempts
    /\ haltReason = "session_spend_limit" => cost >= MaxSessionSpend
    /\ haltReason = "session_cost_unavailable" => ~AllowUnpriced /\ ~costCalculable

(* No decision begins with the calculable session spend at its limit.       *)
SpendGuard == pc = "decide" /\ costCalculable => cost < MaxSessionSpend

(* A grace period is observation only: while one is open no decision for a  *)
(* normal problem runs, whatever was pending or due for recovery.           *)
ObservationOnlyGrace == pc = "decide" /\ ~IsUrgent(selected) => ~Present(verification)

(* "Normal triggers observe a game-time cooldown": it counts from the real  *)
(* end of the last decision, also when that decision could not read the     *)
(* state and its recorded tick is an old one. Recoveries are exempt.        *)
CooldownRespected ==
    pc = "decide" /\ ~immediate /\ ~IsUrgent(selected) /\ endedAt # None
    /\ observed.at >= endedAt
      => observed.at - endedAt >= CooldownTicks

(* A pending trigger leaves its slot only to be selected, or because the    *)
(* colony or map changed; no other trigger ever takes its place.            *)
PendingIsNotLost ==
    [][Present(pending) /\ pending' # pending => selected' = pending \/ ScopeChanged]_vars

(* An open verification ends once the clock has room to pass its grace      *)
(* period: resolved, retried, replaced by that of an urgent decision, or    *)
(* the scheduler has halted.                                                *)
VerificationEnds ==
    \A p \in Problems :
        verification.problem = p /\ verification.started + Grace(p) <= MaxTick
          ~> verification.problem # p \/ halted

(* "urgent new evidence may bypass it": new urgent evidence that arrives    *)
(* with a decision's second observation is kept for the next step.          *)
UrgentEvidenceIsKept ==
    [][pc = "settle" /\ ~halted' /\ IsUrgent(postTrigger)
       /\ postTrigger.problem # selected.problem => IsUrgent(pending')]_vars
=============================================================================
