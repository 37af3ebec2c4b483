--------------------------- MODULE SchedulerProofs ---------------------------
(***************************************************************************)
(* AutonomousScheduler for any problems, limits, costs and clock.           *)
(***************************************************************************)
EXTENDS AutonomousScheduler, TLAPS

(* A halted scheduler takes no step, what a step decides on is a problem,   *)
(* and no tick of the game is the absent one.                               *)
Shape ==
    /\ tick # None
    /\ halted => pc = "observe"
    /\ pc \in {"admit", "decide", "settle"} => Present(selected)

(* A scheduler that goes on has room under every limit; only between the    *)
(* end of a decision and its settlement may the budgets be spent.           *)
RoomLeft ==
    ~halted =>
        /\ pauses = 0 /\ haltReason = "none"
        /\ failures < MaxConsecutiveFailures
        /\ uncertains < MaxConsecutiveUncertain
        /\ pc # "settle" =>
             /\ decisions < MaxDecisions
             /\ modelRequests < MaxSessionModelRequests
             /\ costCalculable => cost < MaxSessionSpend

(* An attempt is a decision; the decision being settled is not yet counted. *)
AttemptsAreDecisions ==
    /\ \A p \in Problems :
         attempts[p] <= IF pc = "settle" THEN decisions - 1 ELSE decisions
    /\ verification.attempt <= decisions
    /\ pc = "settle" /\ outcome.cost = Unpriced => ~costCalculable

BudgetInv == WithinLimits /\ RoomLeft /\ AttemptsAreDecisions /\ HaltIsConclusive

(* An open verification lets only urgent problems through.                  *)
GraceInv ==
    /\ pc = "select" => ~Present(verification) \/ IsUrgent(pending)
    /\ pc \in {"admit", "decide"} => ~Present(verification) \/ IsUrgent(selected)

(* A normal problem is selected afresh only when nothing waits: the one     *)
(* pending slot is free for it, and no recovery is due.                     *)
NothingWaits ==
    /\ pc = "admit" /\ ~immediate /\ ~IsUrgent(selected) => ~Present(pending)
    /\ pc \in {"admit", "decide"} /\ ~immediate /\ ~IsUrgent(selected) => ~Present(recovery)

(* The recorded end of the last decision is its real one, unless that       *)
(* decision failed; then its recovery comes first.                          *)
EndRecorded ==
    \/ halted
    \/ lastDecisionTick = endedAt
    \/ Present(recovery)
    \/ pc \in {"admit", "decide"} /\ immediate
    \/ pc = "settle" /\ ~outcome.success

(* What the cooldown let pass.                                              *)
CooldownPassed ==
    pc = "decide" /\ ~immediate /\ ~IsUrgent(selected) /\ lastDecisionTick # None
    /\ observed.at >= lastDecisionTick
      => observed.at - lastDecisionTick >= CooldownTicks

OrderInv == GraceInv /\ NothingWaits /\ EndRecorded /\ CooldownPassed

SchedulerInv == SchedulerTypeOK /\ Shape /\ BudgetInv /\ OrderInv

-----------------------------------------------------------------------------
(* Constants *)

LEMMA LimitsArePositive ==
  /\ CooldownTicks \in Nat \ {0} /\ MaxDecisions \in Nat \ {0}
  /\ MaxImmediateFollowups \in Nat \ {0} /\ MaxProblemAttempts \in Nat \ {0}
  /\ MaxConsecutiveFailures \in Nat \ {0} /\ MaxConsecutiveUncertain \in Nat \ {0}
  /\ MaxSessionSpend \in Nat \ {0} /\ MaxSessionModelRequests \in Nat \ {0}
  /\ GraceTicks \in Nat \ {0} /\ UrgentGraceTicks \in Nat \ {0}
  /\ MaxRequestsPerCycle \in Nat \ {0} /\ MaxFingerprints \in Nat \ {0}
  /\ IdlePersistenceTicks \in Nat \ {0}
BY SchedulerAssumption DEF Limits

LEMMA ProblemNames ==
  /\ NoProblem \notin Problems /\ NoScope \notin Scopes /\ NoProblem \notin Urgent
  /\ Urgent \subseteq Problems /\ Recoverable \subseteq Problems /\ Idleness \subseteq Problems
BY SchedulerAssumption

-----------------------------------------------------------------------------
(* Types of the parts of a step *)

LEMMA TriggerTypes ==
  ASSUME SchedulerTypeOK
  PROVE  /\ \A p \in Problems \cup {NoProblem} : At(p) \in MaybeTriggers
         /\ NoTrigger \in MaybeTriggers
         /\ NoVerification \in Verifications
BY DEF SchedulerTypeOK, At, MaybeTriggers, NoTrigger, NoVerification, Verifications, None

LEMMA RetainedType ==
  ASSUME SchedulerTypeOK, NEW t \in MaybeTriggers, NEW h
  PROVE  Retained(t, h) \in MaybeTriggers
BY DEF SchedulerTypeOK, Retained

(* The memory of fingerprints stays a queue of problems.                    *)
LEMMA RememberType ==
  ASSUME SchedulerTypeOK, NEW p \in Problems
  PROVE  Remember(p) \in Seq(Problems)
<1>1. fingerprints \in Seq(Problems)
  BY DEF SchedulerTypeOK
<1>2. CASE Len(fingerprints) >= MaxFingerprints
  <2>1. fingerprints # <<>>
    BY <1>1, <1>2, LimitsArePositive
  <2>2. Tail(fingerprints) \in Seq(Problems)
    BY <1>1, <2>1
  <2>. QED
    BY <1>2, <2>2 DEF Remember
<1>3. CASE ~(Len(fingerprints) >= MaxFingerprints)
  BY <1>1, <1>3 DEF Remember
<1>. QED
  BY <1>2, <1>3

LEMMA ForgottenType ==
  ASSUME SchedulerTypeOK, NEW p \in Problems
  PROVE  Forgotten(p) \in Seq(Problems)
<1>1. fingerprints \in Seq(Problems)
  BY DEF SchedulerTypeOK
<1>. DEFINE places == {i \in 1..Len(fingerprints) : fingerprints[i] = p}
            place == CHOOSE i \in places : TRUE
            before == SubSeq(fingerprints, 1, place - 1)
            after == SubSeq(fingerprints, place + 1, Len(fingerprints))
<1>2. CASE places = {}
  BY <1>1, <1>2 DEF Forgotten
<1>3. CASE places # {}
  <2>1. place \in 1..Len(fingerprints)
    BY <1>3
  <2>. HIDE DEF place
  <2>2. before \in Seq(Problems)
    BY <1>1, <2>1
  <2>3. after \in Seq(Problems)
    BY <1>1, <2>1
  <2>4. Forgotten(p) = before \o after
    BY <1>3 DEF Forgotten, place
  <2>. QED
    BY <2>2, <2>3, <2>4
<1>. QED
  BY <1>2, <1>3

LEMMA ObservedType ==
  ASSUME SchedulerTypeOK, NEW p, Observed(p)
  PROVE  /\ lastSeen' \in [scope : Scopes \cup {NoScope}, tick : Nat]
         /\ fingerprints' \in Seq(Problems)
         /\ idleSince' \in Nat
<1>1. fingerprints' \in Seq(Problems)
  <2>1. CASE p = NoProblem
    BY <2>1 DEF Observed, SchedulerTypeOK
  <2>2. CASE p \in Problems
    BY <2>2, RememberType DEF Observed, SchedulerTypeOK
  <2>. QED
    BY <2>1, <2>2 DEF Observed
<1>. QED
  BY <1>1 DEF Observed, SchedulerTypeOK

LEMMA AcknowledgeType ==
  ASSUME SchedulerTypeOK, Acknowledge
  PROVE  /\ lastSeen' \in [scope : Scopes \cup {NoScope}, tick : Nat]
         /\ fingerprints' \in Seq(Problems)
         /\ idleSince' \in Nat
<1>1. CASE selected.problem \in Idleness
  <2>1. fingerprints' = Forgotten(selected.problem) /\ selected.problem \in Problems
    BY <1>1, ProblemNames DEF Acknowledge
  <2>2. fingerprints' \in Seq(Problems)
    BY <2>1, ForgottenType
  <2>. QED
    BY <1>1, <2>2 DEF Acknowledge, SchedulerTypeOK
<1>2. CASE selected.problem \notin Idleness
  BY <1>2 DEF Acknowledge, SchedulerTypeOK, observerVars
<1>. QED
  BY <1>1, <1>2

-----------------------------------------------------------------------------
(* Type correctness *)

LEMMA HaltType ==
  ASSUME SchedulerTypeOK, NEW r \in Reasons, Halt(r)
  PROVE  halted' \in BOOLEAN /\ haltReason' \in Reasons /\ pauses' \in Nat
BY DEF Halt, SchedulerTypeOK

LEMMA TypeInit == SchedulerInit => SchedulerTypeOK
<1>. SUFFICES ASSUME SchedulerInit PROVE SchedulerTypeOK
  OBVIOUS
<1>1. NoTrigger \in MaybeTriggers /\ NoVerification \in Verifications
  BY DEF MaybeTriggers, NoTrigger, NoVerification, Verifications, None
<1>2. costCalculable \in BOOLEAN
  BY Zenon, SchedulerAssumption DEF SchedulerInit
<1>3. fingerprints \in Seq(Problems)
  BY DEF SchedulerInit
<1>. QED
  BY <1>1, <1>2, <1>3 DEF SchedulerInit, SchedulerTypeOK, None, Reasons

LEMMA TypeObserve ==
  ASSUME SchedulerTypeOK, Observe PROVE SchedulerTypeOK'
<1>1. PICK p \in Problems \cup {NoProblem} :
        /\ Observed(p)
        /\ observed' = At(p)
        /\ IF p \in Urgent /\ (ScopeChanged \/ p # lastHandled)
           THEN pc' = "admit" /\ selected' = At(p)
           ELSE pc' = "verify" /\ selected' = NoTrigger
  BY Zenon DEF Observe
<1>2. /\ lastSeen' \in [scope : Scopes \cup {NoScope}, tick : Nat]
      /\ fingerprints' \in Seq(Problems)
      /\ idleSince' \in Nat
  BY Zenon, <1>1, ObservedType
<1>3. /\ observed' \in MaybeTriggers /\ selected' \in MaybeTriggers
      /\ pc' \in {"admit", "verify"}
  BY Zenon, <1>1, TriggerTypes
<1>4. /\ attempts' \in [Problems -> Nat]
      /\ pending' \in MaybeTriggers /\ recovery' \in MaybeTriggers
      /\ verification' \in Verifications
      /\ lastHandled' \in Problems \cup {NoProblem}
      /\ lastDecisionTick' \in Nat /\ endedAt' \in Nat /\ followups' \in Nat
  <2>1. CASE ScopeChanged
    BY <2>1, TriggerTypes DEF Observe, None
  <2>2. CASE ~ScopeChanged
    BY <2>2 DEF Observe, SchedulerTypeOK
  <2>. QED
    BY <2>1, <2>2
<1>. QED
  BY <1>2, <1>3, <1>4 DEF Observe, SchedulerTypeOK, gameVars, haltVars, spentVars, streakVars

LEMMA TypeVerify ==
  ASSUME SchedulerTypeOK,
         \/ NothingToVerify \/ VerificationResolved \/ VerificationWait
         \/ RepeatedNoProgress \/ RequestRecovery
  PROVE  SchedulerTypeOK'
<1>1. CASE NothingToVerify
  BY <1>1 DEF NothingToVerify, SchedulerTypeOK, gameVars, observerVars, localVars, haltVars,
     spentVars, streakVars, memoryVars
<1>2. Retained(observed, verification) \in MaybeTriggers
  BY RetainedType DEF SchedulerTypeOK
<1>3. CASE VerificationResolved
  <2>1. attempts' \in [Problems -> Nat]
    BY <1>3 DEF VerificationResolved, SchedulerTypeOK
  <2>. QED
    BY <1>2, <1>3, <2>1, TriggerTypes DEF VerificationResolved, Return, SchedulerTypeOK, gameVars,
       observerVars, haltVars, spentVars, streakVars
<1>4. CASE VerificationWait
  BY <1>2, <1>4, TriggerTypes DEF VerificationWait, Return, SchedulerTypeOK, gameVars,
     observerVars, haltVars, spentVars, streakVars
<1>5. CASE RepeatedNoProgress
  <2>1. halted' \in BOOLEAN /\ haltReason' \in Reasons /\ pauses' \in Nat
    BY <1>5, HaltType DEF RepeatedNoProgress, Reasons
  <2>. QED
    BY <1>5, <2>1, TriggerTypes DEF RepeatedNoProgress, Return, SchedulerTypeOK, gameVars,
       observerVars, spentVars, streakVars
<1>6. CASE RequestRecovery
  <2>1. recovery' \in MaybeTriggers
    BY <1>6 DEF RequestRecovery, SchedulerTypeOK, Verifications, MaybeTriggers
  <2>. QED
    BY <1>6, <2>1, TriggerTypes DEF RequestRecovery, SchedulerTypeOK, gameVars,
       observerVars, localVars, haltVars, spentVars, streakVars
<1>. QED
  BY <1>1, <1>3, <1>4, <1>5, <1>6

LEMMA TypeSelect ==
  ASSUME SchedulerTypeOK,
         SelectRecovery \/ SelectPending \/ SelectObserved \/ NothingSelected
  PROVE  SchedulerTypeOK'
<1>1. CASE SelectRecovery
  BY <1>1, TriggerTypes DEF SelectRecovery, Select, SchedulerTypeOK, gameVars, observerVars,
     haltVars, spentVars, streakVars
<1>2. CASE SelectPending
  BY <1>2, TriggerTypes DEF SelectPending, Select, SchedulerTypeOK, gameVars, observerVars,
     haltVars, spentVars, streakVars
<1>3. CASE SelectObserved
  BY <1>3 DEF SelectObserved, Select, SchedulerTypeOK, gameVars, observerVars,
     haltVars, spentVars, streakVars
<1>4. CASE NothingSelected
  BY <1>4, TriggerTypes DEF NothingSelected, Return, SchedulerTypeOK, gameVars, observerVars,
     haltVars, spentVars, streakVars, memoryVars
<1>. QED
  BY <1>1, <1>2, <1>3, <1>4

LEMMA TypeAdmit ==
  ASSUME SchedulerTypeOK, RefuseDecision \/ WaitForCooldown \/ BeginDecision
  PROVE  SchedulerTypeOK'
<1>1. CASE RefuseDecision
  <2>1. AdmissionLimit \in Reasons
    BY DEF AdmissionLimit, Reasons
  <2>2. halted' \in BOOLEAN /\ haltReason' \in Reasons /\ pauses' \in Nat
    BY <1>1, <2>1, HaltType DEF RefuseDecision
  <2>. QED
    BY <1>1, <2>2, TriggerTypes DEF RefuseDecision, Return, SchedulerTypeOK, gameVars,
       observerVars, spentVars, streakVars, memoryVars
<1>2. CASE WaitForCooldown
  BY <1>2, TriggerTypes DEF WaitForCooldown, Return, SchedulerTypeOK, gameVars,
     observerVars, haltVars, spentVars, streakVars
<1>3. CASE BeginDecision
  BY <1>3 DEF BeginDecision, SchedulerTypeOK, gameVars, observerVars, localVars, haltVars,
     spentVars, streakVars, memoryVars
<1>. QED
  BY <1>1, <1>2, <1>3

(* What one decision cycle costs and how it ends.                           *)
LEMMA EndOfDecision ==
  ASSUME SchedulerTypeOK, Shape, EndDecision
  PROVE  /\ outcome' \in Outcomes
         /\ outcome'.success => lastDecisionTick' = tick
         /\ lastDecisionTick' \in Nat
         /\ \E n \in 0..RequestCap : modelRequests' = modelRequests + n
         /\ cost' = Charged(outcome'.cost) /\ cost' \in Nat
         /\ costCalculable' = (costCalculable /\ outcome'.cost # Unpriced)
         /\ postTrigger' \in MaybeTriggers
         /\ lastSeen' \in [scope : Scopes \cup {NoScope}, tick : Nat]
         /\ fingerprints' \in Seq(Problems)
         /\ idleSince' \in Nat
<1>1. PICK o \in Outcomes :
        \E requests \in 0..RequestCap :
          /\ o.success => ~o.uncertain
          /\ \E final \in FinalTicks(o.success) :
               lastDecisionTick' = IF final # None THEN final ELSE selected.at
          /\ \/ \E problem \in Problems \cup {NoProblem} :
                  Observed(problem) /\ postTrigger' = At(problem)
             \/ /\ ~o.progress
                /\ postTrigger' = NoTrigger
                /\ UNCHANGED observerVars
          /\ outcome' = o
          /\ modelRequests' = modelRequests + requests
          /\ cost' = Charged(o.cost)
          /\ costCalculable' = (costCalculable /\ o.cost # Unpriced)
  BY Zenon DEF EndDecision
<1>2. /\ outcome' \in Outcomes
      /\ \E n \in 0..RequestCap : modelRequests' = modelRequests + n
      /\ cost' = Charged(outcome'.cost)
      /\ costCalculable' = (costCalculable /\ outcome'.cost # Unpriced)
  BY Zenon, <1>1
<1>3. lastDecisionTick' \in Nat /\ (outcome'.success => lastDecisionTick' = tick)
  <2>1. PICK final \in FinalTicks(o.success) :
          lastDecisionTick' = IF final # None THEN final ELSE selected.at
    BY Zenon, <1>1
  <2>2. tick \in Nat /\ observed.at \in Nat /\ selected.at \in Nat
    BY DEF SchedulerTypeOK, MaybeTriggers
  <2>3. final \in {None, observed.at, tick} /\ (o.success => final = tick)
    BY DEF FinalTicks
  <2>. QED
    BY <1>1, <2>1, <2>2, <2>3 DEF None, Shape
<1>4. cost' \in Nat
  <2>1. o.cost \in Nat \cup {Unpriced}
    BY SchedulerAssumption DEF Outcomes
  <2>. QED
    BY <1>1, <2>1 DEF Charged, SchedulerTypeOK
<1>5. /\ postTrigger' \in MaybeTriggers
      /\ lastSeen' \in [scope : Scopes \cup {NoScope}, tick : Nat]
      /\ fingerprints' \in Seq(Problems)
      /\ idleSince' \in Nat
  <2>1. CASE \E p \in Problems \cup {NoProblem} : Observed(p) /\ postTrigger' = At(p)
    BY Zenon, <2>1, ObservedType, TriggerTypes
  <2>2. CASE postTrigger' = NoTrigger /\ UNCHANGED observerVars
    BY <2>2, TriggerTypes DEF SchedulerTypeOK, observerVars
  <2>. QED
    BY Zenon, <1>1, <2>1, <2>2
<1>. QED
  BY Zenon, <1>2, <1>3, <1>4, <1>5

LEMMA TypeSettle ==
  ASSUME SchedulerTypeOK, Shape,
         EndDecision \/ OutcomeHalts \/ DecisionFailed \/ Decided \/ AwaitProgress
  PROVE  SchedulerTypeOK'
<1>1. CASE EndDecision
  <2>1. /\ outcome' \in Outcomes /\ lastDecisionTick' \in Nat /\ cost' \in Nat
        /\ costCalculable' \in BOOLEAN /\ postTrigger' \in MaybeTriggers
        /\ lastSeen' \in [scope : Scopes \cup {NoScope}, tick : Nat]
        /\ fingerprints' \in Seq(Problems) /\ idleSince' \in Nat
    BY Zenon, <1>1, EndOfDecision
  <2>2. modelRequests' \in Nat /\ decisions' \in Nat
    <3>1. \E n \in 0..RequestCap : modelRequests' = modelRequests + n
      BY Zenon, <1>1, EndOfDecision
    <3>. QED
      BY <1>1, <3>1 DEF EndDecision, SchedulerTypeOK
  <2>3. lastHandled' \in Problems \cup {NoProblem} /\ endedAt' \in Nat /\ pc' = "settle"
    BY <1>1 DEF EndDecision, SchedulerTypeOK, MaybeTriggers
  <2>. QED
    BY <1>1, <2>1, <2>2, <2>3 DEF EndDecision, SchedulerTypeOK, gameVars, haltVars, streakVars
<1>2. /\ Retained(postTrigger, selected) \in MaybeTriggers
      /\ Uncertains \in Nat
  BY RetainedType DEF SchedulerTypeOK, Uncertains
<1>3. CASE OutcomeHalts
  <2>1. OutcomeLimit \in Reasons
    BY DEF OutcomeLimit, Reasons
  <2>2. halted' \in BOOLEAN /\ haltReason' \in Reasons /\ pauses' \in Nat
    BY <1>3, <2>1, HaltType DEF OutcomeHalts
  <2>3. failures' \in Nat
    BY <1>3 DEF OutcomeHalts, SchedulerTypeOK
  <2>. QED
    BY <1>2, <1>3, <2>2, <2>3, TriggerTypes DEF OutcomeHalts, Return, SchedulerTypeOK, gameVars,
       observerVars, spentVars, memoryVars
<1>4. CASE DecisionFailed
  <2>1. failures' \in Nat /\ recovery' \in MaybeTriggers
    BY <1>4 DEF DecisionFailed, SchedulerTypeOK
  <2>. QED
    BY <1>2, <1>4, <2>1, TriggerTypes DEF DecisionFailed, Return, SchedulerTypeOK, gameVars,
       observerVars, haltVars, spentVars
<1>5. CASE Decided
  <2>1. /\ lastSeen' \in [scope : Scopes \cup {NoScope}, tick : Nat]
        /\ fingerprints' \in Seq(Problems) /\ idleSince' \in Nat
    BY <1>5, AcknowledgeType DEF Decided
  <2>2. attempts' \in [Problems -> Nat]
    BY <1>5 DEF Decided, SchedulerTypeOK
  <2>. QED
    BY <1>2, <1>5, <2>1, <2>2, TriggerTypes DEF Decided, Return, SchedulerTypeOK, gameVars,
       haltVars, spentVars
<1>6. CASE AwaitProgress
  <2>1. /\ lastSeen' \in [scope : Scopes \cup {NoScope}, tick : Nat]
        /\ fingerprints' \in Seq(Problems) /\ idleSince' \in Nat
    BY <1>6, AcknowledgeType DEF AwaitProgress
  <2>2. selected.problem \in Problems /\ attempts[selected.problem] + 1 \in Nat
    BY <1>6 DEF AwaitProgress, Shape, Present, SchedulerTypeOK, MaybeTriggers
  <2>3. attempts' \in [Problems -> Nat]
    BY <1>6, <2>2 DEF AwaitProgress, SchedulerTypeOK
  <2>4. verification' \in Verifications
    BY <1>6, <2>2 DEF AwaitProgress, SchedulerTypeOK, MaybeTriggers, Verifications
  <2>. QED
    BY <1>2, <1>6, <2>1, <2>3, <2>4, TriggerTypes DEF AwaitProgress, Return, SchedulerTypeOK,
       gameVars, haltVars, spentVars
<1>. QED
  BY <1>1, <1>3, <1>4, <1>5, <1>6

LEMMA TypeStep ==
  ASSUME SchedulerTypeOK, Shape, [SchedulerNext]_vars
  PROVE  SchedulerTypeOK'
<1>1. CASE Play
  BY <1>1 DEF Play, SchedulerTypeOK, observerVars, localVars, haltVars, spentVars, streakVars,
     memoryVars
<1>2. CASE LoadGame
  BY <1>2 DEF LoadGame, SchedulerTypeOK, observerVars, localVars, haltVars, spentVars,
     streakVars, memoryVars
<1>3. CASE UNCHANGED vars
  BY <1>3 DEF SchedulerTypeOK, vars, gameVars, observerVars, localVars, haltVars, spentVars,
     streakVars, memoryVars
<1>. QED
  BY Zenon, <1>1, <1>2, <1>3, TypeObserve, TypeVerify, TypeSelect, TypeAdmit, TypeSettle
  DEF SchedulerNext, Step

(* A halted scheduler stays at rest, and a decision is about a problem.     *)
LEMMA ShapeStep ==
  ASSUME SchedulerTypeOK, Shape, [SchedulerNext]_vars
  PROVE  Shape'
<1>. USE ProblemNames
<1>1. tick' # None
  <2>1. CASE Play
    BY <2>1 DEF Play, Shape, None, SchedulerTypeOK
  <2>2. CASE LoadGame
    BY <2>2 DEF LoadGame, None
  <2>3. CASE UNCHANGED tick
    BY <2>3 DEF Shape
  <2>. QED
    BY Zenon, <2>1, <2>2, <2>3 DEF SchedulerNext, Step, vars, Observe, NothingToVerify,
       VerificationResolved, VerificationWait, RepeatedNoProgress, RequestRecovery, Select,
       SelectRecovery, SelectPending, SelectObserved, NothingSelected, RefuseDecision,
       WaitForCooldown, BeginDecision, EndDecision, OutcomeHalts, DecisionFailed, Decided,
       AwaitProgress, gameVars
<1>2. CASE Play \/ LoadGame \/ UNCHANGED vars
  BY <1>1, <1>2 DEF Play, LoadGame, Shape, Present, vars, gameVars, localVars, haltVars
<1>3. CASE Observe
  <2>1. PICK p \in Problems \cup {NoProblem} :
          IF p \in Urgent /\ (ScopeChanged \/ p # lastHandled)
          THEN pc' = "admit" /\ selected' = At(p)
          ELSE pc' = "verify" /\ selected' = NoTrigger
    BY Zenon, <1>3 DEF Observe
  <2>. QED
    BY <1>1, <1>3, <2>1 DEF Observe, Shape, Present, At, haltVars
<1>4. CASE \/ NothingToVerify \/ VerificationResolved \/ VerificationWait
           \/ RepeatedNoProgress \/ RequestRecovery \/ NothingSelected
           \/ RefuseDecision \/ WaitForCooldown
           \/ OutcomeHalts \/ DecisionFailed \/ Decided \/ AwaitProgress
  <2>1. pc # "observe" /\ ~halted
    BY <1>4 DEF Shape, NothingToVerify, VerificationResolved, VerificationWait,
       RepeatedNoProgress, RequestRecovery, NothingSelected, RefuseDecision, WaitForCooldown,
       OutcomeHalts, DecisionFailed, Decided, AwaitProgress
  <2>2. \/ pc' = "observe"
        \/ pc' = "select" /\ halted' = halted
    BY <1>4 DEF NothingToVerify, VerificationResolved, VerificationWait,
       RepeatedNoProgress, RequestRecovery, NothingSelected, RefuseDecision, WaitForCooldown,
       OutcomeHalts, DecisionFailed, Decided, AwaitProgress, Return, haltVars
  <2>. QED
    BY <1>1, <2>1, <2>2 DEF Shape
<1>5. CASE SelectRecovery \/ SelectPending \/ SelectObserved
  <2>1. pc = "select" /\ pc' = "admit" /\ halted' = halted
    BY <1>5 DEF SelectRecovery, SelectPending, SelectObserved, Select, haltVars
  <2>2. Present(selected')
    BY <1>5 DEF SelectRecovery, SelectPending, SelectObserved, Select, NewlyObserved, Present,
       IsUrgent
  <2>. QED
    BY <1>1, <2>1, <2>2 DEF Shape, Present
<1>6. CASE BeginDecision \/ EndDecision
  BY <1>1, <1>6 DEF BeginDecision, EndDecision, Shape, Present, localVars, haltVars
<1>. QED
  BY Zenon, <1>2, <1>3, <1>4, <1>5, <1>6 DEF SchedulerNext, Step

-----------------------------------------------------------------------------
(* The limits *)

(* What a step that makes no decision and settles none does to the limits.  *)
SameSpending ==
  /\ UNCHANGED <<decisions, modelRequests, cost, costCalculable, failures, uncertains>>
  /\ pc # "settle" /\ pc' # "settle"

LEMMA BudgetWhileWaiting ==
  ASSUME SchedulerTypeOK, Shape, BudgetInv, SameSpending, UNCHANGED haltVars,
         followups' <= MaxImmediateFollowups,
         \A p \in Problems : attempts'[p] = attempts[p] \/ attempts'[p] = 0,
         verification' = verification \/ verification' = NoVerification,
         ~halted
  PROVE  BudgetInv'
<1>1. haltReason = "none" /\ pauses = 0 /\ ~halted' /\ haltReason' = "none" /\ pauses' = 0
  BY DEF BudgetInv, RoomLeft, haltVars
<1>2. WithinLimits'
  BY DEF BudgetInv, WithinLimits, SameSpending
<1>3. RoomLeft'
  BY <1>1 DEF BudgetInv, RoomLeft, SameSpending
<1>4. AttemptsAreDecisions'
  <2>1. \A p \in Problems : attempts'[p] <= decisions
    BY DEF BudgetInv, AttemptsAreDecisions, SameSpending, SchedulerTypeOK
  <2>2. verification'.attempt <= decisions
    BY DEF BudgetInv, AttemptsAreDecisions, SchedulerTypeOK, NoVerification
  <2>. QED
    BY <2>1, <2>2 DEF AttemptsAreDecisions, SameSpending
<1>5. HaltIsConclusive'
  BY <1>1 DEF HaltIsConclusive
<1>. QED
  BY <1>2, <1>3, <1>4, <1>5 DEF BudgetInv

(* A step that halts while nothing is being settled.                        *)
LEMMA BudgetAtHalt ==
  ASSUME SchedulerTypeOK, Shape, BudgetInv, SameSpending, ~halted,
         NEW r \in Reasons, Halt(r), UNCHANGED <<followups, attempts>>,
         verification' = verification \/ verification' = NoVerification,
         \/ r = "repeated_no_progress" /\ decisions >= MaxProblemAttempts
         \/ r = "session_decision_limit" /\ decisions >= MaxDecisions
         \/ r = "session_model_request_limit" /\ modelRequests >= MaxSessionModelRequests
         \/ r = "immediate_followup_limit" /\ followups >= MaxImmediateFollowups
  PROVE  BudgetInv'
<1>. USE LimitsArePositive
<1>1. pauses = 0 /\ halted' /\ haltReason' = r /\ pauses' = 1
  BY DEF BudgetInv, RoomLeft, Halt
<1>2. WithinLimits'
  BY DEF BudgetInv, WithinLimits, SameSpending
<1>3. RoomLeft'
  BY <1>1 DEF RoomLeft
<1>4. AttemptsAreDecisions'
  BY DEF BudgetInv, AttemptsAreDecisions, SameSpending, SchedulerTypeOK, NoVerification
<1>5. HaltIsConclusive'
  <2>1. r # "none" /\ r # "repeated_failed_outcomes" /\ r # "repeated_uncertain_commands"
        /\ r # "session_spend_limit" /\ r # "session_cost_unavailable"
    OBVIOUS
  <2>2. /\ r = "repeated_no_progress" => decisions >= MaxProblemAttempts
        /\ r = "session_decision_limit" => decisions = MaxDecisions
        /\ r = "session_model_request_limit" => modelRequests = MaxSessionModelRequests
        /\ r = "immediate_followup_limit" => followups = MaxImmediateFollowups
    BY DEF BudgetInv, WithinLimits, SchedulerTypeOK
  <2>. QED
    BY <1>1, <2>1, <2>2 DEF HaltIsConclusive, SameSpending
<1>. QED
  BY <1>2, <1>3, <1>4, <1>5 DEF BudgetInv

(* The end of a decision spends what room there was.                        *)
LEMMA BudgetEndDecision ==
  ASSUME SchedulerTypeOK, Shape, BudgetInv, EndDecision
  PROVE  BudgetInv'
<1>. USE LimitsArePositive
<1>1. /\ pc = "decide" /\ pc' = "settle" /\ ~halted /\ decisions' = decisions + 1
      /\ UNCHANGED <<haltVars, streakVars, followups, attempts, verification>>
  BY DEF EndDecision, Shape
<1>2. PICK n \in 0..RequestCap : modelRequests' = modelRequests + n
  BY Zenon, EndOfDecision
<1>3. /\ costCalculable' = (costCalculable /\ outcome'.cost # Unpriced)
      /\ cost' = Charged(outcome'.cost)
  BY Zenon, EndOfDecision
<1>4. /\ decisions < MaxDecisions /\ modelRequests < MaxSessionModelRequests
      /\ pauses = 0 /\ haltReason = "none"
  BY <1>1 DEF BudgetInv, RoomLeft
<1>5. modelRequests' <= MaxSessionModelRequests
  BY <1>2, <1>4 DEF RequestCap, SchedulerTypeOK
<1>6. WithinLimits'
  BY <1>1, <1>4, <1>5 DEF BudgetInv, WithinLimits, SchedulerTypeOK, streakVars
<1>7. RoomLeft'
  BY <1>1 DEF BudgetInv, RoomLeft, haltVars, streakVars
<1>8. AttemptsAreDecisions'
  <2>1. outcome'.cost = Unpriced => ~costCalculable'
    BY Zenon, <1>3
  <2>. QED
    BY <1>1, <2>1 DEF BudgetInv, AttemptsAreDecisions, SchedulerTypeOK, Verifications
<1>9. HaltIsConclusive'
  BY <1>1, <1>4 DEF HaltIsConclusive, haltVars
<1>. QED
  BY <1>6, <1>7, <1>8, <1>9 DEF BudgetInv
(* Settling a decision that reaches no limit leaves room for another one.   *)
LEMMA RoomAfterDecision ==
  ASSUME SchedulerTypeOK, Shape, BudgetInv, pc = "settle", OutcomeLimit = "none"
  PROVE  /\ decisions < MaxDecisions /\ modelRequests < MaxSessionModelRequests
         /\ costCalculable => cost < MaxSessionSpend
         /\ Uncertains < MaxConsecutiveUncertain
         /\ ~outcome.success => failures + 1 < MaxConsecutiveFailures
<1>1. /\ ~(Uncertains >= MaxConsecutiveUncertain) /\ ~SpendLimitReached
      /\ ~(modelRequests >= MaxSessionModelRequests) /\ ~(decisions >= MaxDecisions)
      /\ ~(~outcome.success /\ failures + 1 >= MaxConsecutiveFailures)
  BY DEF OutcomeLimit
<1>2. Uncertains \in Nat
  BY DEF SchedulerTypeOK, Uncertains
<1>. QED
  BY <1>1, <1>2, LimitsArePositive DEF SpendLimitReached, SchedulerTypeOK

LEMMA BudgetDecisionSettled ==
  ASSUME SchedulerTypeOK, Shape, BudgetInv, DecisionFailed \/ Decided \/ AwaitProgress
  PROVE  BudgetInv'
<1>. USE LimitsArePositive
<1>1. /\ pc = "settle" /\ pc' = "observe" /\ OutcomeLimit = "none" /\ ~halted
      /\ UNCHANGED <<haltVars, spentVars>> /\ uncertains' = Uncertains
  BY DEF DecisionFailed, Decided, AwaitProgress, Return, Shape
<1>2. /\ decisions < MaxDecisions /\ modelRequests < MaxSessionModelRequests
      /\ costCalculable => cost < MaxSessionSpend
      /\ Uncertains < MaxConsecutiveUncertain
      /\ ~outcome.success => failures + 1 < MaxConsecutiveFailures
  BY <1>1, RoomAfterDecision
<1>3. pauses = 0 /\ haltReason = "none" /\ failures < MaxConsecutiveFailures
  BY <1>1 DEF BudgetInv, RoomLeft
<1>4. failures' < MaxConsecutiveFailures
  BY <1>2 DEF DecisionFailed, Decided, AwaitProgress
<1>5. followups' <= MaxImmediateFollowups
  BY DEF DecisionFailed, Decided, AwaitProgress, BudgetInv, WithinLimits
<1>6. failures' \in Nat /\ Uncertains \in Nat
  BY DEF DecisionFailed, Decided, AwaitProgress, SchedulerTypeOK, Uncertains
<1>7. WithinLimits'
  BY <1>1, <1>2, <1>4, <1>5, <1>6 DEF WithinLimits, spentVars, SchedulerTypeOK
<1>8. RoomLeft'
  BY <1>1, <1>2, <1>3, <1>4 DEF RoomLeft, haltVars, spentVars
<1>9. AttemptsAreDecisions'
  <2>1. \A p \in Problems : attempts[p] <= decisions - 1
    BY <1>1 DEF BudgetInv, AttemptsAreDecisions
  <2>2. verification.attempt <= decisions /\ decisions \in Nat
    BY DEF BudgetInv, AttemptsAreDecisions, SchedulerTypeOK
  <2>3. \A p \in Problems : attempts[p] \in Nat
    BY DEF SchedulerTypeOK
  <2>4. selected.problem \in Problems
    BY <1>1 DEF Shape, Present, SchedulerTypeOK, MaybeTriggers
  <2>5. CASE DecisionFailed
    BY <1>1, <2>1, <2>2, <2>3, <2>5 DEF DecisionFailed, AttemptsAreDecisions, spentVars
  <2>6. CASE Decided
    <3>1. attempts' = [attempts EXCEPT ![selected.problem] = 0] /\ verification' = verification
      BY <2>6 DEF Decided
    <3>2. \A p \in Problems : attempts'[p] = attempts[p] \/ attempts'[p] = 0
      BY <3>1 DEF SchedulerTypeOK
    <3>. QED
      BY <1>1, <2>1, <2>2, <2>3, <3>1, <3>2 DEF AttemptsAreDecisions, spentVars
  <2>7. CASE AwaitProgress
    <3>. DEFINE n == attempts[selected.problem] + 1
    <3>1. attempts' = [attempts EXCEPT ![selected.problem] = n] /\ verification'.attempt = n
      BY <2>7 DEF AwaitProgress
    <3>2. n <= decisions
      BY <2>1, <2>2, <2>3, <2>4
    <3>3. \A p \in Problems : attempts'[p] = attempts[p] \/ attempts'[p] = n
      BY <3>1 DEF SchedulerTypeOK
    <3>. HIDE DEF n
    <3>. QED
      BY <1>1, <2>1, <2>2, <2>3, <3>1, <3>2, <3>3 DEF AttemptsAreDecisions, spentVars
  <2>. QED
    BY <2>5, <2>6, <2>7
<1>10. HaltIsConclusive'
  BY <1>1, <1>3 DEF HaltIsConclusive, haltVars
<1>. QED
  BY <1>7, <1>8, <1>9, <1>10 DEF BudgetInv

(* A decision that reaches a limit names the limit it has reached.          *)
LEMMA BudgetOutcomeHalts ==
  ASSUME SchedulerTypeOK, Shape, BudgetInv, OutcomeHalts
  PROVE  BudgetInv'
<1>. USE LimitsArePositive
<1>1. /\ pc = "settle" /\ pc' = "observe" /\ OutcomeLimit # "none" /\ ~halted
      /\ halted' /\ haltReason' = OutcomeLimit /\ pauses' = pauses + 1
      /\ uncertains' = Uncertains
      /\ UNCHANGED <<decisions, modelRequests, cost, costCalculable, followups, attempts,
                     verification>>
      /\ failures' = IF OutcomeLimit = "repeated_failed_outcomes"
                     THEN failures + 1 ELSE failures
  BY DEF OutcomeHalts, Halt, Return, Shape, spentVars, memoryVars
<1>2. /\ pauses = 0 /\ failures < MaxConsecutiveFailures
      /\ uncertains < MaxConsecutiveUncertain
      /\ decisions <= MaxDecisions /\ modelRequests <= MaxSessionModelRequests
      /\ followups <= MaxImmediateFollowups
  BY <1>1 DEF BudgetInv, RoomLeft, WithinLimits
<1>3. Uncertains \in Nat /\ Uncertains <= MaxConsecutiveUncertain
  BY <1>2 DEF SchedulerTypeOK, Uncertains
<1>4. /\ failures \in Nat /\ decisions \in Nat /\ modelRequests \in Nat /\ cost \in Nat
      /\ failures' <= MaxConsecutiveFailures
  BY <1>1, <1>2 DEF SchedulerTypeOK
<1>5. WithinLimits'
  BY <1>1, <1>2, <1>3, <1>4 DEF WithinLimits
<1>6. RoomLeft'
  BY <1>1 DEF RoomLeft
<1>7. AttemptsAreDecisions'
  <2>1. \A p \in Problems : attempts[p] <= decisions - 1 /\ attempts[p] \in Nat
    BY <1>1 DEF BudgetInv, AttemptsAreDecisions, SchedulerTypeOK
  <2>2. verification.attempt <= decisions
    BY DEF BudgetInv, AttemptsAreDecisions
  <2>. QED
    BY <1>1, <1>4, <2>1, <2>2 DEF AttemptsAreDecisions
<1>8. /\ OutcomeLimit = "repeated_uncertain_commands" => Uncertains = MaxConsecutiveUncertain
      /\ OutcomeLimit = "session_spend_limit" => cost >= MaxSessionSpend
      /\ OutcomeLimit = "session_cost_unavailable" => outcome.cost = Unpriced /\ ~AllowUnpriced
      /\ OutcomeLimit = "session_model_request_limit" =>
           modelRequests = MaxSessionModelRequests
      /\ OutcomeLimit = "session_decision_limit" => decisions = MaxDecisions
      /\ OutcomeLimit = "repeated_failed_outcomes" => failures + 1 = MaxConsecutiveFailures
      /\ OutcomeLimit # "immediate_followup_limit" /\ OutcomeLimit # "repeated_no_progress"
  BY <1>2, <1>3, <1>4 DEF OutcomeLimit, SpendLimitReached
<1>9. outcome.cost = Unpriced => ~costCalculable
  BY Zenon, <1>1 DEF BudgetInv, AttemptsAreDecisions
<1>10. HaltIsConclusive'
  BY <1>1, <1>2, <1>8, <1>9 DEF HaltIsConclusive
<1>. QED
  BY <1>5, <1>6, <1>7, <1>10 DEF BudgetInv
LEMMA BudgetInit == SchedulerInit => BudgetInv
<1>. SUFFICES ASSUME SchedulerInit PROVE BudgetInv
  OBVIOUS
<1>. USE LimitsArePositive
<1>1. WithinLimits /\ RoomLeft
  BY DEF SchedulerInit, WithinLimits, RoomLeft
<1>2. AttemptsAreDecisions
  BY DEF SchedulerInit, AttemptsAreDecisions, NoVerification
<1>3. HaltIsConclusive
  BY DEF SchedulerInit, HaltIsConclusive
<1>. QED
  BY <1>1, <1>2, <1>3 DEF BudgetInv

LEMMA BudgetStep ==
  ASSUME SchedulerTypeOK, Shape, BudgetInv, [SchedulerNext]_vars
  PROVE  BudgetInv'
<1>. USE LimitsArePositive
<1>1. followups <= MaxImmediateFollowups
  BY DEF BudgetInv, WithinLimits
<1>2. CASE UNCHANGED vars
  BY <1>2 DEF BudgetInv, WithinLimits, RoomLeft, AttemptsAreDecisions, HaltIsConclusive, vars,
     haltVars, spentVars, streakVars, memoryVars, localVars
<1>3. CASE Play \/ LoadGame
  <2>1. /\ UNCHANGED <<pc, haltVars, spentVars, streakVars, followups, attempts, verification>>
        /\ outcome' = outcome
    BY <1>3 DEF Play, LoadGame, memoryVars, localVars
  <2>. QED
    BY <2>1 DEF BudgetInv, WithinLimits, RoomLeft, AttemptsAreDecisions, HaltIsConclusive,
       haltVars, spentVars, streakVars
<1>4. CASE Observe
  <2>1. pc' # "settle"
    BY <1>4 DEF Observe
  <2>2. SameSpending /\ UNCHANGED haltVars /\ ~halted
    BY <1>4, <2>1 DEF Observe, SameSpending, spentVars, streakVars
  <2>3. /\ followups' = followups \/ followups' = 0
        /\ attempts' = attempts \/ attempts' = [p \in Problems |-> 0]
        /\ verification' = verification \/ verification' = NoVerification
    BY <1>4 DEF Observe
  <2>4. \A p \in Problems : attempts'[p] = attempts[p] \/ attempts'[p] = 0
    BY <2>3
  <2>5. followups' <= MaxImmediateFollowups
    BY <1>1, <2>3
  <2>. QED
    BY <2>2, <2>3, <2>4, <2>5, BudgetWhileWaiting
<1>5. CASE \/ NothingToVerify \/ VerificationWait \/ RequestRecovery
           \/ SelectRecovery \/ SelectPending \/ SelectObserved \/ NothingSelected
           \/ WaitForCooldown \/ BeginDecision
  <2>1. SameSpending
    BY <1>5 DEF NothingToVerify, VerificationWait, RequestRecovery, SelectRecovery,
       SelectPending, SelectObserved, NothingSelected, WaitForCooldown, BeginDecision, Select,
       Return, SameSpending, spentVars, streakVars
  <2>2. UNCHANGED haltVars /\ ~halted
    BY <1>5 DEF NothingToVerify, VerificationWait, RequestRecovery, SelectRecovery,
       SelectPending, SelectObserved, NothingSelected, WaitForCooldown, BeginDecision, Select,
       Shape
  <2>3. /\ attempts' = attempts
        /\ verification' = verification \/ verification' = NoVerification
    BY <1>5 DEF NothingToVerify, VerificationWait, RequestRecovery, SelectRecovery,
       SelectPending, SelectObserved, NothingSelected, WaitForCooldown, BeginDecision, Select,
       memoryVars
  <2>4. followups' = followups \/ followups' = 0 \/ BeginDecision
    BY <1>5 DEF NothingToVerify, VerificationWait, RequestRecovery, SelectRecovery,
       SelectPending, SelectObserved, NothingSelected, WaitForCooldown, Select
  <2>5. CASE BeginDecision
    <3>1. ~(immediate /\ followups >= MaxImmediateFollowups)
      BY <2>5 DEF BeginDecision, AdmissionLimit
    <3>. QED
      BY <2>1, <2>2, <2>3, <2>5, <3>1, BudgetWhileWaiting DEF BeginDecision, SchedulerTypeOK
  <2>6. CASE followups' = followups \/ followups' = 0
    BY <1>1, <2>1, <2>2, <2>3, <2>6, BudgetWhileWaiting
  <2>. QED
    BY <2>4, <2>5, <2>6
<1>6. CASE VerificationResolved
  <2>1. SameSpending /\ UNCHANGED haltVars /\ ~halted
    BY <1>6 DEF VerificationResolved, Return, SameSpending, spentVars, streakVars, Shape
  <2>2. \A p \in Problems : attempts'[p] = attempts[p] \/ attempts'[p] = 0
    BY <1>6 DEF VerificationResolved, SchedulerTypeOK
  <2>. QED
    BY <1>6, <2>1, <2>2, BudgetWhileWaiting DEF VerificationResolved
<1>7. CASE RepeatedNoProgress
  <2>1. SameSpending /\ ~halted
    BY <1>7 DEF RepeatedNoProgress, Return, SameSpending, spentVars, streakVars, Shape
  <2>2. decisions >= MaxProblemAttempts
    BY <1>7 DEF RepeatedNoProgress, BudgetInv, AttemptsAreDecisions, SchedulerTypeOK,
       Verifications
  <2>3. /\ Halt("repeated_no_progress") /\ verification' = NoVerification
        /\ UNCHANGED <<followups, attempts>> /\ "repeated_no_progress" \in Reasons
    BY <1>7 DEF RepeatedNoProgress, Reasons
  <2>. QED
    BY <2>1, <2>2, <2>3, BudgetAtHalt
<1>8. CASE RefuseDecision
  <2>1. SameSpending /\ ~halted
    BY <1>8 DEF RefuseDecision, Return, SameSpending, spentVars, streakVars, Shape
  <2>2. /\ Halt(AdmissionLimit) /\ verification' = verification
        /\ UNCHANGED <<followups, attempts>>
    BY <1>8 DEF RefuseDecision, memoryVars
  <2>3. /\ AdmissionLimit \in Reasons
        /\ \/ AdmissionLimit = "session_decision_limit" /\ decisions >= MaxDecisions
           \/ /\ AdmissionLimit = "session_model_request_limit"
              /\ modelRequests >= MaxSessionModelRequests
           \/ /\ AdmissionLimit = "immediate_followup_limit"
              /\ followups >= MaxImmediateFollowups
    BY <1>8 DEF RefuseDecision, AdmissionLimit, Reasons
  <2>. QED
    BY <2>1, <2>2, <2>3, BudgetAtHalt
<1>. QED
  BY Zenon, <1>2, <1>3, <1>4, <1>5, <1>6, <1>7, <1>8, BudgetEndDecision, BudgetOutcomeHalts,
     BudgetDecisionSettled DEF SchedulerNext, Step
-----------------------------------------------------------------------------
(* The order of decisions *)

LEMMA OrderInit == SchedulerInit => OrderInv
BY DEF SchedulerInit, OrderInv, GraceInv, NothingWaits, EndRecorded, CooldownPassed

(* Back to observing, with the recorded end of the last decision as it was. *)
LEMMA OrderAtRest ==
  ASSUME Shape, OrderInv, pc' = "observe",
         UNCHANGED <<lastDecisionTick, endedAt, recovery>>,
         halted' \/ ~((pc \in {"admit", "decide"} /\ immediate)
                        \/ (pc = "settle" /\ ~outcome.success)),
         halted => halted'
  PROVE  OrderInv'
BY DEF OrderInv, GraceInv, NothingWaits, EndRecorded, CooldownPassed, Present

LEMMA OrderStep ==
  ASSUME SchedulerTypeOK, Shape, OrderInv, [SchedulerNext]_vars
  PROVE  OrderInv'
<1>. USE ProblemNames, LimitsArePositive
<1>1. CASE Play \/ LoadGame \/ UNCHANGED vars
  <2>1. UNCHANGED <<pc, verification, pending, recovery, selected, immediate, halted,
                    lastDecisionTick, endedAt, outcome, observed>>
    BY <1>1 DEF Play, LoadGame, vars, haltVars, memoryVars, localVars
  <2>. QED
    BY <2>1 DEF OrderInv, GraceInv, NothingWaits, EndRecorded, CooldownPassed, IsUrgent, Present
<1>2. CASE Observe
  <2>1. PICK p \in Problems \cup {NoProblem} :
          IF p \in Urgent /\ (ScopeChanged \/ p # lastHandled)
          THEN pc' = "admit" /\ selected' = At(p)
          ELSE pc' = "verify" /\ selected' = NoTrigger
    BY Zenon, <1>2 DEF Observe
  <2>2. pc' = "verify" \/ (pc' = "admit" /\ IsUrgent(selected)')
    BY <2>1 DEF At, IsUrgent
  <2>3. lastDecisionTick' = endedAt' \/ Present(recovery)'
    <3>1. CASE ScopeChanged
      BY <1>2, <3>1 DEF Observe
    <3>2. CASE ~ScopeChanged
      BY <1>2, <3>2 DEF Observe, OrderInv, EndRecorded, Present
    <3>. QED
      BY <3>1, <3>2
  <2>. QED
    BY <2>2, <2>3 DEF OrderInv, GraceInv, NothingWaits, EndRecorded, CooldownPassed
<1>3. CASE NothingToVerify
  <2>1. /\ pc = "verify" /\ pc' = "select"
        /\ ~Present(verification) \/ IsUrgent(pending)
        /\ UNCHANGED <<verification, pending, recovery, halted, lastDecisionTick, endedAt>>
    BY <1>3 DEF NothingToVerify, Verifying, haltVars, memoryVars
  <2>. QED
    BY <2>1 DEF OrderInv, GraceInv, NothingWaits, EndRecorded, CooldownPassed, IsUrgent, Present
<1>4. CASE VerificationResolved \/ VerificationWait \/ RepeatedNoProgress
  <2>1. /\ pc = "verify" /\ pc' = "observe" /\ ~halted
        /\ UNCHANGED <<recovery, lastDecisionTick, endedAt>>
    BY <1>4 DEF VerificationResolved, VerificationWait, RepeatedNoProgress, Return, Shape
  <2>. QED
    BY <2>1, OrderAtRest
<1>5. CASE RequestRecovery
  <2>1. pc' = "select" /\ ~Present(verification)' /\ Present(recovery)'
    BY <1>5 DEF RequestRecovery, Verifying, Present, NoVerification
  <2>. QED
    BY <2>1 DEF OrderInv, GraceInv, NothingWaits, EndRecorded, CooldownPassed
<1>6. CASE SelectRecovery \/ SelectPending \/ SelectObserved
  <2>1. /\ pc = "select" /\ pc' = "admit" /\ ~halted
        /\ UNCHANGED <<verification, lastDecisionTick, endedAt>>
    BY <1>6 DEF SelectRecovery, SelectPending, SelectObserved, Select, Shape
  <2>2. ~Present(verification) \/ IsUrgent(pending)
    BY <2>1 DEF OrderInv, GraceInv
  <2>3. lastDecisionTick = endedAt \/ Present(recovery)
    BY <2>1 DEF OrderInv, EndRecorded
  <2>4. CASE SelectRecovery
    <3>1. immediate' /\ ~Present(verification)'
      BY <2>1, <2>2, <2>4 DEF SelectRecovery, Select, Present
    <3>. QED
      BY <2>1, <3>1 DEF OrderInv, GraceInv, NothingWaits, EndRecorded, CooldownPassed
  <2>5. CASE SelectPending
    <3>1. /\ selected' = pending /\ ~Present(pending)' /\ recovery' = recovery
          /\ IsUrgent(pending) \/ ~Present(recovery)
      BY <2>5 DEF SelectPending, Select, Present, NoTrigger
    <3>. QED
      BY <2>1, <2>2, <2>3, <3>1 DEF OrderInv, GraceInv, NothingWaits, EndRecorded,
         CooldownPassed, IsUrgent, Present
  <2>6. CASE SelectObserved
    <3>1. ~Present(pending) /\ ~Present(recovery) /\ UNCHANGED <<pending, recovery>>
      BY <2>6 DEF SelectObserved
    <3>2. ~Present(verification)
      BY <2>2, <3>1 DEF IsUrgent, Present
    <3>. QED
      BY <2>1, <2>3, <3>1, <3>2 DEF OrderInv, GraceInv, NothingWaits, EndRecorded,
         CooldownPassed, Present
  <2>. QED
    BY <1>6, <2>4, <2>5, <2>6
<1>7. CASE NothingSelected
  <2>1. /\ pc = "select" /\ pc' = "observe" /\ ~halted
        /\ UNCHANGED <<recovery, lastDecisionTick, endedAt>>
    BY <1>7 DEF NothingSelected, Return, Shape, memoryVars
  <2>. QED
    BY <2>1, OrderAtRest
<1>8. CASE RefuseDecision \/ OutcomeHalts
  <2>1. /\ pc' = "observe" /\ halted'
        /\ UNCHANGED <<recovery, lastDecisionTick, endedAt>>
    BY <1>8 DEF RefuseDecision, OutcomeHalts, Halt, Return, memoryVars
  <2>. QED
    BY <2>1, OrderAtRest
<1>9. CASE WaitForCooldown
  <2>1. /\ pc = "admit" /\ ~immediate /\ pc' = "observe" /\ ~halted
        /\ UNCHANGED <<recovery, lastDecisionTick, endedAt>>
    BY <1>9 DEF WaitForCooldown, CooldownActive, Return, Shape
  <2>. QED
    BY <2>1, OrderAtRest
<1>10. CASE BeginDecision
  <2>1. /\ pc = "admit" /\ pc' = "decide" /\ ~CooldownActive
        /\ UNCHANGED <<verification, recovery, selected, immediate, observed, halted,
                       lastDecisionTick, endedAt>>
    BY <1>10 DEF BeginDecision, haltVars, memoryVars, localVars
  <2>2. CooldownPassed'
    BY <2>1 DEF CooldownActive, CooldownPassed, IsUrgent, SchedulerTypeOK, MaybeTriggers
  <2>. QED
    BY <2>1, <2>2 DEF OrderInv, GraceInv, NothingWaits, EndRecorded, IsUrgent, Present
<1>11. CASE EndDecision
  <2>1. pc' = "settle" /\ endedAt' = tick
    BY <1>11 DEF EndDecision
  <2>2. outcome'.success => lastDecisionTick' = tick
    BY Zenon, <1>11, EndOfDecision
  <2>. QED
    BY <2>1, <2>2 DEF OrderInv, GraceInv, NothingWaits, EndRecorded, CooldownPassed
<1>12. CASE DecisionFailed
  <2>1. pc' = "observe" /\ Present(recovery)'
    BY <1>12 DEF DecisionFailed, Return, Shape, Present
  <2>. QED
    BY <2>1 DEF OrderInv, GraceInv, NothingWaits, EndRecorded, CooldownPassed
<1>13. CASE Decided \/ AwaitProgress
  <2>1. /\ pc = "settle" /\ outcome.success /\ pc' = "observe" /\ ~halted
        /\ UNCHANGED <<recovery, lastDecisionTick, endedAt>>
    BY <1>13 DEF Decided, AwaitProgress, Return, Shape
  <2>. QED
    BY <2>1, OrderAtRest
<1>. QED
  BY Zenon, <1>1, <1>2, <1>3, <1>4, <1>5, <1>6, <1>7, <1>8, <1>9, <1>10, <1>11, <1>12, <1>13
  DEF SchedulerNext, Step

-----------------------------------------------------------------------------
(* Theorems *)

LEMMA InvariantHolds == SchedulerSpec => []SchedulerInv
<1>1. SchedulerInit => SchedulerInv
  <2>1. SchedulerInit => Shape
    BY DEF SchedulerInit, Shape, None
  <2>. QED
    BY <2>1, TypeInit, BudgetInit, OrderInit DEF SchedulerInv
<1>2. SchedulerInv /\ [SchedulerNext]_vars => SchedulerInv'
  BY TypeStep, ShapeStep, BudgetStep, OrderStep DEF SchedulerInv
<1>. QED
  BY <1>1, <1>2, PTL DEF SchedulerSpec

(* Every variable of step, of the observer and of the game keeps its type.  *)
THEOREM SchedulerTypeCorrect == SchedulerSpec => []SchedulerTypeOK
<1>1. SchedulerInv => SchedulerTypeOK
  BY DEF SchedulerInv
<1>. QED
  BY <1>1, InvariantHolds, PTL

(* No budget of the session is ever exceeded, whatever a decision costs and *)
(* however observations, failures, recoveries and reloaded saves alternate. *)
THEOREM LimitsHold == SchedulerSpec => []WithinLimits
<1>1. SchedulerInv => WithinLimits
  BY DEF SchedulerInv, BudgetInv
<1>. QED
  BY <1>1, InvariantHolds, PTL

(* The scheduler pauses the game once, when it halts, and its reason is the *)
(* limit that was reached.                                                  *)
THEOREM HaltsAreConclusive == SchedulerSpec => []HaltIsConclusive
<1>1. SchedulerInv => HaltIsConclusive
  BY DEF SchedulerInv, BudgetInv
<1>. QED
  BY <1>1, InvariantHolds, PTL

(* No decision begins with the calculable spend at its limit.               *)
THEOREM SpendIsGuarded == SchedulerSpec => []SpendGuard
<1>1. SchedulerInv => SpendGuard
  BY DEF SchedulerInv, Shape, BudgetInv, RoomLeft, SpendGuard
<1>. QED
  BY <1>1, InvariantHolds, PTL

(* While a grace period is open no decision for a normal problem runs.      *)
THEOREM GraceIsObservationOnly == SchedulerSpec => []ObservationOnlyGrace
<1>1. SchedulerInv => ObservationOnlyGrace
  BY DEF SchedulerInv, OrderInv, GraceInv, ObservationOnlyGrace
<1>. QED
  BY <1>1, InvariantHolds, PTL

(* The cooldown counts from the real end of the last decision, also when    *)
(* that decision recorded an older tick.                                    *)
THEOREM CooldownHolds == SchedulerSpec => []CooldownRespected
<1>1. ASSUME SchedulerInv PROVE CooldownRespected
  <2>. SUFFICES ASSUME pc = "decide", ~immediate, ~IsUrgent(selected), endedAt # None,
                       observed.at >= endedAt
                PROVE  observed.at - endedAt >= CooldownTicks
    BY DEF CooldownRespected
  <2>1. ~halted /\ ~Present(recovery)
    BY <1>1 DEF SchedulerInv, Shape, OrderInv, NothingWaits
  <2>2. lastDecisionTick = endedAt
    BY <1>1, <2>1 DEF SchedulerInv, OrderInv, EndRecorded
  <2>. QED
    BY <1>1, <2>2 DEF SchedulerInv, OrderInv, CooldownPassed
<1>. QED
  BY <1>1, InvariantHolds, PTL

(* A pending trigger leaves its slot only to be selected or because the     *)
(* colony or map changed.                                                   *)
THEOREM PendingTriggersAreKept == SchedulerSpec => PendingIsNotLost
<1>. DEFINE Kept == Present(pending) /\ pending' # pending => selected' = pending \/ ScopeChanged
<1>1. ASSUME SchedulerInv, [SchedulerNext]_vars PROVE Kept
  <2>. SUFFICES ASSUME Present(pending), pending' # pending
                PROVE  selected' = pending \/ ScopeChanged
    OBVIOUS
  <2>1. CASE Observe
    BY <2>1 DEF Observe
  <2>2. CASE SelectPending
    BY <2>2 DEF SelectPending, Select
  <2>3. CASE WaitForCooldown
    <3>1. pc = "admit" /\ ~immediate /\ ~IsUrgent(selected)
      BY <2>3 DEF WaitForCooldown, CooldownActive
    <3>. QED
      BY <1>1, <3>1 DEF SchedulerInv, OrderInv, NothingWaits
  <2>4. CASE \/ VerificationResolved \/ VerificationWait
             \/ DecisionFailed \/ Decided \/ AwaitProgress
    BY <2>4 DEF VerificationResolved, VerificationWait, DecisionFailed, Decided, AwaitProgress,
       Retained
  <2>5. CASE \/ Play \/ LoadGame \/ UNCHANGED vars
             \/ NothingToVerify \/ RepeatedNoProgress \/ RequestRecovery
             \/ SelectRecovery \/ SelectObserved \/ NothingSelected
             \/ RefuseDecision \/ BeginDecision \/ EndDecision \/ OutcomeHalts
    BY <2>5 DEF Play, LoadGame, vars, memoryVars, NothingToVerify, RepeatedNoProgress,
       RequestRecovery, SelectRecovery, SelectObserved, NothingSelected, RefuseDecision,
       BeginDecision, EndDecision, OutcomeHalts
  <2>. QED
    BY Zenon, <1>1, <2>1, <2>2, <2>3, <2>4, <2>5 DEF SchedulerNext, Step
<1>2. SchedulerInv /\ [SchedulerNext]_vars => [Kept]_vars
  BY <1>1
<1>. QED
  BY <1>2, InvariantHolds, PTL DEF SchedulerSpec, PendingIsNotLost
=============================================================================
