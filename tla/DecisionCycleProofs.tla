------------------------ MODULE DecisionCycleProofs ------------------------
(***************************************************************************)
(* The budgets of DecisionCycle hold for any limits, sizes and answers.    *)
(*                                                                         *)
(* None of the properties is inductive.  CycleInv adds what run_once       *)
(* relies on between its steps: a cycle that is still going has no reason  *)
(* to stop (Going); an action round is prepared only with two requests     *)
(* left, and a compaction leaves two (TwoLeft); what was offered last is   *)
(* reflected in the headroom flags (LastOffer); a continuation was fitted  *)
(* (Fitted); the round index trails the request count (RoundsCounted); and *)
(* the handoff belongs to the last answer (HandoffOfAnswer).               *)
(***************************************************************************)
EXTENDS DecisionCycle, TLAPS

Busy == {"request", "compacted", "answer", "fit"}

Going ==
  phase \in Busy \cup {"context"} =>
    /\ reason = "none"
    /\ handoff = "none"

TwoLeft ==
  /\ phase = "compacted" => requests + 2 <= MaxModelRequests
  /\ actionOnly =>
       /\ ~finishOnly
       /\ phase \notin {"answer", "fit", "context"}
       /\ phase \in {"request", "compacted"} => requests + 2 <= MaxModelRequests

LastOffer ==
  /\ phase = "context" => mode = "none"
  /\ phase \in {"answer", "fit"} => mode # "none"
  /\ phase \in Busy =>
       (mode = "context-action-only" \/ Offers(mode) = {"finish"} =>
          finishOnly \/ requests = MaxModelRequests)

BurstOnce ==
  /\ burst = "used" => oversized <= 1
  /\ burst # "used" => oversized = 0

Fitted ==
  phase = "request" /\ mode # "none" =>
    \/ finishOnly
    \/ estimate <= Target
    \/ actionOnly /\ burst = "pending" /\ estimate <= BurstLimit

RoundsCounted == phase \in Busy /\ mode # "none" => round + 1 <= requests

HandoffOfAnswer ==
  phase = "ending" /\ reason = "none" =>
    \/ handoff = "none" /\ Calls = 0
    \/ handoff = "structured" /\ Calls = 1 /\ answer.finish = 1

CommittedIsDone == committed => phase = "idle"

CycleInv ==
  /\ CycleTypeOK
  /\ WithinBudgets
  /\ Going
  /\ TwoLeft
  /\ LastOffer
  /\ FinalSlotIsFinish
  /\ BurstOnce
  /\ OneOversizedRequest
  /\ Fitted
  /\ RoundsCounted
  /\ AnswersAreHandled
  /\ HandoffOfAnswer
  /\ CommittedIsDone
  /\ CommitIsClean

-----------------------------------------------------------------------------
(* What the tool modes offer                                               *)

FinishModes == {"finalization-only", "context-finalization-only"}

LEMMA OfferedTools ==
  /\ \A m \in Modes : Offers(m) = {"finish"} <=> m \in FinishModes
  /\ \A m \in FinishModes : "write" \notin Offers(m)
<1>1. \A m \in Modes : Offers(m) = {"finish"} <=> m \in FinishModes
  <2> SUFFICES ASSUME NEW m \in Modes
               PROVE  Offers(m) = {"finish"} <=> m \in FinishModes
    OBVIOUS
  <2>1. CASE m = "none"
    BY <2>1, Zenon DEF Offers, FinishModes
  <2>2. CASE m = "normal"
    BY <2>2 DEF Offers, FinishModes
  <2>3. CASE m \in {"immediate-work", "context-action-only"}
    BY <2>3 DEF Offers, FinishModes
  <2>4. CASE m \in FinishModes
    BY <2>4 DEF Offers, FinishModes
  <2> QED
    BY <2>1, <2>2, <2>3, <2>4 DEF Modes, FinishModes
<1>2. \A m \in FinishModes : "write" \notin Offers(m)
  BY DEF Offers, FinishModes
<1> QED
  BY <1>1, <1>2

LEMMA RequestModeType == RequestMode \in Modes \ {"none"}
BY DEF RequestMode, Modes

-----------------------------------------------------------------------------
(* Type correctness                                                        *)

LEMMA NoAnswerType == NoAnswer \in Answers
<1>1. 0 \in 0..MaxBatch /\ 0 \in 0..1
  BY CycleAssumption
<1> QED
  BY <1>1 DEF NoAnswer, Answers

LEMMA CallTypes ==
  CycleTypeOK => Calls \in Nat /\ Reads \in Nat /\ Writes \in Nat
                 /\ answer.finish \in Nat
BY CycleAssumption DEF CycleTypeOK, Answers, Calls, Reads, Writes

LEMMA TypeInit == Init => CycleTypeOK
<1> SUFFICES ASSUME Init
             PROVE  CycleTypeOK
  OBVIOUS
<1>1. answer \in Answers
  BY NoAnswerType DEF Init
<1>2. /\ actionOnly \in BOOLEAN /\ finishOnly \in BOOLEAN /\ critical \in BOOLEAN
      /\ uncertain \in BOOLEAN /\ committed \in BOOLEAN
  BY DEF Init
<1> QED
  BY <1>1, <1>2 DEF Init, CycleTypeOK, Phases, Modes, Reasons

LEMMA TypeNext == CycleTypeOK /\ [Next]_vars => CycleTypeOK'
<1> SUFFICES ASSUME CycleTypeOK, [Next]_vars
             PROVE  CycleTypeOK'
  OBVIOUS
<1> USE DEF budget, headroomVars, batchVars, endVars
<1>1. CASE BeginCycle
  BY <1>1, NoAnswerType DEF BeginCycle, CycleTypeOK, Phases, Modes, Reasons
<1>2. CASE BuildContext \/ NoContext
  BY <1>2 DEF BuildContext, NoContext, CycleTypeOK, Phases, Reasons
<1>3. CASE RequestModel
  <2>1. CASE RefuseRequest \/ EnforceContextLimit
    BY <2>1 DEF RefuseRequest, EnforceContextLimit, Stop, CycleTypeOK, Phases, Reasons
  <2>2. CASE CompactSucceeds
    BY <2>2 DEF CompactSucceeds, Compact, CycleTypeOK, Phases
  <2>3. CASE CompactFails
    BY <2>3 DEF CompactFails, Compact, CycleTypeOK, Phases
  <2>4. CASE Answered
    BY <2>4, RequestModeType DEF Answered, Send, CycleTypeOK, Phases
  <2>5. CASE RequestFails
    BY <2>5, RequestModeType DEF RequestFails, Send, Stop, CycleTypeOK, Phases, Reasons
  <2> QED
    BY <1>3, <2>1, <2>2, <2>3, <2>4, <2>5 DEF RequestModel
<1>4. CASE HandleAnswer
  <2>1. CASE RoundLimit \/ FinalText \/ TooManyCalls
    <3>1. uncertain' \in BOOLEAN
      BY <2>1, Zenon DEF RoundLimit, FinalText, TooManyCalls, Reconcile, CycleTypeOK
    <3> QED
      BY <2>1, <3>1 DEF RoundLimit, FinalText, TooManyCalls, Stop, InRounds,
                        CycleTypeOK, Phases, Reasons
  <2>2. CASE MixedFinish
    BY <2>2, CallTypes
    DEF MixedFinish, CallsAdmitted, InRounds, Stop, CycleTypeOK, Phases, Reasons
  <2>3. ASSUME NEW valid \in Nat, NEW failed \in Nat, Batch(valid, failed)
        PROVE  CycleTypeOK' \/ phase' \notin Phases
               \/ handoff' \notin {"none", "structured", "fallback"}
    <3>1. uncertain' \in BOOLEAN /\ critical' \in BOOLEAN
      BY <2>3 DEF Batch
    <3>2. writes' \in Nat
      BY <2>3, CallTypes, CycleAssumption DEF Batch, CycleTypeOK
    <3> QED
      BY <2>3, <3>1, <3>2, CallTypes
      DEF Batch, CallsAdmitted, InRounds, CycleTypeOK, Phases, Reasons
  <2>4. CASE ToolRound
    <3>1. Reads + Writes + answer.finish \in Nat /\ Writes \in Nat
      BY CallTypes
    <3>2. PICK valid \in Nat, failed \in Nat : Batch(valid, failed)
      BY <2>4, <3>1 DEF ToolRound
    <3> QED
      BY <2>3, <2>4, <3>2 DEF ToolRound, CycleTypeOK, Phases
  <2>5. CASE FinishDecision
    BY <2>3, <2>5 DEF FinishDecision, Phases
  <2> QED
    BY <1>4, <2>1, <2>2, <2>4, <2>5 DEF HandleAnswer
<1>5. CASE FitContinuation
  BY <1>5 DEF FitContinuation, FitFinalization, FitTarget, FitActionRound, FitBurst,
              FitForcedFinish, Fit, CycleTypeOK, Phases
<1>6. CASE CommitDecision \/ CommitFails \/ EndUnsettled \/ RoundsFail
  <2>1. CASE CommitDecision
    <3>1. committed' \in BOOLEAN
      BY <2>1 DEF CommitDecision
    <3> QED
      BY <2>1, <3>1 DEF CommitDecision, CycleTypeOK, Phases
  <2>2. CASE CommitFails \/ EndUnsettled \/ RoundsFail
    BY <2>2 DEF CommitFails, EndUnsettled, RoundsFail, CycleTypeOK, Phases, Reasons
  <2> QED
    BY <1>6, <2>1, <2>2
<1>7. CASE UNCHANGED vars
  BY <1>7 DEF vars, CycleTypeOK
<1> QED
  BY <1>1, <1>2, <1>3, <1>4, <1>5, <1>6, <1>7 DEF Next, RunOnce

\* Every variable keeps a value of its kind, whatever the limits.
THEOREM CycleTypeCorrect == Spec => []CycleTypeOK
BY TypeInit, TypeNext, PTL DEF Spec

-----------------------------------------------------------------------------
(* The invariant                                                           *)

LEMMA InvInit == Init => CycleInv
<1> SUFFICES ASSUME Init
             PROVE  CycleInv
  OBVIOUS
<1>1. CycleTypeOK
  BY TypeInit
<1>2. FinalSlotIsFinish
  BY CycleAssumption DEF Init, FinalSlotIsFinish
<1>3. AnswersAreHandled /\ CommitIsClean
  BY DEF Init, AnswersAreHandled, CommitIsClean
<1>4. WithinBudgets
  BY CycleAssumption DEF Init, WithinBudgets
<1> QED
  BY <1>1, <1>2, <1>3, <1>4
  DEF Init, CycleInv, Going, TwoLeft, LastOffer, BurstOnce, OneOversizedRequest,
      Fitted, RoundsCounted, HandoffOfAnswer, CommittedIsDone, Busy

USE DEF budget, headroomVars, batchVars, endVars

\* A request is sent below the cap, or after a compaction that left two; a batch
\* stays below the call limit and is cut at the write limit.
LEMMA WithinBudgetsKept == CycleInv /\ [Next]_vars => WithinBudgets'
<1> SUFFICES ASSUME CycleInv, [Next]_vars
             PROVE  WithinBudgets'
  OBVIOUS
<1>1. CASE \/ CompactSucceeds \/ CompactFails
  BY <1>1, CycleAssumption, CallTypes
  DEF CycleInv, WithinBudgets, CycleTypeOK, TwoLeft, Refused, CompactSucceeds,
      Compact, CompactionDue, CompactFails
<1>2. CASE \/ Answered \/ RequestFails
  BY <1>2, CycleAssumption, CallTypes
  DEF CycleInv, WithinBudgets, CycleTypeOK, TwoLeft, Refused, Answered, Send,
      Measured, HardLimit, BurstRequest, RequestMode, RequestFails, Stop
<1>3. CASE MixedFinish
  BY <1>3, CycleAssumption, CallTypes
  DEF CycleInv, WithinBudgets, CycleTypeOK, TwoLeft, Refused, MixedFinish,
      CallsAdmitted, InRounds, Stop
<1>4. CASE ToolRound
  BY <1>4, CycleAssumption, CallTypes
  DEF CycleInv, WithinBudgets, CycleTypeOK, TwoLeft, Refused, ToolRound, Batch,
      CallsAdmitted, InRounds
<1>5. CASE FinishDecision
  BY <1>5, CycleAssumption, CallTypes
  DEF CycleInv, WithinBudgets, CycleTypeOK, TwoLeft, Refused, FinishDecision,
      Batch, CallsAdmitted, InRounds
<1>6. CASE \/ BeginCycle \/ BuildContext \/ NoContext \/ RefuseRequest
           \/ EnforceContextLimit \/ RoundLimit \/ FinalText \/ TooManyCalls
           \/ FitFinalization \/ FitTarget \/ FitActionRound \/ FitBurst
           \/ FitForcedFinish \/ CommitDecision \/ CommitFails \/ EndUnsettled \/ RoundsFail
           \/ UNCHANGED vars
  BY <1>6, CycleAssumption, CallTypes
  DEF CycleInv, WithinBudgets, CycleTypeOK, TwoLeft, Refused, BeginCycle,
      BuildContext, NoContext, RefuseRequest, Stop, EnforceContextLimit,
      Measured, RoundLimit, FinalText, InRounds, TooManyCalls, FitFinalization,
      Fit, FitTarget, FitActionRound, FitBurst, BurstEligible, FitForcedFinish,
      CommitDecision, Settled, CommitFails, EndUnsettled, RoundsFail, vars
<1> QED
  BY <1>1, <1>2, <1>3, <1>4, <1>5, <1>6
  DEF Next, RunOnce, RequestModel, HandleAnswer, FitContinuation

\* A step that sets a reason or accepts a handoff leaves the busy phases.
LEMMA GoingKept == CycleInv /\ [Next]_vars => Going'
<1> SUFFICES ASSUME CycleInv, [Next]_vars
             PROVE  Going'
  OBVIOUS
<1>1. CASE \/ BeginCycle \/ BuildContext \/ NoContext \/ RefuseRequest
           \/ CompactSucceeds \/ CompactFails \/ EnforceContextLimit
           \/ Answered \/ RequestFails \/ RoundLimit \/ FinalText
           \/ TooManyCalls \/ MixedFinish \/ ToolRound \/ FinishDecision
           \/ FitFinalization \/ FitTarget \/ FitActionRound \/ FitBurst
           \/ FitForcedFinish \/ CommitDecision \/ CommitFails \/ EndUnsettled \/ RoundsFail
           \/ UNCHANGED vars
  BY <1>1
  DEF CycleInv, Going, Busy, BeginCycle, BuildContext, NoContext,
      RefuseRequest, Stop, CompactSucceeds, Compact, CompactionDue,
      CompactFails, EnforceContextLimit, Measured, Answered, Send, HardLimit,
      BurstRequest, RequestMode, RequestFails, RoundLimit, FinalText, InRounds,
      TooManyCalls, MixedFinish, CallsAdmitted, ToolRound, Batch,
      FinishDecision, FitFinalization, Fit, FitTarget, FitActionRound,
      FitBurst, BurstEligible, FitForcedFinish, CommitDecision, Settled,
      CommitFails, EndUnsettled, RoundsFail, vars
<1> QED
  BY <1>1
  DEF Next, RunOnce, RequestModel, HandleAnswer, FitContinuation

\* Compaction and action rounds test for two requests; an answer ends the action
\* round that it belongs to.
LEMMA TwoLeftKept == CycleInv /\ [Next]_vars => TwoLeft'
<1> SUFFICES ASSUME CycleInv, [Next]_vars
             PROVE  TwoLeft'
  OBVIOUS
<1>1. CASE \/ CompactSucceeds \/ CompactFails
  BY <1>1, CycleAssumption
  DEF CycleInv, TwoLeft, CycleTypeOK, LastOffer, Busy, CompactSucceeds,
      Compact, CompactionDue, CompactFails
<1>2. CASE Answered
  BY <1>2, CycleAssumption
  DEF CycleInv, TwoLeft, CycleTypeOK, LastOffer, Busy, Answered, Send,
      Measured, HardLimit, BurstRequest, RequestMode
<1>3. CASE \/ FitActionRound \/ FitBurst
  BY <1>3, CycleAssumption
  DEF CycleInv, TwoLeft, CycleTypeOK, LastOffer, Busy, FitActionRound, Fit,
      FitBurst, BurstEligible
<1>4. CASE \/ FitFinalization \/ FitTarget
  BY <1>4, CycleAssumption
  DEF CycleInv, TwoLeft, CycleTypeOK, LastOffer, Busy, FitFinalization, Fit,
      FitTarget
<1>5. CASE FitForcedFinish
  BY <1>5, CycleAssumption
  DEF CycleInv, TwoLeft, CycleTypeOK, LastOffer, Busy, FitForcedFinish, Fit
<1>6. CASE ToolRound
  BY <1>6, CycleAssumption
  DEF CycleInv, TwoLeft, CycleTypeOK, LastOffer, Busy, ToolRound, Batch,
      CallsAdmitted, InRounds
<1>7. CASE FinishDecision
  BY <1>7, CycleAssumption
  DEF CycleInv, TwoLeft, CycleTypeOK, LastOffer, Busy, FinishDecision, Batch,
      CallsAdmitted, InRounds
<1>8. CASE \/ BeginCycle \/ BuildContext \/ NoContext \/ RefuseRequest
           \/ EnforceContextLimit \/ RequestFails \/ RoundLimit
  BY <1>8, CycleAssumption
  DEF CycleInv, TwoLeft, CycleTypeOK, LastOffer, Busy, BeginCycle,
      BuildContext, NoContext, RefuseRequest, Stop, EnforceContextLimit,
      Measured, RequestFails, Send, HardLimit, BurstRequest, RequestMode,
      RoundLimit
<1>9. CASE \/ FinalText \/ TooManyCalls \/ MixedFinish \/ CommitDecision
           \/ CommitFails \/ EndUnsettled \/ RoundsFail \/ UNCHANGED vars
  BY <1>9, CycleAssumption
  DEF CycleInv, TwoLeft, CycleTypeOK, LastOffer, Busy, FinalText, InRounds,
      TooManyCalls, Stop, MixedFinish, CallsAdmitted, CommitDecision, Settled,
      CommitFails, EndUnsettled, RoundsFail, vars
<1> QED
  BY <1>1, <1>2, <1>3, <1>4, <1>5, <1>6, <1>7, <1>8, <1>9
  DEF Next, RunOnce, RequestModel, HandleAnswer, FitContinuation

\* The mode of a request and the flags it leaves agree.
LEMMA LastOfferKept == CycleInv /\ [Next]_vars => LastOffer'
<1> SUFFICES ASSUME CycleInv, [Next]_vars
             PROVE  LastOffer'
  OBVIOUS
<1>1. CASE BuildContext
  BY <1>1, CycleAssumption, OfferedTools, RequestModeType
  DEF CycleInv, LastOffer, TwoLeft, WithinBudgets, CycleTypeOK, FinishModes,
      Busy, BuildContext
<1>2. CASE Answered
  BY <1>2, CycleAssumption, OfferedTools, RequestModeType
  DEF CycleInv, LastOffer, TwoLeft, WithinBudgets, CycleTypeOK, FinishModes,
      Busy, Answered, Send, Measured, HardLimit, BurstRequest, RequestMode
<1>3. CASE \/ BeginCycle \/ NoContext \/ RefuseRequest \/ CompactSucceeds
           \/ CompactFails \/ EnforceContextLimit \/ RequestFails \/ RoundLimit
           \/ FinalText \/ TooManyCalls \/ MixedFinish
  BY <1>3, CycleAssumption, OfferedTools, RequestModeType
  DEF CycleInv, LastOffer, TwoLeft, WithinBudgets, CycleTypeOK, FinishModes,
      Busy, BeginCycle, NoContext, RefuseRequest, Stop, CompactSucceeds,
      Compact, CompactionDue, CompactFails, EnforceContextLimit, Measured,
      RequestFails, Send, HardLimit, BurstRequest, RequestMode, RoundLimit,
      FinalText, InRounds, TooManyCalls, MixedFinish, CallsAdmitted
<1>4. CASE \/ ToolRound \/ FinishDecision \/ FitFinalization \/ FitTarget
           \/ FitActionRound \/ FitBurst \/ FitForcedFinish \/ CommitDecision
           \/ CommitFails \/ EndUnsettled \/ RoundsFail \/ UNCHANGED vars
  BY <1>4, CycleAssumption, OfferedTools, RequestModeType
  DEF CycleInv, LastOffer, TwoLeft, WithinBudgets, CycleTypeOK, FinishModes,
      Busy, ToolRound, Batch, CallsAdmitted, InRounds, FinishDecision,
      FitFinalization, Fit, FitTarget, FitActionRound, FitBurst, BurstEligible,
      FitForcedFinish, CommitDecision, Settled, CommitFails, EndUnsettled, RoundsFail, vars
<1> QED
  BY <1>1, <1>2, <1>3, <1>4
  DEF Next, RunOnce, RequestModel, HandleAnswer, FitContinuation

\* The last slot is sent from a state with one request left, which TwoLeft keeps
\* from being an action round.
LEMMA FinalSlotIsFinishKept == CycleInv /\ [Next]_vars => FinalSlotIsFinish'
<1> SUFFICES ASSUME CycleInv, [Next]_vars
             PROVE  FinalSlotIsFinish'
  OBVIOUS
<1>1. CASE RefuseRequest
  BY <1>1, CycleAssumption, OfferedTools, RequestModeType
  DEF CycleInv, FinalSlotIsFinish, TwoLeft, WithinBudgets, Going, CycleTypeOK,
      FinishModes, Busy, RefuseRequest, Stop
<1>2. CASE \/ CompactSucceeds \/ CompactFails
  BY <1>2, CycleAssumption, OfferedTools, RequestModeType
  DEF CycleInv, FinalSlotIsFinish, TwoLeft, WithinBudgets, Going, CycleTypeOK,
      FinishModes, Busy, CompactSucceeds, Compact, CompactionDue, CompactFails
<1>3. CASE \/ Answered \/ RequestFails
  BY <1>3, CycleAssumption, OfferedTools, RequestModeType
  DEF CycleInv, FinalSlotIsFinish, TwoLeft, WithinBudgets, Going, CycleTypeOK,
      FinishModes, Busy, Answered, Send, Measured, HardLimit, BurstRequest,
      RequestMode, RequestFails, Stop
<1>4. CASE \/ BeginCycle \/ BuildContext \/ NoContext \/ EnforceContextLimit
           \/ RoundLimit \/ FinalText \/ TooManyCalls \/ MixedFinish
           \/ ToolRound \/ FinishDecision \/ FitFinalization \/ FitTarget
           \/ FitActionRound \/ FitBurst \/ FitForcedFinish \/ CommitDecision
           \/ CommitFails \/ EndUnsettled \/ RoundsFail \/ UNCHANGED vars
  BY <1>4, CycleAssumption, OfferedTools, RequestModeType
  DEF CycleInv, FinalSlotIsFinish, TwoLeft, WithinBudgets, Going, CycleTypeOK,
      FinishModes, Busy, BeginCycle, BuildContext, NoContext,
      EnforceContextLimit, Measured, Stop, RoundLimit, FinalText, InRounds,
      TooManyCalls, MixedFinish, CallsAdmitted, ToolRound, Batch,
      FinishDecision, FitFinalization, Fit, FitTarget, FitActionRound,
      FitBurst, BurstEligible, FitForcedFinish, CommitDecision, Settled,
      CommitFails, EndUnsettled, RoundsFail, vars
<1> QED
  BY <1>1, <1>2, <1>3, <1>4
  DEF Next, RunOnce, RequestModel, HandleAnswer, FitContinuation

\* Only a pending burst exceeds the input limit, and it is used up by that.
LEMMA BurstOnceKept == CycleInv /\ [Next]_vars => BurstOnce'
<1> SUFFICES ASSUME CycleInv, [Next]_vars
             PROVE  BurstOnce'
  OBVIOUS
<1>1. CASE \/ Answered \/ RequestFails
  BY <1>1, CycleAssumption
  DEF CycleInv, BurstOnce, Target, CycleTypeOK, OneOversizedRequest, Answered,
      Send, Measured, HardLimit, BurstRequest, RequestMode, RequestFails, Stop
<1>2. CASE FitBurst
  BY <1>2, CycleAssumption
  DEF CycleInv, BurstOnce, Target, CycleTypeOK, OneOversizedRequest, FitBurst,
      Fit, BurstEligible
<1>3. CASE \/ BeginCycle \/ BuildContext \/ NoContext \/ RefuseRequest
           \/ CompactSucceeds \/ CompactFails \/ EnforceContextLimit
           \/ RoundLimit \/ FinalText \/ TooManyCalls \/ MixedFinish
           \/ ToolRound \/ FinishDecision \/ FitFinalization \/ FitTarget
           \/ FitActionRound \/ FitForcedFinish \/ CommitDecision
           \/ CommitFails \/ EndUnsettled \/ RoundsFail \/ UNCHANGED vars
  BY <1>3, CycleAssumption
  DEF CycleInv, BurstOnce, Target, CycleTypeOK, OneOversizedRequest,
      BeginCycle, BuildContext, NoContext, RefuseRequest, Stop,
      CompactSucceeds, Compact, CompactionDue, CompactFails,
      EnforceContextLimit, Measured, RoundLimit, FinalText, InRounds,
      TooManyCalls, MixedFinish, CallsAdmitted, ToolRound, Batch,
      FinishDecision, FitFinalization, Fit, FitTarget, FitActionRound,
      FitForcedFinish, CommitDecision, Settled, CommitFails, EndUnsettled, RoundsFail, vars
<1> QED
  BY <1>1, <1>2, <1>3
  DEF Next, RunOnce, RequestModel, HandleAnswer, FitContinuation

\* The burst is an action round, so two requests are left when it is sent.
LEMMA OneOversizedRequestKept == CycleInv /\ [Next]_vars => OneOversizedRequest'
<1> SUFFICES ASSUME CycleInv, [Next]_vars
             PROVE  OneOversizedRequest'
  OBVIOUS
<1>1. CASE \/ Answered \/ RequestFails
  BY <1>1, CycleAssumption
  DEF CycleInv, OneOversizedRequest, BurstOnce, TwoLeft, CycleTypeOK, Busy,
      Answered, Send, Measured, HardLimit, BurstRequest, RequestMode,
      RequestFails, Stop
<1>2. CASE \/ BeginCycle \/ BuildContext \/ NoContext \/ RefuseRequest
           \/ CompactSucceeds \/ CompactFails \/ EnforceContextLimit
           \/ RoundLimit \/ FinalText \/ TooManyCalls \/ MixedFinish
  BY <1>2, CycleAssumption
  DEF CycleInv, OneOversizedRequest, BurstOnce, TwoLeft, CycleTypeOK, Busy,
      BeginCycle, BuildContext, NoContext, RefuseRequest, Stop,
      CompactSucceeds, Compact, CompactionDue, CompactFails,
      EnforceContextLimit, Measured, RoundLimit, FinalText, InRounds,
      TooManyCalls, MixedFinish, CallsAdmitted
<1>3. CASE \/ ToolRound \/ FinishDecision \/ FitFinalization \/ FitTarget
           \/ FitActionRound \/ FitBurst \/ FitForcedFinish \/ CommitDecision
           \/ CommitFails \/ EndUnsettled \/ RoundsFail \/ UNCHANGED vars
  BY <1>3, CycleAssumption
  DEF CycleInv, OneOversizedRequest, BurstOnce, TwoLeft, CycleTypeOK, Busy,
      ToolRound, Batch, CallsAdmitted, InRounds, FinishDecision,
      FitFinalization, Fit, FitTarget, FitActionRound, FitBurst, BurstEligible,
      FitForcedFinish, CommitDecision, Settled, CommitFails, EndUnsettled, RoundsFail, vars
<1> QED
  BY <1>1, <1>2, <1>3
  DEF Next, RunOnce, RequestModel, HandleAnswer, FitContinuation

\* Every way out of the fitting establishes one of the three cases.
LEMMA FittedKept == CycleInv /\ [Next]_vars => Fitted'
<1> SUFFICES ASSUME CycleInv, [Next]_vars
             PROVE  Fitted'
  OBVIOUS
<1>1. CASE \/ FitFinalization \/ FitTarget \/ FitActionRound \/ FitBurst
           \/ FitForcedFinish
  BY <1>1, CycleAssumption
  DEF CycleInv, Fitted, Target, CycleTypeOK, LastOffer, Busy, FitFinalization,
      Fit, FitTarget, FitActionRound, FitBurst, BurstEligible, FitForcedFinish
<1>2. CASE \/ BeginCycle \/ BuildContext \/ NoContext \/ RefuseRequest
           \/ CompactSucceeds \/ CompactFails \/ EnforceContextLimit
           \/ Answered \/ RequestFails \/ RoundLimit \/ FinalText
           \/ TooManyCalls \/ MixedFinish \/ ToolRound \/ FinishDecision
           \/ CommitDecision \/ CommitFails \/ EndUnsettled \/ RoundsFail \/ UNCHANGED vars
  BY <1>2, CycleAssumption
  DEF CycleInv, Fitted, Target, CycleTypeOK, LastOffer, Busy, BeginCycle,
      BuildContext, NoContext, RefuseRequest, Stop, CompactSucceeds, Compact,
      CompactionDue, CompactFails, EnforceContextLimit, Measured, Answered,
      Send, HardLimit, BurstRequest, RequestMode, RequestFails, RoundLimit,
      FinalText, InRounds, TooManyCalls, MixedFinish, CallsAdmitted, ToolRound,
      Batch, FinishDecision, CommitDecision, Settled, CommitFails,
      EndUnsettled, RoundsFail, vars
<1> QED
  BY <1>1, <1>2
  DEF Next, RunOnce, RequestModel, HandleAnswer, FitContinuation

\* A round begins with a request of its own.
LEMMA RoundsCountedKept == CycleInv /\ [Next]_vars => RoundsCounted'
<1> SUFFICES ASSUME CycleInv, [Next]_vars
             PROVE  RoundsCounted'
  OBVIOUS
<1>1. CASE \/ CompactSucceeds \/ CompactFails
  BY <1>1, CycleAssumption
  DEF CycleInv, RoundsCounted, CycleTypeOK, WithinBudgets, LastOffer, Busy,
      CompactSucceeds, Compact, CompactionDue, CompactFails
<1>2. CASE Answered
  BY <1>2, CycleAssumption
  DEF CycleInv, RoundsCounted, CycleTypeOK, WithinBudgets, LastOffer, Busy,
      Answered, Send, Measured, HardLimit, BurstRequest, RequestMode
<1>3. CASE \/ BeginCycle \/ BuildContext \/ NoContext \/ RefuseRequest
           \/ EnforceContextLimit \/ RequestFails \/ RoundLimit \/ FinalText
           \/ TooManyCalls \/ MixedFinish \/ ToolRound \/ FinishDecision
           \/ FitFinalization \/ FitTarget \/ FitActionRound \/ FitBurst
           \/ FitForcedFinish \/ CommitDecision \/ CommitFails \/ EndUnsettled \/ RoundsFail
           \/ UNCHANGED vars
  BY <1>3, CycleAssumption
  DEF CycleInv, RoundsCounted, CycleTypeOK, WithinBudgets, LastOffer, Busy,
      BeginCycle, BuildContext, NoContext, RefuseRequest, Stop,
      EnforceContextLimit, Measured, RequestFails, Send, HardLimit,
      BurstRequest, RequestMode, RoundLimit, FinalText, InRounds, TooManyCalls,
      MixedFinish, CallsAdmitted, ToolRound, Batch, FinishDecision,
      FitFinalization, Fit, FitTarget, FitActionRound, FitBurst, BurstEligible,
      FitForcedFinish, CommitDecision, Settled, CommitFails, EndUnsettled, RoundsFail, vars
<1> QED
  BY <1>1, <1>2, <1>3
  DEF Next, RunOnce, RequestModel, HandleAnswer, FitContinuation

\* The round limit is met after as many requests and one more.
LEMMA AnswersAreHandledKept == CycleInv /\ [Next]_vars => AnswersAreHandled'
<1> SUFFICES ASSUME CycleInv, [Next]_vars
             PROVE  AnswersAreHandled'
  OBVIOUS
<1>1. CASE RoundLimit
  BY <1>1, CycleAssumption
  DEF CycleInv, AnswersAreHandled, RoundsCounted, WithinBudgets, LastOffer,
      CycleTypeOK, Busy, Options, RoundLimit, Stop
<1>2. CASE \/ BeginCycle \/ BuildContext \/ NoContext \/ RefuseRequest
           \/ CompactSucceeds \/ CompactFails \/ EnforceContextLimit
           \/ Answered \/ RequestFails \/ FinalText \/ TooManyCalls
           \/ MixedFinish \/ ToolRound \/ FinishDecision \/ FitFinalization
           \/ FitTarget \/ FitActionRound \/ FitBurst \/ FitForcedFinish
           \/ CommitDecision \/ CommitFails \/ EndUnsettled \/ RoundsFail \/ UNCHANGED vars
  BY <1>2, CycleAssumption
  DEF CycleInv, AnswersAreHandled, RoundsCounted, WithinBudgets, LastOffer,
      CycleTypeOK, Busy, Options, BeginCycle, BuildContext, NoContext,
      RefuseRequest, Stop, CompactSucceeds, Compact, CompactionDue,
      CompactFails, EnforceContextLimit, Measured, Answered, Send, HardLimit,
      BurstRequest, RequestMode, RequestFails, FinalText, InRounds,
      TooManyCalls, MixedFinish, CallsAdmitted, ToolRound, Batch,
      FinishDecision, FitFinalization, Fit, FitTarget, FitActionRound,
      FitBurst, BurstEligible, FitForcedFinish, CommitDecision, Settled,
      CommitFails, EndUnsettled, RoundsFail, vars
<1> QED
  BY <1>1, <1>2
  DEF Next, RunOnce, RequestModel, HandleAnswer, FitContinuation

\* Only a lone finish_decision or an answer without calls ends the rounds without
\* a reason.
LEMMA HandoffOfAnswerKept == CycleInv /\ [Next]_vars => HandoffOfAnswer'
<1> SUFFICES ASSUME CycleInv, [Next]_vars
             PROVE  HandoffOfAnswer'
  OBVIOUS
<1>1. CASE FinalText
  BY <1>1, CallTypes
  DEF CycleInv, HandoffOfAnswer, Going, CycleTypeOK, Busy, FinalText, InRounds,
      Calls
<1>2. CASE \/ ToolRound \/ FinishDecision
  BY <1>2, CallTypes
  DEF CycleInv, HandoffOfAnswer, Going, CycleTypeOK, Busy, ToolRound, Batch,
      CallsAdmitted, InRounds, FinishDecision, Calls
<1>3. CASE \/ BeginCycle \/ BuildContext \/ NoContext \/ RefuseRequest
           \/ CompactSucceeds \/ CompactFails \/ EnforceContextLimit
           \/ Answered \/ RequestFails \/ RoundLimit \/ TooManyCalls
           \/ MixedFinish \/ FitFinalization \/ FitTarget \/ FitActionRound
           \/ FitBurst \/ FitForcedFinish \/ CommitDecision \/ CommitFails
           \/ EndUnsettled \/ RoundsFail \/ UNCHANGED vars
  BY <1>3, CallTypes
  DEF CycleInv, HandoffOfAnswer, Going, CycleTypeOK, Busy, BeginCycle,
      BuildContext, NoContext, RefuseRequest, Stop, CompactSucceeds, Compact,
      CompactionDue, CompactFails, EnforceContextLimit, Measured, Answered,
      Send, HardLimit, BurstRequest, RequestMode, RequestFails, RoundLimit,
      TooManyCalls, InRounds, MixedFinish, CallsAdmitted, FitFinalization, Fit,
      FitTarget, FitActionRound, FitBurst, BurstEligible, FitForcedFinish,
      CommitDecision, Settled, CommitFails, EndUnsettled, RoundsFail, vars, Calls
<1> QED
  BY <1>1, <1>2, <1>3
  DEF Next, RunOnce, RequestModel, HandleAnswer, FitContinuation

\* CommitDecision is the last step of a cycle.
LEMMA CommittedIsDoneKept == CycleInv /\ [Next]_vars => CommittedIsDone'
<1> SUFFICES ASSUME CycleInv, [Next]_vars
             PROVE  CommittedIsDone'
  OBVIOUS
<1>1. CASE \/ BeginCycle \/ BuildContext \/ NoContext \/ RefuseRequest
           \/ CompactSucceeds \/ CompactFails \/ EnforceContextLimit
           \/ Answered \/ RequestFails \/ RoundLimit \/ FinalText
           \/ TooManyCalls \/ MixedFinish \/ ToolRound \/ FinishDecision
           \/ FitFinalization \/ FitTarget \/ FitActionRound \/ FitBurst
           \/ FitForcedFinish \/ CommitDecision \/ CommitFails \/ EndUnsettled \/ RoundsFail
           \/ UNCHANGED vars
  BY <1>1
  DEF CycleInv, CommittedIsDone, Busy, BeginCycle, BuildContext, NoContext,
      RefuseRequest, Stop, CompactSucceeds, Compact, CompactionDue,
      CompactFails, EnforceContextLimit, Measured, Answered, Send, HardLimit,
      BurstRequest, RequestMode, RequestFails, RoundLimit, FinalText, InRounds,
      TooManyCalls, MixedFinish, CallsAdmitted, ToolRound, Batch,
      FinishDecision, FitFinalization, Fit, FitTarget, FitActionRound,
      FitBurst, BurstEligible, FitForcedFinish, CommitDecision, Settled,
      CommitFails, EndUnsettled, RoundsFail, vars
<1> QED
  BY <1>1
  DEF Next, RunOnce, RequestModel, HandleAnswer, FitContinuation

\* A commit happens in a settled ending; nothing moves before the next cycle.
LEMMA CommitIsCleanKept == CycleInv /\ [Next]_vars => CommitIsClean'
<1> SUFFICES ASSUME CycleInv, [Next]_vars
             PROVE  CommitIsClean'
  OBVIOUS
<1>1. CASE CommitDecision
  BY <1>1
  DEF CycleInv, CommitIsClean, CommittedIsDone, HandoffOfAnswer,
      CommitDecision, Settled, Calls
<1>2. CASE \/ BeginCycle \/ BuildContext \/ NoContext \/ RefuseRequest
           \/ CompactSucceeds \/ CompactFails \/ EnforceContextLimit
           \/ Answered \/ RequestFails \/ RoundLimit \/ FinalText
           \/ TooManyCalls \/ MixedFinish \/ ToolRound \/ FinishDecision
           \/ FitFinalization \/ FitTarget \/ FitActionRound \/ FitBurst
           \/ FitForcedFinish \/ CommitFails \/ EndUnsettled \/ RoundsFail \/ UNCHANGED vars
  BY <1>2
  DEF CycleInv, CommitIsClean, CommittedIsDone, HandoffOfAnswer, BeginCycle,
      BuildContext, NoContext, RefuseRequest, Stop, CompactSucceeds, Compact,
      CompactionDue, CompactFails, EnforceContextLimit, Measured, Answered,
      Send, HardLimit, BurstRequest, RequestMode, RequestFails, RoundLimit,
      FinalText, InRounds, TooManyCalls, MixedFinish, CallsAdmitted, ToolRound,
      Batch, FinishDecision, FitFinalization, Fit, FitTarget, FitActionRound,
      FitBurst, BurstEligible, FitForcedFinish, CommitFails, EndUnsettled, RoundsFail,
      Settled, vars, Calls
<1> QED
  BY <1>1, <1>2
  DEF Next, RunOnce, RequestModel, HandleAnswer, FitContinuation

LEMMA InvNext == CycleInv /\ [Next]_vars => CycleInv'
BY TypeNext, WithinBudgetsKept, GoingKept, TwoLeftKept, LastOfferKept,
   FinalSlotIsFinishKept, BurstOnceKept, OneOversizedRequestKept, FittedKept,
   RoundsCountedKept, AnswersAreHandledKept, HandoffOfAnswerKept,
   CommittedIsDoneKept, CommitIsCleanKept
DEF CycleInv

LEMMA CycleInvHolds == Spec => []CycleInv
BY InvInit, InvNext, PTL DEF Spec

-----------------------------------------------------------------------------
(* The properties                                                          *)

\* No cycle makes more model requests, compactions, tool calls or writes than
\* its limits allow.
THEOREM BudgetsHold == Spec => []WithinBudgets
<1>1. CycleInv => WithinBudgets
  BY DEF CycleInv
<1> QED
  BY <1>1, CycleInvHolds, PTL

\* The request that takes the last slot of a cycle offers only finish_decision.
THEOREM LastSlotFinishes == Spec => []FinalSlotIsFinish
<1>1. CycleInv => FinalSlotIsFinish
  BY DEF CycleInv
<1> QED
  BY <1>1, CycleInvHolds, PTL

\* At most one request of a cycle is larger than the input limit, a burst with
\* a request left after it.
THEOREM AtMostOneBurst == Spec => []OneOversizedRequest
<1>1. CycleInv => OneOversizedRequest
  BY DEF CycleInv
<1> QED
  BY <1>1, CycleInvHolds, PTL

\* The round limit discards no answer if it is not below the request limit.
THEOREM NoAnswerDiscarded == Spec => []AnswersAreHandled
<1>1. CycleInv => AnswersAreHandled
  BY DEF CycleInv
<1> QED
  BY <1>1, CycleInvHolds, PTL

\* Only a settled cycle with a final answer commits.
THEOREM OnlyCleanCommits == Spec => []CommitIsClean
<1>1. CycleInv => CommitIsClean
  BY DEF CycleInv
<1> QED
  BY <1>1, CycleInvHolds, PTL

\* The input limit blocks a fitted continuation only when nothing but finishing
\* was left.
THEOREM FittedContinuationIsSent == Spec => FittedIsSent
<1>1. CycleInv /\ [Next]_vars =>
        (phase = "request" /\ mode # "none" /\ reason' = "context" => finishOnly)
  <2> SUFFICES ASSUME CycleInv, [Next]_vars, phase = "request", mode # "none",
                      reason' = "context"
               PROVE  finishOnly
    OBVIOUS
  <2>1. reason = "none"
    BY DEF CycleInv, Going, Busy
  <2>2. CASE EnforceContextLimit
    BY <2>2, CycleAssumption
    DEF EnforceContextLimit, HardLimit, BurstRequest, RequestMode, Target, CycleInv,
        Fitted, CycleTypeOK
  <2>3. CASE RefuseRequest \/ CompactSucceeds \/ CompactFails \/ Answered \/ RequestFails
    BY <2>1, <2>3
    DEF RefuseRequest, CompactSucceeds, CompactFails, Compact, Answered, RequestFails,
        Stop
  <2>4. CASE HandleAnswer \/ FitContinuation
    BY <2>4
    DEF HandleAnswer, RoundLimit, FinalText, TooManyCalls, MixedFinish, ToolRound,
        FinishDecision, Batch, CallsAdmitted, InRounds, FitContinuation,
        FitFinalization, FitTarget, FitActionRound, FitBurst, FitForcedFinish, Fit
  <2>5. CASE BeginCycle \/ BuildContext \/ NoContext \/ CommitDecision
             \/ CommitFails \/ EndUnsettled \/ RoundsFail
    BY <2>5
    DEF BeginCycle, BuildContext, NoContext, CommitDecision, CommitFails, EndUnsettled, RoundsFail
  <2>6. CASE UNCHANGED vars
    BY <2>1, <2>6 DEF vars
  <2> QED
    BY <2>2, <2>3, <2>4, <2>5, <2>6 DEF Next, RunOnce, RequestModel
<1> QED
  BY <1>1, CycleInvHolds, PTL DEF Spec, FittedIsSent

\* After an action round, and after a request that offered only
\* finish_decision, the cycle can do nothing but finish.
THEOREM FinalizationSticks == Spec => FinalizationIsSticky
<1> DEFINE LastWord == mode = "context-action-only" \/ Offers(mode) = {"finish"}
<1>1. CycleInv /\ [Next]_vars =>
        (phase \in {"request", "compacted"} /\ phase' = "answer" /\ LastWord
           => Offers(mode') = {"finish"})
  <2> SUFFICES ASSUME CycleInv, [Next]_vars, phase \in {"request", "compacted"},
                      phase' = "answer", LastWord
               PROVE  Offers(mode') = {"finish"}
    OBVIOUS
  <2>1. finishOnly \/ requests = MaxModelRequests
    BY DEF CycleInv, LastOffer, Busy
  <2>2. CASE Answered
    BY <2>1, <2>2, CycleAssumption, OfferedTools, RequestModeType
    DEF Answered, Send, Measured, RequestMode, FinishModes, CycleInv, TwoLeft,
        CycleTypeOK
  <2>3. CASE RefuseRequest \/ CompactSucceeds \/ CompactFails \/ EnforceContextLimit
             \/ RequestFails
    BY <2>3
    DEF RefuseRequest, CompactSucceeds, CompactFails, Compact, EnforceContextLimit,
        RequestFails, Stop
  <2>4. CASE HandleAnswer \/ FitContinuation
    BY <2>4
    DEF HandleAnswer, RoundLimit, FinalText, TooManyCalls, MixedFinish, ToolRound,
        FinishDecision, Batch, CallsAdmitted, InRounds, FitContinuation,
        FitFinalization, FitTarget, FitActionRound, FitBurst, FitForcedFinish, Fit
  <2>5. CASE BeginCycle \/ BuildContext \/ NoContext \/ CommitDecision
             \/ CommitFails \/ EndUnsettled \/ RoundsFail
    BY <2>5
    DEF BeginCycle, BuildContext, NoContext, CommitDecision, CommitFails, EndUnsettled, RoundsFail
  <2>6. CASE UNCHANGED vars
    BY <2>6 DEF vars
  <2> QED
    BY <2>2, <2>3, <2>4, <2>5, <2>6 DEF Next, RunOnce, RequestModel
<1>2. CycleInv /\ [Next]_vars =>
        (phase # "idle" /\ Offers(mode) = {"finish"} => writes' = writes)
  <2> SUFFICES ASSUME CycleInv, [Next]_vars, phase # "idle", Offers(mode) = {"finish"}
               PROVE  writes' = writes
    OBVIOUS
  <2>1. Writes = 0
    BY DEF Writes
  <2>2. CASE ToolRound \/ FinishDecision
    <3>1. ~Refused(0)
      BY CycleAssumption DEF Refused, CycleInv, WithinBudgets, CycleTypeOK
    <3>2. PICK failed : Batch(0, failed)
      BY <2>1, <2>2 DEF ToolRound, FinishDecision
    <3>3. writes' = writes \/ writes' = writes + 0
      BY <3>1, <3>2 DEF Batch
    <3> QED
      BY <3>3 DEF CycleInv, CycleTypeOK
  <2>3. CASE RequestModel
    BY <2>3
    DEF RequestModel, RefuseRequest, CompactSucceeds, CompactFails, Compact,
        EnforceContextLimit, Answered, RequestFails, Send
  <2>4. CASE RoundLimit \/ FinalText \/ TooManyCalls \/ MixedFinish \/ FitContinuation
    BY <2>4
    DEF RoundLimit, FinalText, TooManyCalls, MixedFinish, FitContinuation,
        FitFinalization, FitTarget, FitActionRound, FitBurst, FitForcedFinish, Fit
  <2>5. CASE BeginCycle \/ BuildContext \/ NoContext \/ CommitDecision
             \/ CommitFails \/ EndUnsettled \/ RoundsFail
    BY <2>5
    DEF BeginCycle, BuildContext, NoContext, CommitDecision, CommitFails, EndUnsettled, RoundsFail
  <2>6. CASE UNCHANGED vars
    BY <2>6 DEF vars
  <2> QED
    BY <2>2, <2>3, <2>4, <2>5, <2>6 DEF Next, RunOnce, HandleAnswer
<1> QED
  BY <1>1, <1>2, CycleInvHolds, PTL DEF Spec, FinalizationIsSticky
=============================================================================
