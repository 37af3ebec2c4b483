--------------------------- MODULE DecisionCycle ---------------------------
(***************************************************************************)
(* The budgets of a decision cycle, Controller/agent_controller.py: how    *)
(* many model requests a cycle may make, which tools each of them offers,  *)
(* when the continuation is compacted, how it is kept small enough to      *)
(* finish (continuation_headroom.py), and when the cycle counts as a       *)
(* success.  Commands themselves are the subject of CommandProtocol; here  *)
(* a batch leaves some of them uncertain or none.                          *)
(*                                                                         *)
(* The size of a request is a number of Estimates, chosen anew wherever    *)
(* the code measures a new payload; between two measurements of the same   *)
(* payload it changes only as the tool surface does.                       *)
(***************************************************************************)
EXTENDS Naturals

CONSTANTS
  MaxModelRequests,   \* max_model_requests_per_cycle
  MaxCompactions,     \* max_compactions_per_cycle, 0 without the feature
  MaxToolCalls,       \* max_total_tool_calls
  MaxWrites,          \* max_write_commands
  FailedCallLimit,    \* repeated_failed_call_limit
  ToolRounds,         \* the values --max-tool-rounds may have
  Estimates,          \* estimated input tokens of a request
  CompactThreshold, MaxInput, Headroom, BurstLimit,
  MaxBatch            \* bound: calls of one kind in one answer

\* rimgpt.py:139-165 refuses other options.
ASSUME CycleAssumption ==
  /\ MaxModelRequests \in Nat \ {0}
  /\ MaxCompactions \in Nat
  /\ MaxToolCalls \in Nat \ {0}
  /\ MaxWrites \in Nat \ {0}
  /\ FailedCallLimit \in Nat \ {0}
  /\ ToolRounds \subseteq Nat \ {0}
  /\ Estimates \subseteq Nat
  /\ CompactThreshold \in Nat
  /\ MaxInput \in Nat \ {0}
  /\ Headroom \in Nat
  /\ BurstLimit \in Nat
  /\ MaxBatch \in Nat

VARIABLES
  options,      \* command line: tool rounds, dry run
  phase,        \* where run_once is
  requests,     \* model_request_count
  compactions,  \* compaction_count
  round,        \* round_index
  mode,         \* tool mode of the last request sent: what it offered
  actionOnly,   \* _context_action_only
  finishOnly,   \* _context_finalization_only
  burst,        \* _action_burst_pending, _action_burst_consumed
  estimate,     \* estimated tokens of the request being prepared
  answer,       \* the last response: calls by kind, status
  critical,     \* the last batch returned an exact action-critical result
  calls,        \* total_tool_calls
  writes,       \* write_commands
  failures,     \* failed_call_counts of one call that keeps failing
  uncertain,    \* uncertain_commands is not empty (survives the cycle)
  reason,       \* termination_reason
  handoff,      \* pending_decision_handoff
  outcome,      \* DecisionOutcome.success
  committed,    \* the cycle's baseline and handoff were committed
  oversized     \* history: requests sent above MaxInput in this cycle

budget == <<requests, compactions, round>>
headroomVars == <<actionOnly, finishOnly, burst, estimate>>
batchVars == <<critical, calls, writes, failures>>
endVars == <<handoff, outcome, committed>>
vars == <<options, phase, requests, compactions, round, mode, actionOnly,
          finishOnly, burst, estimate, answer, critical, calls, writes,
          failures, uncertain, reason, handoff, outcome, committed, oversized>>

Options == [rounds : ToolRounds, dryRun : BOOLEAN]
Phases == {"idle", "context", "request", "compacted", "answer", "fit", "ending"}
Modes == {"none", "normal", "immediate-work", "finalization-only",
          "context-action-only", "context-finalization-only"}
Reasons == {"none", "state", "requests", "context", "model", "rounds", "calls",
            "mixed", "writes", "failures", "loop", "incomplete", "uncertain",
            "final"}
Answers == [reads : 0..MaxBatch, writes : 0..MaxBatch, finish : 0..1,
            completed : BOOLEAN]
NoAnswer == [reads |-> 0, writes |-> 0, finish |-> 0, completed |-> TRUE]

Init ==
  /\ options \in Options
  /\ phase = "idle"
  /\ requests = 0 /\ compactions = 0 /\ round = 0
  /\ mode = "none" /\ answer = NoAnswer
  /\ actionOnly = FALSE /\ finishOnly = FALSE /\ burst = "unused"
  /\ estimate = 0 /\ critical = FALSE
  /\ calls = 0 /\ writes = 0 /\ failures = 0
  /\ uncertain = FALSE /\ reason = "none" /\ handoff = "none"
  /\ outcome = "none" /\ committed = FALSE /\ oversized = 0

-----------------------------------------------------------------------------
(* Tool surface and sizes                                                  *)

\* Mutant: the headroom has the wrong sign.
MutTarget == MaxInput + Headroom

Target == IF MaxInput > Headroom THEN MaxInput - Headroom ELSE 1

\* The order of the tests is the code's: the context modes come first.
RequestMode ==
  IF finishOnly THEN "context-finalization-only"
  ELSE IF actionOnly THEN "context-action-only"
  ELSE IF requests + 1 >= MaxModelRequests THEN "finalization-only"
  ELSE IF requests + 2 = MaxModelRequests THEN "immediate-work"
  ELSE "normal"

\* CORE_GROUP is always active: set_speed can be called wherever writes can.
Offers(m) ==
  CASE m = "none" -> {}
    [] m = "normal" -> {"read", "write", "finish"}
    [] m \in {"immediate-work", "context-action-only"} -> {"write", "finish"}
    [] OTHER -> {"finish"}

Calls == answer.reads + answer.writes + answer.finish

\* The same payload measured with the tools of an action round: fewer tools
\* than the surface of now, or the very same ones.
ActionEstimate(full, act) ==
  /\ act <= full
  /\ RequestMode # "normal" => act = full

-----------------------------------------------------------------------------
(* run_once up to the first request                                        *)

BeginCycle ==
  /\ phase = "idle"
  /\ phase' = "context"
  /\ requests' = 0 /\ compactions' = 0 /\ round' = 0
  /\ mode' = "none" /\ answer' = NoAnswer
  /\ actionOnly' = FALSE /\ finishOnly' = FALSE /\ burst' = "unused"
  /\ estimate' = 0 /\ critical' = FALSE
  /\ calls' = 0 /\ writes' = 0 /\ failures' = 0
  /\ reason' = "none" /\ handoff' = "none"
  /\ outcome' = "none" /\ committed' = FALSE /\ oversized' = 0
  /\ UNCHANGED <<options, uncertain>>

BuildContext ==
  /\ phase = "context"
  /\ phase' = "request"
  /\ estimate' \in Estimates
  /\ UNCHANGED <<options, budget, mode, actionOnly, finishOnly, burst, answer,
                 batchVars, uncertain, reason, endVars, oversized>>

\* Health, state or context cannot be had: run_once returns at once.
NoContext ==
  /\ phase = "context"
  /\ phase' = "idle"
  /\ reason' = "state"
  /\ outcome' = "failure"
  /\ UNCHANGED <<options, budget, mode, headroomVars, answer, batchVars,
                 uncertain, handoff, committed, oversized>>

\* A raised ModelRequestLimitError, ModelContextLimitError or API error.
Stop(why) ==
  /\ phase' = "ending"
  /\ reason' = why

-----------------------------------------------------------------------------
(* _request_model                                                          *)

\* Mutant: the refusal does not end the cycle.
MutRefuseRequest ==
  /\ phase = "request"
  /\ requests >= MaxModelRequests
  /\ UNCHANGED vars

RefuseRequest ==
  /\ phase = "request"
  /\ requests >= MaxModelRequests
  /\ Stop("requests")
  /\ UNCHANGED <<options, budget, mode, headroomVars, answer, batchVars,
                 uncertain, endVars, oversized>>

\* Mutant: compaction leaves one request only.
MutCompactionDue ==
  /\ mode # "none"
  /\ estimate >= CompactThreshold
  /\ compactions < MaxCompactions
  /\ requests + 1 < MaxModelRequests

\* Only a continuation has a chain of responses to compact, and compaction,
\* itself a request, must leave two more.
CompactionDue ==
  /\ mode # "none"
  /\ estimate >= CompactThreshold
  /\ compactions < MaxCompactions
  /\ requests + 2 < MaxModelRequests

Compact ==
  /\ phase = "request"
  /\ requests < MaxModelRequests
  /\ CompactionDue
  /\ phase' = "compacted"
  /\ compactions' = compactions + 1
  /\ requests' = requests + 1
  /\ UNCHANGED <<options, round, mode, actionOnly, finishOnly, burst, answer,
                 batchVars, uncertain, reason, endVars, oversized>>

\* The compacted items replace the chain.
CompactSucceeds == Compact /\ estimate' \in Estimates

\* The chain stays; with a slot fewer its tools may be fewer too.
CompactFails ==
  /\ Compact
  /\ estimate' \in IF Offers(RequestMode') = Offers(RequestMode)
                     THEN {estimate}
                     ELSE {e \in Estimates : e <= estimate}

BurstRequest ==
  /\ RequestMode = "context-action-only"
  /\ burst = "pending"
  /\ estimate > Target

HardLimit == IF BurstRequest THEN BurstLimit ELSE MaxInput

Measured ==
  \/ phase = "compacted"
  \/ /\ phase = "request"
     /\ requests < MaxModelRequests
     /\ ~CompactionDue

EnforceContextLimit ==
  /\ Measured
  /\ estimate > HardLimit
  /\ Stop("context")
  /\ UNCHANGED <<options, budget, mode, headroomVars, answer, batchVars,
                 uncertain, endVars, oversized>>

\* A burst that fits after all is an ordinary action round.
Send ==
  /\ Measured
  /\ estimate <= HardLimit
  /\ requests' = requests + 1
  /\ burst' = IF BurstRequest THEN "used"
              ELSE IF RequestMode = "context-action-only" /\ burst = "pending"
                THEN "unused" ELSE burst
  /\ mode' = RequestMode
  /\ oversized' = IF estimate > MaxInput THEN oversized + 1 ELSE oversized
  /\ UNCHANGED <<options, compactions, estimate, batchVars, uncertain, endVars>>

\* Mutant: an action round may be followed by another one.
MutAnswered ==
  /\ Send
  /\ phase' = "answer"
  /\ answer' \in Answers
  /\ actionOnly' = (actionOnly /\ RequestMode # "context-action-only")
  /\ round' = IF mode = "none" THEN 0 ELSE round + 1
  /\ UNCHANGED <<reason, finishOnly>>

\* An action round is followed by finalization.
Answered ==
  /\ Send
  /\ phase' = "answer"
  /\ answer' \in Answers
  /\ actionOnly' = (actionOnly /\ RequestMode # "context-action-only")
  /\ finishOnly' = (finishOnly \/ RequestMode = "context-action-only")
  /\ round' = IF mode = "none" THEN 0 ELSE round + 1
  /\ UNCHANGED reason

RequestFails ==
  /\ Send
  /\ Stop("model")
  /\ UNCHANGED <<round, answer, actionOnly, finishOnly>>

-----------------------------------------------------------------------------
(* _handle_tool_rounds                                                     *)

\* _reconcile_uncertain_commands may settle them; it never adds any.
Reconcile == uncertain' \in {FALSE, uncertain}

\* Mutant: off by one round.
MutRoundLimit ==
  /\ phase = "answer"
  /\ round + 1 >= options.rounds
  /\ Reconcile
  /\ Stop("rounds")
  /\ UNCHANGED <<options, budget, mode, headroomVars, answer, batchVars,
                 endVars, oversized>>

RoundLimit ==
  /\ phase = "answer"
  /\ round = options.rounds
  /\ Reconcile
  /\ Stop("rounds")
  /\ UNCHANGED <<options, budget, mode, headroomVars, answer, batchVars,
                 endVars, oversized>>

InRounds == phase = "answer" /\ round < options.rounds

FinalText ==
  /\ InRounds
  /\ Calls = 0
  /\ Reconcile
  /\ phase' = "ending"
  /\ UNCHANGED <<options, budget, mode, headroomVars, answer, batchVars, reason,
                 endVars, oversized>>

TooManyCalls ==
  /\ InRounds
  /\ Calls > 0
  /\ calls + Calls > MaxToolCalls
  /\ Reconcile
  /\ Stop("calls")
  /\ UNCHANGED <<options, budget, mode, headroomVars, answer, batchVars,
                 endVars, oversized>>

CallsAdmitted ==
  /\ InRounds
  /\ Calls > 0
  /\ calls + Calls <= MaxToolCalls
  /\ calls' = calls + Calls

MixedFinish ==
  /\ CallsAdmitted
  /\ answer.finish > 0 /\ Calls # 1
  /\ Stop("mixed")
  /\ UNCHANGED <<options, budget, mode, headroomVars, answer, critical, writes,
                 failures, uncertain, endVars, oversized>>

Reads == IF "read" \in Offers(mode) THEN answer.reads ELSE 0
Writes == IF "write" \in Offers(mode) THEN answer.writes ELSE 0
Refused(valid) == ~options.dryRun /\ writes + valid > MaxWrites

\* A call the request did not offer is answered with an error and not counted
\* as failed. Valid writes up to the limit are submitted, also when the batch
\* has more; a dry run submits none.
Batch(valid, failed) ==
  /\ CallsAdmitted
  /\ answer.finish = 0 \/ Calls = 1
  /\ writes' = IF options.dryRun THEN writes
               ELSE IF Refused(valid) THEN MaxWrites ELSE writes + valid
  /\ failures' = failures + failed
  /\ uncertain' \in IF writes' > writes \/ uncertain THEN BOOLEAN ELSE {FALSE}
  /\ critical' \in IF Reads > 0 THEN BOOLEAN ELSE {FALSE}
  /\ reason' = IF failures' >= FailedCallLimit THEN "failures"
               ELSE IF Refused(valid) THEN "writes" ELSE "none"
  /\ UNCHANGED <<options, budget, mode, headroomVars, answer, outcome, committed,
                 oversized>>

\* Also a finish_decision whose arguments or handoff are invalid.
ToolRound ==
  /\ \E valid \in 0..Writes, failed \in 0..(Reads + Writes + answer.finish) :
       Batch(valid, failed)
  /\ phase' = IF reason' = "none" THEN "fit" ELSE "ending"
  /\ UNCHANGED handoff

FinishDecision ==
  /\ answer.finish = 1
  /\ Batch(0, 0)
  /\ handoff' = "structured"
  /\ phase' = "ending"

-----------------------------------------------------------------------------
(* _fit_continuation_headroom, after the fresh state has been fetched      *)

Fit ==
  /\ phase = "fit"
  /\ phase' = "request"
  /\ UNCHANGED <<options, budget, mode, answer, batchVars, uncertain, reason,
                 endVars, oversized>>

\* Nothing more can be dropped once only finish_decision is offered.
FitFinalization ==
  /\ Fit
  /\ finishOnly
  /\ estimate' \in Estimates
  /\ UNCHANGED <<actionOnly, finishOnly, burst>>

\* As it is, or after read results were reduced.
FitTarget ==
  /\ Fit
  /\ ~finishOnly
  /\ estimate' \in {e \in Estimates : e <= Target}
  /\ UNCHANGED <<actionOnly, finishOnly, burst>>

\* What does not fit with all tools may fit with those of an action round.
FitActionRound ==
  /\ Fit
  /\ ~finishOnly
  /\ requests + 2 <= MaxModelRequests
  /\ \E full, act \in Estimates :
       /\ full > Target /\ act <= Target
       /\ ActionEstimate(full, act)
       /\ estimate' = act
  /\ actionOnly' = TRUE
  /\ UNCHANGED <<finishOnly, burst>>

BurstEligible ==
  /\ burst = "unused"
  /\ requests + 2 <= MaxModelRequests
  /\ compactions <= MaxCompactions
  /\ critical

FitBurst ==
  /\ Fit
  /\ ~finishOnly
  /\ BurstEligible
  /\ \E full, act \in Estimates :
       /\ full > Target /\ act > Target /\ act <= BurstLimit
       /\ ActionEstimate(full, act)
       /\ estimate' = act
  /\ actionOnly' = TRUE
  /\ burst' = "pending"
  /\ UNCHANGED finishOnly

FitForcedFinish ==
  /\ Fit
  /\ ~finishOnly
  /\ \E full \in Estimates :
       /\ full > Target
       /\ estimate' \in {e \in Estimates : e <= full}
  /\ finishOnly' = TRUE
  /\ UNCHANGED <<actionOnly, burst>>

\* An exception nobody expected in _handle_tool_rounds: run_once returns at
\* once.  What the round did before stays done.
RoundsFail ==
  /\ phase \in {"answer", "fit"}
  /\ phase' = "idle"
  /\ reason' = "loop"
  /\ outcome' = "failure"
  /\ UNCHANGED <<options, budget, mode, headroomVars, answer, batchVars,
                 uncertain, handoff, committed, oversized>>

-----------------------------------------------------------------------------
(* run_once after the rounds                                               *)

\* Mutant: uncertain commands do not matter.
MutSettled == answer.completed /\ reason = "none"

Settled == answer.completed /\ ~uncertain /\ reason = "none"

CommitDecision ==
  /\ phase = "ending"
  /\ Settled
  /\ handoff' = IF handoff = "none" THEN "fallback" ELSE handoff
  /\ outcome' = "success"
  /\ committed' = ~options.dryRun
  /\ phase' = "idle"
  /\ UNCHANGED <<options, budget, mode, headroomVars, answer, batchVars,
                 uncertain, reason, oversized>>

\* fallback_handoff raised, and there is no handoff; or the final state could
\* not be had or committed, and the handoff is left behind.
CommitFails ==
  /\ phase = "ending"
  /\ Settled
  /\ handoff' \in IF handoff = "none" THEN {"none", "fallback"} ELSE {handoff}
  /\ reason' = "final"
  /\ outcome' = "failure"
  /\ phase' = "idle"
  /\ UNCHANGED <<options, budget, mode, headroomVars, answer, batchVars,
                 uncertain, committed, oversized>>

EndUnsettled ==
  /\ phase = "ending"
  /\ ~Settled
  /\ reason' = IF ~answer.completed THEN "incomplete"
               ELSE IF reason = "none" THEN "uncertain" ELSE reason
  /\ outcome' = "failure"
  /\ phase' = "idle"
  /\ UNCHANGED <<options, budget, mode, headroomVars, answer, batchVars,
                 uncertain, handoff, committed, oversized>>

-----------------------------------------------------------------------------

RequestModel ==
  \/ RefuseRequest \/ CompactSucceeds \/ CompactFails
  \/ EnforceContextLimit \/ Answered \/ RequestFails

HandleAnswer ==
  \/ RoundLimit \/ FinalText \/ TooManyCalls \/ MixedFinish
  \/ ToolRound \/ FinishDecision

FitContinuation ==
  \/ FitFinalization \/ FitTarget \/ FitActionRound \/ FitBurst
  \/ FitForcedFinish

RunOnce ==
  \/ BuildContext \/ NoContext \/ RequestModel \/ HandleAnswer
  \/ FitContinuation \/ RoundsFail
  \/ CommitDecision \/ CommitFails \/ EndUnsettled

Next == BeginCycle \/ RunOnce

Spec == Init /\ [][Next]_vars

\* run_once is a sequential program: it does not stop between two steps.
FairSpec == Spec /\ WF_vars(RunOnce)

-----------------------------------------------------------------------------
(* Properties                                                              *)

\* Every variable holds a value of its kind.
CycleTypeOK ==
  /\ options \in Options
  /\ phase \in Phases
  /\ requests \in Nat /\ compactions \in Nat /\ round \in Nat
  /\ mode \in Modes
  /\ actionOnly \in BOOLEAN /\ finishOnly \in BOOLEAN
  /\ burst \in {"unused", "pending", "used"}
  /\ estimate \in Estimates \cup {0}
  /\ answer \in Answers
  /\ critical \in BOOLEAN
  /\ calls \in Nat /\ writes \in Nat /\ failures \in Nat
  /\ uncertain \in BOOLEAN
  /\ reason \in Reasons
  /\ handoff \in {"none", "structured", "fallback"}
  /\ outcome \in {"none", "success", "failure"}
  /\ committed \in BOOLEAN
  /\ oversized \in Nat

\* No budget of the cycle is overrun: answers and compactions share one cap
\* of model requests, and a batch that is larger than what is left of the
\* write budget is cut, not submitted.
WithinBudgets ==
  /\ requests <= MaxModelRequests
  /\ compactions <= MaxCompactions
  /\ calls <= MaxToolCalls
  /\ writes <= MaxWrites

\* The reserved slot (Controller/README.md:56-59): whatever compaction, an
\* action round or a burst used up before, the request that takes the last
\* slot has offered finish_decision and nothing else.  So a cycle that is
\* refused a further request has had its chance to finish.
FinalSlotIsFinish ==
  /\ requests = MaxModelRequests => Offers(mode) = {"finish"}
  /\ reason = "requests" => Offers(mode) = {"finish"}

\* A message of the headroom code promises nextRequestFinalizationOnly after an
\* action round; and once the model was offered nothing but finish_decision,
\* no later request of the cycle offers more and no later answer can write.
FinalizationIsSticky ==
  [][/\ /\ phase \in {"request", "compacted"} /\ phase' = "answer"
        /\ (mode = "context-action-only" \/ Offers(mode) = {"finish"})
        => Offers(mode') = {"finish"}
     /\ phase # "idle" /\ Offers(mode) = {"finish"} => writes' = writes]_vars

\* At most one request of a cycle exceeds the configured input limit: the one
\* action burst.  It stays below the burst limit and is not the last one.
OneOversizedRequest ==
  /\ oversized <= 1
  /\ oversized = 1 => burst = "used"
  /\ phase = "answer" /\ estimate > MaxInput =>
       /\ estimate <= BurstLimit
       /\ mode = "context-action-only"
       /\ requests < MaxModelRequests

\* What fitting is for: a continuation it has prepared is blocked by the input
\* limit only if the cycle was already reduced to finishing.  (After a
\* successful compaction the size is whatever the compacted items have.)
FittedIsSent ==
  [][phase = "request" /\ mode # "none" /\ reason' = "context" => finishOnly]_vars

\* With at least as many tool rounds as model requests, which is what both
\* defaults are, no answer of the model is thrown away by the round limit.
AnswersAreHandled ==
  options.rounds >= MaxModelRequests => reason # "rounds"

\* A baseline and a handoff are committed only by a cycle that is not a dry
\* run, whose last answer was complete and final, a lone finish_decision or
\* plain text, and that leaves no uncertain command and hit no limit.
CommitIsClean ==
  committed =>
    /\ answer.completed /\ ~uncertain /\ reason = "none"
    /\ handoff # "none"
    /\ ~options.dryRun
    /\ \/ Calls = 0 /\ handoff = "fallback"
       \/ Calls = 1 /\ answer.finish = 1 /\ handoff = "structured"

\* Every cycle ends, however the model answers.
CycleEnds == phase = "context" ~> phase = "idle"
=============================================================================
