---------------------------- MODULE CommandProtocol ----------------------------
(***************************************************************************)
(* The controller's command protocol, composed with the game side of        *)
(* GameBridge: RimWorldBridge.submit_command / wait_for_commands /          *)
(* reconcile_command (bridge.py) as AgentController.run_once,               *)
(* _handle_tool_rounds, _execute_tool_call_batch,                           *)
(* _reconcile_uncertain_commands and _fresh_state_message use them.         *)
(*                                                                          *)
(* The controller is one sequential process; every HTTP exchange is a point *)
(* where the game, the handler threads and the network act. A GET is one    *)
(* step: what the reply carries was read while the controller waited. What  *)
(* the model decides is a choice: which new commands a batch holds, whether *)
(* another round follows, whether the cycle is terminated.                  *)
(***************************************************************************)
EXTENDS GameBridge

CONSTANTS MaxBatch,    \* bound: commands in one tool-call batch
          MaxCycles    \* bound: decision cycles started (0: no bound)

ASSUME ProtocolAssumption == MaxBatch \in Nat \ {0} /\ MaxCycles \in Nat

VARIABLES
    phase,       \* where run_once is
    cycles,      \* cycles started
    todo,        \* prepared commands of this batch, not yet submitted
    posting,     \* the command whose POST reply is awaited (empty or one)
    pending,     \* wait_for_commands: submitted, not yet seen completed
    uncertain,   \* uncertain_commands: kept from cycle to cycle
    confirmed,   \* commands the controller has seen completed
    toReconcile, \* ids _reconcile_uncertain_commands still has to ask about
    roundVersion,\* snapshot version when the round started
    lastBatch,   \* commands prepared in the current round
    stateNote,   \* how the last post-tool state was presented to the model
    state,       \* current_state: the document the controller holds
    baseline     \* final state of the last successful cycle

batchVars == <<todo, posting, pending>>
uncertainVars == <<uncertain, confirmed, toReconcile>>
stateVars == <<state, stateNote, baseline>>
clientVars == <<phase, cycles, batchVars, uncertainVars, roundVersion, lastBatch, stateVars>>
vars == <<bridgeVars, clientVars>>

Phases == {"idle", "model", "submit", "posting", "wait", "deadline", "reconcile",
           "refresh", "settle", "final"}
Issued == {id \in Ids : post[id] # "none"}

TypeOK ==
    /\ BridgeTypeOK
    /\ phase \in Phases
    /\ cycles \in Nat
    /\ todo \subseteq Ids /\ pending \subseteq Ids /\ lastBatch \subseteq Ids
    /\ posting \in {{}} \cup {{id} : id \in Ids}
    /\ uncertain \subseteq Ids /\ confirmed \subseteq Ids /\ toReconcile \subseteq Ids
    /\ roundVersion \in Nat
    /\ state \in Documents /\ baseline \in Documents
    /\ stateNote \in {"current", "fresh", "stale"}

Init ==
    /\ BridgeInit
    /\ phase = "idle" /\ cycles = 0
    /\ todo = {} /\ posting = {} /\ pending = {}
    /\ uncertain = {} /\ confirmed = {} /\ toReconcile = {}
    /\ roundVersion = 0 /\ lastBatch = {}
    /\ state = currentJson /\ baseline = currentJson /\ stateNote = "current"

-----------------------------------------------------------------------------
(* A cycle starts: _begin_cycle keeps uncertain_commands; GET /state.       *)
BeginCycle ==
    /\ phase = "idle"
    /\ MaxCycles = 0 \/ cycles < MaxCycles
    /\ cycles' = IF MaxCycles = 0 THEN 0 ELSE cycles + 1
    /\ phase' = "model"
    /\ state' = currentJson /\ stateNote' = "current"
    /\ UNCHANGED <<bridgeVars, batchVars, uncertainVars, roundVersion, lastBatch, baseline>>

(* The response holds tool calls that become commands nobody sent before    *)
(* (submit_command gives each a fresh uuid), or only reads.                 *)
PrepareBatch ==
    /\ phase = "model"
    /\ \E ids \in SUBSET (Ids \ Issued) :
         /\ Cardinality(ids) \in 1..MaxBatch
         /\ todo' = ids /\ lastBatch' = ids
    /\ roundVersion' = state.version
    /\ phase' = "submit"
    /\ UNCHANGED <<bridgeVars, cycles, posting, pending, uncertainVars, stateVars>>

(* A round of reads only: nothing is submitted.                             *)
ReadOnlyRound ==
    /\ phase = "model"
    /\ lastBatch' = {}
    /\ toReconcile' = uncertain
    /\ phase' = "reconcile"
    /\ UNCHANGED <<bridgeVars, cycles, batchVars, uncertain, confirmed, roundVersion, stateVars>>

(* No tool calls, or finish_decision: settle what is still uncertain.       *)
FinishRounds ==
    /\ phase = "model"
    /\ toReconcile' = uncertain
    /\ phase' = "settle"
    /\ UNCHANGED <<bridgeVars, cycles, batchVars, uncertain, confirmed, roundVersion,
                   lastBatch, stateVars>>

(* A failed request, a limit, a repeated failure: the cycle fails.          *)
AbortCycle ==
    /\ \/ phase \in {"model", "refresh", "final"}
       \/ phase = "settle" /\ toReconcile = {}
    /\ phase' = "idle"
    /\ UNCHANGED <<bridgeVars, cycles, batchVars, uncertainVars, roundVersion, lastBatch,
                   stateVars>>

-----------------------------------------------------------------------------
(* submit_command, one command of the batch after the other *)

Submit(id) ==
    /\ phase = "submit" /\ id \in todo
    /\ SendPost(id)
    /\ posting' = {id} /\ todo' = todo \ {id}
    /\ phase' = "posting"
    /\ UNCHANGED <<cycles, pending, uncertainVars, roundVersion, lastBatch, stateVars>>

Submitted(newPending, newUncertain) ==
    /\ phase = "posting"
    /\ pending' = newPending /\ uncertain' = newUncertain
    /\ posting' = {}
    /\ phase' = "submit"
    /\ UNCHANGED <<bridgeVars, cycles, todo, confirmed, toReconcile, roundVersion, lastBatch,
                   stateVars>>

(* 202 with the id that was sent.                                           *)
PostAccepted(id) ==
    /\ id \in posting /\ post[id] = "pushed"
    /\ Submitted(pending \cup {id}, uncertain)

(* The POST failed or timed out, wherever it is, and one status request     *)
(* decides: known to the game ...                                           *)
PostFailedKnown(id) ==
    /\ id \in posting /\ Tracked(id)
    /\ Submitted(pending \cup {id}, uncertain)

(* ... or CommandStatusUnreachable, which a 404 counts as.                  *)
PostFailedUnreachable(id) ==
    /\ id \in posting
    /\ Submitted(pending, uncertain \cup {id})

EndSubmit ==
    /\ phase = "submit" /\ todo = {}
    /\ phase' = "wait"
    /\ UNCHANGED <<bridgeVars, cycles, batchVars, uncertainVars, roundVersion, lastBatch,
                   stateVars>>

-----------------------------------------------------------------------------
(* wait_for_commands *)

(* Mutant: any known status counts as completed.                            *)
MutPollCompleted(id) ==
    /\ phase = "wait" /\ id \in pending /\ Tracked(id)
    /\ pending' = pending \ {id} /\ confirmed' = confirmed \cup {id}
    /\ UNCHANGED <<bridgeVars, phase, cycles, todo, posting, uncertain, toReconcile,
                   roundVersion, lastBatch, stateVars>>

PollCompleted(id) ==
    /\ phase = "wait" /\ id \in pending /\ Completed(id)
    /\ pending' = pending \ {id} /\ confirmed' = confirmed \cup {id}
    /\ UNCHANGED <<bridgeVars, phase, cycles, todo, posting, uncertain, toReconcile,
                   roundVersion, lastBatch, stateVars>>

(* All seen completed, or the deadline passed.                              *)
StopPolling ==
    /\ phase = "wait"
    /\ phase' = "deadline"
    /\ UNCHANGED <<bridgeVars, cycles, batchVars, uncertainVars, roundVersion, lastBatch,
                   stateVars>>

(* Mutant: a command still queued at the deadline is not kept as uncertain. *)
MutFinalStatus(id) ==
    /\ phase = "deadline" /\ id \in pending
    /\ pending' = pending \ {id}
    /\ \/ Completed(id) /\ confirmed' = confirmed \cup {id} /\ UNCHANGED uncertain
       \/ ~Tracked(id) /\ uncertain' = uncertain \cup {id} /\ UNCHANGED confirmed
       \/ Tracked(id) /\ UNCHANGED <<uncertain, confirmed>>
    /\ UNCHANGED <<bridgeVars, phase, cycles, todo, posting, toReconcile, roundVersion,
                   lastBatch, stateVars>>

(* One last status request per command: completed, or uncertain (queued,    *)
(* 404, or no answer).                                                      *)
FinalStatus(id) ==
    /\ phase = "deadline" /\ id \in pending
    /\ pending' = pending \ {id}
    /\ \/ Completed(id) /\ confirmed' = confirmed \cup {id} /\ UNCHANGED uncertain
       \/ uncertain' = uncertain \cup {id} /\ UNCHANGED confirmed
    /\ UNCHANGED <<bridgeVars, phase, cycles, todo, posting, toReconcile, roundVersion,
                   lastBatch, stateVars>>

EndWait ==
    /\ phase = "deadline" /\ pending = {}
    /\ toReconcile' = uncertain
    /\ phase' = "reconcile"
    /\ UNCHANGED <<bridgeVars, cycles, batchVars, uncertain, confirmed, roundVersion,
                   lastBatch, stateVars>>

-----------------------------------------------------------------------------
(* _reconcile_uncertain_commands: only "completed" clears an id *)

ReconcileCompleted(id) ==
    /\ phase \in {"reconcile", "settle"} /\ id \in toReconcile /\ Completed(id)
    /\ toReconcile' = toReconcile \ {id}
    /\ uncertain' = uncertain \ {id} /\ confirmed' = confirmed \cup {id}
    /\ UNCHANGED <<bridgeVars, phase, cycles, batchVars, roundVersion, lastBatch, stateVars>>

(* Queued, 404 or no answer.                                                *)
ReconcileUnresolved(id) ==
    /\ phase \in {"reconcile", "settle"} /\ id \in toReconcile
    /\ toReconcile' = toReconcile \ {id}
    /\ UNCHANGED <<bridgeVars, phase, cycles, batchVars, uncertain, confirmed, roundVersion,
                   lastBatch, stateVars>>

EndReconcile ==
    /\ phase = "reconcile" /\ toReconcile = {}
    /\ phase' = "refresh"
    /\ UNCHANGED <<bridgeVars, cycles, batchVars, uncertainVars, roundVersion, lastBatch,
                   stateVars>>

(* Mutant: the state the round began with is shown again as the new one.    *)
MutRefreshAfterWrites ==
    /\ phase = "refresh" /\ lastBatch # {}
    /\ stateNote' = IF currentVersion > roundVersion THEN "fresh" ELSE "stale"
    /\ phase' = "model"
    /\ UNCHANGED <<bridgeVars, cycles, batchVars, uncertainVars, roundVersion, lastBatch,
                   state, baseline>>

(* _fresh_state_message(round_start_version, had_write): the counter in the *)
(* reply of GET /state?afterVersion= decides the label.                     *)
RefreshAfterWrites ==
    /\ phase = "refresh" /\ lastBatch # {}
    /\ state' = currentJson
    /\ stateNote' = IF currentVersion > roundVersion THEN "fresh" ELSE "stale"
    /\ phase' = "model"
    /\ UNCHANGED <<bridgeVars, cycles, batchVars, uncertainVars, roundVersion, lastBatch,
                   baseline>>

RefreshAfterReads ==
    /\ phase = "refresh" /\ lastBatch = {}
    /\ state' = currentJson /\ stateNote' = "current"
    /\ phase' = "model"
    /\ UNCHANGED <<bridgeVars, cycles, batchVars, uncertainVars, roundVersion, lastBatch,
                   baseline>>

(* No answer: the model is told there is no authoritative state.            *)
RefreshFails ==
    /\ phase = "refresh"
    /\ stateNote' = "stale"
    /\ phase' = "model"
    /\ UNCHANGED <<bridgeVars, cycles, batchVars, uncertainVars, roundVersion, lastBatch,
                   state, baseline>>

-----------------------------------------------------------------------------
(* The end of run_once *)

(* Mutant: uncertain commands do not keep a cycle from committing.          *)
MutEndSettled ==
    /\ phase = "settle" /\ toReconcile = {}
    /\ phase' = "final"
    /\ UNCHANGED <<bridgeVars, cycles, batchVars, uncertainVars, roundVersion, lastBatch,
                   stateVars>>

(* Uncertain commands that remain fail the cycle (AbortCycle); otherwise    *)
(* the final GET /state becomes the decision baseline.                      *)
EndSettled ==
    /\ phase = "settle" /\ toReconcile = {} /\ uncertain = {}
    /\ phase' = "final"
    /\ UNCHANGED <<bridgeVars, cycles, batchVars, uncertainVars, roundVersion, lastBatch,
                   stateVars>>

CommitCycle ==
    /\ phase = "final"
    /\ state' = currentJson /\ baseline' = currentJson
    /\ phase' = "idle"
    /\ UNCHANGED <<bridgeVars, cycles, batchVars, uncertainVars, roundVersion, lastBatch,
                   stateNote>>

-----------------------------------------------------------------------------

Controller ==
    \/ BeginCycle \/ PrepareBatch \/ ReadOnlyRound \/ FinishRounds \/ AbortCycle
    \/ \E id \in Ids : \/ Submit(id) \/ PostAccepted(id) \/ PostFailedKnown(id)
                       \/ PostFailedUnreachable(id) \/ PollCompleted(id) \/ FinalStatus(id)
                       \/ ReconcileCompleted(id) \/ ReconcileUnresolved(id)
    \/ EndSubmit \/ StopPolling \/ EndWait \/ EndReconcile
    \/ RefreshAfterWrites \/ RefreshAfterReads \/ RefreshFails
    \/ EndSettled \/ CommitCycle

Game == BridgeStep /\ UNCHANGED clientVars

Next == Controller \/ Game

Spec == Init /\ [][Next]_vars

(* The game runs its frames and its dispatched handlers; the controller     *)
(* takes its next step as long as it has one: rimgpt.py makes a bounded     *)
(* number of cycles (MaxCycles) and then ends, with whatever is uncertain.  *)
(* The rounds of a cycle are bounded as well (max_tool_rounds), so that it  *)
(* does not stay among them for ever. Requests may fail every time.         *)
Fairness ==
    /\ WF_vars(MainThread /\ UNCHANGED clientVars)
    /\ \A id \in Ids : /\ WF_vars(PostArrives(id) /\ UNCHANGED clientVars)
                       /\ WF_vars(EnqueuePush(id) /\ UNCHANGED clientVars)
    /\ WF_vars(Controller)
    /\ SF_vars(FinishRounds \/ (phase = "model" /\ AbortCycle))

FairSpec == Spec /\ Fairness

-----------------------------------------------------------------------------
(* Properties *)

(* No issued command is forgotten: the controller has seen it completed,    *)
(* waits for it, or keeps it among the uncertain ones - across timeouts,    *)
(* lost replies, trimmed results and cycles that end early.                 *)
NothingForgotten ==
    Issued = confirmed \cup pending \cup uncertain \cup posting

(* A confirmed command really ran, once.                                    *)
ConfirmedRan == \A id \in confirmed : world[id] = 1

(* The decision baseline of a successful cycle has the effect of every      *)
(* command the controller ever issued, those of cycles that failed before   *)
(* included. There is one excuse: the last build of the document threw      *)
(* (UpdateStateSnapshot swallows it), and an older document is served.      *)
BaselineIsSettled ==
    [][baseline' # baseline
         => \/ PublicationFailed
            \/ \A id \in Issued : baseline'.world[id] = 1]_vars

(* A state shown to the model as fresh after a batch holds the effect of    *)
(* every command of the batch seen completed, whatever was seen or lost on  *)
(* the way. The excuse is the same: TryWaitForNewerJson compares the        *)
(* counter, which a build that throws has already advanced, and so a state  *)
(* without the effects is called fresh - until the next build succeeds, and *)
(* no longer. Nothing is said of a command of the batch that is uncertain:  *)
(* its effect may be in the state or not.                                   *)
FreshStateShowsConfirmed ==
    [][phase = "refresh" /\ phase' = "model" /\ stateNote' = "fresh"
         => \/ PublicationFailed
            \/ \A id \in lastBatch \cap confirmed : state'.world[id] = 1]_vars

(* "It will be reconciled later." (_execute_tool_call_batch), said of a     *)
(* command whose POST was not answered. Of one that never reached the queue *)
(* nothing will ever be known, however many cycles are still to come.       *)
UncertainIsReconciled ==
    \A id \in Ids : id \in uncertain /\ post[id] \in {"lost", "rejected"}
                      /\ cycles < MaxCycles ~> id \notin uncertain
=============================================================================
