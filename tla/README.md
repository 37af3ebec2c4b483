# RimGPT verification project

RimGPT lets a language model play RimWorld. A C# mod inside the game publishes
the state of the colony and executes commands over a loopback HTTP bridge; a
Python controller observes the colony, decides when a decision is due, runs
decision cycles in which the model calls tools, and keeps memory between them.
This directory holds TLA+ models of that program, the TLC runs that check them
and the proofs that TLAPS checks.

    tlasany M.tla                      parse a module
    tlc -config X.cfg M                check a run (PROJECT.json lists them all)
    tlapm M.tla                        check the proofs of a module *Proofs

`PROJECT.json` maps every definition to the lines it models, lists the runs, one
mutant per checked property (a plausible bug under which the property fails) and
the hazards the properties are aimed at.

## 1. Inventory

### Game side (C#, `src/Source`)

| part | state | operations | correct when |
|---|---|---|---|
| command queue and ledger, `RimGPTCommandQueue` | `Commands` (lock-free queue), `Results` and `ResultOrder` (under a lock) | `Enqueue`, `TryDequeue`, `Complete`, `TryGetResult`, `TrimResultsLocked` | a command runs at most once; the ledger is bounded and lists exactly the ids it knows; every accepted command gets a result |
| state snapshot, `RimGPTStateSnapshot` | `currentVersion`, `currentJson`, a monitor | `UpdateFromGame`, `TryWaitForNewerJson` | a reply that is not marked `"fresh":false` is newer than what the client had; no waiter sleeps through a publication |
| read-request queue, `RimGPTReadRequestQueue` | a queue of requests, each with its own monitor and done/timed-out flags | `EnqueueAndWait`, `ProcessPending`, `Complete` | every request is answered or gives up; an abandoned one does not block the others |
| game component, `RimGPTGameComponent` | `nextSnapshotUpdateMillis` | `GameComponentUpdate`: drain at most 32 commands, publish, report results, at most 8 reads, periodic refresh | a result becomes readable only after its effect is published |
| HTTP bridge, `RimGPTHttpBridge` | the listener | one thread-pool thread per request | hands each request to the queues above |
| executor, builders, writers | none of their own | RimWorld API calls, JSON | outside the models (section 6) |

Handler threads interleave with every point of a frame: `Enqueue` registers the
id under the lock and pushes the command outside it; the version moves before the
document is built, and the build may throw.

### Controller (Python, `src/Controller`)

| part | state | operations | correct when |
|---|---|---|---|
| bridge client, `bridge.py` | none | `submit_command` (POST, then one status request if it fails), `wait_for_commands`, `reconcile_command` | what it calls completed has run; what it cannot tell is reported as uncertain |
| agent controller, `agent_controller.py` | `uncertain_commands`, `current_state`, request and compaction counters, headroom mode, decision baseline | `run_once`, `_request_model`, `_handle_tool_rounds`, `_execute_tool_call_batch`, `_reconcile_uncertain_commands`, `_fresh_state_message` | no issued command is forgotten; a committed baseline contains every command; the last model request of a cycle remains for `finish_decision` |
| autonomous scheduler, `autonomous_scheduler.py` | budgets, streak counters, one pending trigger, one recovery, one verification, attempts per problem, halt reason | `step`, `_advance_verification`, `_select_trigger`, `_run_decision`, `_process_outcome`, `_halt` | budgets are never overrun; grace periods only observe; cooldown is kept; no trigger is lost; a halt names the limit that was reached and pauses the game once |
| trigger evaluator, `decision_trigger.py` | at most 64 remembered fingerprints in a queue and a set, idleness clock, last review | `evaluate`, `acknowledge_trigger`, `acknowledge_review` | what is new is told, in order of urgency; what was told is not told again until it may be; a review that is due comes |
| state observer, `state_observer.py` | last state, its own store | `observe_once`, `acknowledge_trigger` | evaluates the stream the scheduler acts on |
| state store, `state_store.py` | per colony: current state, baseline, handoff, stall and risk files; the active colony | `update_current_state`, `commit_successful_decision` with rollback, `_activate` | files that belong together are replaced together, also across a crash; a reset stream is not mixed with the old one |
| decision handoff and projects, `decision_handoff.py`, `strategic_projects.py` | open loops, projects with tasks and dependencies | `prepare_handoff`, `validate_handoff`, `fallback_handoff`, `build_project_context` | each prior loop and project is kept or resolved, criteria and completed tasks stay, dependencies have no cycle |
| progress and stall tracking, `progress_tracking.py` | counters of loops and tasks by id, failed verification strategies | `build_progress_signals`, `update_open_loop_stalls`, `update_project_task_stalls`, `record_verification_outcome`, `build_stall_context` | only what was repeated without progress is called stalled; repeated failures are remembered |
| risk tracking, `risk_tracking.py` | conditions by colonist, with their last triage | `build_operational_risk_summary`, `update_risk_metadata` | what gets worse is raised, a minor recurrence is not |
| state diff, `state_diff.py` | none; it reads the baseline and the current state | `compare` | the baseline and the delta say how the colony stands; what is cut is counted |
| strategic memory, `strategic_memory.py` | the lists of an old `memory.json` | `reconcile_memory` (`apply_memory_update` is called by tests only) | outside the models |
| queries, contexts, encodings | none | pure functions | bounded, deterministic output |
| command line | none | `rimgpt.py`, `autonomous.py`, `observe.py` | run the loops until a halt |

### Interactions

    model <-> AgentController <- run_once -- AutonomousScheduler -- observe_once -> StateObserver
                   |                                |                                |
                   v                                v setSpeed 0 on a halt           v
              RimWorldBridge ------------- HTTP, loopback ---------------- GET /state
                   |
    handler threads: Enqueue | TryGetResult | TryWaitForNewerJson | EnqueueAndWait
                   |  Commands, Results        ^ currentVersion, currentJson
                   v                           |
              main thread: GameComponentUpdate, one frame after the other

Hard behaviours: three kinds of threads around three queues in the game; a POST
whose reply is lost; a ledger that forgets; documents that cannot be built; a
game clock that stands still, jumps back when a save is loaded and runs on during
a decision; one-slot memories in the scheduler; several JSON files that should
change together.

## 2. Plan

Order: what must not go wrong first.

1. `GameBridge`, abstract `CommandService`, refinement `GameBridgeRefinement`,
   proofs `GameBridgeProofs`. **Done.**
2. `CommandProtocol`: the controller's command bookkeeping composed with the whole
   of `GameBridge`. **Done.**
3. `AutonomousScheduler` with its observer and the evaluator's memory. **Done.**
4. `DecisionCycle`: model requests of one cycle, compaction, headroom modes, action
   burst, tool surface, `finish_decision`; proofs `DecisionCycleProofs`. **Done.**
5. `StateStore`: colony activation, safe and unsafe stream resets, the commit of four
   files, its rollback and a crash between any two writes; proofs `StateStoreProofs`.
   **Done.**
6. `TriggerEvaluator` on top of `ProgressEvidence`, `StrategicProjects` and
   `RiskTracking`: candidates by edge, fingerprints, reviews, idleness; proofs
   `TriggerEvaluatorProofs`. **Done.**
7. `DecisionContinuity`: the handoff and the counters from decision to decision; proofs
   `DecisionContinuityProofs`. **Done.**
8. `StateDiff`, with `ConstructionPairing`, which progress tracking shares; proofs
   `StateDiffProofs`. **Done.**
9. `SchedulerProofs`, `CommandProtocolProofs`: the safety properties of the scheduler and
   of the command protocol for all constants. **Done.**
10. Left: the abstract specification of `StateStore` (one record per colony that a commit
    replaces at once), and two stores over one directory (controller and observer);
    `AutonomousScheduler` with the candidates of `TriggerEvaluator` instead of its
    coarser memory; `SnapshotTimer` (`Environment.TickCount` in 32-bit arithmetic).

## 3. Modules

### `GameBridge`

One action is one critical section, one concurrent-queue operation or one step of
the main thread. `frame` is the place in `GameComponentUpdate`:

| `frame` | actions | code |
|---|---|---|
| `drain` | `ExecuteCommand`, `EndDrain` | the loop over `TryDequeue` and `Execute` |
| `publish` | `PublishEffects` | `UpdateStateSnapshot` before any result is reported |
| `complete` | `CompleteCommand`, `EndCompletions` | `Complete` for every command of the frame |
| `reads` | `ServeRead`, `EndReads` | `ProcessPending` |
| `refresh` | `RefreshSnapshot` | the one-second refresh |

`SendPost`, `LosePost`, `RejectCommand`, `EnqueueRegister`, `EnqueuePush` follow one
POST; `RequestState`, `WakeWaiter`, `TimeoutWaiter`, `ReleaseWaiter` one long poll;
`EnqueueRead`, `TimeoutRead` one read request. The colony is the number of times
each command was executed on it, a document is its version and the colony it was
built from: that is all the properties can tell apart. What the refresh timer
computes is a free choice (`SnapshotFallsDue`).

### `CommandService`, `GameBridgeRefinement`

The promise without queues, threads and frames: a command that was sent takes effect
at most once; its result is reported only when its effect is in the published state
or the publication is known to have failed; reports may be forgotten. The mapping
reads `effects` from the colony, `visible` from the published document and
`reported` from the ledger.

### `CommandProtocol`

`GameBridge` unchanged, plus the controller as one sequential process whose `phase`
follows `run_once`: `model`, `submit`/`posting` (`submit_command`), `wait`/`deadline`
(`wait_for_commands`), `reconcile`, `refresh` (`_fresh_state_message`), `settle`,
`final`. Every exchange is a step between which the game, the handlers and the network
act. A failed POST may have got anywhere: lost, rejected, registered, pushed, executed.
Building the document may throw, as in `GameBridge`, and the label "fresh" is decided by
the counter alone, as in `_fresh_state_message`. `MaxCycles` bounds the cycles of a
process where liveness is asked; 0 means no bound.

What a state that is called fresh, or a baseline, promises is therefore stated with one
excuse, `PublicationFailed`: the last build threw, so that an older document is served
under a newer version. The excuse ends with the next build that succeeds, and it is no
wider than that: a lost reply, a trimmed result or a failed earlier cycle excuses nothing.
A command of the batch that is still uncertain is in the fresh state or not; the code does
not know, and nothing is promised.

### `AutonomousScheduler`

`step` as phases named after its methods: `observe`, `verify`
(`_advance_verification`), `select` (`_select_trigger`), `admit` (the limits and the
cooldown), `decide` (`_run_decision`), `settle` (`_process_outcome`). The game's clock
and the loading of another save (`LoadGame`) act wherever the program reads the game:
between steps and during a decision. The evaluator is reduced to its memory: it emits
any problem it does not remember. Whether two states show progress is a free choice.
`endedAt` is a history variable: when the last decision really ended.

### `DecisionCycle`

One `run_once` from the first request to the outcome, without the commands
themselves (`CommandProtocol` has those): of a batch only the number of calls per
kind and whether it leaves an uncertain command remain.

| `phase` | actions | code |
|---|---|---|
| `idle`, `context` | `BeginCycle`, `BuildContext`, `NoContext` | `run_once` up to the first payload |
| `request` | `RefuseRequest`, `CompactSucceeds`, `CompactFails` | `_request_model`, `_compact_continuation` |
| `request`, `compacted` | `EnforceContextLimit`, `Answered`, `RequestFails` | the hard limit and the API call |
| `answer` | `RoundLimit`, `FinalText`, `TooManyCalls`, `MixedFinish`, `ToolRound`, `FinishDecision` | `_handle_tool_rounds`, `_execute_tool_call_batch` |
| `fit` | `FitFinalization`, `FitTarget`, `FitActionRound`, `FitBurst`, `FitForcedFinish` | `_fit_continuation_headroom` |
| `answer`, `fit` | `RoundsFail` | an exception nobody expected in `_handle_tool_rounds`: `run_once` returns at once, with what the round did left done |
| `ending` | `CommitDecision`, `CommitFails`, `EndUnsettled` | the end of `run_once`; `CommitFails` leaves a fallback handoff behind, or none when `fallback_handoff` itself raised |

`mode` is the tool mode of the last request that was sent; `Offers` says which kinds of
tools that mode presents. The size of a request is chosen freely from `Estimates`
wherever the code measures a new payload; where it measures the same payload with
fewer tools (an action round, a failed compaction) the number may only fall
(`ActionEstimate`). `failures` counts one call that keeps failing, which is the
worst case for the limit; `uncertain` survives from one cycle to the next;
`oversized` is a history variable.

### `StateStore`

One controller over the files of all colonies; every write of a file is a step, and
`Stop` may come between any two of them.

| `pc` | actions | code |
|---|---|---|
| `down` | `Launch`, `Damage` | the process is not running |
| `idle`, `rounds`, `final` | `StartDecision`, `RefreshState`, `FinalState`: each is an `Accept` | `_accept_authoritative_state`, `update_current_state`, `_activate` |
| `current`, `metadata` | `WriteCurrent`, `WriteMetadata` | `_persist_current` |
| `rounds` | `RecordVerification`, `FinishDecision`, `FailDecision` | between the first and the final state of `run_once` |
| `commit` | `NoCommit`, `BeginCommit` | the checks of `commit_successful_decision` |
| `write`, `restore` | `WriteArtifact`, `WriteFails`, `RestoreArtifact`, `RestoreFails` | the four writes and the rollback |

`Accept` is the whole of `update_current_state`: unload, activate (load, validate, move
aside what is invalid), drop a baseline of another schema, ignore an equal or older
version, recognise a game that was restarted. A document is the number of the decision
that wrote it, a snapshot is its colony, schema, version and tick, and the game may
publish, load or restart between two fetches, so each fetch returns any snapshot.
`serial`, `faults`, `failed` and `before` are history variables. A dry run is the same
store with `persist=False`; a passive observer is a dry run that decides nothing.

### `ProgressEvidence`, `ConstructionPairing`, `StrategicProjects`, `RiskTracking`

Pure definitions that the next two modules and `StateDiff` use. A snapshot is a record
of what the evidence is read from; a text (an objective, a next action, a blocker) is a
model value, and `Meaning` gives what the code's keyword search finds in it: its
categories, what it is about, the definitions and zones it names. `Advances` pairs a
blueprint or frame that went with the building that came in its place; two functions of
the code do so in the same way (`append_construction_transitions`,
`_diff_construction`). Both try the ids that went in their order and give each what those
before it left (`TakenBefore`): a recursive function over the ids, which are numbers.
`SummarizeProject` and `WorkContinuity` are the view of the projects that the next decision and the evaluator share. `OperationalRisk` is the triage
of conditions, `UpdateRiskMetadata` what a commit keeps of it.

### `TriggerEvaluator`

One action per call: `ObserveOnce` (`observe_once` with the whole of `evaluate`: the
store's activation, `reset`, the candidates, their order, the memory and the periodic
review), `AcknowledgeReview` and `AcknowledgeIdleness` (`acknowledge_trigger`). Any
snapshot may follow any other, at any tick: the game plays on, is restarted, another
save or the menu is loaded. A fingerprint is a trigger's kind and evidence. The context
(handoff, stall and risk metadata) is read when a colony is activated and not again
(`ContextsAfter`). A caller may acknowledge a trigger late or never: the scheduler does
so after the decision it made, `observe.py` never. `owed` is a history variable: the
reviews and idleness that were told and not yet acknowledged.

### `DecisionContinuity`

A step is a committed decision or a verification result, which is recorded at once.
`FinishDecision` takes any proposal that `prepare_handoff` accepts (`LoopsAccepted`,
`ProjectsAccepted`: known ids, nothing dropped, criteria unchanged, dependencies without
a cycle and counted as they are given, before those that name one task become one) and that `validate_handoff` accepts again (`ValidHandoff`); one that is refused
changes nothing. `FinishWithText` commits the previous handoff with another assessment.
With the handoff a commit writes the counters (`NextStall`), which compare the next plan
with the last one and the final snapshot with the baseline. Ids are made of what they
name and a number (`Fresh`), so that an objective that was resolved and is opened again
has its old id, as its hash has in the code; `AssignedIds` gives them one after the other,
each apart from those before it. `settled` and `fresh` are history variables: `fresh` is
what the last decision opened or planned anew, its loops and its tasks.
`ProposalsAssumption` says that a project comes with its tasks and that a project and a
task have the fields that the code demands of them before anything else.

### `StateDiff`

`Sections` is the delta of two snapshots by the functions of `state_diff.py`, `Output`
what is left of it when it is too long. `Comparable` is `_validate` with the safe reset of
the store. Every list is compared on its own, as in the code: the map things of each
category (a thing that changes its category is gone from one and new in the other), the
unpowered buildings, the research that was completed, the bills of each table.

Fields that are compared as they are come together in two. `self` stands for those that
the summary of a newcomer tells as well, `more` for those that it leaves out: mental state,
work, skills and gear of a colonist (`compact_colonist`), material and room of a building
(`construction_summary`), what the summaries of gear and beds leave out. So of what stayed a
difference in either is told; of what came, and of a construction that became another, only
the fields of the summary are (`Pick`). The hediffs belong to their colonist and are cut
with him. Fields that are compared by bands or distances keep their numbers.

`DeltaTellsCurrent` states this: what stayed is known up to the noise, what came as far as
its summary goes. For noise it takes needs, bleeding, pain, fuel, power and storage within
one band; a position less than 15 cells away (3 for a drafted colonist, 8 for threats, 5 for
gear and beds); a severity less than 10 points away; hit points, unless a building was
destroyed; research within the same quarter (100 points, when it has no cost). Alerts and
letters are compared by what is active, since the code tells no change of one. The property
says nothing of the values of plants and map things, of bills, areas, points of interest and
labour; `CutsAreCounted` covers their lists. It speaks of one comparison: a change spread
over several commits may stay below the limits each time, and the code loses it.

`Paired` matches things of one kind whose ids changed by their rank among the unmatched
ones, as the code does by sorting both lists and zipping them.

`Output` cuts each list to `MaxDetails` entries and counts it (`_bounded_put`), then sums up
the sections that are not critical, then compacts the critical ones
(`compact_critical_section`), then leaves counts and samples only. Two lists are cut without
a count, in the code and in the model, and `CutsAreCounted` names both: newly completed
research (`_diff_research` slices it), and the alerts and letters that compaction drops
under a mark of the whole section. What a reader takes for the number of a list is its
count or, where it has none, the entries that are shown.

`SnapshotsAssumption` says of a snapshot what the game's document writers guarantee: lists
are finite, and each thing has the fields of its kind.

## 4. Runs

| run | bounds | what it shows |
|---|---|---|
| `bridge` | 2 commands, ledger of 1, one command and one read per frame, 1 waiter, a periodic refresh, builds may fail | the ledger is consistent, `AtMostOnce`, `CompletedIsVisible`, no lost wakeup, a reply is stale only when a build failed, `CommandService` is implemented, accepted commands complete (also trimmed ones), reads drain |
| `protocol` | 2 commands, ledger of 1, any number of cycles, builds may fail | bookkeeping, baseline and the presented state are right through lost replies, trims, cycles that end early and builds that throw; safety only |
| `protocol_lost` | 1 command, 5 cycles | violation, finding 1 |
| `decision_cycle` | 6 requests, 1 compaction, 5 calls, 2 writes, tool rounds 2 or 6 | the reserved finalization slot, no answer discarded, a fitted continuation is sent, sticky finalization, clean commits; every cycle ends |
| `scheduler_budgets` | 3 decisions, 2 requests per session, up to 2 of them in a decision, priced or not | budgets and halts; verifications end |
| `scheduler_order` | 3 problems, 2 scopes, reloaded saves | grace periods, cooldown and the pending slot |
| `scheduler_urgent` | | violation, finding 2 |
| `state_store` | 2 decisions, 2 colonies, 2 schemas, 2 versions, 2 ticks, 2 faults | documents stay with their colony, a commit is all or nothing, a crash leaves no baseline without its handoff, a baseline survives clean restarts |
| `store_loops` | the same without faults | violation, finding 3 |
| `triggers` | 9 snapshots, ticks 0 to 4, 5 polls, 2 fingerprints, reviews every 2 ticks | the queue and the set of fingerprints agree; a threat that appears is told however full the memory is; a poll is silent about a due review or lasting idleness only when they were told and are not acknowledged |
| `continuity` | 3 decisions over about 250 proposals, 2 loops, 1 project of 2 tasks, 2 strategies for a table of 1, 4 final snapshots | no commitment is dropped in silence, a project can always go on, what is new or replanned is not called stalled, repeated failures are kept |
| `state_diff` | 28 snapshots, any two of which are compared; lists of 2, 1 when compacted, 4 entries in all | the delta tells what stayed but for noise and of what came its summary, tells each thing once, and counts what it cuts but for two lists |

Why the bounds are enough. The ledger overflows when one more command is tracked than it
holds: with one entry two commands trim both a queued and a completed command, and a
completion re-tracks its id. One command per frame makes frames with none and with a full
batch, and the second command waits for the next frame. One waiter is enough, because
waiters share nothing but the version they wait for: it registers, is woken, times out and
asks again at every point of a frame. In the protocol, one ledger entry makes every second
command lose its result, and the cycles are not bounded, because an uncertain command of
one is met by the later ones; each build may fail on its own, so that a frame that reports
results may have published them or not. In `protocol_lost` a process makes five cycles, the
most `rimgpt.py` allows. In `decision_cycle` six requests are the fewest with which
the limit of one compaction, and not the reserve of two requests, stops a second one; two
tool rounds are fewer than the requests and six as many, so the round limit comes first in
one case and never in the other; there is an estimate below, at and above each of the
thresholds 2 (compaction), 3 (target), 4 (limit) and 5 (burst limit). In `state_store` two
faults are a write of a commit and one of its rollback, or a damaged file and a write; two
decisions are a commit and one that meets what it left; two versions and two ticks give a
later, an equal and an older version, each at a later, the same and an earlier time of the
game. The scheduler's limits are small so that every one of them can be reached and each
can be the first; the clock runs past cooldown and grace periods. `MaxVersion` only bounds
periodic refreshes: one falls due before or after the first publication; publications of
commands are bounded by the commands.

`triggers`: two fingerprints are evicted by the third trigger, a poll later; five polls
establish a stream, tell, acknowledge or not, and let what was told come back and be due
again; four ticks are two review intervals. The nine snapshots make nearly every kind of
candidate, urgent and normal ones at once, and two streams and the menu; harvests do not
occur, and growth of a crowd of threats cannot be a candidate of its own, because the
threat that came is one. `continuity`: three decisions make a commitment, resolve it and
open it again; a counter capped at 2 is at its cap when a plan is called stalled; the
proposals hold, next to what is accepted, each refusal of the code. `state_diff`: each
snapshot is an edit of one colony, and comparing any two makes every pair of edits, done
and undone; two of a kind exceed the compacted list and three the list itself.

A run without deadlock check is one where the system may really stop: a scheduler
that halted, a clock at its bound.

No run uses symmetry: every instance is small, and `bridge` checks liveness.

### Fairness

`BridgeFairness`: the game calls `GameComponentUpdate` on every frame; a POST on the
wire arrives or fails; the thread pool runs a handler to its end. Nothing is assumed
of clients. `CommandProtocol!Fairness`, which only `protocol_lost` uses, adds that the
controller takes its next step as long as it has one, and that a cycle does not stay among
its rounds for ever (`SF` of leaving them; `max_tool_rounds` bounds them). It does not let
cycles begin for ever: `rimgpt.py` makes at most five (`MaxCycles`), and the scheduler halts
after two uncertain outcomes in a row. What is uncertain when the process ends is lost with
it, so no run claims that an uncertain command is settled eventually; finding 1 is about
one that a later cycle does ask for. `protocol` assumes no fairness.
`FairSchedulerSpec`: `autonomous.py` calls `step` until it halts, and the
game is not left paused for ever. `DecisionCycle!FairSpec`: `run_once` is sequential and
does not stop between two steps; that a caller begins another cycle is not assumed. The
other specifications state safety only and assume no fairness.

## 5. Proofs

`GameBridgeProofs` proves for any sets of commands, waiters and reads and any bounds:

| theorem | property |
|---|---|
| `BridgeTypeCorrect` | `BridgeTypeOK` |
| `LedgerIsConsistent` | `LedgerConsistent` |
| `ExecutedAtMostOnce` | `AtMostOnce` |
| `CompletedCommandsAreVisible` | `CompletedIsVisible` |
| `NoWakeupIsLost` | `NoLostWakeup` |
| `FreshRepliesAreNewer` | `OnlyFailuresAreStale` |

from `BridgeAssumption` (positive bounds) alone. Hardly any of these properties is
inductive by itself. The invariant `BridgeInv` adds where a command is: `PushedFirst` (a
command on the queue, in the batch or executed was pushed by its handler), `QueuedOnce`
(it is on the queue at most once, and not while it is in the batch or executed),
`BatchVisible` (while results are being reported, the effect of every one of them is
already published or its publication failed), and `VersionsOrdered` (the document's
version never exceeds the counter, which is what a reply's freshness rests on). Each
action has a step, and under it one step per conjunct it can disturb.

The same module proves `BridgeImplementsService`: under the mapping every
initial state of `GameBridge` is one of `CommandService` and every step is a step of it
or a stutter. It needs one more invariant, `BatchRan` (a command of the batch has run
exactly once), and one fact about the ledger: the entry a completion writes survives
the trim which that completion causes. So `CompleteCommand` maps to reporting the
result and forgetting others.

`DecisionCycleProofs` proves for any limits, estimates and answers, from
`CycleAssumption` (the ranges `rimgpt.py` enforces):

| theorem | property |
|---|---|
| `CycleTypeCorrect` | `CycleTypeOK` |
| `BudgetsHold` | `WithinBudgets` |
| `LastSlotFinishes` | `FinalSlotIsFinish` |
| `AtMostOneBurst` | `OneOversizedRequest` |
| `NoAnswerDiscarded` | `AnswersAreHandled` |
| `OnlyCleanCommits` | `CommitIsClean` |
| `FittedContinuationIsSent` | `FittedIsSent` |
| `FinalizationSticks` | `FinalizationIsSticky` |

The invariant `CycleInv` adds to the properties what `run_once` relies on between its
steps: `Going` (a cycle that goes on has no reason to stop and no handoff), `TwoLeft`
(an action round is prepared only with two requests left, and a compaction leaves two:
this is why the order of the tests in `RequestMode` is harmless), `LastOffer` (what was
offered last is reflected in the headroom flags or in the request count), `BurstOnce`
(only a used burst was oversized), `Fitted` (a continuation is below the target, or the
cycle is down to finishing, or a burst is pending), `RoundsCounted` (the round index
trails the request count), `HandoffOfAnswer` and `CommittedIsDone`.

`StateStoreProofs` proves for any colonies, schemas, snapshots and numbers of faults,
from `StoreAssumption` (what stands for a missing or unreadable file is no document):

| theorem | property |
|---|---|
| `StoreTypeCorrect` | `StoreTypeOK` |
| `ColoniesKeptApart` | `OneColony` |
| `DryRunsOnlyRead` | `DryRunWritesNothing` |
| `CommitIsAtomic` | `CommitAllOrNothing` |
| `HandoffKeepsUp` | `HandoffNotOlder` |
| `BaselineOutlivesProcess` | `BaselineSurvivesRestart` |

`StoreInv` adds to `OneColony` what a step that writes relies on: `Writing` (the store
has a colony and a state, and the process is no dry run) and `Fetched` (the state that
is committed is of the store's colony and schema). `Committing` says how far a commit
or its rollback has come: the files before `slot` are the new ones, or, with one
failure, the old ones again; `FilesInOrder` says that while nothing has failed no
number on disk exceeds `serial`, so that each of the four writes keeps the order.
`AcceptKeeps`, `FileReplaced` and `PutOne` are the lemmas all steps use.

`BaselineSurvivesRestart` compares what the next process loads with what the last one had
in memory, and between the two is only the disk. So it needs two more invariants: `OnFile`
(while nothing has failed, memory is on file, except for the writes that are still to come
of an accepted state or of a commit) and `Handover` (what the process had when it stopped
cleanly is on file until one that writes begins a decision). With them the state on disk
is valid when the colony is activated again, a smaller version is taken for a restarted
game (`SafeReset`) and keeps the baseline.

`TriggerEvaluatorProofs` proves for any snapshots, contexts, intervals and limits, from
`TriggerAssumption`:

| theorem | property |
|---|---|
| `MemoryConsistent` | `QueueAndSetAgree` |
| `ThreatsAreTold` | `ReturningThreatIsTold` |
| `NothingDueIsLost` | `SilenceIsOwed` |

`MemoryInv` adds to the first that the queue is a sequence over the set, and
`ThreatsArePast`: a remembered threat carries a tick of the past, so that the
fingerprint of one that appears later cannot be among them. What comes in which order
is settled by `OtherCandidates`, `Places` and `OtherFingerprint`: nothing that is not
urgent is sorted before a threat, and no other kind has its fingerprint.

For `SilenceIsOwed`, `OwedInv` says why a remembered fingerprint of a review or of idleness
is owed: `IdlenessTold` (idleness is forgotten when it is acknowledged), `IdleKnown` (the
signature is that of the last observation) and `ReviewsTold` (a remembered review is owed,
or the last review is not before it). The last is the hard one, because an acknowledgement
sets the last review to the tick of the trigger that is acknowledged, whichever that is:
reviews are acknowledged in the order they were told, and the next one cannot put the last
review back before a remembered one.

`DecisionContinuityProofs` proves for any texts, proposals, worlds and limits, from
`ContinuityAssumption` and `ProposalsAssumption`:

| theorem | property |
|---|---|
| `ProjectsCanGoOn` | `SomeTaskIsReady` |
| `NothingDropped` | `CommitmentsAreAccounted` |
| `FailuresRemembered` | `RepeatedFailuresAreKept` |
| `NewWorkIsNotStalled` | `ReplannedIsNotStalled` |

`HandoffInv` says of the handoff what `validate_handoff` checks and the properties need:
ids are distinct, dependencies stay within a project and have no cycle. `FailedInv`
bounds the table of failures and its counters; with it `WorstKeeps` shows that the table
always has room for those that failed twice, by a least entry it may drop instead
(`LeastEntry`, by well-founded induction over the natural numbers). `StallInv` says that
what the last decision made or changed has the counters of a first time. It rests on
`TasksInv` (the id of a task tells its project), without which a task could meet the
counters of another project's; that ids are assigned so is shown for the recursive function
`AssignedIds`, which exists because the order of positions is well-founded.

`StateDiffProofs` proves for any two snapshots the game may publish and any limits, from
`DiffAssumption` and `SnapshotsAssumption`:

| theorem | property |
|---|---|
| `CurrentIsTold` | `DeltaTellsCurrent` |
| `ThingsToldOnce` | `EachThingIsToldOnce` |
| `CutsCounted` | `CutsAreCounted` |

The properties are about the function from two snapshots to a delta, so the invariant only
says that what is compared are snapshots (`ComparedInv`); the work is in the lemmas. For
the first: leaving out what is silent changes nothing (`OfSection`, `OfCounts`), a list is
told when each of its records that stayed is and each that came is in its summary
(`PatchedFor`), and each kind of record is told by its fields, but for the noise
(`ColonistTold`, `NoiselessIs` for the hediffs, and so on); `CompletedTold` is about
research, where only what is new is told. For the second:
ranks among things of a kind differ and leave none out (`RanksDiffer`, `RanksOnto`), so
that pairing takes the same number from both sides and leaves no kind on both (`PairedMatch`,
`PairedLeaves`, `MatchingCounts`); `TookExists` shows that `Advances` is defined, the order
of ids being well-founded, and `AdvancesMatch` that nobody takes what another took. For the
third: everything that is listed is finite (`AllFinite`), a part holds the smaller of its
limit and the whole (`PartOfSize`), and each of the stages of `Output` keeps the sections
and the counts (`BoundedCuts`, `CompactedCuts`, `OutputCuts`).

`SchedulerProofs` proves for any problems, scopes, limits, costs and clock, from
`SchedulerAssumption` (the ranges that the configuration's validation enforces):

| theorem | property |
|---|---|
| `SchedulerTypeCorrect` | `SchedulerTypeOK` |
| `LimitsHold` | `WithinLimits` |
| `HaltsAreConclusive` | `HaltIsConclusive` |
| `SpendIsGuarded` | `SpendGuard` |
| `GraceIsObservationOnly` | `ObservationOnlyGrace` |
| `CooldownHolds` | `CooldownRespected` |
| `PendingTriggersAreKept` | `PendingIsNotLost` |

`SchedulerInv` has two parts next to the types. `BudgetInv` adds to the limits `RoomLeft`
(a scheduler that goes on is below every limit, except between the end of a decision and
its settlement: this is why testing the limits once per step is enough) and
`AttemptsAreDecisions` (an attempt on a problem is a decision). `OrderInv` says what
`step` relies on from one phase to the next: `GraceInv` (what passes an open verification
is urgent), `NothingWaits` (a normal problem is selected afresh only when neither the
slot nor a recovery waits), `EndRecorded` (the recorded end of the last decision is its
real one, or a recovery comes first) and `CooldownPassed`.

`CommandProtocolProofs` proves for any commands, bounds, decisions of the model and
network, from `BridgeAssumption` and `ProtocolAssumption`:

| theorem | property |
|---|---|
| `ProtocolTypeCorrect` | `TypeOK` |
| `NoCommandForgotten` | `NothingForgotten` |
| `ConfirmedCommandsRan` | `ConfirmedRan` |
| `FreshStatesShowEffects` | `FreshStateShowsConfirmed` |
| `BaselinesAreSettled` | `BaselineIsSettled` |

None of them assumes that builds succeed: the last two carry the excuse `PublicationFailed`
in their statement, as the run checks it. The proofs look at the game only through
`CommandService`: `BridgeImplementsService` turns each of its steps into one of five
(`GameKeepsResults`), so that no case of the game's actions appears. `ClientInv` adds `ReportedRan` (what can be read as completed ran once)
and `Settled` (which of the controller's sets are empty in which phase); `PublishedInv`
adds that what was reported or confirmed is in the published document or the last build
failed; it holds again after each build that succeeds, because a build shows the whole
colony.

Proved for all constants and run nowhere, since a run would show less: the type
invariants above, `WithinBudgets`, `OneOversizedRequest` and `DryRunWritesNothing`.

Every invariant and every action property that a run checks is proved. Out of the
prover's reach, and left to TLC: liveness under fairness and `ENABLED` (`AcceptedCompletes`,
`ReadsDrain`, `VerificationEnds`, `CycleEnds`), and what a
recursive definition computes for every input beyond what its defining equation gives. The
runs that expect a violation check what the sources say and the code does not do; there is
nothing to prove about them.

## 6. Not modelled

The executor (about forty command kinds) and the builders of documents are calls into
RimWorld: an execution that succeeds or fails, a build that succeeds or throws. Colony
queries, context building and tool-result encoding are pure formatting without state
between calls; `DecisionCycle` has their sizes. Schemas of tools, command-line parsing,
logging and wording are left out. Of the decision cycle the contents of reduced read
results, the activation of tool groups and the accounting of cost are left out. Of the
state store `memory.json`, which stands alone, the map a snapshot was taken on and
`set_decision_baseline`, which only tests call, are left out. Of the handoff the lengths
of single texts and the reasons, of risk tracking the advice, the environment and the
cut of a summary that is too long. Of the diff the legacy form of research, the numbers in
a summed-up section and the limits inside one entry (the cells of a zone, the members of a
power network, the bills of one table, the clothes of a newcomer, long lists in a field) are
left out: an entry is told whole or not at all; and the noise in the hit points of what a
colonist wears. Parts that are planned
are in section 2.

## 7. Findings

1. `protocol_lost`: a command whose POST was lost or answered 400 stays in
   `uncertain_commands` for ever and fails the end of every later cycle; the status
   request's 404 is read as "unreachable".
2. `scheduler_urgent`: urgent evidence seen right after a decision is dropped when a
   normal trigger occupies the pending slot.
3. `store_loops`: when another save is loaded before the final state is fetched, the
   handoff prepared for one colony replaces that of the other, and its open loops are
   gone. In the trace the decision starts in the game's menu; with a second colony it
   is the same.

Noted without runs of their own. `_fresh_state_message` calls a state "Fresh authoritative
state after the completed command batch" (`agent_controller.py:1559`) because it is newer
than the round's start; a periodic refresh is enough, while a command of the batch is
still queued or uncertain. `Controller/README.md:165-166` says that `current_state` is
updated from every authoritative fetch; after the game was restarted under a running
controller its smaller versions are ignored (`state_store.py:206-211`, `Older`) until they
have caught up. A crash between `current_state.json` and `metadata.json` makes the next
process reject the state and start without its baseline (`state_store.py:356-360`).
`Controller/README.md:50-52` says that an estimated request above the configured input
limit is blocked before it is sent, and `Controller/README.md:378-379` repeats it for a
compacted request, while one action burst per cycle is let through up to 36,000 tokens
(`continuation_headroom.py:13`, `agent_controller.py:1164-1168`). `OneOversizedRequest`
states what the code keeps.

Also noted. After a document that could not be built, `GET /state?afterVersion=`
returns the old document as a newer one, because the version moves first
(`RimGPTStateSnapshot.cs:39`); `OnlyFailuresAreStale` is what holds. The limit of
no-progress attempts for one problem (`Controller/README.md:82-84`) is exceeded when an
urgent decision replaces the verification that would have enforced it
(`autonomous_scheduler.py:344`). `acknowledge_trigger` starts the next review interval
at the tick of the trigger, which after a save was loaded during the decision may lie in
the future; `_periodic_review` puts that right at the next poll
(`decision_trigger.py:313`). A colonist who goes down a second time is not told while the
first time is remembered (`decision_trigger.py:211-215`). `Controller/README.md:474`
gives a handoff 4,000 characters, the code 10,000 (`decision_handoff.py:28`). A decision on a
problem that succeeds clears its attempts but leaves an older verification of the same
problem open, which may halt the session with `repeated_no_progress` later
(`autonomous_scheduler.py:333-336`, `:228-230`); so `HaltIsConclusive` says only that such
a halt took as many decisions as the limit of attempts.
