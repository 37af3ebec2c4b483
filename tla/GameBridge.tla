------------------------------ MODULE GameBridge ------------------------------
(***************************************************************************)
(* The RimWorld side of the bridge: HTTP handler threads (thread pool) on   *)
(* one side, the game's main thread on the other, and between them the      *)
(* command queue with its result ledger (RimGPTCommandQueue), the published *)
(* state snapshot (RimGPTStateSnapshot) and the read-request queue          *)
(* (RimGPTReadRequestQueue).                                                *)
(*                                                                          *)
(* One action is one critical section, one concurrent-queue operation or    *)
(* one main-thread step of RimGPTGameComponent.GameComponentUpdate, so that *)
(* handler threads interleave with every point of a frame.                  *)
(*                                                                          *)
(* Data: a command is its id; the colony is the number of times each        *)
(* command was executed; a snapshot document is the version written in it   *)
(* and the colony it was built from.                                        *)
(***************************************************************************)
EXTENDS Integers, Sequences, FiniteSets

CONSTANTS Ids,                      \* command ids, each POSTed at most once (uuid4)
          Waiters,                  \* threads serving GET /state?afterVersion=
          Reads,                    \* queued read requests (GET /map/region, ...)
          MaxTrackedCommands,       \* RimGPTCommandQueue.MaxTrackedCommands (200)
          MaxCommandsPerFrame,      \* RimGPTGameComponent.MaxCommandsPerFrame (32)
          MaxReadRequestsPerFrame,  \* RimGPTGameComponent.MaxReadRequestsPerFrame (8)
          BuildOutcomes,            \* can BuildJson succeed (TRUE), throw (FALSE)?
          MaxVersion                \* bound: no periodic refresh from this version on

ASSUME BridgeAssumption ==
    /\ MaxTrackedCommands \in Nat \ {0}
    /\ MaxCommandsPerFrame \in Nat \ {0}
    /\ MaxReadRequestsPerFrame \in Nat \ {0}
    /\ BuildOutcomes \subseteq BOOLEAN
    /\ TRUE \in BuildOutcomes
    /\ MaxVersion \in Nat

VARIABLES
    post,         \* post[id]: how far the POST /command of id got
    results,      \* Results: the status a GET /command/<id> reads
    resultOrder,  \* ResultOrder: ids in the order they were first tracked
    commands,     \* Commands: the queue the main thread drains
    world,        \* how often each command was executed on the colony
    frame,        \* where the main thread is in GameComponentUpdate
    batch,        \* completions of this frame, not yet reported
    currentVersion, currentJson, snapshotDue,
    readQueue, readState, served,
    waiter        \* waiter[w]: the state of one TryWaitForNewerJson call

commandVars == <<post, results, resultOrder, commands>>
frameVars == <<frame, batch, world>>
snapshotVars == <<currentVersion, currentJson, snapshotDue>>
readVars == <<readQueue, readState, served>>
bridgeVars == <<commandVars, frameVars, snapshotVars, readVars, waiter>>

-----------------------------------------------------------------------------
(* Types *)

PostStages == {"none", "sent", "lost", "rejected", "registered", "pushed"}
Statuses == {"untracked", "queued", "success", "failure"}
Frames == {"drain", "publish", "complete", "reads", "refresh"}
Completions == [id : Ids, ok : BOOLEAN]
Documents == [version : Nat, world : [Ids -> Nat]]
(* A waiter sleeps ("waiting"), was pulsed ("woken"), or has its reply: the  *)
(* document's version, as a newer state ("fresh") or marked "fresh":false.  *)
WaiterStates == [phase : {"idle", "waiting", "woken", "fresh", "stale"},
                 after : Nat, version : Nat]
Idle == [phase |-> "idle", after |-> 0, version |-> 0]

BridgeTypeOK ==
    /\ post \in [Ids -> PostStages]
    /\ results \in [Ids -> Statuses]
    /\ resultOrder \in Seq(Ids)
    /\ commands \in Seq(Ids)
    /\ world \in [Ids -> Nat]
    /\ frame \in Frames
    /\ batch \in Seq(Completions)
    /\ currentVersion \in Nat
    /\ currentJson \in Documents
    /\ snapshotDue \in BOOLEAN
    /\ readQueue \in Seq(Reads)
    /\ readState \in [Reads -> {"unsent", "waiting", "answered", "failed", "timedOut"}]
    /\ served \in Nat
    /\ waiter \in [Waiters -> WaiterStates]

(* Before a game is loaded the document is the literal with version 0.      *)
BridgeInit ==
    /\ post = [id \in Ids |-> "none"]
    /\ results = [id \in Ids |-> "untracked"]
    /\ resultOrder = <<>>
    /\ commands = <<>>
    /\ world = [id \in Ids |-> 0]
    /\ frame = "drain"
    /\ batch = <<>>
    /\ currentVersion = 0
    /\ currentJson = [version |-> 0, world |-> world]
    /\ snapshotDue = TRUE
    /\ readQueue = <<>>
    /\ readState = [r \in Reads |-> "unsent"]
    /\ served = 0
    /\ waiter = [w \in Waiters |-> Idle]

-----------------------------------------------------------------------------
(* RimGPTCommandQueue *)

(* Mutant: the ledger is trimmed one entry too late.                        *)
MutExcess(order) == IF Len(order) > MaxTrackedCommands + 1
                    THEN Len(order) - MaxTrackedCommands - 1 ELSE 0

(* The ids TrimResultsLocked drops from an order that is too long, and what *)
(* is left of it.                                                           *)
Excess(order) == IF Len(order) > MaxTrackedCommands
                 THEN Len(order) - MaxTrackedCommands ELSE 0
Dropped(order) == {order[i] : i \in 1..Excess(order)}
Kept(order) == SubSeq(order, Excess(order) + 1, Len(order))

(* Results[id] = status and ResultOrder = order, then TrimResultsLocked.    *)
Track(id, status, order) ==
    /\ resultOrder' = Kept(order)
    /\ results' = [i \in Ids |-> IF i \in Dropped(order) THEN "untracked"
                                 ELSE IF i = id THEN status ELSE results[i]]

(* A client puts a POST /command on the wire; it may never arrive, or       *)
(* HandleCommand may answer 400 without queueing it.                        *)
SendPost(id) ==
    /\ post[id] = "none"
    /\ post' = [post EXCEPT ![id] = "sent"]
    /\ UNCHANGED <<results, resultOrder, commands, frameVars, snapshotVars, readVars, waiter>>

LosePost(id) ==
    /\ post[id] = "sent"
    /\ post' = [post EXCEPT ![id] = "lost"]
    /\ UNCHANGED <<results, resultOrder, commands, frameVars, snapshotVars, readVars, waiter>>

RejectCommand(id) ==
    /\ post[id] = "sent"
    /\ post' = [post EXCEPT ![id] = "rejected"]
    /\ UNCHANGED <<results, resultOrder, commands, frameVars, snapshotVars, readVars, waiter>>

(* Enqueue, first half: the locked section that makes the id known ...      *)
EnqueueRegister(id) ==
    /\ post[id] = "sent"
    /\ post' = [post EXCEPT ![id] = "registered"]
    /\ Track(id, "queued", Append(resultOrder, id))
    /\ UNCHANGED <<commands, frameVars, snapshotVars, readVars, waiter>>

(* ... second half: Commands.Enqueue outside the lock, then the 202 reply.  *)
EnqueuePush(id) ==
    /\ post[id] = "registered"
    /\ post' = [post EXCEPT ![id] = "pushed"]
    /\ commands' = Append(commands, id)
    /\ UNCHANGED <<results, resultOrder, frameVars, snapshotVars, readVars, waiter>>

(* What GET /command/<id> answers: the status, or 404 unknownCommandId.     *)
Tracked(id) == results[id] # "untracked"
Completed(id) == results[id] \in {"success", "failure"}

-----------------------------------------------------------------------------
(* RimGPTStateSnapshot *)

(* Mutant: PulseAll is forgotten.                                           *)
MutPulsed(state) == state

(* Monitor.PulseAll makes every sleeping thread runnable.                   *)
Pulsed(state) == IF state.phase = "waiting" THEN [state EXCEPT !.phase = "woken"] ELSE state

(* UpdateFromGame under SnapshotLock: the version moves first; a BuildJson  *)
(* that throws leaves the old document and wakes nobody, and                *)
(* UpdateStateSnapshot swallows the exception.                              *)
UpdateStateSnapshot(built) ==
    /\ currentVersion' = currentVersion + 1
    /\ IF built
       THEN /\ currentJson' = [version |-> currentVersion', world |-> world]
            /\ waiter' = [w \in Waiters |-> Pulsed(waiter[w])]
       ELSE UNCHANGED <<currentJson, waiter>>

(* Mutant: the version the client already has counts as newer.              *)
MutReply(w) == [waiter[w] EXCEPT
                  !.phase = IF currentVersion >= waiter[w].after THEN "fresh" ELSE "stale",
                  !.version = currentJson.version]

(* The reply of TryWaitForNewerJson: what decides is the version counter,   *)
(* what is sent is the document.                                            *)
Reply(w) == [waiter[w] EXCEPT
               !.phase = IF currentVersion > waiter[w].after THEN "fresh" ELSE "stale",
               !.version = currentJson.version]

(* GET /state?afterVersion=: the client passes a version it has read. The   *)
(* thread tests the counter before it first sleeps.                         *)
RequestState(w) ==
    /\ waiter[w].phase = "idle"
    /\ \E after \in 0..currentJson.version :
         waiter' = [waiter EXCEPT ![w] =
                      [Idle EXCEPT !.phase = IF currentVersion > after THEN "woken"
                                             ELSE "waiting",
                                   !.after = after]]
    /\ UNCHANGED <<commandVars, frameVars, snapshotVars, readVars>>

(* A pulsed thread runs again; it answers only past afterVersion.           *)
WakeWaiter(w) ==
    /\ waiter[w].phase = "woken"
    /\ waiter' = [waiter EXCEPT ![w] = IF currentVersion > waiter[w].after
                                       THEN Reply(w)
                                       ELSE [waiter[w] EXCEPT !.phase = "waiting"]]
    /\ UNCHANGED <<commandVars, frameVars, snapshotVars, readVars>>

(* The deadline passes; the loop condition is still tested once more.       *)
TimeoutWaiter(w) ==
    /\ waiter[w].phase \in {"waiting", "woken"}
    /\ waiter' = [waiter EXCEPT ![w] = Reply(w)]
    /\ UNCHANGED <<commandVars, frameVars, snapshotVars, readVars>>

ReleaseWaiter(w) ==
    /\ waiter[w].phase \in {"fresh", "stale"}
    /\ waiter' = [waiter EXCEPT ![w] = Idle]
    /\ UNCHANGED <<commandVars, frameVars, snapshotVars, readVars>>

-----------------------------------------------------------------------------
(* RimGPTReadRequestQueue *)

EnqueueRead(r) ==
    /\ readState[r] = "unsent"
    /\ readState' = [readState EXCEPT ![r] = "waiting"]
    /\ readQueue' = Append(readQueue, r)
    /\ UNCHANGED <<commandVars, frameVars, snapshotVars, served, waiter>>

(* EnqueueAndWait gives up with 503; the request stays in the queue.        *)
TimeoutRead(r) ==
    /\ readState[r] = "waiting"
    /\ readState' = [readState EXCEPT ![r] = "timedOut"]
    /\ UNCHANGED <<commandVars, frameVars, snapshotVars, readQueue, served, waiter>>

-----------------------------------------------------------------------------
(* RimGPTGameComponent.GameComponentUpdate: one frame of the main thread *)

(* Mutant: a command that failed goes back to the queue.                    *)
MutExecuteCommand ==
    /\ frame = "drain"
    /\ Len(batch) < MaxCommandsPerFrame
    /\ commands # <<>>
    /\ \E ok \in BOOLEAN :
         /\ batch' = Append(batch, [id |-> Head(commands), ok |-> ok])
         /\ commands' = IF ok THEN Tail(commands) ELSE Append(Tail(commands), Head(commands))
    /\ world' = [world EXCEPT ![Head(commands)] = @ + 1]
    /\ UNCHANGED <<post, results, resultOrder, frame, snapshotVars, readVars, waiter>>

(* TryDequeue and RimGPTCommandExecutor.Execute; an exception is a failure. *)
ExecuteCommand ==
    /\ frame = "drain"
    /\ Len(batch) < MaxCommandsPerFrame
    /\ commands # <<>>
    /\ \E ok \in BOOLEAN : batch' = Append(batch, [id |-> Head(commands), ok |-> ok])
    /\ commands' = Tail(commands)
    /\ world' = [world EXCEPT ![Head(commands)] = @ + 1]
    /\ UNCHANGED <<post, results, resultOrder, frame, snapshotVars, readVars, waiter>>

(* Mutant: results are reported before their effects are published.         *)
MutEndDrain ==
    /\ frame = "drain"
    /\ Len(batch) = MaxCommandsPerFrame \/ commands = <<>>
    /\ frame' = IF batch = <<>> THEN "reads" ELSE "complete"
    /\ UNCHANGED <<commandVars, batch, world, snapshotVars, readVars, waiter>>

EndDrain ==
    /\ frame = "drain"
    /\ Len(batch) = MaxCommandsPerFrame \/ commands = <<>>
    /\ frame' = IF batch = <<>> THEN "reads" ELSE "publish"
    /\ UNCHANGED <<commandVars, batch, world, snapshotVars, readVars, waiter>>

(* Mutant: a batch without a success is not published, as if a command that *)
(* failed could not have changed the colony.                                *)
MutPublishEffects ==
    /\ frame = "publish"
    /\ IF \E i \in 1..Len(batch) : batch[i].ok
       THEN \E built \in BuildOutcomes : UpdateStateSnapshot(built)
       ELSE UNCHANGED <<currentVersion, currentJson, waiter>>
    /\ frame' = "complete"
    /\ UNCHANGED <<commandVars, batch, world, snapshotDue, readVars>>

PublishEffects ==
    /\ frame = "publish"
    /\ \E built \in BuildOutcomes : UpdateStateSnapshot(built)
    /\ frame' = "complete"
    /\ UNCHANGED <<commandVars, batch, world, snapshotDue, readVars>>

(* Mutant: a result whose entry was trimmed meanwhile is thrown away.       *)
MutCompleteTracked ==
    /\ frame = "complete"
    /\ batch # <<>>
    /\ LET c == Head(batch) IN
         IF Tracked(c.id) THEN Track(c.id, IF c.ok THEN "success" ELSE "failure", resultOrder)
         ELSE UNCHANGED <<results, resultOrder>>
    /\ batch' = Tail(batch)
    /\ UNCHANGED <<post, commands, frame, world, snapshotVars, readVars, waiter>>

(* Complete: the result is stored, and re-tracked if it had been trimmed.   *)
CompleteCommand ==
    /\ frame = "complete"
    /\ batch # <<>>
    /\ LET c == Head(batch) IN
         Track(c.id, IF c.ok THEN "success" ELSE "failure",
               IF Tracked(c.id) THEN resultOrder ELSE Append(resultOrder, c.id))
    /\ batch' = Tail(batch)
    /\ UNCHANGED <<post, commands, frame, world, snapshotVars, readVars, waiter>>

EndCompletions ==
    /\ frame = "complete"
    /\ batch = <<>>
    /\ snapshotDue' = FALSE
    /\ frame' = "reads"
    /\ UNCHANGED <<commandVars, batch, world, currentVersion, currentJson, readVars, waiter>>

(* Mutant: a request whose client gave up is never taken off the queue.     *)
MutServeRead ==
    /\ frame = "reads"
    /\ served < MaxReadRequestsPerFrame
    /\ readQueue # <<>>
    /\ readState[Head(readQueue)] = "waiting"
    /\ \E outcome \in {"answered", "failed"} :
         readState' = [readState EXCEPT ![Head(readQueue)] = outcome]
    /\ readQueue' = Tail(readQueue)
    /\ served' = served + 1
    /\ UNCHANGED <<commandVars, frameVars, snapshotVars, waiter>>

ServeRead ==
    /\ frame = "reads"
    /\ served < MaxReadRequestsPerFrame
    /\ readQueue # <<>>
    /\ \E outcome \in {"answered", "failed"} :
         LET r == Head(readQueue) IN
         readState' = [readState EXCEPT ![r] = IF @ = "timedOut" THEN @ ELSE outcome]
    /\ readQueue' = Tail(readQueue)
    /\ served' = served + 1
    /\ UNCHANGED <<commandVars, frameVars, snapshotVars, waiter>>

EndReads ==
    /\ frame = "reads"
    /\ served = MaxReadRequestsPerFrame \/ readQueue = <<>>
    /\ served' = 0
    /\ frame' = "refresh"
    /\ UNCHANGED <<commandVars, batch, world, snapshotVars, readQueue, readState, waiter>>

(* The clock reaches nextSnapshotUpdateMillis.                              *)
SnapshotFallsDue ==
    /\ ~snapshotDue
    /\ currentVersion < MaxVersion
    /\ snapshotDue' = TRUE
    /\ UNCHANGED <<commandVars, frameVars, currentVersion, currentJson, readVars, waiter>>

RefreshSnapshot ==
    /\ frame = "refresh"
    /\ IF snapshotDue THEN \E built \in BuildOutcomes : UpdateStateSnapshot(built)
       ELSE UNCHANGED <<currentVersion, currentJson, waiter>>
    /\ snapshotDue' = FALSE
    /\ frame' = "drain"
    /\ UNCHANGED <<commandVars, batch, world, readVars>>

-----------------------------------------------------------------------------

MainThread ==
    \/ ExecuteCommand \/ EndDrain \/ PublishEffects \/ CompleteCommand
    \/ EndCompletions \/ ServeRead \/ EndReads \/ RefreshSnapshot

(* Everything but the client's own decision to send.                        *)
CommandHandlers == \E id \in Ids : LosePost(id) \/ RejectCommand(id)
                                   \/ EnqueueRegister(id) \/ EnqueuePush(id)
StateHandlers == \E w \in Waiters : RequestState(w) \/ WakeWaiter(w)
                                    \/ TimeoutWaiter(w) \/ ReleaseWaiter(w)
ReadHandlers == \E r \in Reads : EnqueueRead(r) \/ TimeoutRead(r)

BridgeStep == MainThread \/ SnapshotFallsDue \/ CommandHandlers
              \/ StateHandlers \/ ReadHandlers

BridgeNext == BridgeStep \/ \E id \in Ids : SendPost(id)

BridgeSpec == BridgeInit /\ [][BridgeNext]_bridgeVars

(* The game calls GameComponentUpdate on every frame; a POST on the wire    *)
(* arrives, is refused or is lost, and the thread pool eventually runs the  *)
(* rest of a handler.                                                       *)
PostArrives(id) == LosePost(id) \/ RejectCommand(id) \/ EnqueueRegister(id)

BridgeFairness ==
    /\ WF_bridgeVars(MainThread)
    /\ \A id \in Ids : WF_bridgeVars(PostArrives(id)) /\ WF_bridgeVars(EnqueuePush(id))

FairBridgeSpec == BridgeSpec /\ BridgeFairness

-----------------------------------------------------------------------------
(* Properties *)

(* The result ledger stays within MaxTrackedCommands, lists no id twice and *)
(* lists exactly the ids GET /command knows, whatever handler threads and   *)
(* the main thread do between each other's locked sections. A completion of *)
(* a command that was trimmed while it was queued puts it back once.        *)
LedgerConsistent ==
    /\ Len(resultOrder) <= MaxTrackedCommands
    /\ \A i, j \in 1..Len(resultOrder) : resultOrder[i] = resultOrder[j] => i = j
    /\ \A id \in Ids : Tracked(id) <=> \E i \in 1..Len(resultOrder) : resultOrder[i] = id

(* A command runs on the colony at most once, whatever becomes of its POST. *)
AtMostOnce == \A id \in Ids : world[id] <= 1

(* The state barrier: once a client can read "completed", the published     *)
(* document already contains the command's effect, unless the last attempt  *)
(* to build the document failed.                                            *)
PublicationFailed == currentJson.version < currentVersion
Visible(id) == currentJson.world[id] = world[id] \/ PublicationFailed
CompletedIsVisible == \A id \in Ids : Completed(id) => Visible(id)

(* No lost wakeup: a request for a newer state that a built snapshot        *)
(* satisfies has been woken, so it never sits out its timeout.              *)
NoLostWakeup ==
    \A w \in Waiters : waiter[w].phase = "waiting"
                       => currentJson.version <= waiter[w].after

(* A reply given as fresh is newer than what the client has seen unless, at *)
(* the moment of the reply, the last build of the document had failed: no   *)
(* order of pulses, timeouts and publications alone makes it an old one.    *)
OnlyFailuresAreStale ==
    [][\A w \in Waiters :
          waiter'[w].phase = "fresh" /\ waiter[w].phase # "fresh"
            => waiter'[w].version > waiter[w].after \/ PublicationFailed]_bridgeVars

(* A command whose POST was accepted is executed and its result recorded,   *)
(* however many other commands, reads and refreshes share the frames, and   *)
(* even when its entry was trimmed while it waited.                         *)
AcceptedCompletes == \A id \in Ids : post[id] = "registered" ~> Completed(id)

(* Every read request is answered or gives up, and abandoned ones do not    *)
(* clog the queue for ever: the queue drains once no new request comes.     *)
ReadsDrain == (\A r \in Reads : readState[r] # "unsent") ~> readQueue = <<>>
=============================================================================
