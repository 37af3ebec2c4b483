--------------------------- MODULE GameBridgeProofs ---------------------------
(***************************************************************************)
(* Machine-checked proofs about GameBridge for every set of ids, waiters    *)
(* and reads and every value of the limits. The inductive invariant         *)
(* BridgeInv adds to the checked properties what ties a command's place     *)
(* (POST, queue, batch, ledger) to its execution count. With it the bridge  *)
(* is shown to implement CommandService.                                    *)
(***************************************************************************)
EXTENDS GameBridgeRefinement, TLAPS, SequenceTheorems

InQueue(id) == \E i \in 1..Len(commands) : commands[i] = id
InBatch(id) == \E i \in 1..Len(batch) : batch[i].id = id

VersionsOrdered == currentJson.version <= currentVersion

(* Until its handler has pushed it, a command has left no trace on the      *)
(* colony; until it has been registered, none in the ledger.                *)
PushedFirst ==
    \A id \in Ids :
        /\ post[id] # "pushed" => world[id] = 0 /\ ~InQueue(id) /\ ~InBatch(id) /\ ~Completed(id)
        /\ post[id] \notin {"registered", "pushed"} => ~Tracked(id)

(* A queued command is queued once and has not been executed or reported.   *)
QueuedOnce ==
    /\ \A i, j \in 1..Len(commands) : commands[i] = commands[j] => i = j
    /\ \A id \in Ids : InQueue(id) => world[id] = 0 /\ ~InBatch(id) /\ ~Completed(id)

BatchVisible == frame = "complete" => \A id \in Ids : InBatch(id) => Visible(id)

BridgeInv ==
    /\ BridgeTypeOK
    /\ LedgerConsistent
    /\ VersionsOrdered
    /\ PushedFirst
    /\ QueuedOnce
    /\ AtMostOnce
    /\ CompletedIsVisible
    /\ BatchVisible

-----------------------------------------------------------------------------
(* Facts about trimming *)

(* What TrimResultsLocked keeps is the end of the order, in order.          *)
LEMMA KeptIsSuffix ==
    ASSUME BridgeAssumption, NEW order \in Seq(Ids)
    PROVE  /\ Excess(order) \in Nat
           /\ Excess(order) <= Len(order)
           /\ Kept(order) \in Seq(Ids)
           /\ Len(Kept(order)) = Len(order) - Excess(order)
           /\ \A i \in 1..Len(Kept(order)) : Kept(order)[i] = order[i + Excess(order)]
<1>1. /\ Excess(order) \in Nat
      /\ Excess(order) <= Len(order)
  BY DEF Excess, BridgeAssumption
<1>2. /\ Kept(order) \in Seq(Ids)
      /\ Len(Kept(order)) = Len(order) - Excess(order)
      /\ \A i \in 1..Len(Kept(order)) : Kept(order)[i] = order[i + Excess(order)]
  BY <1>1 DEF Kept
<1>. QED  BY <1>1, <1>2

(* Storing a status and trimming keep the ledger well typed.                *)
LEMMA TrackTyped ==
    ASSUME BridgeAssumption, BridgeTypeOK,
           NEW id \in Ids, NEW status \in Statuses, NEW order \in Seq(Ids),
           Track(id, status, order)
    PROVE  /\ resultOrder' \in Seq(Ids)
           /\ results' \in [Ids -> Statuses]
<1>1. resultOrder' \in Seq(Ids)
  BY KeptIsSuffix DEF Track
<1>2. results' \in [Ids -> Statuses]
  BY DEF Track, BridgeTypeOK, Statuses
<1>. QED  BY <1>1, <1>2

-----------------------------------------------------------------------------
(* Type correctness *)

(* Publishing a snapshot, built or not, keeps the snapshot and the waiters  *)
(* well typed.                                                              *)
LEMMA UpdateTyped ==
    ASSUME BridgeTypeOK, NEW built \in BOOLEAN, UpdateStateSnapshot(built)
    PROVE  /\ currentVersion' \in Nat
           /\ currentJson' \in Documents
           /\ waiter' \in [Waiters -> WaiterStates]
<1>1. currentVersion' \in Nat
  BY DEF BridgeTypeOK, UpdateStateSnapshot
<1>2. currentJson' \in Documents
  BY <1>1 DEF BridgeTypeOK, UpdateStateSnapshot, Documents
<1>3. waiter' \in [Waiters -> WaiterStates]
  <2>1. \A w \in Waiters : Pulsed(waiter[w]) \in WaiterStates
    BY DEF BridgeTypeOK, Pulsed, WaiterStates
  <2>2. CASE built
    BY <2>1, <2>2 DEF UpdateStateSnapshot
  <2>3. CASE ~built
    BY <2>3 DEF UpdateStateSnapshot, BridgeTypeOK
  <2>. QED  BY <2>2, <2>3
<1>. QED  BY <1>1, <1>2, <1>3

(* The answer to GET /state?afterVersion= is well typed.                    *)
LEMMA ReplyTyped ==
    ASSUME BridgeTypeOK, NEW w \in Waiters
    PROVE  Reply(w) \in WaiterStates
  BY DEF BridgeTypeOK, Documents, Reply, WaiterStates

(* Every variable keeps its type along every behaviour of the bridge.       *)
LEMMA TypeStep == BridgeTypeOK /\ [BridgeNext]_bridgeVars => BridgeTypeOK'
<1>. SUFFICES ASSUME BridgeTypeOK, [BridgeNext]_bridgeVars PROVE BridgeTypeOK'
  OBVIOUS
<1>. USE BridgeAssumption
<1>1. ASSUME NEW id \in Ids, SendPost(id) \/ LosePost(id) \/ RejectCommand(id)
      PROVE  BridgeTypeOK'
  BY <1>1 DEF BridgeTypeOK, PostStages, SendPost, LosePost, RejectCommand,
              frameVars, snapshotVars, readVars
<1>2. ASSUME NEW id \in Ids, EnqueueRegister(id) PROVE BridgeTypeOK'
  <2>1. /\ Append(resultOrder, id) \in Seq(Ids)
        /\ "queued" \in Statuses
    BY DEF BridgeTypeOK, Statuses
  <2>2. resultOrder' \in Seq(Ids) /\ results' \in [Ids -> Statuses]
    BY <1>2, <2>1, TrackTyped DEF EnqueueRegister
  <2>. QED  BY <1>2, <2>2 DEF EnqueueRegister, BridgeTypeOK, PostStages,
                             frameVars, snapshotVars, readVars
<1>3. ASSUME NEW id \in Ids, EnqueuePush(id) PROVE BridgeTypeOK'
  BY <1>3 DEF BridgeTypeOK, PostStages, EnqueuePush, frameVars, snapshotVars, readVars
<1>4. ASSUME ExecuteCommand PROVE BridgeTypeOK'
  <2>1. Head(commands) \in Ids /\ Tail(commands) \in Seq(Ids)
    BY <1>4 DEF ExecuteCommand, BridgeTypeOK
  <2>2. batch' \in Seq(Completions)
    BY <1>4, <2>1 DEF ExecuteCommand, BridgeTypeOK, Completions
  <2>3. world' \in [Ids -> Nat]
    BY <1>4, <2>1 DEF ExecuteCommand, BridgeTypeOK
  <2>. QED  BY <1>4, <2>1, <2>2, <2>3 DEF ExecuteCommand, BridgeTypeOK, snapshotVars, readVars
<1>5. ASSUME EndDrain PROVE BridgeTypeOK'
  BY <1>5 DEF BridgeTypeOK, Frames, EndDrain, commandVars, snapshotVars, readVars
<1>6. ASSUME PublishEffects PROVE BridgeTypeOK'
  <2>1. PICK built \in BuildOutcomes : UpdateStateSnapshot(built)
    BY <1>6 DEF PublishEffects
  <2>2. built \in BOOLEAN
    BY DEF BridgeAssumption
  <2>. QED  BY <1>6, <2>1, <2>2, UpdateTyped
            DEF BridgeTypeOK, Frames, PublishEffects, commandVars, readVars
<1>7. ASSUME CompleteCommand PROVE BridgeTypeOK'
  <2>1. Head(batch) \in Completions /\ Tail(batch) \in Seq(Completions)
    BY <1>7 DEF CompleteCommand, BridgeTypeOK
  <2>2. PICK status \in Statuses, order \in Seq(Ids) : Track(Head(batch).id, status, order)
    <3>1. Append(resultOrder, Head(batch).id) \in Seq(Ids)
      BY <2>1 DEF BridgeTypeOK, Completions
    <3>. QED  BY <1>7, <3>1 DEF CompleteCommand, BridgeTypeOK, Statuses
  <2>3. resultOrder' \in Seq(Ids) /\ results' \in [Ids -> Statuses]
    BY <2>1, <2>2, TrackTyped DEF Completions
  <2>. QED  BY <1>7, <2>1, <2>3 DEF BridgeTypeOK, CompleteCommand, snapshotVars, readVars
<1>8. ASSUME EndCompletions PROVE BridgeTypeOK'
  BY <1>8 DEF BridgeTypeOK, Frames, EndCompletions, commandVars, readVars
<1>9. ASSUME ServeRead PROVE BridgeTypeOK'
  <2>1. Head(readQueue) \in Reads /\ Tail(readQueue) \in Seq(Reads)
    BY <1>9 DEF ServeRead, BridgeTypeOK
  <2>. QED  BY <1>9, <2>1 DEF BridgeTypeOK, ServeRead, commandVars, frameVars, snapshotVars
<1>10. ASSUME EndReads PROVE BridgeTypeOK'
  BY <1>10 DEF BridgeTypeOK, Frames, EndReads, commandVars, snapshotVars
<1>11. ASSUME RefreshSnapshot PROVE BridgeTypeOK'
  <2>1. /\ currentVersion' \in Nat
        /\ currentJson' \in Documents
        /\ waiter' \in [Waiters -> WaiterStates]
    <3>1. CASE snapshotDue
      BY <1>11, <3>1, UpdateTyped DEF RefreshSnapshot, BridgeAssumption
    <3>2. CASE ~snapshotDue
      BY <1>11, <3>2 DEF RefreshSnapshot, BridgeTypeOK
    <3>. QED  BY <3>1, <3>2
  <2>. QED  BY <1>11, <2>1 DEF BridgeTypeOK, Frames, RefreshSnapshot, commandVars, readVars
<1>12. ASSUME SnapshotFallsDue PROVE BridgeTypeOK'
  BY <1>12 DEF BridgeTypeOK, SnapshotFallsDue, commandVars, frameVars, readVars
<1>13. ASSUME NEW w \in Waiters,
              RequestState(w) \/ WakeWaiter(w) \/ TimeoutWaiter(w) \/ ReleaseWaiter(w)
       PROVE  BridgeTypeOK'
  <2>1. waiter' \in [Waiters -> WaiterStates]
    <3>. waiter \in [Waiters -> WaiterStates] /\ Reply(w) \in WaiterStates
      BY ReplyTyped DEF BridgeTypeOK
    <3>1. CASE RequestState(w)
      <4>1. PICK after \in 0..currentJson.version :
              waiter' = [waiter EXCEPT ![w] =
                           [Idle EXCEPT !.phase = IF currentVersion > after THEN "woken"
                                                  ELSE "waiting",
                                        !.after = after]]
        BY <3>1 DEF RequestState
      <4>2. after \in Nat
        BY DEF BridgeTypeOK, Documents
      <4>. QED  BY <4>1, <4>2 DEF Idle, WaiterStates
    <3>2. CASE WakeWaiter(w)
      BY <3>2 DEF WakeWaiter, WaiterStates
    <3>3. CASE TimeoutWaiter(w)
      BY <3>3 DEF TimeoutWaiter
    <3>4. CASE ReleaseWaiter(w)
      BY <3>4 DEF ReleaseWaiter, Idle, WaiterStates
    <3>. QED  BY <1>13, <3>1, <3>2, <3>3, <3>4
  <2>. QED  BY <1>13, <2>1 DEF BridgeTypeOK, RequestState, WakeWaiter, TimeoutWaiter,
               ReleaseWaiter, commandVars, frameVars, snapshotVars, readVars
<1>14. ASSUME NEW r \in Reads, EnqueueRead(r) \/ TimeoutRead(r) PROVE BridgeTypeOK'
  <2>1. readQueue' \in Seq(Reads)
    <3>1. readQueue \in Seq(Reads)
      BY DEF BridgeTypeOK
    <3>2. CASE EnqueueRead(r)
      BY <3>1, <3>2 DEF EnqueueRead
    <3>3. CASE TimeoutRead(r)
      BY <3>1, <3>3 DEF TimeoutRead
    <3>. QED  BY <1>14, <3>2, <3>3
  <2>. QED  BY <1>14, <2>1
            DEF BridgeTypeOK, EnqueueRead, TimeoutRead, commandVars, frameVars, snapshotVars
<1>15. CASE UNCHANGED bridgeVars
  BY <1>15 DEF BridgeTypeOK, bridgeVars, commandVars, frameVars, snapshotVars, readVars
<1>. QED
  BY <1>1, <1>2, <1>3, <1>4, <1>5, <1>6, <1>7, <1>8, <1>9, <1>10, <1>11, <1>12, <1>13,
     <1>14, <1>15
  DEF BridgeNext, BridgeStep, MainThread, CommandHandlers, StateHandlers, ReadHandlers

(* Type correctness of the bridge, for every value of the constants.        *)
THEOREM BridgeTypeCorrect == BridgeSpec => []BridgeTypeOK
<1>1. BridgeInit => BridgeTypeOK
  BY DEF BridgeInit, BridgeTypeOK, PostStages, Statuses, Frames, Documents, Idle, WaiterStates
<1>. QED  BY <1>1, TypeStep, PTL DEF BridgeSpec

-----------------------------------------------------------------------------
(* The inductive invariant *)

(* Storing a status for an id that is listed keeps the ledger consistent,   *)
(* whatever trimming drops.                                                 *)
LEMMA TrackKeepsLedger ==
    ASSUME BridgeAssumption, BridgeTypeOK,
           NEW id \in Ids, NEW status \in Statuses, NEW order \in Seq(Ids),
           status # "untracked",
           \A i, j \in 1..Len(order) : order[i] = order[j] => i = j,
           \A k \in Ids : Tracked(k) \/ k = id <=> \E i \in 1..Len(order) : order[i] = k,
           Track(id, status, order)
    PROVE  LedgerConsistent'
<1>. DEFINE n == Excess(order)
<1>1. /\ n \in Nat /\ n <= Len(order)
      /\ resultOrder' \in Seq(Ids)
      /\ Len(resultOrder') = Len(order) - n
      /\ \A i \in 1..Len(resultOrder') : resultOrder'[i] = order[i + n]
  BY KeptIsSuffix DEF Track
<1>2. Len(order) - n <= MaxTrackedCommands
  BY DEF Excess, BridgeAssumption
<1>. HIDE DEF n
<1>3. Len(resultOrder') <= MaxTrackedCommands
  BY <1>1, <1>2
<1>4. ASSUME NEW i \in 1..Len(resultOrder'), NEW j \in 1..Len(resultOrder'),
             resultOrder'[i] = resultOrder'[j]
      PROVE  i = j
  BY <1>1, <1>4
<1>5. ASSUME NEW k \in Ids
      PROVE  Tracked(k)' <=> \E i \in 1..Len(resultOrder') : resultOrder'[i] = k
  <2>1. k \in Dropped(order) <=> \E i \in 1..n : order[i] = k
    BY DEF Dropped, n
  <2>2. Tracked(k)' <=> k \notin Dropped(order) /\ (Tracked(k) \/ k = id)
    BY DEF Track, Tracked
  <2>3. CASE Tracked(k)'
    <3>1. PICK i \in 1..Len(order) : order[i] = k
      BY <2>2, <2>3
    <3>2. i > n
      BY <2>1, <2>2, <2>3, <3>1, <1>1
    <3>3. /\ i - n \in 1..Len(resultOrder')
          /\ resultOrder'[i - n] = order[(i - n) + n]
          /\ (i - n) + n = i
      BY <1>1, <3>1, <3>2
    <3>. QED  BY <2>3, <3>1, <3>3
  <2>4. ASSUME NEW i \in 1..Len(resultOrder'), resultOrder'[i] = k PROVE Tracked(k)'
    <3>1. i + n \in 1..Len(order) /\ order[i + n] = k
      BY <1>1, <2>4
    <3>2. k \notin Dropped(order)
      BY <1>1, <2>1, <3>1
    <3>3. \E m \in 1..Len(order) : order[m] = k
      BY <3>1
    <3>4. Tracked(k) \/ k = id
      BY <3>3
    <3>. QED  BY <2>2, <3>2, <3>4
  <2>. QED  BY <2>3, <2>4
<1>. QED  BY <1>3, <1>4, <1>5 DEF LedgerConsistent

(* Steps that move neither a command nor the document keep the invariant.   *)
LEMMA OtherStep ==
    ASSUME BridgeInv, BridgeTypeOK',
           UNCHANGED <<post, results, resultOrder, commands, world, batch,
                       currentVersion, currentJson>>,
           frame' = "complete" => frame = "complete"
    PROVE  BridgeInv'
  BY DEF BridgeInv, LedgerConsistent, VersionsOrdered, PushedFirst, QueuedOnce, AtMostOnce,
         CompletedIsVisible, BatchVisible, InQueue, InBatch, Visible, PublicationFailed,
         Completed, Tracked

(* A publication attempt makes every effect visible or is known to have     *)
(* failed.                                                                  *)
LEMMA UpdateShowsAll ==
    ASSUME BridgeInv, NEW built \in BOOLEAN, UpdateStateSnapshot(built), world' = world
    PROVE  /\ VersionsOrdered'
           /\ \A id \in Ids : Visible(id)'
<1>1. CASE built
  BY <1>1 DEF BridgeInv, BridgeTypeOK, UpdateStateSnapshot, VersionsOrdered, Visible
<1>2. CASE ~built
  BY <1>2 DEF BridgeInv, BridgeTypeOK, Documents, UpdateStateSnapshot, VersionsOrdered,
              Visible, PublicationFailed
<1>. QED  BY <1>1, <1>2

LEMMA SnapshotStep ==
    ASSUME BridgeInv, BridgeTypeOK', NEW built \in BOOLEAN, UpdateStateSnapshot(built),
           UNCHANGED <<commandVars, batch, world>>
    PROVE  BridgeInv'
  BY UpdateShowsAll
  DEF BridgeInv, LedgerConsistent, PushedFirst, QueuedOnce, AtMostOnce, CompletedIsVisible,
      BatchVisible, InQueue, InBatch, Completed, Tracked, commandVars

(* BridgeInv is preserved by every step.                                    *)
LEMMA BridgeInvStep == BridgeInv /\ [BridgeNext]_bridgeVars => BridgeInv'
<1>. SUFFICES ASSUME BridgeInv, [BridgeNext]_bridgeVars PROVE BridgeInv'
  OBVIOUS
<1>t. BridgeTypeOK'
  BY TypeStep DEF BridgeInv
<1>. USE BridgeAssumption
<1>1. ASSUME NEW id \in Ids, SendPost(id) \/ LosePost(id) \/ RejectCommand(id)
      PROVE  BridgeInv'
  <2>1. /\ UNCHANGED <<results, resultOrder, commands, world, batch, frame,
                       currentVersion, currentJson>>
        /\ \A k \in Ids \ {id} : post'[k] = post[k]
        /\ post[id] \in {"none", "sent"}
    BY <1>1 DEF SendPost, LosePost, RejectCommand, frameVars, snapshotVars, BridgeInv,
                BridgeTypeOK
  <2>2. PushedFirst'
    BY <2>1 DEF BridgeInv, PushedFirst, InQueue, InBatch, Completed, Tracked
  <2>. QED  BY <1>t, <2>1, <2>2
            DEF BridgeInv, LedgerConsistent, VersionsOrdered, QueuedOnce, AtMostOnce,
                CompletedIsVisible, BatchVisible, InQueue, InBatch, Visible,
                PublicationFailed, Completed, Tracked
<1>2. ASSUME NEW id \in Ids, EnqueueRegister(id) PROVE BridgeInv'
  <2>1. /\ UNCHANGED <<commands, world, batch, frame, currentVersion, currentJson>>
        /\ post' = [post EXCEPT ![id] = "registered"]
        /\ post[id] = "sent"
        /\ Track(id, "queued", Append(resultOrder, id))
    BY <1>2 DEF EnqueueRegister, frameVars, snapshotVars
  <2>2. LedgerConsistent'
    <3>. DEFINE order == Append(resultOrder, id)
    <3>1. /\ resultOrder \in Seq(Ids) /\ order \in Seq(Ids)
          /\ Len(order) = Len(resultOrder) + 1
          /\ \A i \in 1..Len(resultOrder) : order[i] = resultOrder[i]
          /\ order[Len(order)] = id
      BY DEF BridgeInv, BridgeTypeOK
    <3>2. ~Tracked(id)
      BY <2>1 DEF BridgeInv, PushedFirst
    <3>3. \A i, j \in 1..Len(order) : order[i] = order[j] => i = j
      BY <3>1, <3>2 DEF BridgeInv, LedgerConsistent
    <3>4. \A k \in Ids : Tracked(k) \/ k = id <=> \E i \in 1..Len(order) : order[i] = k
      <4>. TAKE k \in Ids
      <4>1. CASE k = id
        BY <3>1, <4>1
      <4>2. CASE k # id
        BY <3>1, <4>2 DEF BridgeInv, LedgerConsistent
      <4>. QED  BY <4>1, <4>2
    <3>5. "queued" \in Statuses /\ "queued" # "untracked"
      BY DEF Statuses
    <3>6. Track(id, "queued", order)
      BY <2>1
    <3>. HIDE DEF order
    <3>. QED  BY <3>1, <3>3, <3>4, <3>5, <3>6, TrackKeepsLedger DEF BridgeInv
  <2>3. \A k \in Ids : Completed(k)' => Completed(k)
    BY <2>1 DEF Track, Completed
  <2>4. \A k \in Ids : k # id => (Tracked(k)' => Tracked(k)) /\ post'[k] = post[k]
    BY <2>1 DEF Track, Tracked, BridgeInv, BridgeTypeOK
  <2>5. post'[id] = "registered"
    BY <2>1 DEF BridgeInv, BridgeTypeOK
  <2>6. PushedFirst'
    BY <2>1, <2>3, <2>4, <2>5 DEF BridgeInv, PushedFirst, InQueue, InBatch
  <2>. QED  BY <1>t, <2>1, <2>2, <2>3, <2>6
            DEF BridgeInv, VersionsOrdered, QueuedOnce, AtMostOnce, CompletedIsVisible,
                BatchVisible, InQueue, InBatch, Visible, PublicationFailed
<1>3. ASSUME NEW id \in Ids, EnqueuePush(id) PROVE BridgeInv'
  <2>1. /\ UNCHANGED <<results, resultOrder, world, batch, frame, currentVersion, currentJson>>
        /\ post' = [post EXCEPT ![id] = "pushed"]
        /\ post[id] = "registered"
        /\ commands' = Append(commands, id)
    BY <1>3 DEF EnqueuePush, frameVars, snapshotVars
  <2>2. /\ commands \in Seq(Ids)
        /\ Len(commands') = Len(commands) + 1
        /\ \A i \in 1..Len(commands) : commands'[i] = commands[i]
        /\ commands'[Len(commands')] = id
    BY <2>1 DEF BridgeInv, BridgeTypeOK
  <2>3. world[id] = 0 /\ ~InQueue(id) /\ ~InBatch(id) /\ ~Completed(id)
    BY <2>1 DEF BridgeInv, PushedFirst
  <2>4. \A k \in Ids : InQueue(k)' <=> InQueue(k) \/ k = id
    BY <2>2 DEF InQueue
  <2>5. QueuedOnce'
    <3>1. ASSUME NEW i \in 1..Len(commands'), NEW j \in 1..Len(commands'),
                 commands'[i] = commands'[j]
          PROVE  i = j
      BY <2>2, <2>3, <3>1 DEF InQueue, BridgeInv, QueuedOnce
    <3>2. \A k \in Ids : InQueue(k)' => world'[k] = 0 /\ ~InBatch(k)' /\ ~Completed(k)'
      BY <2>1, <2>3, <2>4 DEF BridgeInv, QueuedOnce, InBatch, Completed
    <3>. QED  BY <3>1, <3>2 DEF QueuedOnce
  <2>6. PushedFirst'
    BY <2>1, <2>4 DEF BridgeInv, BridgeTypeOK, PushedFirst, InBatch, Completed, Tracked
  <2>. QED  BY <1>t, <2>1, <2>5, <2>6
            DEF BridgeInv, LedgerConsistent, VersionsOrdered, AtMostOnce, CompletedIsVisible,
                BatchVisible, InBatch, Visible, PublicationFailed, Completed, Tracked
<1>4. ASSUME ExecuteCommand PROVE BridgeInv'
  <2>. DEFINE id == Head(commands)
  <2>1. /\ UNCHANGED <<post, results, resultOrder, frame, currentVersion, currentJson>>
        /\ frame = "drain"
        /\ commands # <<>>
        /\ commands' = Tail(commands)
        /\ world' = [world EXCEPT ![id] = @ + 1]
    BY <1>4 DEF ExecuteCommand, snapshotVars
  <2>2. PICK ok \in BOOLEAN : batch' = Append(batch, [id |-> id, ok |-> ok])
    BY <1>4 DEF ExecuteCommand
  <2>3. /\ id \in Ids
        /\ Len(commands') = Len(commands) - 1
        /\ \A i \in 1..Len(commands') : commands'[i] = commands[i + 1]
        /\ 1 \in 1..Len(commands) /\ commands[1] = id
    BY <2>1 DEF BridgeInv, BridgeTypeOK
  <2>4. InQueue(id)
    BY <2>3 DEF InQueue
  <2>5. world[id] = 0 /\ ~InBatch(id) /\ ~Completed(id)
    BY <2>3, <2>4 DEF BridgeInv, QueuedOnce
  <2>6. \A k \in Ids : InQueue(k)' => InQueue(k) /\ k # id
    BY <2>3 DEF InQueue, BridgeInv, BridgeTypeOK, QueuedOnce
  <2>7. \A k \in Ids : InBatch(k)' => InBatch(k) \/ k = id
    BY <2>2 DEF InBatch, BridgeInv, BridgeTypeOK
  <2>8. /\ world'[id] = 1
        /\ \A k \in Ids : k # id => world'[k] = world[k]
    BY <2>1, <2>3, <2>5 DEF BridgeInv, BridgeTypeOK
  <2>9. QueuedOnce'
    <3>1. ASSUME NEW i \in 1..Len(commands'), NEW j \in 1..Len(commands'),
                 commands'[i] = commands'[j]
          PROVE  i = j
      <4>1. i + 1 \in 1..Len(commands) /\ j + 1 \in 1..Len(commands)
        BY <2>3 DEF BridgeInv, BridgeTypeOK
      <4>2. commands[i + 1] = commands[j + 1]
        BY <2>3, <3>1
      <4>. QED  BY <4>1, <4>2 DEF BridgeInv, QueuedOnce
    <3>2. \A k \in Ids : InQueue(k)' => world'[k] = 0 /\ ~InBatch(k)' /\ ~Completed(k)'
      BY <2>1, <2>6, <2>7, <2>8 DEF BridgeInv, QueuedOnce, Completed
    <3>. QED  BY <3>1, <3>2 DEF QueuedOnce
  <2>10. PushedFirst'
    BY <2>1, <2>3, <2>4, <2>6, <2>7, <2>8 DEF BridgeInv, PushedFirst, Completed, Tracked
  <2>11. AtMostOnce'
    BY <2>8 DEF BridgeInv, AtMostOnce
  <2>12. CompletedIsVisible'
    BY <2>1, <2>5, <2>8
    DEF BridgeInv, CompletedIsVisible, Completed, Visible, PublicationFailed
  <2>. QED  BY <1>t, <2>1, <2>9, <2>10, <2>11, <2>12
            DEF BridgeInv, LedgerConsistent, VersionsOrdered, BatchVisible, Tracked
<1>5. ASSUME CompleteCommand PROVE BridgeInv'
  <2>. DEFINE c == Head(batch)
              status == IF c.ok THEN "success" ELSE "failure"
              order == IF Tracked(c.id) THEN resultOrder ELSE Append(resultOrder, c.id)
  <2>1. /\ UNCHANGED <<post, commands, frame, world, currentVersion, currentJson>>
        /\ frame = "complete"
        /\ batch # <<>>
        /\ batch' = Tail(batch)
        /\ Track(c.id, status, order)
    BY <1>5 DEF CompleteCommand, snapshotVars
  <2>2. /\ c.id \in Ids
        /\ Len(batch') = Len(batch) - 1
        /\ \A i \in 1..Len(batch') : batch'[i] = batch[i + 1]
        /\ 1 \in 1..Len(batch) /\ batch[1].id = c.id
    <3>1. batch \in Seq(Completions)
      BY DEF BridgeInv, BridgeTypeOK
    <3>2. c = batch[1] /\ 1 \in 1..Len(batch) /\ c \in Completions
      BY <2>1, <3>1
    <3>3. /\ Len(batch') = Len(batch) - 1
          /\ \A i \in 1..Len(batch') : batch'[i] = batch[i + 1]
      BY <2>1, <3>1
    <3>. QED  BY <3>2, <3>3 DEF Completions
  <2>3. InBatch(c.id)
    BY <2>2 DEF InBatch
  <2>4. \A k \in Ids : InBatch(k)' => InBatch(k)
    <3>1. ASSUME NEW i \in 1..Len(batch') PROVE i + 1 \in 1..Len(batch)
      BY <2>2 DEF BridgeInv, BridgeTypeOK
    <3>. QED  BY <2>2, <3>1 DEF InBatch
  <2>5. \A k \in Ids : Completed(k)' => Completed(k) \/ k = c.id
    BY <2>1 DEF Track, Completed
  <2>6. \A k \in Ids : Tracked(k)' => Tracked(k) \/ k = c.id
    BY <2>1 DEF Track, Tracked
  <2>7. post[c.id] = "pushed" /\ ~InQueue(c.id) /\ Visible(c.id)
    BY <2>1, <2>2, <2>3 DEF BridgeInv, PushedFirst, QueuedOnce, BatchVisible
  <2>8. LedgerConsistent'
    <3>1. /\ status \in Statuses /\ status # "untracked"
      BY DEF Statuses
    <3>2. /\ order \in Seq(Ids)
          /\ \A i, j \in 1..Len(order) : order[i] = order[j] => i = j
          /\ \A k \in Ids : Tracked(k) \/ k = c.id
                            <=> \E i \in 1..Len(order) : order[i] = k
      <4>. resultOrder \in Seq(Ids)
        BY DEF BridgeInv, BridgeTypeOK
      <4>1. CASE Tracked(c.id)
        BY <2>2, <4>1 DEF BridgeInv, LedgerConsistent
      <4>2. CASE ~Tracked(c.id)
        <5>1. /\ order = Append(resultOrder, c.id)
              /\ order \in Seq(Ids)
              /\ Len(order) = Len(resultOrder) + 1
              /\ \A i \in 1..Len(resultOrder) : order[i] = resultOrder[i]
              /\ order[Len(order)] = c.id
          BY <2>2, <4>2
        <5>2. \A i, j \in 1..Len(order) : order[i] = order[j] => i = j
          BY <2>2, <4>2, <5>1 DEF BridgeInv, LedgerConsistent
        <5>3. ASSUME NEW k \in Ids
              PROVE  Tracked(k) \/ k = c.id <=> \E i \in 1..Len(order) : order[i] = k
          <6>1. CASE k = c.id
            BY <5>1, <6>1
          <6>2. CASE k # c.id
            BY <5>1, <6>2 DEF BridgeInv, LedgerConsistent
          <6>. QED  BY <6>1, <6>2
        <5>. QED  BY <5>1, <5>2, <5>3
      <4>. QED  BY <4>1, <4>2
    <3>. HIDE DEF status, order
    <3>. QED  BY <2>1, <2>2, <3>1, <3>2, TrackKeepsLedger DEF BridgeInv
  <2>9. PushedFirst'
    BY <2>1, <2>2, <2>4, <2>5, <2>6, <2>7 DEF BridgeInv, PushedFirst, InQueue
  <2>10. QueuedOnce'
    BY <2>1, <2>2, <2>4, <2>5, <2>7 DEF BridgeInv, QueuedOnce, InQueue
  <2>11. CompletedIsVisible' /\ BatchVisible'
    BY <2>1, <2>2, <2>4, <2>5, <2>7
    DEF BridgeInv, CompletedIsVisible, BatchVisible, Visible, PublicationFailed
  <2>. QED  BY <1>t, <2>1, <2>8, <2>9, <2>10, <2>11
            DEF BridgeInv, VersionsOrdered, AtMostOnce
<1>6. ASSUME PublishEffects PROVE BridgeInv'
  BY <1>t, <1>6, SnapshotStep DEF PublishEffects
<1>7. ASSUME RefreshSnapshot PROVE BridgeInv'
  <2>1. CASE snapshotDue
    BY <1>t, <1>7, <2>1, SnapshotStep DEF RefreshSnapshot
  <2>2. CASE ~snapshotDue
    BY <1>t, <1>7, <2>2, OtherStep DEF RefreshSnapshot, commandVars
  <2>. QED  BY <2>1, <2>2
<1>8. ASSUME EndDrain \/ EndCompletions \/ ServeRead \/ EndReads \/ SnapshotFallsDue
      PROVE  BridgeInv'
  BY <1>t, <1>8, OtherStep DEF EndDrain, EndCompletions, ServeRead, EndReads,
     SnapshotFallsDue, commandVars, frameVars, snapshotVars
<1>9. ASSUME StateHandlers \/ ReadHandlers \/ UNCHANGED bridgeVars PROVE BridgeInv'
  BY <1>t, <1>9, OtherStep DEF StateHandlers, RequestState, WakeWaiter, TimeoutWaiter,
     ReleaseWaiter, ReadHandlers, EnqueueRead, TimeoutRead, bridgeVars, commandVars,
     frameVars, snapshotVars
<1>. QED
  BY <1>1, <1>2, <1>3, <1>4, <1>5, <1>6, <1>7, <1>8, <1>9
  DEF BridgeNext, BridgeStep, MainThread, CommandHandlers

LEMMA BridgeInvInit == BridgeInit => BridgeInv
<1>. SUFFICES ASSUME BridgeInit PROVE BridgeInv
  OBVIOUS
<1>1. BridgeTypeOK
  BY DEF BridgeInit, BridgeTypeOK, PostStages, Statuses, Frames, Documents, Idle, WaiterStates
<1>2. Len(commands) = 0 /\ Len(batch) = 0 /\ Len(resultOrder) = 0
  BY DEF BridgeInit
<1>. QED  BY <1>1, <1>2, BridgeAssumption
          DEF BridgeInit, BridgeInv, LedgerConsistent, VersionsOrdered, PushedFirst, QueuedOnce,
              AtMostOnce, CompletedIsVisible, BatchVisible, InQueue, InBatch, Completed, Tracked

LEMMA BridgeInvariant == BridgeSpec => []BridgeInv
  BY BridgeInvInit, BridgeInvStep, PTL DEF BridgeSpec

-----------------------------------------------------------------------------
(* The properties the runs check, for every value of the constants *)

(* The result ledger is bounded, duplicate-free and lists exactly the       *)
(* tracked ids.                                                             *)
THEOREM LedgerIsConsistent == BridgeSpec => []LedgerConsistent
  BY BridgeInvariant, PTL DEF BridgeInv

(* No command is executed twice.                                            *)
THEOREM ExecutedAtMostOnce == BridgeSpec => []AtMostOnce
  BY BridgeInvariant, PTL DEF BridgeInv

(* The state barrier: a completed command is in the published document,     *)
(* unless the last build failed.                                            *)
THEOREM CompletedCommandsAreVisible == BridgeSpec => []CompletedIsVisible
  BY BridgeInvariant, PTL DEF BridgeInv

(* Every sleeping request waits for a newer state than the published one.   *)
LEMMA WakeupStep ==
    ASSUME BridgeInv, NoLostWakeup, [BridgeNext]_bridgeVars
    PROVE  NoLostWakeup'
<1>0. /\ waiter \in [Waiters -> WaiterStates]
      /\ currentVersion \in Nat /\ currentJson.version \in Nat
      /\ currentJson.version <= currentVersion
  BY DEF BridgeInv, BridgeTypeOK, VersionsOrdered, Documents
<1>1. CASE UNCHANGED <<waiter, currentJson>>
  BY <1>1 DEF NoLostWakeup
<1>2. CASE \E built \in BOOLEAN : UpdateStateSnapshot(built)
  <2>1. PICK built \in BOOLEAN : UpdateStateSnapshot(built)
    BY <1>2
  <2>2. CASE built
    <3>1. \A w \in Waiters : waiter'[w].phase # "waiting"
      BY <1>0, <2>1, <2>2 DEF UpdateStateSnapshot, Pulsed, WaiterStates
    <3>. QED  BY <3>1 DEF NoLostWakeup
  <2>3. CASE ~built
    BY <2>1, <2>3 DEF UpdateStateSnapshot, NoLostWakeup
  <2>. QED  BY <2>2, <2>3
<1>3. ASSUME NEW w \in Waiters, currentJson' = currentJson,
             RequestState(w) \/ WakeWaiter(w) \/ TimeoutWaiter(w) \/ ReleaseWaiter(w)
      PROVE  NoLostWakeup'
  <2>1. \A v \in Waiters : v # w => waiter'[v] = waiter[v]
    BY <1>0, <1>3 DEF RequestState, WakeWaiter, TimeoutWaiter, ReleaseWaiter
  <2>2. waiter'[w].phase = "waiting" => currentJson.version <= waiter'[w].after
    <3>1. CASE RequestState(w)
      BY <1>0, <3>1 DEF RequestState, Idle
    <3>2. CASE WakeWaiter(w)
      <4>1. waiter[w].after \in Nat /\ waiter[w] \in WaiterStates
        BY <1>0 DEF WaiterStates
      <4>2. CASE currentVersion > waiter[w].after
        BY <1>0, <3>2, <4>1, <4>2 DEF WakeWaiter, Reply, WaiterStates
      <4>3. CASE ~(currentVersion > waiter[w].after)
        <5>1. waiter'[w].after = waiter[w].after /\ currentVersion <= waiter[w].after
          BY <1>0, <3>2, <4>1, <4>3 DEF WakeWaiter, WaiterStates
        <5>. QED  BY <1>0, <4>1, <5>1
      <4>. QED  BY <4>2, <4>3
    <3>3. CASE TimeoutWaiter(w) \/ ReleaseWaiter(w)
      <4>1. waiter[w] \in WaiterStates
        BY <1>0
      <4>2. Reply(w).phase \in {"fresh", "stale"} /\ Idle.phase = "idle"
        BY <4>1 DEF Reply, WaiterStates, Idle
      <4>3. waiter'[w] \in {Reply(w), Idle}
        BY <1>0, <3>3 DEF TimeoutWaiter, ReleaseWaiter
      <4>. QED  BY <4>2, <4>3
    <3>. QED  BY <1>3, <3>1, <3>2, <3>3
  <2>. QED  BY <1>3, <2>1, <2>2 DEF NoLostWakeup
<1>4. \/ UNCHANGED <<waiter, currentJson>>
      \/ \E built \in BOOLEAN : UpdateStateSnapshot(built)
      \/ StateHandlers
  BY BridgeAssumption DEF BridgeAssumption, BridgeNext, BridgeStep, MainThread, ExecuteCommand,
     EndDrain, PublishEffects, CompleteCommand, EndCompletions, ServeRead, EndReads,
     RefreshSnapshot, SnapshotFallsDue, CommandHandlers, LosePost, RejectCommand,
     EnqueueRegister, EnqueuePush, SendPost, ReadHandlers, EnqueueRead, TimeoutRead, bridgeVars,
     snapshotVars
<1>5. ASSUME StateHandlers PROVE NoLostWakeup'
  <2>1. currentJson' = currentJson
    BY <1>5 DEF StateHandlers, RequestState, WakeWaiter, TimeoutWaiter, ReleaseWaiter,
       snapshotVars
  <2>. QED  BY <1>3, <1>5, <2>1 DEF StateHandlers
<1>. QED  BY <1>1, <1>2, <1>4, <1>5

(* No request for a newer state sleeps through a snapshot that satisfies it. *)
THEOREM NoWakeupIsLost == BridgeSpec => []NoLostWakeup
<1>1. BridgeInit => NoLostWakeup
  BY DEF BridgeInit, NoLostWakeup, Idle
<1>2. NoLostWakeup /\ BridgeInv /\ [BridgeNext]_bridgeVars => NoLostWakeup'
  BY WakeupStep
<1>. QED  BY <1>1, <1>2, BridgeInvariant, PTL DEF BridgeSpec

(* A reply given as fresh is newer than what the client has seen, unless    *)
(* the last build of the document had failed.                               *)
THEOREM FreshRepliesAreNewer == BridgeSpec => OnlyFailuresAreStale
<1>. DEFINE Newer == \A w \in Waiters :
                       waiter'[w].phase = "fresh" /\ waiter[w].phase # "fresh"
                         => waiter'[w].version > waiter[w].after \/ PublicationFailed
<1>1. ASSUME BridgeInv, [BridgeNext]_bridgeVars PROVE Newer
  <2>. SUFFICES ASSUME NEW w \in Waiters,
                       waiter'[w].phase = "fresh", waiter[w].phase # "fresh",
                       ~PublicationFailed
                PROVE  waiter'[w].version > waiter[w].after
    OBVIOUS
  <2>0. /\ waiter \in [Waiters -> WaiterStates] /\ waiter[w] \in WaiterStates
        /\ currentVersion \in Nat /\ currentJson.version = currentVersion
    BY <1>1 DEF BridgeInv, BridgeTypeOK, VersionsOrdered, Documents, PublicationFailed
  <2>1. CASE waiter' = [waiter EXCEPT ![w] = Reply(w)]
    <3>1. waiter'[w] = Reply(w)
      BY <2>0, <2>1
    <3>2. /\ waiter[w].after \in Nat
          /\ waiter'[w].after = waiter[w].after /\ waiter'[w].version = currentJson.version
          /\ waiter'[w].phase = IF currentVersion > waiter[w].after THEN "fresh" ELSE "stale"
      BY <2>0, <3>1 DEF Reply, WaiterStates
    <3>. QED  BY <2>0, <3>2
  <2>2. CASE waiter' = waiter
    BY <2>2
  <2>3. CASE \E built \in BOOLEAN : UpdateStateSnapshot(built)
    BY <2>0, <2>3 DEF UpdateStateSnapshot, Pulsed, WaiterStates
  <2>4. ASSUME NEW v \in Waiters,
               RequestState(v) \/ WakeWaiter(v) \/ TimeoutWaiter(v) \/ ReleaseWaiter(v)
        PROVE  waiter' = [waiter EXCEPT ![w] = Reply(w)]
    <3>1. v = w
      BY <2>0, <2>4 DEF RequestState, WakeWaiter, TimeoutWaiter, ReleaseWaiter
    <3>2. ~RequestState(w)
      <4>1. RequestState(w) => waiter'[w].phase \in {"woken", "waiting"}
        BY <2>0 DEF RequestState, Idle
      <4>. QED  BY <4>1
    <3>3. ~ReleaseWaiter(w)
      BY <2>0 DEF ReleaseWaiter, Idle
    <3>4. CASE WakeWaiter(w)
      <4>1. waiter'[w] = IF currentVersion > waiter[w].after THEN Reply(w)
                         ELSE [waiter[w] EXCEPT !.phase = "waiting"]
        BY <2>0, <3>4 DEF WakeWaiter
      <4>2. [waiter[w] EXCEPT !.phase = "waiting"].phase = "waiting"
        BY <2>0 DEF WaiterStates
      <4>3. currentVersion > waiter[w].after
        BY <4>1, <4>2
      <4>. QED  BY <3>4, <4>3 DEF WakeWaiter
    <3>. QED  BY <2>4, <3>1, <3>2, <3>3, <3>4 DEF TimeoutWaiter
  <2>5. \/ waiter' = waiter
        \/ \E built \in BOOLEAN : UpdateStateSnapshot(built)
        \/ StateHandlers
    BY <1>1, BridgeAssumption DEF BridgeAssumption, BridgeNext, BridgeStep, MainThread,
       ExecuteCommand, EndDrain, PublishEffects, CompleteCommand, EndCompletions, ServeRead,
       EndReads, RefreshSnapshot, SnapshotFallsDue, CommandHandlers, LosePost, RejectCommand,
       EnqueueRegister, EnqueuePush, SendPost, ReadHandlers, EnqueueRead, TimeoutRead, bridgeVars
  <2>. QED  BY <2>1, <2>2, <2>3, <2>4, <2>5 DEF StateHandlers
<1>2. BridgeInv /\ [BridgeNext]_bridgeVars => [Newer]_bridgeVars
  BY <1>1
<1>. QED  BY <1>2, BridgeInvariant, PTL DEF BridgeSpec, OnlyFailuresAreStale

-----------------------------------------------------------------------------
(* GameBridge implements CommandService for every set of commands and every *)
(* bound: the initial state maps to an initial state, and every step maps   *)
(* to a step of the service or a stutter, in states that satisfy BridgeInv. *)

(* A command whose result is about to be reported ran exactly once.         *)
BatchRan == \A id \in Ids : InBatch(id) => world[id] = 1

RefinementInv == BridgeInv /\ BatchRan

-----------------------------------------------------------------------------
(* The stronger invariant *)

LEMMA BatchRanStep == RefinementInv /\ [BridgeNext]_bridgeVars => BatchRan'
<1>. SUFFICES ASSUME BridgeInv, BatchRan, [BridgeNext]_bridgeVars PROVE BatchRan'
  BY DEF RefinementInv
<1>. USE BridgeAssumption
<1>b. batch \in Seq(Completions) /\ commands \in Seq(Ids) /\ world \in [Ids -> Nat]
  BY DEF BridgeInv, BridgeTypeOK
<1>1. CASE UNCHANGED <<batch, world>>
  BY <1>1 DEF BatchRan, InBatch
<1>2. ASSUME ExecuteCommand PROVE BatchRan'
  <2>. DEFINE id == Head(commands)
  <2>1. /\ id \in Ids /\ commands[1] = id /\ 1 \in 1..Len(commands)
    BY <1>2, <1>b DEF ExecuteCommand
  <2>2. world[id] = 0 /\ ~InBatch(id)
    BY <2>1 DEF BridgeInv, QueuedOnce, InQueue
  <2>3. /\ world' = [world EXCEPT ![id] = @ + 1]
        /\ \E ok \in BOOLEAN : batch' = Append(batch, [id |-> id, ok |-> ok])
    BY <1>2 DEF ExecuteCommand
  <2>4. PICK ok \in BOOLEAN : batch' = Append(batch, [id |-> id, ok |-> ok])
    BY <2>3
  <2>5. ASSUME NEW k \in Ids, InBatch(k)' PROVE InBatch(k) \/ k = id
    <3>1. PICK i \in 1..Len(batch') : batch'[i].id = k
      BY <2>5 DEF InBatch
    <3>2. [id |-> id, ok |-> ok] \in Completions
      BY <2>1 DEF Completions
    <3>3. CASE i = Len(batch) + 1
      BY <1>b, <2>4, <3>1, <3>2, <3>3
    <3>4. CASE i # Len(batch) + 1
      <4>1. i \in 1..Len(batch) /\ batch'[i] = batch[i]
        BY <1>b, <2>4, <3>1, <3>2, <3>4
      <4>. QED  BY <3>1, <4>1 DEF InBatch
    <3>. QED  BY <3>3, <3>4
  <2>. HIDE DEF id
  <2>. QED  BY <1>b, <2>1, <2>2, <2>3, <2>5 DEF BatchRan
<1>3. ASSUME CompleteCommand PROVE BatchRan'
  <2>1. /\ world' = world
        /\ batch # <<>>
        /\ batch' = Tail(batch)
    BY <1>3 DEF CompleteCommand
  <2>2. /\ Len(batch') = Len(batch) - 1
        /\ \A i \in 1..Len(batch') : batch'[i] = batch[i + 1]
    BY <1>b, <2>1
  <2>3. \A k \in Ids : InBatch(k)' => InBatch(k)
    <3>1. ASSUME NEW i \in 1..Len(batch') PROVE i + 1 \in 1..Len(batch)
      BY <1>b, <2>2
    <3>. QED  BY <2>2, <3>1 DEF InBatch
  <2>. QED  BY <2>1, <2>3 DEF BatchRan
<1>. QED
  BY <1>1, <1>2, <1>3
  DEF BridgeNext, BridgeStep, MainThread, EndDrain, PublishEffects, EndCompletions, ServeRead,
      EndReads, RefreshSnapshot, SnapshotFallsDue, CommandHandlers, LosePost, RejectCommand,
      EnqueueRegister, EnqueuePush, SendPost, StateHandlers, RequestState, WakeWaiter,
      TimeoutWaiter, ReleaseWaiter, ReadHandlers, EnqueueRead, TimeoutRead, frameVars, bridgeVars

LEMMA RefinementInvariant == BridgeSpec => []RefinementInv
<1>1. BridgeInit => RefinementInv
  <2>1. BridgeInit => BatchRan
    BY DEF BridgeInit, BatchRan, InBatch
  <2>. QED  BY <2>1, BridgeInvInit DEF RefinementInv
<1>2. RefinementInv /\ [BridgeNext]_bridgeVars => RefinementInv'
  BY BridgeInvStep, BatchRanStep DEF RefinementInv
<1>. QED  BY <1>1, <1>2, PTL DEF BridgeSpec

-----------------------------------------------------------------------------
(* Steps *)

Sent == {id \in Ids : post[id] # "none"}
Reported == {id \in Ids : Completed(id)}

(* A step that touches neither the colony, the published state nor what is  *)
(* reported, and sends nothing, is invisible to the service.                *)
LEMMA Stutter ==
    ASSUME Sent' = Sent, Reported' = Reported,
           UNCHANGED <<world, currentVersion, currentJson>>
    PROVE  UNCHANGED Service!serviceVars
  BY DEF Sent, Reported, Service!serviceVars, PublicationFailed

(* A snapshot is a publication, or a failure to publish.                    *)
LEMMA PublishStep ==
    ASSUME BridgeInv, NEW built \in BOOLEAN, UpdateStateSnapshot(built),
           UNCHANGED <<commandVars, world>>
    PROVE  Service!Publish \/ Service!FailToPublish
<1>1. Sent' = Sent /\ Reported' = Reported
  BY DEF Sent, Reported, Completed, commandVars
<1>2. currentVersion \in Nat /\ currentJson.version \in Nat
      /\ currentJson.version <= currentVersion
  BY DEF BridgeInv, BridgeTypeOK, VersionsOrdered, Documents
<1>3. CASE built
  <2>1. currentJson' = [version |-> currentVersion', world |-> world]
    BY <1>3 DEF UpdateStateSnapshot
  <2>2. currentJson'.world = world /\ PublicationFailed' = FALSE
    BY <1>2, <2>1 DEF PublicationFailed, UpdateStateSnapshot
  <2>. QED  BY <1>1, <2>2 DEF Service!Publish, Sent, Reported
<1>4. CASE ~built
  <2>1. currentJson' = currentJson /\ PublicationFailed' = TRUE
    BY <1>2, <1>4 DEF PublicationFailed, UpdateStateSnapshot
  <2>. QED  BY <1>1, <2>1 DEF Service!FailToPublish, Sent, Reported
<1>. QED  BY <1>3, <1>4

(* A completion is reported: its own entry survives the trim it causes.     *)
LEMMA ReportStep ==
    ASSUME RefinementInv, CompleteCommand
    PROVE  \E id \in Ids : Service!Report(id)
<1>. USE BridgeAssumption
<1>. DEFINE c == Head(batch)
            status == IF c.ok THEN "success" ELSE "failure"
            order == IF Tracked(c.id) THEN resultOrder ELSE Append(resultOrder, c.id)
<1>1. /\ UNCHANGED <<post, world, currentVersion, currentJson>>
      /\ frame = "complete"
      /\ batch # <<>>
      /\ Track(c.id, status, order)
  BY DEF CompleteCommand, snapshotVars
<1>2. c.id \in Ids /\ InBatch(c.id)
  <2>1. batch \in Seq(Completions)
    BY DEF RefinementInv, BridgeInv, BridgeTypeOK
  <2>2. c = batch[1] /\ 1 \in 1..Len(batch) /\ c \in Completions
    BY <1>1, <2>1
  <2>. QED  BY <2>2 DEF Completions, InBatch
<1>3. world[c.id] = 1 /\ (currentJson.world[c.id] = 1 \/ PublicationFailed)
  BY <1>1, <1>2 DEF RefinementInv, BatchRan, BridgeInv, BatchVisible, Visible
<1>4. c.id \notin Dropped(order)
  <2>. resultOrder \in Seq(Ids) /\ Len(resultOrder) <= MaxTrackedCommands
    BY DEF RefinementInv, BridgeInv, BridgeTypeOK, LedgerConsistent
  <2>1. CASE Tracked(c.id)
    BY <2>1 DEF Dropped, Excess
  <2>2. CASE ~Tracked(c.id)
    <3>1. /\ order = Append(resultOrder, c.id)
          /\ Len(order) = Len(resultOrder) + 1
          /\ \A i \in 1..Len(resultOrder) : order[i] = resultOrder[i]
      BY <1>2, <2>2
    <3>2. \A i \in 1..Len(resultOrder) : resultOrder[i] # c.id
      BY <1>2, <2>2 DEF RefinementInv, BridgeInv, LedgerConsistent
    <3>3. \A i \in 1..Excess(order) : i \in 1..Len(resultOrder)
      BY <3>1 DEF Excess
    <3>. HIDE DEF order
    <3>. QED  BY <3>1, <3>2, <3>3 DEF Dropped
  <2>. QED  BY <2>1, <2>2
<1>5. /\ c.id \in Reported'
      /\ \A k \in Reported' : k \in Reported \/ k = c.id
  BY <1>1, <1>2, <1>4 DEF Track, Reported, Completed
<1>6. \E kept \in SUBSET Reported : Reported' = kept \cup {c.id}
  <2>1. Reported' = (Reported' \cap Reported) \cup {c.id}
    BY <1>5
  <2>. QED  BY <2>1
<1>7. Sent' = Sent /\ PublicationFailed' = PublicationFailed
  BY <1>1 DEF Sent, PublicationFailed
<1>. HIDE DEF c
<1>8. Service!Report(c.id)
  BY <1>1, <1>3, <1>6, <1>7 DEF Service!Report, Sent, Reported
<1>. QED  BY <1>2, <1>8

(* Every step of the bridge is a step of the service or a stutter.          *)
LEMMA RefinementStep ==
    RefinementInv /\ [BridgeNext]_bridgeVars => [Service!ServiceNext]_Service!serviceVars
<1>. SUFFICES ASSUME RefinementInv, [BridgeNext]_bridgeVars
              PROVE  Service!ServiceNext \/ UNCHANGED Service!serviceVars
  OBVIOUS
<1>. USE BridgeAssumption
<1>0. /\ post \in [Ids -> PostStages] /\ world \in [Ids -> Nat]
      /\ commands \in Seq(Ids) /\ BuildOutcomes \subseteq BOOLEAN
  BY DEF RefinementInv, BridgeInv, BridgeTypeOK, BridgeAssumption
<1>1. ASSUME NEW id \in Ids, SendPost(id) PROVE Service!Send(id)
  <2>1. id \notin Sent /\ Sent' = Sent \cup {id}
    BY <1>0, <1>1 DEF SendPost, Sent
  <2>2. Reported' = Reported /\ PublicationFailed' = PublicationFailed
        /\ UNCHANGED <<world, currentJson>>
    BY <1>1 DEF SendPost, Reported, Completed, PublicationFailed, frameVars, snapshotVars
  <2>. QED  BY <2>1, <2>2 DEF Service!Send, Sent, Reported
<1>2. ASSUME NEW id \in Ids, LosePost(id) \/ RejectCommand(id) \/ EnqueuePush(id)
      PROVE  UNCHANGED Service!serviceVars
  <2>1. Sent' = Sent
    BY <1>0, <1>2 DEF LosePost, RejectCommand, EnqueuePush, Sent
  <2>2. Reported' = Reported /\ UNCHANGED <<world, currentVersion, currentJson>>
    BY <1>2 DEF LosePost, RejectCommand, EnqueuePush, Reported, Completed, frameVars,
                snapshotVars
  <2>. QED  BY <2>1, <2>2, Stutter
<1>3. ASSUME NEW id \in Ids, EnqueueRegister(id) PROVE Service!Forget
  <2>1. Sent' = Sent
    BY <1>0, <1>3 DEF EnqueueRegister, Sent
  <2>2. Reported' \in SUBSET Reported
    BY <1>3 DEF EnqueueRegister, Track, Reported, Completed
  <2>3. UNCHANGED <<world, currentVersion, currentJson>>
    BY <1>3 DEF EnqueueRegister, frameVars, snapshotVars
  <2>. QED  BY <2>1, <2>2, <2>3 DEF Service!Forget, Sent, Reported, PublicationFailed
<1>4. ASSUME ExecuteCommand PROVE \E id \in Ids : Service!Execute(id)
  <2>. DEFINE id == Head(commands)
  <2>1. id \in Ids /\ commands[1] = id /\ 1 \in 1..Len(commands)
    BY <1>0, <1>4 DEF ExecuteCommand
  <2>2. world[id] = 0 /\ post[id] = "pushed"
    BY <2>1 DEF RefinementInv, BridgeInv, QueuedOnce, PushedFirst, InQueue
  <2>3. world' = [world EXCEPT ![id] = 1]
    BY <1>0, <1>4, <2>1, <2>2 DEF ExecuteCommand
  <2>4. Sent' = Sent /\ Reported' = Reported /\ PublicationFailed' = PublicationFailed
        /\ currentJson' = currentJson
    BY <1>4 DEF ExecuteCommand, Sent, Reported, Completed, PublicationFailed, snapshotVars
  <2>. HIDE DEF id
  <2>5. Service!Execute(id)
    BY <2>1, <2>2, <2>3, <2>4 DEF Service!Execute, Sent, Reported
  <2>. QED  BY <2>1, <2>5
<1>5. ASSUME PublishEffects PROVE Service!Publish \/ Service!FailToPublish
  BY <1>0, <1>5, PublishStep DEF PublishEffects, RefinementInv
<1>6. ASSUME RefreshSnapshot, snapshotDue PROVE Service!Publish \/ Service!FailToPublish
  BY <1>0, <1>6, PublishStep DEF RefreshSnapshot, RefinementInv
<1>7. ASSUME \/ EndDrain \/ EndCompletions \/ ServeRead \/ EndReads \/ SnapshotFallsDue
             \/ RefreshSnapshot /\ ~snapshotDue
             \/ StateHandlers \/ ReadHandlers \/ UNCHANGED bridgeVars
      PROVE  UNCHANGED Service!serviceVars
  <2>1. UNCHANGED <<post, results, world, currentVersion, currentJson>>
    BY <1>7 DEF EndDrain, EndCompletions, ServeRead, EndReads, SnapshotFallsDue,
       RefreshSnapshot, StateHandlers, RequestState, WakeWaiter, TimeoutWaiter, ReleaseWaiter,
       ReadHandlers, EnqueueRead, TimeoutRead, bridgeVars, commandVars, frameVars, snapshotVars
  <2>2. Sent' = Sent /\ Reported' = Reported
    BY <2>1 DEF Sent, Reported, Completed
  <2>. QED  BY <2>1, <2>2, Stutter
<1>8. ASSUME CompleteCommand PROVE \E id \in Ids : Service!Report(id)
  BY <1>8, ReportStep
<1>. QED
  BY <1>1, <1>2, <1>3, <1>4, <1>5, <1>6, <1>7, <1>8
  DEF BridgeNext, BridgeStep, MainThread, CommandHandlers, Service!ServiceNext

(* The bridge keeps the abstract promise: at-most-once execution, no result *)
(* before its effect is published or the publication has failed.            *)
THEOREM BridgeImplementsService == BridgeSpec => ImplementsService
<1>1. BridgeInit => Service!ServiceInit
  <2>. SUFFICES ASSUME BridgeInit PROVE Service!ServiceInit
    OBVIOUS
  <2>1. {id \in Ids : post[id] # "none"} = {} /\ {id \in Ids : Completed(id)} = {}
    BY DEF BridgeInit, Completed
  <2>2. world = [id \in Ids |-> 0] /\ currentJson.world = world /\ PublicationFailed = FALSE
    BY DEF BridgeInit, PublicationFailed
  <2>. QED  BY <2>1, <2>2 DEF Service!ServiceInit
<1>. QED
  BY <1>1, RefinementInvariant, RefinementStep, PTL
  DEF BridgeSpec, ImplementsService, Service!ServiceSpec
=============================================================================
