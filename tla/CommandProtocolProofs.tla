------------------------ MODULE CommandProtocolProofs ------------------------
(***************************************************************************)
(* CommandProtocol for any number of commands, any bounds, any decisions of *)
(* the model and any behaviour of the network. What the controller may rely *)
(* on is the promise of CommandService, which every step of the game keeps  *)
(* (GameBridgeProofs): the proofs look at the game through it.              *)
(***************************************************************************)
EXTENDS CommandProtocol, GameBridgeProofs

(* What a client can read as completed ran, once.                           *)
ReportedRan == \A id \in Ids : Completed(id) => world[id] = 1

(* Replies are awaited, and commands waited for, only where run_once is in  *)
(* between; a cycle reaches its final state with nothing uncertain, and     *)
(* reconciliation asks about nothing else.                                  *)
Settled ==
    /\ phase # "posting" => posting = {}
    /\ phase \notin {"submit", "posting", "wait", "deadline"} => pending = {}
    /\ phase = "final" => uncertain = {}
    /\ toReconcile \subseteq uncertain

ClientInv == RefinementInv /\ TypeOK /\ ReportedRan /\ Settled
             /\ NothingForgotten /\ ConfirmedRan

(* The published document shows that the command ran, or the last build of  *)
(* it failed.                                                               *)
Shown(id) == currentJson.world[id] = 1 \/ PublicationFailed

(* What can be read as completed is shown, and so is what the controller    *)
(* has seen completed, long after the ledger forgot it.                     *)
Published ==
    /\ \A id \in Ids : Completed(id) => Shown(id)
    /\ \A id \in confirmed : Shown(id)

PublishedInv == ClientInv /\ Published

-----------------------------------------------------------------------------
(* The game, seen by the controller *)

(* A command that ran stays run, and nothing else is reported.              *)
LEMMA GameKeepsResults ==
  ASSUME RefinementInv, ReportedRan, [BridgeNext]_bridgeVars
  PROVE  /\ ReportedRan'
         /\ \A id \in Ids : world[id] = 1 => world'[id] = 1
<1>1. [Service!ServiceNext]_Service!serviceVars
  BY RefinementStep
<1>2. world \in [Ids -> Nat]
  BY DEF RefinementInv, BridgeInv, BridgeTypeOK
<1>3. CASE UNCHANGED Service!serviceVars
  <2>1. world' = world /\ Reported' = Reported
    BY <1>3 DEF Service!serviceVars, Reported
  <2>. QED
    BY <2>1 DEF ReportedRan, Reported
<1>4. CASE \E id \in Ids : Service!Send(id)
  <2>1. world' = world /\ Reported' = Reported
    BY <1>4 DEF Service!Send, Reported
  <2>. QED
    BY <2>1 DEF ReportedRan, Reported
<1>5. CASE \E id \in Ids : Service!Execute(id)
  <2>1. PICK id \in Ids : Service!Execute(id)
    BY <1>5
  <2>2. /\ world[id] = 0 /\ world' = [world EXCEPT ![id] = 1]
        /\ Reported' = Reported
    BY <2>1 DEF Service!Execute, Reported
  <2>. QED
    BY <1>2, <2>2 DEF ReportedRan, Reported
<1>6. CASE \E id \in Ids : Service!Report(id)
  <2>1. PICK id \in Ids : Service!Report(id)
    BY <1>6
  <2>2. /\ world[id] = 1 /\ world' = world
        /\ \A k \in Reported' : k \in Reported \/ k = id
    BY <2>1 DEF Service!Report, Reported
  <2>. QED
    BY <2>2 DEF ReportedRan, Reported
<1>7. CASE Service!Publish \/ Service!FailToPublish
  <2>1. world' = world /\ Reported' = Reported
    BY <1>7 DEF Service!Publish, Service!FailToPublish, Reported
  <2>. QED
    BY <2>1 DEF ReportedRan, Reported
<1>8. CASE Service!Forget
  <2>1. world' = world /\ Reported' \subseteq Reported
    BY <1>8 DEF Service!Forget, Reported
  <2>. QED
    BY <2>1 DEF ReportedRan, Reported
<1>. QED
  BY Zenon, <1>1, <1>3, <1>4, <1>5, <1>6, <1>7, <1>8 DEF Service!ServiceNext

(* No step of the game sends a command for the controller.                  *)
LEMMA GameSendsNothing ==
  ASSUME RefinementInv, BridgeStep
  PROVE  Issued' = Issued
<1>1. post \in [Ids -> PostStages]
  BY DEF RefinementInv, BridgeInv, BridgeTypeOK
<1>2. CASE CommandHandlers
  BY <1>1, <1>2 DEF CommandHandlers, LosePost, RejectCommand, EnqueueRegister, EnqueuePush, Issued
<1>3. CASE MainThread \/ SnapshotFallsDue \/ StateHandlers \/ ReadHandlers
  <2>1. post' = post
    BY <1>3 DEF MainThread, ExecuteCommand, EndDrain, PublishEffects, CompleteCommand,
       EndCompletions, ServeRead, EndReads, RefreshSnapshot, SnapshotFallsDue, StateHandlers,
       RequestState, WakeWaiter, TimeoutWaiter, ReleaseWaiter, ReadHandlers, EnqueueRead,
       TimeoutRead, commandVars
  <2>. QED
    BY <2>1 DEF Issued
<1>. QED
  BY <1>2, <1>3 DEF BridgeStep

(* To the game, a step of the controller is a POST or nothing.              *)
LEMMA ControllerToGame ==
  ASSUME [Next]_vars
  PROVE  [BridgeNext]_bridgeVars
<1>1. CASE Game
  BY Zenon, <1>1 DEF Game, BridgeNext
<1>2. CASE \E id \in Ids : Submit(id)
  BY Zenon, <1>2 DEF Submit, BridgeNext
<1>3. CASE UNCHANGED bridgeVars
  BY <1>3
<1>. QED
  BY Zenon, <1>1, <1>2, <1>3 DEF Next, vars, Controller, BeginCycle, PrepareBatch, ReadOnlyRound,
     FinishRounds, AbortCycle, PostAccepted, PostFailedKnown, PostFailedUnreachable, Submitted,
     PollCompleted, FinalStatus, ReconcileCompleted, ReconcileUnresolved, EndSubmit, StopPolling,
     EndWait, EndReconcile, RefreshAfterWrites, RefreshAfterReads, RefreshFails, EndSettled,
     CommitCycle

-----------------------------------------------------------------------------
(* The controller *)

(* A step of the controller that submits nothing leaves the game alone.     *)
LEMMA TypesAndSettled ==
  ASSUME ClientInv, [Next]_vars, BridgeTypeOK'
  PROVE  TypeOK' /\ Settled'
<1>. USE DEF Phases
<1>0. /\ TypeOK /\ Settled /\ currentJson \in Documents /\ state \in Documents
      /\ baseline \in Documents /\ MaxCycles \in Nat
  BY ProtocolAssumption DEF ClientInv, TypeOK, BridgeTypeOK
<1>1. CASE Game \/ UNCHANGED vars
  <2>1. UNCHANGED clientVars
    BY <1>1 DEF Game, vars
  <2>. QED
    BY <1>0, <2>1 DEF TypeOK, Settled, clientVars, batchVars, uncertainVars, stateVars
<1>2. CASE BeginCycle \/ ReadOnlyRound \/ FinishRounds \/ AbortCycle
  <2>1. cycles' \in Nat /\ phase' \in {"model", "reconcile", "settle", "idle"}
    BY <1>0, <1>2 DEF BeginCycle, ReadOnlyRound, FinishRounds, AbortCycle, TypeOK
  <2>2. phase \in {"idle", "model", "refresh", "final", "settle"}
    BY <1>2 DEF BeginCycle, ReadOnlyRound, FinishRounds, AbortCycle
  <2>3. UNCHANGED <<todo, posting, pending, uncertain, confirmed, roundVersion, baseline>>
    BY <1>2 DEF BeginCycle, ReadOnlyRound, FinishRounds, AbortCycle, batchVars, uncertainVars,
       stateVars
  <2>4. toReconcile' \subseteq Ids /\ lastBatch' \subseteq Ids
    BY <1>0, <1>2 DEF BeginCycle, ReadOnlyRound, FinishRounds, AbortCycle, uncertainVars, TypeOK
  <2>5. state' \in Documents /\ stateNote' \in {"current", "fresh", "stale"}
    BY <1>0, <1>2 DEF BeginCycle, ReadOnlyRound, FinishRounds, AbortCycle, stateVars, TypeOK
  <2>6. toReconcile' \subseteq uncertain'
    BY <1>0, <1>2 DEF BeginCycle, ReadOnlyRound, FinishRounds, AbortCycle, uncertainVars,
       Settled
  <2>. QED
    BY <1>0, <2>1, <2>2, <2>3, <2>4, <2>5, <2>6 DEF TypeOK, Settled
<1>3. CASE PrepareBatch
  <2>1. todo' \subseteq Ids /\ lastBatch' \subseteq Ids /\ roundVersion' \in Nat
    BY <1>0, <1>3 DEF PrepareBatch, Documents
  <2>. QED
    BY <1>0, <1>3, <2>1 DEF PrepareBatch, TypeOK, Settled, uncertainVars, stateVars
<1>4. ASSUME NEW id \in Ids, Submit(id) PROVE TypeOK' /\ Settled'
  BY <1>0, <1>4 DEF Submit, TypeOK, Settled, uncertainVars, stateVars
<1>5. ASSUME NEW id \in Ids,
             PostAccepted(id) \/ PostFailedKnown(id) \/ PostFailedUnreachable(id)
      PROVE  TypeOK' /\ Settled'
  BY <1>0, <1>5 DEF PostAccepted, PostFailedKnown, PostFailedUnreachable, Submitted, TypeOK,
     Settled, stateVars
<1>6. ASSUME NEW id \in Ids, PollCompleted(id) \/ FinalStatus(id)
      PROVE  TypeOK' /\ Settled'
  BY <1>0, <1>6 DEF PollCompleted, FinalStatus, TypeOK, Settled, stateVars
<1>7. ASSUME NEW id \in Ids, ReconcileCompleted(id) \/ ReconcileUnresolved(id)
      PROVE  TypeOK' /\ Settled'
  BY <1>0, <1>7 DEF ReconcileCompleted, ReconcileUnresolved, TypeOK, Settled, batchVars,
     stateVars
<1>8. CASE EndSubmit \/ StopPolling \/ EndWait \/ EndReconcile \/ EndSettled
  <2>1. UNCHANGED <<cycles, todo, posting, pending, uncertain, confirmed, roundVersion,
                    lastBatch, state, stateNote, baseline>>
    BY <1>8 DEF EndSubmit, StopPolling, EndWait, EndReconcile, EndSettled, batchVars,
       uncertainVars, stateVars
  <2>2. toReconcile' \subseteq Ids
    BY <1>0, <1>8 DEF EndSubmit, StopPolling, EndWait, EndReconcile, EndSettled, uncertainVars,
       TypeOK
  <2>3. toReconcile' \subseteq uncertain'
    BY <1>0, <1>8 DEF EndSubmit, StopPolling, EndWait, EndReconcile, EndSettled, uncertainVars,
       Settled
  <2>4. phase' \in Phases /\ Settled'
    BY <1>0, <1>8, <2>1, <2>3 DEF EndSubmit, StopPolling, EndWait, EndReconcile, EndSettled, Settled
  <2>. QED
    BY <1>0, <2>1, <2>2, <2>4 DEF TypeOK
<1>9. CASE RefreshAfterWrites \/ RefreshAfterReads \/ RefreshFails \/ CommitCycle
  <2>1. UNCHANGED <<cycles, todo, posting, pending, uncertain, confirmed, toReconcile,
                    roundVersion, lastBatch>>
    BY <1>9 DEF RefreshAfterWrites, RefreshAfterReads, RefreshFails, CommitCycle, batchVars,
       uncertainVars
  <2>2. /\ state' \in Documents /\ baseline' \in Documents
        /\ stateNote' \in {"current", "fresh", "stale"}
    BY <1>0, <1>9 DEF RefreshAfterWrites, RefreshAfterReads, RefreshFails, CommitCycle, TypeOK
  <2>3. phase' \in Phases /\ Settled'
    BY <1>0, <1>9, <2>1 DEF RefreshAfterWrites, RefreshAfterReads, RefreshFails, CommitCycle,
       Settled
  <2>. QED
    BY <1>0, <2>1, <2>2, <2>3 DEF TypeOK
<1>. QED
  BY Zenon, <1>1, <1>2, <1>3, <1>4, <1>5, <1>6, <1>7, <1>8, <1>9 DEF Next, Controller

(* What the controller knows of the commands it has issued.                 *)
LEMMA NothingForgottenStep ==
  ASSUME ClientInv, [Next]_vars
  PROVE  NothingForgotten'
<1>0. NothingForgotten /\ TypeOK
  BY DEF ClientInv
<1>1. CASE Game
  <2>1. Issued' = Issued
    BY <1>1, GameSendsNothing DEF Game, ClientInv
  <2>. QED
    BY <1>0, <1>1, <2>1 DEF Game, NothingForgotten, clientVars, batchVars, uncertainVars
<1>2. ASSUME NEW id \in Ids, Submit(id) PROVE NothingForgotten'
  <2>1. post \in [Ids -> PostStages] /\ posting = {}
    BY <1>0, <1>2 DEF TypeOK, BridgeTypeOK, ClientInv, Settled, Submit
  <2>2. Issued' = Issued \cup {id}
    BY <1>2, <2>1 DEF Submit, SendPost, Issued
  <2>. QED
    BY <1>0, <1>2, <2>1, <2>2 DEF Submit, NothingForgotten, uncertainVars
<1>3. ASSUME NEW id \in Ids,
             PostAccepted(id) \/ PostFailedKnown(id) \/ PostFailedUnreachable(id)
      PROVE  NothingForgotten'
  <2>1. posting = {id} /\ Issued' = Issued
    BY <1>0, <1>3 DEF PostAccepted, PostFailedKnown, PostFailedUnreachable, Submitted, TypeOK,
       Issued, bridgeVars, commandVars
  <2>. QED
    BY <1>0, <1>3, <2>1 DEF PostAccepted, PostFailedKnown, PostFailedUnreachable, Submitted,
       NothingForgotten
<1>4. ASSUME NEW id \in Ids,
             PollCompleted(id) \/ FinalStatus(id)
               \/ ReconcileCompleted(id) \/ ReconcileUnresolved(id)
      PROVE  NothingForgotten'
  <2>1. Issued' = Issued /\ posting' = posting
    BY <1>4 DEF PollCompleted, FinalStatus, ReconcileCompleted, ReconcileUnresolved, Issued,
       bridgeVars, commandVars, batchVars
  <2>2. confirmed' \cup pending' \cup uncertain' = confirmed \cup pending \cup uncertain
    <3>1. CASE PollCompleted(id)
      BY <3>1 DEF PollCompleted
    <3>2. CASE FinalStatus(id)
      BY <3>2 DEF FinalStatus
    <3>3. CASE ReconcileCompleted(id)
      <4>1. id \in uncertain
        BY <3>3 DEF ReconcileCompleted, ClientInv, Settled
      <4>. QED
        BY <3>3, <4>1 DEF ReconcileCompleted, batchVars
    <3>4. CASE ReconcileUnresolved(id)
      BY <3>4 DEF ReconcileUnresolved, batchVars
    <3>. QED
      BY <1>4, <3>1, <3>2, <3>3, <3>4
  <2>. QED
    BY <1>0, <2>1, <2>2 DEF NothingForgotten
<1>5. CASE UNCHANGED <<post, posting, pending, uncertain, confirmed>>
  BY <1>0, <1>5 DEF NothingForgotten, Issued
<1>. QED
  BY Zenon, <1>1, <1>2, <1>3, <1>4, <1>5 DEF Next, vars, Controller, BeginCycle, PrepareBatch,
     ReadOnlyRound, FinishRounds, AbortCycle, EndSubmit, StopPolling, EndWait, EndReconcile,
     RefreshAfterWrites, RefreshAfterReads, RefreshFails, EndSettled, CommitCycle, bridgeVars,
     commandVars, clientVars, batchVars, uncertainVars
(* Only a command that is reported as completed becomes a confirmed one.    *)
LEMMA NewlyConfirmed ==
  ASSUME ClientInv, [Next]_vars
  PROVE  \A id \in confirmed' : id \in Ids /\ (id \in confirmed \/ Completed(id))
<1>1. confirmed \subseteq Ids
  BY DEF ClientInv, TypeOK
<1>2. CASE confirmed' = confirmed
  BY <1>1, <1>2
<1>3. CASE \E id \in Ids : PollCompleted(id) \/ FinalStatus(id) \/ ReconcileCompleted(id)
  BY <1>1, <1>3 DEF PollCompleted, FinalStatus, ReconcileCompleted
<1>. QED
  BY Zenon, <1>2, <1>3 DEF Next, vars, Controller, Game, BeginCycle, PrepareBatch,
     ReadOnlyRound, FinishRounds, AbortCycle, Submit, PostAccepted, PostFailedKnown,
     PostFailedUnreachable, Submitted, ReconcileUnresolved, EndSubmit, StopPolling,
     EndWait, EndReconcile, RefreshAfterWrites, RefreshAfterReads, RefreshFails, EndSettled,
     CommitCycle, clientVars, uncertainVars

LEMMA ConfirmedRanStep ==
  ASSUME ClientInv, [Next]_vars
  PROVE  ReportedRan' /\ ConfirmedRan'
<1>1. ReportedRan' /\ \A id \in Ids : world[id] = 1 => world'[id] = 1
  BY ControllerToGame, GameKeepsResults DEF ClientInv
<1>. QED
  BY <1>1, NewlyConfirmed DEF ClientInv, ReportedRan, ConfirmedRan

LEMMA ClientInvariant == Spec => []ClientInv
<1>1. Init => ClientInv
  <2>. SUFFICES ASSUME Init PROVE ClientInv
    OBVIOUS
  <2>1. BridgeInv /\ BatchRan
    BY BridgeInvInit DEF Init, BridgeInit, BatchRan, InBatch
  <2>2. TypeOK
    <3>1. BridgeTypeOK /\ currentJson \in Documents
      BY <2>1 DEF BridgeInv, BridgeTypeOK
    <3>. QED
      BY <3>1 DEF Init, TypeOK, Phases
  <2>3. ReportedRan /\ Settled /\ ConfirmedRan
    BY DEF Init, BridgeInit, ReportedRan, Settled, ConfirmedRan, Completed
  <2>4. NothingForgotten
    BY DEF Init, BridgeInit, NothingForgotten, Issued
  <2>. QED
    BY <2>1, <2>2, <2>3, <2>4 DEF ClientInv, RefinementInv
<1>2. ASSUME ClientInv, [Next]_vars PROVE ClientInv'
  <2>1. RefinementInv'
    BY <1>2, ControllerToGame, BridgeInvStep, BatchRanStep DEF ClientInv, RefinementInv
  <2>2. BridgeTypeOK'
    BY <2>1 DEF RefinementInv, BridgeInv
  <2>. QED
    BY <1>2, <2>1, <2>2, TypesAndSettled, NothingForgottenStep, ConfirmedRanStep DEF ClientInv
<1>. QED
  BY <1>1, <1>2, PTL DEF Spec

-----------------------------------------------------------------------------
(* What the controller is shown *)

(* What ran and is shown stays shown, and what is newly reported is shown.  *)
LEMMA GameKeepsShowing ==
  ASSUME RefinementInv, ReportedRan, [BridgeNext]_bridgeVars,
         \A id \in Ids : Completed(id) => Shown(id)
  PROVE  /\ \A id \in Ids : Completed(id)' => Shown(id)'
         /\ \A id \in Ids : world[id] = 1 /\ Shown(id) => Shown(id)'
<1>1. [Service!ServiceNext]_Service!serviceVars
  BY RefinementStep
<1>2. CASE \/ \E id \in Ids : Service!Send(id) \/ Service!Execute(id)
           \/ Service!Forget \/ UNCHANGED Service!serviceVars
  <2>1. /\ currentJson'.world = currentJson.world /\ PublicationFailed' = PublicationFailed
        /\ Reported' \subseteq Reported
    BY <1>2 DEF Service!Send, Service!Execute, Service!Forget, Service!serviceVars, Reported
  <2>. QED
    BY <2>1 DEF Reported, Shown
<1>3. CASE Service!FailToPublish
  <2>1. PublicationFailed'
    BY <1>3 DEF Service!FailToPublish
  <2>. QED
    BY <2>1 DEF Shown
<1>4. CASE Service!Publish
  <2>1. currentJson'.world = world /\ Reported' = Reported
    BY <1>4 DEF Service!Publish, Reported
  <2>. QED
    BY <2>1 DEF Reported, ReportedRan, Shown
<1>5. CASE \E id \in Ids : Service!Report(id)
  <2>1. PICK id \in Ids : Service!Report(id)
    BY <1>5
  <2>2. /\ Shown(id) /\ currentJson'.world = currentJson.world
        /\ PublicationFailed' = PublicationFailed
        /\ \A k \in Reported' : k \in Reported \/ k = id
    BY <2>1 DEF Service!Report, Reported, Shown
  <2>. QED
    BY <2>2 DEF Reported, Shown
<1>. QED
  BY Zenon, <1>1, <1>2, <1>3, <1>4, <1>5 DEF Service!ServiceNext

LEMMA PublishedStep ==
  ASSUME PublishedInv, [Next]_vars
  PROVE  Published'
<1>1. /\ RefinementInv /\ ReportedRan /\ ConfirmedRan /\ Published
      /\ [BridgeNext]_bridgeVars
  BY ControllerToGame DEF PublishedInv, ClientInv
<1>2. /\ \A id \in Ids : Completed(id)' => Shown(id)'
      /\ \A id \in Ids : world[id] = 1 /\ Shown(id) => Shown(id)'
  BY <1>1, GameKeepsShowing DEF Published
<1>3. \A id \in confirmed' : id \in Ids /\ world[id] = 1 /\ Shown(id)
  BY <1>1, NewlyConfirmed DEF PublishedInv, Published, ConfirmedRan, ReportedRan
<1>. QED
  BY <1>2, <1>3 DEF Published

LEMMA PublishedInvariant == Spec => []PublishedInv
<1>1. Init => Published
  BY DEF Init, BridgeInit, Published, Completed
<1>2. ASSUME Published, ClientInv, [Next]_vars
      PROVE  Published'
  BY <1>2, PublishedStep DEF PublishedInv
<1>3. Published /\ ClientInv /\ [Next]_vars => Published'
  BY <1>2
<1>4. PublishedInv <=> ClientInv /\ Published
  BY DEF PublishedInv
<1>. QED
  BY <1>1, <1>3, <1>4, ClientInvariant, PTL DEF Spec

-----------------------------------------------------------------------------
(* Theorems *)

(* The controller's variables and the bridge's keep their types.            *)
THEOREM ProtocolTypeCorrect == Spec => []TypeOK
<1>1. ClientInv => TypeOK
  BY DEF ClientInv
<1>. QED
  BY <1>1, ClientInvariant, PTL

(* No command that submit_command issued is forgotten, across timeouts,     *)
(* lost replies, trimmed results and cycles that end early.                 *)
THEOREM NoCommandForgotten == Spec => []NothingForgotten
<1>1. ClientInv => NothingForgotten
  BY DEF ClientInv
<1>. QED
  BY <1>1, ClientInvariant, PTL

(* A command the controller has seen completed ran on the colony, once.     *)
THEOREM ConfirmedCommandsRan == Spec => []ConfirmedRan
<1>1. ClientInv => ConfirmedRan
  BY DEF ClientInv
<1>. QED
  BY <1>1, ClientInvariant, PTL

(* A post-tool state shown as fresh holds the effects of the batch's        *)
(* confirmed commands, unless the last build of the document failed.        *)
THEOREM FreshStatesShowEffects == Spec => FreshStateShowsConfirmed
<1>. DEFINE Shows == phase = "refresh" /\ phase' = "model" /\ stateNote' = "fresh"
                       => \/ PublicationFailed
                          \/ \A id \in lastBatch \cap confirmed : state'.world[id] = 1
<1>1. ASSUME PublishedInv, [Next]_vars PROVE Shows
  <2>1. CASE RefreshAfterWrites
    <3>1. state' = currentJson
      BY <2>1 DEF RefreshAfterWrites
    <3>. QED
      BY <1>1, <3>1 DEF PublishedInv, Published, Shown
  <2>2. CASE phase # "refresh" \/ phase' # "model" \/ stateNote' # "fresh"
    BY <2>2
  <2>3. \/ RefreshAfterWrites
        \/ phase # "refresh" \/ phase' # "model" \/ stateNote' # "fresh"
    BY <1>1 DEF Next, vars, Controller, Game, BeginCycle, PrepareBatch,
       ReadOnlyRound, FinishRounds, AbortCycle, Submit, PostAccepted, PostFailedKnown,
       PostFailedUnreachable, Submitted, PollCompleted, FinalStatus, ReconcileCompleted,
       ReconcileUnresolved, EndSubmit, StopPolling, EndWait, EndReconcile, RefreshAfterReads,
       RefreshFails, EndSettled, CommitCycle, clientVars
  <2>. QED
    BY Zenon, <2>1, <2>2, <2>3
<1>2. PublishedInv /\ [Next]_vars => [Shows]_vars
  BY <1>1
<1>. QED
  BY <1>2, PublishedInvariant, PTL DEF Spec, FreshStateShowsConfirmed

(* The baseline a cycle commits holds the effect of every command the       *)
(* controller ever issued, in this cycle or an earlier one, unless the last *)
(* build of the document failed.                                            *)
THEOREM BaselinesAreSettled == Spec => BaselineIsSettled
<1>. DEFINE Shows == baseline' # baseline
                       => \/ PublicationFailed
                          \/ \A id \in Issued : baseline'.world[id] = 1
<1>1. ASSUME PublishedInv, [Next]_vars PROVE Shows
  <2>1. CASE CommitCycle
    <3>1. /\ phase = "final" /\ baseline' = currentJson
      BY <2>1 DEF CommitCycle
    <3>2. uncertain = {} /\ pending = {} /\ posting = {}
      BY <1>1, <3>1 DEF PublishedInv, ClientInv, Settled
    <3>3. Issued = confirmed
      BY <1>1, <3>2 DEF PublishedInv, ClientInv, NothingForgotten
    <3>. QED
      BY <1>1, <3>1, <3>3 DEF PublishedInv, Published, Shown
  <2>2. CASE baseline' = baseline
    BY <2>2
  <2>. QED
    BY Zenon, <1>1, <2>1, <2>2 DEF Next, vars, Controller, Game, BeginCycle, PrepareBatch,
       ReadOnlyRound, FinishRounds, AbortCycle, Submit, PostAccepted, PostFailedKnown,
       PostFailedUnreachable, Submitted, PollCompleted, FinalStatus, ReconcileCompleted,
       ReconcileUnresolved, EndSubmit, StopPolling, EndWait, EndReconcile, RefreshAfterWrites,
       RefreshAfterReads, RefreshFails, EndSettled, clientVars, stateVars
<1>2. PublishedInv /\ [Next]_vars => [Shows]_vars
  BY <1>1
<1>. QED
  BY <1>2, PublishedInvariant, PTL DEF Spec, BaselineIsSettled
=============================================================================
