----------------------------- MODULE StateStore -----------------------------
(***************************************************************************)
(* The files the controller keeps for a colony, Controller/state_store.py, *)
(* and a controller that crashes between any two writes.  Between two      *)
(* fetches the game may publish, load any save, go to its menu, or be      *)
(* restarted with another version of the mod: its counter of publications  *)
(* then starts again, so any snapshot may be fetched next.                 *)
(*                                                                         *)
(* A decision is its number: a handoff, a stall or a risk document is the  *)
(* number of the decision that wrote it (0: empty).  A snapshot is what    *)
(* update_current_state looks at, on one map.  Writing a file is one step: it replaces *)
(* the file as a whole or fails (_atomic_write_json).  memory.json stands  *)
(* alone and is left out.                                                  *)
(***************************************************************************)
EXTENDS Naturals, Sequences

CONSTANTS
  Colonies, NoColony,   \* colonyLineageId; no game is loaded
  Schemas,              \* schemaVersion of the state
  Missing, Damaged,     \* no such file; a file that is not valid JSON
  MaxTick, MaxVersion,  \* bounds of the game's clock and counter
  Fetchable,            \* bound: the snapshots GET /state may return
  MaxDecisions,         \* bound: decisions started
  MaxFaults             \* bound: failing writes and damaged files

Snapshots == [colony : Colonies \cup {NoColony}, schema : Schemas,
              version : 1..MaxVersion, tick : 0..MaxTick]
Metas == [schema : Schemas, version : 1..MaxVersion]
Baselines == [state : Snapshots, by : Nat]

\* None and the unreadable file are no documents.
ASSUME StoreAssumption ==
  /\ NoColony \notin Colonies
  /\ Schemas # {} /\ Fetchable \subseteq Snapshots
  /\ MaxTick \in Nat /\ MaxVersion \in Nat \ {0}
  /\ MaxDecisions \in Nat /\ MaxFaults \in Nat
  /\ Missing # Damaged
  /\ {Missing, Damaged} \cap Snapshots = {}
  /\ {Missing, Damaged} \cap Metas = {}
  /\ {Missing, Damaged} \cap Baselines = {}
  /\ {Missing, Damaged} \cap Nat = {}

VARIABLES
  disk,      \* the files of every colony
  store,     \* the StateStore of the running controller
  pc,        \* where the controller is
  slot,      \* index of the artifact being written or restored
  dryRun,    \* --dry-run
  fetched,   \* AgentController.current_state
  pending,   \* pending_decision_handoff
  serial,    \* history: number of the last decision started
  faults,    \* history: writes that failed and files damaged, in all
  failed,    \* history: writes that failed in this commit
  before     \* history: what the last clean stop left to its successor

vars == <<disk, store, pc, slot, dryRun, fetched, pending, serial,
          faults, failed, before>>

\* Mutant: the baseline is written first.
MutArtifacts == <<"baseline", "handoff", "stall", "risk">>

Artifacts == <<"handoff", "baseline", "stall", "risk">>

NoFiles == [current |-> Missing, meta |-> Missing, baseline |-> Missing,
            handoff |-> Missing, stall |-> Missing, risk |-> Missing]

\* A store without a colony: with no state, or with that of the menu.
Inactive == [identity |-> NoColony, current |-> Missing, fromDisk |-> FALSE,
             baseline |-> Missing, handoff |-> 0, stall |-> 0, risk |-> 0]

\* A handoff being prepared: its decision and the decision it carries on.
NoHandoff == [n |-> 0, on |-> 0]

Init ==
  /\ disk = [c \in Colonies |-> NoFiles]
  /\ store = Inactive
  /\ pc = "down" /\ slot = 1
  /\ dryRun = FALSE
  /\ fetched = Missing
  /\ pending = NoHandoff
  /\ serial = 0 /\ faults = 0 /\ failed = 0
  /\ before = Missing

-----------------------------------------------------------------------------
(* Loading the files of a colony.  The identities in them are compared too, *)
(* which tells nothing here: a directory holds its colony's (OneColony).    *)

ValidMeta(d, schema) == d.meta \in Metas /\ d.meta.schema = schema

ValidState(d, schema) ==
  /\ ValidMeta(d, schema)
  /\ d.current \in Snapshots
  /\ d.current.schema = schema
  /\ d.current.version = d.meta.version

\* Mutant: a baseline of any schema.
MutValidBaseline(d, schema) ==
  /\ ValidState(d, schema)
  /\ d.baseline \in Baselines

\* The baseline is read only when the current state is valid.
ValidBaseline(d, schema) ==
  /\ ValidState(d, schema)
  /\ d.baseline \in Baselines
  /\ d.baseline.state.schema = schema

Number(file) == IF file \in Nat THEN file ELSE 0

\* The memory of _activate.
Loaded(c, schema) ==
  LET d == disk[c] IN
    [identity |-> c,
     current |-> IF ValidState(d, schema) THEN d.current ELSE Missing,
     fromDisk |-> ValidState(d, schema),
     baseline |-> IF ValidBaseline(d, schema) THEN d.baseline ELSE Missing,
     handoff |-> Number(d.handoff), stall |-> Number(d.stall),
     risk |-> Number(d.risk)]

\* The files _activate leaves: what it reads and rejects it moves aside, and
\* it reads no further than the first of metadata and state that is invalid.
Quarantined(d, schema) ==
  LET readable(f) == IF f = Damaged THEN Missing ELSE f IN
    [handoff |-> readable(d.handoff), stall |-> readable(d.stall),
     risk |-> readable(d.risk),
     meta |-> IF ValidMeta(d, schema) THEN d.meta ELSE Missing,
     current |-> IF ValidMeta(d, schema) /\ ~ValidState(d, schema)
                   THEN Missing ELSE d.current,
     baseline |-> IF ValidState(d, schema) /\ ~ValidBaseline(d, schema)
                    THEN Missing ELSE d.baseline]

-----------------------------------------------------------------------------
(* update_current_state                                                    *)

\* Mutant: a paused game is not recognised.
MutSafeReset(old, new) ==
  /\ new.version <= old.version
  /\ new.tick > old.tick

\* is_safe_snapshot_stream_reset, for snapshots of one colony, schema and map.
SafeReset(old, new) ==
  /\ new.version <= old.version
  /\ new.tick >= old.tick
  /\ new.version < old.version \/ new.tick > old.tick

Persist == ~dryRun

\* The store and its files when the incoming snapshot is compared.
Active(s) ==
  IF store.identity = s.colony THEN store ELSE Loaded(s.colony, s.schema)

ActiveFiles(s) ==
  IF store.identity # s.colony /\ Persist
    THEN [disk EXCEPT ![s.colony] = Quarantined(@, s.schema)]
    ELSE disk

\* a is the active store.
NewSchema(a, s) == a.current # Missing /\ a.current.schema # s.schema
Compared(a, s) == a.current # Missing /\ a.current.schema = s.schema

SameVersion(a, s) ==
  /\ Compared(a, s)
  /\ s.version = a.current.version
  /\ ~(a.fromDisk /\ SafeReset(a.current, s))

Older(a, s) ==
  /\ Compared(a, s)
  /\ s.version < a.current.version
  /\ ~a.fromDisk

\* The snapshot is of the same colony, but not a later state of the same game.
LineageReset(a, s) ==
  /\ Compared(a, s)
  /\ s.version < a.current.version
  /\ a.fromDisk
  /\ ~SafeReset(a.current, s)

BaselineVoid(a, s) == NewSchema(a, s) \/ LineageReset(a, s)

Fault == faults < MaxFaults /\ faults' = faults + 1

\* Where the cycle goes on: the final state is fetched once there is a handoff.
Goal == IF pc = "idle" \/ pending.n = 0 THEN "rounds" ELSE "commit"

Unloaded(s) ==
  /\ s.colony = NoColony
  /\ store' = [Inactive EXCEPT !.current = s]
  /\ pc' = Goal
  /\ UNCHANGED <<disk, faults>>

Ignored(a, s) ==
  /\ SameVersion(a, s) \/ Older(a, s)
  /\ store' = [a EXCEPT !.fromDisk = @ /\ ~SameVersion(a, s)]
  /\ disk' = ActiveFiles(s)
  /\ pc' = Goal
  /\ UNCHANGED faults

\* clear_decision_baseline deletes the file too; when that fails it warns.
Accepted(a, s) ==
  /\ ~SameVersion(a, s) /\ ~Older(a, s)
  /\ store' = [a EXCEPT !.current = s, !.fromDisk = FALSE,
                 !.baseline = IF BaselineVoid(a, s) THEN Missing ELSE @]
  /\ pc' = IF Persist THEN "current" ELSE Goal
  /\ \/ /\ disk' = IF BaselineVoid(a, s) /\ Persist
                      THEN [ActiveFiles(s) EXCEPT ![s.colony].baseline = Missing]
                      ELSE ActiveFiles(s)
        /\ UNCHANGED faults
     \/ /\ BaselineVoid(a, s) /\ Persist
        /\ Fault
        /\ disk' = ActiveFiles(s)

\* _accept_authoritative_state of what GET /state returns.
Accept ==
  /\ \E s \in Fetchable :
       /\ fetched' = s
       /\ \/ Unloaded(s)
          \/ /\ s.colony # NoColony
             /\ \E a \in {Active(s)} : Ignored(a, s) \/ Accepted(a, s)
  /\ UNCHANGED <<slot, dryRun, failed>>

\* An OSError leaves update_current_state and ends the cycle.
Write(file, value, next) ==
  \/ /\ disk' = [disk EXCEPT ![store.identity] = [@ EXCEPT ![file] = value]]
     /\ pc' = next
     /\ UNCHANGED faults
  \/ /\ Fault
     /\ pc' = "idle"
     /\ UNCHANGED disk

\* _persist_current
WriteCurrent ==
  /\ pc = "current"
  /\ Write("current", store.current, "metadata")
  /\ UNCHANGED <<store, slot, dryRun, fetched, pending, serial,
                 failed, before>>

WriteMetadata ==
  /\ pc = "metadata"
  /\ Write("meta", [schema |-> store.current.schema,
                    version |-> store.current.version], Goal)
  /\ UNCHANGED <<store, slot, dryRun, fetched, pending, serial,
                 failed, before>>

-----------------------------------------------------------------------------
(* The controller                                                          *)

Launch ==
  /\ pc = "down"
  /\ pc' = "idle"
  /\ dryRun' \in BOOLEAN
  /\ UNCHANGED <<disk, store, slot, fetched, pending, serial, faults, failed,
                 before>>

\* A stop between decisions is clean; elsewhere the process crashed.
Stop ==
  /\ pc # "down"
  /\ pc' = "down" /\ slot' = 1
  /\ store' = Inactive /\ fetched' = Missing /\ pending' = NoHandoff
  /\ dryRun' = FALSE
  /\ before' = IF pc = "idle" /\ ~dryRun /\ store.identity # NoColony
                 THEN [current |-> store.current, baseline |-> store.baseline]
                 ELSE before
  /\ UNCHANGED <<disk, serial, faults, failed>>

\* A file is found damaged by the next process.
Damage ==
  /\ pc = "down"
  /\ Fault
  /\ \E c \in Colonies, f \in DOMAIN NoFiles :
       /\ disk[c][f] # Missing
       /\ disk' = [disk EXCEPT ![c] = [@ EXCEPT ![f] = Damaged]]
  /\ UNCHANGED <<store, pc, slot, dryRun, fetched, pending, serial,
                 failed, before>>

\* A process that may write makes what an earlier one left its own.
StartDecision ==
  /\ pc = "idle"
  /\ serial < MaxDecisions
  /\ serial' = serial + 1
  /\ Accept
  /\ pending' = NoHandoff
  /\ before' = IF dryRun THEN before ELSE Missing

\* _fresh_state_message after a batch.
RefreshState ==
  /\ pc = "rounds"
  /\ Accept
  /\ UNCHANGED <<pending, serial, before>>

RecordVerification ==
  /\ pc = "rounds"
  /\ ~dryRun
  /\ store.identity # NoColony
  /\ \/ /\ disk' = [disk EXCEPT ![store.identity].stall = serial]
        /\ store' = [store EXCEPT !.stall = serial]
        /\ UNCHANGED faults
     \/ Fault /\ UNCHANGED <<disk, store>>
  /\ UNCHANGED <<pc, slot, dryRun, fetched, pending, serial, failed,
                 before>>

\* finish_decision, or the fallback handoff: the open loops of the previous
\* handoff are kept or resolved.
FinishDecision ==
  /\ pc = "rounds"
  /\ pc' = "final"
  /\ pending' = [n |-> serial, on |-> store.handoff]
  /\ UNCHANGED <<disk, store, slot, dryRun, fetched, serial, faults,
                 failed, before>>

FailDecision ==
  /\ pc = "rounds"
  /\ pc' = "idle"
  /\ UNCHANGED <<disk, store, slot, dryRun, fetched, pending, serial,
                 faults, failed, before>>

FinalState ==
  /\ pc = "final"
  /\ Accept
  /\ UNCHANGED <<pending, serial, before>>

-----------------------------------------------------------------------------
(* commit_successful_decision                                              *)

Committable ==
  /\ ~dryRun
  /\ store.identity # NoColony
  /\ fetched.colony = store.identity
  /\ store.current # Missing /\ fetched.schema = store.current.schema

\* A dry run ends well here; another cycle fails.
NoCommit ==
  /\ pc = "commit"
  /\ ~Committable
  /\ pc' = "idle"
  /\ UNCHANGED <<disk, store, slot, dryRun, fetched, pending, serial,
                 faults, failed, before>>

BeginCommit ==
  /\ pc = "commit"
  /\ Committable
  /\ pc' = "write"
  /\ failed' = 0
  /\ UNCHANGED <<disk, store, slot, dryRun, fetched, pending, serial,
                 faults, before>>

NewArtifacts ==
  [handoff |-> pending.n, baseline |-> [state |-> fetched, by |-> pending.n],
   stall |-> pending.n, risk |-> pending.n]

\* What memory holds. A handoff or baseline that was not there is deleted; stall
\* and risk documents are never None.
OldArtifacts ==
  [handoff |-> IF store.handoff = 0 THEN Missing ELSE store.handoff,
   baseline |-> store.baseline, stall |-> store.stall, risk |-> store.risk]

Put(artifacts) ==
  LET f == Artifacts[slot] IN
    disk' = [disk EXCEPT ![store.identity] = [@ EXCEPT ![f] = artifacts[f]]]

WriteArtifact ==
  /\ pc = "write"
  /\ Put(NewArtifacts)
  /\ IF slot < Len(Artifacts)
       THEN slot' = slot + 1 /\ UNCHANGED <<pc, store>>
       ELSE /\ pc' = "idle" /\ slot' = 1
            /\ store' = [store EXCEPT !.handoff = pending.n, !.stall = pending.n,
                           !.risk = pending.n, !.baseline = NewArtifacts.baseline]
  /\ UNCHANGED <<dryRun, fetched, pending, serial, faults, failed,
                 before>>

\* Mutant: restoring begins with the document that could not be written.
MutWriteFails ==
  /\ pc = "write"
  /\ Fault
  /\ failed' = failed + 1
  /\ pc' = "restore"
  /\ UNCHANGED <<disk, store, slot, dryRun, fetched, pending, serial,
                 before>>

\* All four are restored, from the first.
WriteFails ==
  /\ pc = "write"
  /\ Fault
  /\ failed' = failed + 1
  /\ pc' = "restore" /\ slot' = 1
  /\ UNCHANGED <<disk, store, dryRun, fetched, pending, serial,
                 before>>

AfterRestore ==
  IF slot < Len(Artifacts) THEN slot' = slot + 1 /\ UNCHANGED pc
                           ELSE pc' = "idle" /\ slot' = 1

RestoreArtifact ==
  /\ pc = "restore"
  /\ Put(OldArtifacts)
  /\ AfterRestore
  /\ UNCHANGED <<store, dryRun, fetched, pending, serial, faults,
                 failed, before>>

\* A warning, and on to the next one.
RestoreFails ==
  /\ pc = "restore"
  /\ Fault
  /\ failed' = failed + 1
  /\ AfterRestore
  /\ UNCHANGED <<disk, store, dryRun, fetched, pending, serial,
                 before>>

-----------------------------------------------------------------------------

Decision ==
  \/ StartDecision \/ RefreshState \/ RecordVerification \/ FinishDecision
  \/ FailDecision \/ FinalState \/ WriteCurrent \/ WriteMetadata

Commit ==
  \/ NoCommit \/ BeginCommit \/ WriteArtifact \/ WriteFails
  \/ RestoreArtifact \/ RestoreFails

Next == Launch \/ Stop \/ Damage \/ Decision \/ Commit

Spec == Init /\ [][Next]_vars

-----------------------------------------------------------------------------
(* Properties                                                              *)

Files == [current : Snapshots \cup {Missing, Damaged},
          meta : Metas \cup {Missing, Damaged},
          baseline : Baselines \cup {Missing, Damaged},
          handoff : Nat \cup {Missing, Damaged},
          stall : Nat \cup {Missing, Damaged},
          risk : Nat \cup {Missing, Damaged}]

Stores == [identity : Colonies \cup {NoColony},
           current : Snapshots \cup {Missing}, fromDisk : BOOLEAN,
           baseline : Baselines \cup {Missing},
           handoff : Nat, stall : Nat, risk : Nat]

\* Every variable holds a value of its kind.
StoreTypeOK ==
  /\ disk \in [Colonies -> Files]
  /\ store \in Stores
  /\ pc \in {"down", "idle", "current", "metadata", "rounds", "final", "commit",
             "write", "restore"}
  /\ slot \in 1..4
  /\ dryRun \in BOOLEAN
  /\ fetched \in Snapshots \cup {Missing}
  /\ pending \in [n : Nat, on : Nat]
  /\ serial \in Nat /\ faults \in Nat /\ failed \in Nat
  /\ before = Missing \/ before \in [current : Snapshots \cup {Missing},
                                     baseline : Baselines \cup {Missing}]

\* States and baselines do not cross into another colony or another schema
\* (Controller/README.md:158-161): the files of a colony hold its snapshots
\* only, and a decision is never shown a baseline that its current state cannot
\* be compared with, whatever saves and versions of the mod come and go.
Belongs(s, c) == s.colony = c

OneColony ==
  /\ \A c \in Colonies :
       /\ disk[c].current \in Snapshots => Belongs(disk[c].current, c)
       /\ disk[c].baseline \in Baselines => Belongs(disk[c].baseline.state, c)
  /\ store.current # Missing => Belongs(store.current, store.identity)
  /\ store.baseline # Missing =>
       /\ Belongs(store.baseline.state, store.identity)
       /\ store.current # Missing
       /\ store.baseline.state.schema = store.current.schema

\* A commit that failed because one write failed has changed nothing, and one
\* that succeeded has changed all four documents: the files are what memory has.
CommitAllOrNothing ==
  [][pc' = "idle" /\ pc \in {"write", "restore"} /\ failed' <= 1 =>
       \A f \in DOMAIN OldArtifacts :
         disk'[store.identity][f] = OldArtifacts'[f]]_vars

\* As long as no write fails, a crash at any point leaves a handoff that is at
\* least as new as the baseline, and a baseline as new as the risk records: a
\* later decision is never told that nothing changed since a decision it does
\* not remember.
HandoffNotOlder ==
  faults = 0 =>
    \A c \in Colonies :
      disk[c].baseline \in Baselines =>
        /\ disk[c].handoff \in Nat
        /\ disk[c].baseline.by <= disk[c].handoff
        /\ disk[c].risk \in Nat => disk[c].risk <= disk[c].baseline.by

\* A dry run changes no file, not even a damaged or outdated one.
DryRunWritesNothing == [][dryRun /\ pc # "down" => disk' = disk]_vars

\* A baseline survives a clean restart of the controller, also when the game
\* was restarted and counts its snapshots from one again, as long as the colony
\* did not go back in time.
BaselineSurvivesRestart ==
  [][/\ pc = "idle" /\ store.identity = NoColony /\ store'.identity # NoColony
     /\ faults = 0
     /\ before # Missing /\ before.baseline # Missing
     /\ before.current.colony = fetched'.colony
     /\ before.current.schema = fetched'.schema
     /\ before.current.tick <= fetched'.tick
     => store'.baseline = before.baseline]_vars

\* The model must retain each prior open loop or resolve it (Controller/
\* README.md:457-459): what replaces a colony's handoff was prepared on it.
LoopsAreCarried ==
  pc = "write" /\ slot = 1 => pending.on = store.handoff
=============================================================================
