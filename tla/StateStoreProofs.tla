-------------------------- MODULE StateStoreProofs --------------------------
(***************************************************************************)
(* StateStore for any colonies, snapshots and numbers of faults.           *)
(***************************************************************************)
EXTENDS StateStore, TLAPS

(* What a step that writes may rely on: the store has a colony and a state, *)
(* and the process is no dry run.                                           *)
Writing ==
  pc \in {"current", "metadata", "write", "restore"} =>
    /\ ~dryRun
    /\ store.identity \in Colonies
    /\ store.current \in Snapshots

(* The state a decision is committed with is of the store's colony.         *)
Fetched ==
  /\ pc \in {"current", "metadata", "rounds", "final", "commit", "write", "restore"} =>
       fetched \in Snapshots
  /\ pc \in {"write", "restore"} =>
       /\ fetched.colony = store.identity
       /\ fetched.schema = store.current.schema

(* A colony's memory and no colony's memory.                                *)
NoMemory == store.identity = NoColony => store.baseline = Missing

StoreInv == StoreTypeOK /\ OneColony /\ Writing /\ Fetched /\ NoMemory

-----------------------------------------------------------------------------
(* Facts about documents *)

(* A missing or an unreadable file is no document.                          *)
LEMMA NotDocuments ==
  /\ Missing \notin Snapshots /\ Damaged \notin Snapshots
  /\ Missing \notin Metas /\ Damaged \notin Metas
  /\ Missing \notin Baselines /\ Damaged \notin Baselines
  /\ Missing \notin Nat /\ Damaged \notin Nat
  /\ Missing # Damaged
BY StoreAssumption

(* The order in which a commit writes.                                       *)
LEMMA SlotNames ==
  /\ Len(Artifacts) = 4
  /\ Artifacts[1] = "handoff" /\ Artifacts[2] = "baseline"
  /\ Artifacts[3] = "stall" /\ Artifacts[4] = "risk"
BY DEF Artifacts

(* What _activate reads is of the colony and of the schema it was asked for. *)
LEMMA LoadedStore ==
  ASSUME StoreInv, NEW s \in Snapshots, s.colony # NoColony
  PROVE  /\ Loaded(s.colony, s.schema) \in Stores
         /\ Loaded(s.colony, s.schema).identity = s.colony
         /\ Loaded(s.colony, s.schema).current # Missing =>
              /\ Loaded(s.colony, s.schema).current.colony = s.colony
              /\ Loaded(s.colony, s.schema).current.schema = s.schema
         /\ Loaded(s.colony, s.schema).baseline # Missing =>
              /\ Loaded(s.colony, s.schema).baseline.state.colony = s.colony
              /\ Loaded(s.colony, s.schema).baseline.state.schema = s.schema
              /\ Loaded(s.colony, s.schema).current # Missing
<1>. DEFINE c == s.colony
            d == disk[c]
            l == Loaded(c, s.schema)
<1>1. c \in Colonies /\ s.schema \in Schemas
  BY DEF Snapshots
<1>2. d \in Files
  BY <1>1 DEF StoreInv, StoreTypeOK
<1>3. /\ d.current \in Snapshots => d.current.colony = c
      /\ d.baseline \in Baselines => d.baseline.state.colony = c
  BY <1>1 DEF StoreInv, OneColony, Belongs
<1>4. /\ l.identity = c
      /\ l.current = IF ValidState(d, s.schema) THEN d.current ELSE Missing
      /\ l.baseline = IF ValidBaseline(d, s.schema) THEN d.baseline ELSE Missing
      /\ l = [identity |-> c, current |-> l.current, fromDisk |-> ValidState(d, s.schema),
              baseline |-> l.baseline, handoff |-> Number(d.handoff),
              stall |-> Number(d.stall), risk |-> Number(d.risk)]
  BY DEF Loaded
<1>5. /\ Number(d.handoff) \in Nat /\ Number(d.stall) \in Nat /\ Number(d.risk) \in Nat
      /\ ValidState(d, s.schema) \in BOOLEAN
  BY DEF Number, ValidState, ValidMeta
<1>6. l.current \in Snapshots \cup {Missing} /\ l.baseline \in Baselines \cup {Missing}
  BY <1>4 DEF ValidState, ValidBaseline
<1>7. l \in Stores
  BY <1>1, <1>4, <1>5, <1>6 DEF Stores
<1>8. l.current # Missing => l.current.colony = c /\ l.current.schema = s.schema
  BY <1>3, <1>4 DEF ValidState
<1>9. l.baseline # Missing =>
        /\ l.baseline.state.colony = c /\ l.baseline.state.schema = s.schema
        /\ l.current # Missing
  BY <1>3, <1>4, NotDocuments DEF ValidState, ValidBaseline
<1>. QED BY <1>4, <1>7, <1>8, <1>9

(* What it leaves of the files is what was there or nothing.                 *)
LEMMA QuarantinedFiles ==
  ASSUME NEW d \in Files, NEW schema
  PROVE  /\ Quarantined(d, schema) \in Files
         /\ Quarantined(d, schema).current \in {d.current, Missing}
         /\ Quarantined(d, schema).baseline \in {d.baseline, Missing}
         /\ Quarantined(d, schema).meta \in {d.meta, Missing}
         /\ d.handoff \in Nat => Quarantined(d, schema).handoff = d.handoff
         /\ Quarantined(d, schema).handoff \in {d.handoff, Missing}
         /\ Quarantined(d, schema).risk \in {d.risk, Missing}
BY NotDocuments DEF Quarantined, Files

(* The store an incoming snapshot is compared with is of its colony.         *)
LEMMA ActiveStore ==
  ASSUME StoreInv, NEW s \in Snapshots, s.colony # NoColony
  PROVE  /\ Active(s) \in Stores
         /\ Active(s).identity = s.colony
         /\ Active(s).current # Missing => Active(s).current.colony = s.colony
         /\ Active(s).baseline # Missing =>
              /\ Active(s).baseline.state.colony = s.colony
              /\ Active(s).current # Missing
              /\ Active(s).baseline.state.schema = Active(s).current.schema
<1>1. CASE store.identity = s.colony
  BY <1>1 DEF Active, StoreInv, StoreTypeOK, OneColony, Belongs
<1>2. CASE store.identity # s.colony
  <2>1. Active(s) = Loaded(s.colony, s.schema)
    BY <1>2 DEF Active
  <2>. QED BY <2>1, LoadedStore
<1>. QED BY <1>1, <1>2

(* Activating a colony changes its files only by moving some aside.          *)
LEMMA FilesOfActive ==
  ASSUME StoreInv, NEW s \in Snapshots, s.colony # NoColony
  PROVE  /\ ActiveFiles(s) \in [Colonies -> Files]
         /\ dryRun => ActiveFiles(s) = disk
         /\ \A c \in Colonies :
              /\ ActiveFiles(s)[c].current \in {disk[c].current, Missing}
              /\ ActiveFiles(s)[c].baseline \in {disk[c].baseline, Missing}
              /\ ActiveFiles(s)[c].risk \in {disk[c].risk, Missing}
              /\ ActiveFiles(s)[c].handoff \in {disk[c].handoff, Missing}
              /\ disk[c].handoff \in Nat => ActiveFiles(s)[c].handoff = disk[c].handoff
<1>1. disk \in [Colonies -> Files] /\ s.colony \in Colonies
  BY DEF StoreInv, StoreTypeOK, Snapshots
<1>2. CASE store.identity # s.colony /\ ~dryRun
  <2>1. ActiveFiles(s) = [disk EXCEPT ![s.colony] = Quarantined(disk[s.colony], s.schema)]
    BY <1>2 DEF ActiveFiles, Persist
  <2>2. disk[s.colony] \in Files
    BY <1>1
  <2>. QED BY <1>1, <1>2, <2>1, <2>2, QuarantinedFiles
<1>3. CASE ~(store.identity # s.colony /\ ~dryRun)
  BY <1>1, <1>3 DEF ActiveFiles, Persist
<1>. QED BY <1>2, <1>3

-----------------------------------------------------------------------------
(* The steps *)

(* The invariant holds before the controller was ever started.               *)
LEMMA StoreInit == Init => StoreInv
<1>. SUFFICES ASSUME Init PROVE StoreInv
  OBVIOUS
<1>1. NoFiles \in Files /\ Inactive \in Stores
  BY DEF NoFiles, Files, Inactive, Stores
<1>2. StoreTypeOK
  <2>1. disk \in [Colonies -> Files] /\ store \in Stores
    BY <1>1 DEF Init
  <2>2. /\ pc = "down" /\ slot = 1 /\ dryRun = FALSE
        /\ fetched = Missing /\ pending = NoHandoff
        /\ serial = 0 /\ faults = 0 /\ failed = 0
        /\ before = Missing
    BY DEF Init
  <2>3. pc \in {"down", "idle", "current", "metadata", "rounds", "final", "commit",
               "write", "restore"}
    BY <2>2
  <2>4. fetched \in Snapshots \cup {Missing}
    BY <2>2
  <2>5. pending \in [n : Nat, on : Nat]
    BY <2>2 DEF NoHandoff
  <2>6. slot \in 1..4 /\ serial \in Nat /\ faults \in Nat /\ failed \in Nat
    BY <2>2
  <2>7. dryRun \in BOOLEAN
    BY <2>2, Zenon
  <2>. QED BY <2>1, <2>2, <2>3, <2>4, <2>5, <2>6, <2>7, Zenon DEF StoreTypeOK
<1>3. /\ disk = [c \in Colonies |-> NoFiles] /\ store = Inactive
      /\ NoFiles.current = Missing /\ NoFiles.baseline = Missing
      /\ Inactive.current = Missing /\ Inactive.baseline = Missing
  BY DEF Init, NoFiles, Inactive
<1>4. OneColony
  BY <1>3, NotDocuments DEF OneColony
<1>5. Writing /\ Fetched /\ NoMemory
  BY <1>3 DEF Init, Writing, Fetched, NoMemory
<1>. QED BY <1>2, <1>4, <1>5 DEF StoreInv

(* A fetched state leaves a store of one colony, and files of each colony.   *)
LEMMA AcceptKeeps ==
  ASSUME StoreInv, Accept, pc \in {"idle", "rounds", "final"}
  PROVE  /\ store' \in Stores /\ disk' \in [Colonies -> Files]
         /\ fetched' \in Snapshots /\ faults' \in Nat
         /\ pc' \in {"current", "rounds", "commit"}
         /\ OneColony' /\ Writing' /\ NoMemory'
         /\ dryRun => disk' = disk
<1>1. PICK s \in Fetchable :
        /\ fetched' = s
        /\ \/ Unloaded(s)
           \/ /\ s.colony # NoColony
              /\ \E a \in {Active(s)} : Ignored(a, s) \/ Accepted(a, s)
  BY DEF Accept
<1>2. s \in Snapshots /\ fetched' = s /\ dryRun' = dryRun
  BY <1>1, StoreAssumption DEF Accept
<1>3. Goal \in {"rounds", "commit"}
  BY DEF Goal
<1>4. faults \in Nat /\ disk \in [Colonies -> Files] /\ dryRun \in BOOLEAN
  BY DEF StoreInv, StoreTypeOK
<1>5. CASE Unloaded(s)
  <2>1. /\ store' = [identity |-> NoColony, current |-> s, fromDisk |-> FALSE,
                     baseline |-> Missing, handoff |-> 0, stall |-> 0, risk |-> 0]
        /\ disk' = disk /\ faults' = faults /\ pc' = Goal /\ s.colony = NoColony
    BY <1>5 DEF Unloaded, Inactive
  <2>2. store' \in Stores
    BY <2>1, <1>2 DEF Stores
  <2>3. OneColony' /\ Writing' /\ NoMemory'
    BY <2>1, <1>3 DEF StoreInv, OneColony, Belongs, Writing, NoMemory
  <2>. QED BY <1>2, <1>3, <1>4, <2>1, <2>2, <2>3
<1>6. ASSUME s.colony # NoColony, Ignored(Active(s), s) \/ Accepted(Active(s), s)
      PROVE  /\ store' \in Stores /\ disk' \in [Colonies -> Files]
             /\ faults' \in Nat /\ pc' \in {"current", "rounds", "commit"}
             /\ OneColony' /\ Writing' /\ NoMemory'
             /\ dryRun => disk' = disk
  <2>. DEFINE a == Active(s)
              files == ActiveFiles(s)
  <2>1. /\ a \in Stores /\ a.identity = s.colony
        /\ a.current # Missing => a.current.colony = s.colony
        /\ a.baseline # Missing =>
             /\ a.baseline.state.colony = s.colony
             /\ a.current # Missing
             /\ a.baseline.state.schema = a.current.schema
    BY <1>2, <1>6, ActiveStore
  <2>2. /\ files \in [Colonies -> Files]
        /\ dryRun => files = disk
        /\ \A c \in Colonies :
             /\ files[c].current \in {disk[c].current, Missing}
             /\ files[c].baseline \in {disk[c].baseline, Missing}
    BY <1>2, <1>6, FilesOfActive
  <2>3. s.colony \in Colonies
    BY <1>2, <1>6 DEF Snapshots
  <2>4. \/ disk' = files
        \/ ~dryRun /\ disk' = [files EXCEPT ![s.colony].baseline = Missing]
    BY <1>6 DEF Ignored, Accepted, Persist
  <2>5. faults' \in Nat
    BY <1>4, <1>6 DEF Ignored, Accepted, Fault
  <2>6. /\ disk' \in [Colonies -> Files]
        /\ \A c \in Colonies :
             /\ disk'[c].current \in {disk[c].current, Missing}
             /\ disk'[c].baseline \in {disk[c].baseline, Missing}
        /\ dryRun => disk' = disk
    <3>1. CASE disk' = files
      BY <2>2, <3>1
    <3>2. CASE ~dryRun /\ disk' = [files EXCEPT ![s.colony].baseline = Missing]
      <4>1. files[s.colony] \in Files
        BY <2>2, <2>3
      <4>2. [files[s.colony] EXCEPT !.baseline = Missing] \in Files
        BY <4>1 DEF Files
      <4>3. \A c \in Colonies : files[c] \in Files
        BY <2>2
      <4>. QED BY <2>2, <2>3, <3>2, <4>1, <4>2, <4>3 DEF Files
    <3>. QED BY <2>4, <3>1, <3>2
  <2>7. /\ store' \in Stores
        /\ store'.identity = s.colony
        /\ store'.current # Missing => store'.current.colony = s.colony
        /\ store'.baseline # Missing =>
             /\ store'.baseline.state.colony = s.colony
             /\ store'.current # Missing
             /\ store'.baseline.state.schema = store'.current.schema
        /\ pc' = "current" => ~dryRun /\ store'.current \in Snapshots
        /\ pc' \in {"current", "rounds", "commit"}
    <3>1. CASE Ignored(a, s)
      <4>1. store' = [a EXCEPT !.fromDisk = @ /\ ~SameVersion(a, s)] /\ pc' = Goal
        BY <3>1 DEF Ignored
      <4>2. store' \in Stores
        BY <2>1, <4>1 DEF Stores
      <4>3. /\ store'.identity = a.identity /\ store'.current = a.current
            /\ store'.baseline = a.baseline
        BY <2>1, <4>1 DEF Stores
      <4>. QED BY <1>3, <2>1, <4>1, <4>2, <4>3
    <3>2. CASE Accepted(a, s)
      <4>1. /\ store' = [a EXCEPT !.current = s, !.fromDisk = FALSE,
                           !.baseline = IF BaselineVoid(a, s) THEN Missing ELSE @]
            /\ pc' = IF ~dryRun THEN "current" ELSE Goal
        BY <3>2 DEF Accepted, Persist
      <4>2. store' \in Stores
        BY <1>2, <2>1, <4>1 DEF Stores
      <4>3. /\ store'.identity = a.identity /\ store'.current = s
            /\ store'.baseline = IF BaselineVoid(a, s) THEN Missing ELSE a.baseline
        BY <2>1, <4>1 DEF Stores
      <4>4. ~BaselineVoid(a, s) /\ a.current # Missing => a.current.schema = s.schema
        BY DEF BaselineVoid, NewSchema
      <4>. QED BY <1>2, <1>3, <2>1, <4>1, <4>2, <4>3, <4>4, NotDocuments
    <3>. QED BY <1>6, <3>1, <3>2
  <2>8. OneColony' /\ Writing' /\ NoMemory'
    <3>1. \A c \in Colonies :
            /\ disk'[c].current \in Snapshots => disk'[c].current.colony = c
            /\ disk'[c].baseline \in Baselines => disk'[c].baseline.state.colony = c
      BY <2>6, NotDocuments DEF StoreInv, OneColony, Belongs
    <3>2. OneColony'
      BY <2>7, <3>1 DEF OneColony, Belongs
    <3>. QED BY <1>2, <1>6, <2>3, <2>7, <3>2 DEF Writing, NoMemory
  <2>. QED BY <2>5, <2>6, <2>7, <2>8
<1>7. CASE s.colony # NoColony /\ \E a \in {Active(s)} : Ignored(a, s) \/ Accepted(a, s)
  BY <1>2, <1>6, <1>7
<1>. QED BY <1>1, <1>5, <1>7

(* The same for the three steps that fetch a state.                          *)
LEMMA FetchKeeps ==
  ASSUME StoreInv, Accept, pc \in {"idle", "rounds", "final"},
         serial' \in Nat, pending' \in [n : Nat, on : Nat],
         before' \in {before, Missing}
  PROVE  StoreInv'
<1>1. /\ store' \in Stores /\ disk' \in [Colonies -> Files]
      /\ fetched' \in Snapshots /\ faults' \in Nat
      /\ pc' \in {"current", "rounds", "commit"}
      /\ OneColony' /\ Writing' /\ NoMemory'
  BY AcceptKeeps
<1>2. slot' = slot /\ dryRun' = dryRun /\ failed' = failed
  BY DEF Accept
<1>3. StoreTypeOK'
  BY <1>1, <1>2 DEF StoreInv, StoreTypeOK
<1>4. Fetched'
  BY <1>1 DEF Fetched
<1>. QED BY <1>1, <1>3, <1>4 DEF StoreInv

(* A file of the store's colony is replaced by a document of its kind.       *)
LEMMA FileReplaced ==
  ASSUME StoreInv, NEW f \in {"current", "meta", "baseline", "handoff", "stall", "risk"},
         NEW v, store.identity \in Colonies,
         f = "current" => v \in Snapshots \cup {Missing},
         f = "meta" => v \in Metas,
         f = "baseline" => v \in Baselines \cup {Missing},
         f \in {"handoff", "stall", "risk"} => v \in Nat \cup {Missing},
         f = "current" /\ v # Missing => v.colony = store.identity,
         f = "baseline" /\ v # Missing => v.state.colony = store.identity,
         disk' = [disk EXCEPT ![store.identity] = [@ EXCEPT ![f] = v]]
  PROVE  /\ disk' \in [Colonies -> Files]
         /\ \A c \in Colonies :
              /\ disk'[c].current \in Snapshots => disk'[c].current.colony = c
              /\ disk'[c].baseline \in Baselines => disk'[c].baseline.state.colony = c
<1>. DEFINE d == disk[store.identity]
            e == [d EXCEPT ![f] = v]
<1>1. disk \in [Colonies -> Files] /\ d \in Files
  BY DEF StoreInv, StoreTypeOK
<1>2. e \in Files
  BY <1>1 DEF Files
<1>3. disk' = [disk EXCEPT ![store.identity] = e]
  OBVIOUS
<1>4. /\ f # "current" => e.current = d.current
      /\ f = "current" => e.current = v
      /\ f # "baseline" => e.baseline = d.baseline
      /\ f = "baseline" => e.baseline = v
  BY <1>1 DEF Files
<1>5. \A c \in Colonies :
        /\ disk[c].current \in Snapshots => disk[c].current.colony = c
        /\ disk[c].baseline \in Baselines => disk[c].baseline.state.colony = c
  BY DEF StoreInv, OneColony, Belongs
<1>6. /\ e.current \in Snapshots => e.current.colony = store.identity
      /\ e.baseline \in Baselines => e.baseline.state.colony = store.identity
  BY <1>4, <1>5, NotDocuments
<1>. HIDE DEF e
<1>. QED BY <1>1, <1>2, <1>3, <1>5, <1>6

(* What is written belongs to the colony; so does what is restored.          *)
LEMMA ArtifactPut ==
  ASSUME StoreInv, pc \in {"write", "restore"},
         NEW artifacts \in {NewArtifacts, OldArtifacts}, Put(artifacts)
  PROVE  /\ disk' \in [Colonies -> Files]
         /\ \A c \in Colonies :
              /\ disk'[c].current \in Snapshots => disk'[c].current.colony = c
              /\ disk'[c].baseline \in Baselines => disk'[c].baseline.state.colony = c
<1>. DEFINE f == Artifacts[slot]
            v == artifacts[f]
<1>1. /\ store \in Stores /\ pending \in [n : Nat, on : Nat] /\ slot \in 1..4
      /\ fetched \in Snapshots /\ fetched.colony = store.identity
      /\ store.identity \in Colonies
  BY DEF StoreInv, StoreTypeOK, Fetched, Writing
<1>2. f \in {"handoff", "baseline", "stall", "risk"}
  BY <1>1, SlotNames
<1>3. /\ NewArtifacts.handoff \in Nat /\ NewArtifacts.stall \in Nat
      /\ NewArtifacts.risk \in Nat
      /\ NewArtifacts.baseline = [state |-> fetched, by |-> pending.n]
      /\ NewArtifacts.baseline \in Baselines
  BY <1>1 DEF NewArtifacts, Baselines
<1>4. /\ OldArtifacts.handoff \in Nat \cup {Missing} /\ OldArtifacts.stall \in Nat
      /\ OldArtifacts.risk \in Nat
      /\ OldArtifacts.baseline = store.baseline
      /\ OldArtifacts.baseline \in Baselines \cup {Missing}
  BY <1>1 DEF OldArtifacts, Stores
<1>5. store.baseline # Missing => store.baseline.state.colony = store.identity
  BY DEF StoreInv, OneColony, Belongs
<1>6. NewArtifacts.baseline # Missing => NewArtifacts.baseline.state.colony = store.identity
  BY <1>1, <1>3
<1>7. /\ f = "baseline" => v \in Baselines \cup {Missing}
      /\ f \in {"handoff", "stall", "risk"} => v \in Nat \cup {Missing}
      /\ f = "baseline" /\ v # Missing => v.state.colony = store.identity
  BY <1>3, <1>4, <1>5, <1>6
<1>8. disk' = [disk EXCEPT ![store.identity] = [@ EXCEPT ![f] = v]]
  BY DEF Put
<1>. HIDE DEF v, f
<1>. QED BY <1>1, <1>2, <1>7, <1>8, FileReplaced

(* The steps that leave the store and the fetched state as they are.         *)
LEMMA StoreKept ==
  ASSUME StoreInv, UNCHANGED <<store, fetched>>,
         disk' \in [Colonies -> Files],
         \A c \in Colonies :
           /\ disk'[c].current \in Snapshots => disk'[c].current.colony = c
           /\ disk'[c].baseline \in Baselines => disk'[c].baseline.state.colony = c
  PROVE  OneColony' /\ NoMemory'
BY DEF StoreInv, OneColony, Belongs, NoMemory

(* A step that writes nothing.                                               *)
LEMMA FilesKept ==
  ASSUME StoreInv, UNCHANGED disk
  PROVE  /\ disk' \in [Colonies -> Files]
         /\ \A c \in Colonies :
              /\ disk'[c].current \in Snapshots => disk'[c].current.colony = c
              /\ disk'[c].baseline \in Baselines => disk'[c].baseline.state.colony = c
BY DEF StoreInv, StoreTypeOK, OneColony, Belongs

(* Every step keeps it.                                                      *)
LEMMA StoreStep == StoreInv /\ [Next]_vars => StoreInv'
<1>. SUFFICES ASSUME StoreInv, [Next]_vars PROVE StoreInv'
  OBVIOUS
<1>0. StoreTypeOK /\ OneColony /\ Writing /\ Fetched /\ NoMemory
  BY DEF StoreInv
<1>1. CASE Launch
  <2>1. UNCHANGED disk /\ UNCHANGED <<store, fetched>> /\ pc' = "idle"
    BY <1>1 DEF Launch
  <2>2. StoreTypeOK'
    BY <1>0, <1>1, <2>1 DEF Launch, StoreTypeOK
  <2>. QED BY <2>1, <2>2, FilesKept, StoreKept DEF StoreInv, Writing, Fetched
<1>2. CASE Stop
  <2>1. /\ pc' = "down" /\ slot' = 1 /\ store' = Inactive /\ fetched' = Missing
        /\ pending' = NoHandoff /\ dryRun' = FALSE
        /\ UNCHANGED <<disk, serial, faults, failed>>
        /\ \/ before' = before
           \/ before' = [current |-> store.current, baseline |-> store.baseline]
    BY <1>2 DEF Stop
  <2>2. Inactive \in Stores /\ Inactive.current = Missing /\ Inactive.baseline = Missing
    BY DEF Inactive, Stores
  <2>3. before' = Missing \/ before' \in [current : Snapshots \cup {Missing},
                                        baseline : Baselines \cup {Missing}]
    BY <1>0, <2>1 DEF StoreTypeOK, Stores
  <2>4. pending' \in [n : Nat, on : Nat]
    BY <2>1 DEF NoHandoff
  <2>5. dryRun' \in BOOLEAN
    BY <2>1, Zenon
  <2>6. StoreTypeOK'
    BY <1>0, <2>1, <2>2, <2>3, <2>4, <2>5 DEF StoreTypeOK
  <2>7. OneColony'
    BY <1>0, <2>1, <2>2 DEF OneColony
  <2>. QED BY <2>1, <2>2, <2>6, <2>7 DEF StoreInv, Writing, Fetched, NoMemory
<1>3. CASE Damage
  <2>1. PICK c \in Colonies, f \in DOMAIN NoFiles :
          disk' = [disk EXCEPT ![c] = [@ EXCEPT ![f] = Damaged]]
    BY <1>3 DEF Damage
  <2>2. /\ pc = "down" /\ faults' = faults + 1
        /\ UNCHANGED <<store, pc, slot, dryRun, fetched, pending, serial, failed, before>>
    BY <1>3 DEF Damage, Fault
  <2>. DEFINE d == disk[c]
              e == [d EXCEPT ![f] = Damaged]
  <2>3. d \in Files /\ disk \in [Colonies -> Files]
    BY <1>0 DEF StoreTypeOK
  <2>4. e \in Files
    BY <2>3 DEF Files
  <2>5. /\ e.current \in {d.current, Damaged}
        /\ e.baseline \in {d.baseline, Damaged}
    BY <2>3 DEF Files
  <2>6. disk' = [disk EXCEPT ![c] = e]
    BY <2>1
  <2>. HIDE DEF e
  <2>7. /\ disk' \in [Colonies -> Files]
        /\ \A b \in Colonies :
             /\ disk'[b].current \in {disk[b].current, Damaged}
             /\ disk'[b].baseline \in {disk[b].baseline, Damaged}
    BY <2>3, <2>4, <2>5, <2>6
  <2>8. \A b \in Colonies :
             /\ disk'[b].current \in Snapshots => disk'[b].current.colony = b
             /\ disk'[b].baseline \in Baselines => disk'[b].baseline.state.colony = b
    BY <1>0, <2>7, NotDocuments DEF OneColony, Belongs
  <2>9. StoreTypeOK'
    BY <1>0, <2>2, <2>7 DEF StoreTypeOK
  <2>. QED BY <2>2, <2>7, <2>8, <2>9, StoreKept DEF StoreInv, Writing, Fetched
<1>4. CASE StartDecision
  <2>1. /\ Accept /\ pc = "idle" /\ serial' = serial + 1 /\ pending' = NoHandoff
        /\ before' \in {before, Missing}
    BY <1>4 DEF StartDecision
  <2>2. serial' \in Nat /\ pending' \in [n : Nat, on : Nat]
    BY <1>0, <2>1 DEF StoreTypeOK, NoHandoff
  <2>. QED BY <2>1, <2>2, FetchKeeps
<1>5. CASE RefreshState \/ FinalState
  BY <1>0, <1>5, FetchKeeps DEF RefreshState, FinalState, StoreTypeOK
<1>6. CASE RecordVerification
  <2>1. /\ pc = "rounds" /\ pc' = "rounds" /\ store.identity # NoColony
        /\ UNCHANGED <<slot, dryRun, fetched, pending, serial, failed, before>>
        /\ faults' \in Nat
    BY <1>0, <1>6 DEF RecordVerification, Fault, StoreTypeOK
  <2>2. store \in Stores /\ store.identity \in Colonies /\ serial \in Nat
    BY <1>0, <2>1 DEF StoreTypeOK, Stores
  <2>3. /\ store' \in Stores /\ store'.identity = store.identity
        /\ store'.current = store.current /\ store'.baseline = store.baseline
    BY <1>6, <2>2 DEF RecordVerification, Stores
  <2>4. /\ disk' \in [Colonies -> Files]
        /\ \A c \in Colonies :
             /\ disk'[c].current \in Snapshots => disk'[c].current.colony = c
             /\ disk'[c].baseline \in Baselines => disk'[c].baseline.state.colony = c
    <3>1. CASE disk' = disk
      BY <3>1, FilesKept
    <3>2. CASE disk' = [disk EXCEPT ![store.identity].stall = serial]
      <4>1. disk' = [disk EXCEPT ![store.identity] = [@ EXCEPT !["stall"] = serial]]
        BY <3>2
      <4>. QED BY <2>2, <4>1, FileReplaced
    <3>. QED BY <1>6, <3>1, <3>2 DEF RecordVerification
  <2>5. StoreTypeOK'
    BY <1>0, <2>1, <2>3, <2>4 DEF StoreTypeOK
  <2>6. OneColony' /\ NoMemory'
    BY <1>0, <2>3, <2>4 DEF OneColony, Belongs, NoMemory
  <2>. QED BY <1>0, <2>1, <2>5, <2>6 DEF StoreInv, Writing, Fetched
<1>7. CASE FinishDecision
  <2>1. UNCHANGED disk /\ UNCHANGED <<store, fetched>> /\ pc = "rounds" /\ pc' = "final"
    BY <1>7 DEF FinishDecision
  <2>2. StoreTypeOK'
    BY <1>0, <1>7 DEF FinishDecision, StoreTypeOK, Stores
  <2>. QED BY <1>0, <2>1, <2>2, FilesKept, StoreKept DEF StoreInv, Writing, Fetched
<1>8. CASE FailDecision \/ NoCommit
  <2>1. UNCHANGED disk /\ UNCHANGED <<store, fetched>> /\ pc' = "idle"
    BY <1>8 DEF FailDecision, NoCommit
  <2>2. StoreTypeOK'
    BY <1>0, <1>8 DEF FailDecision, NoCommit, StoreTypeOK
  <2>. QED BY <2>1, <2>2, FilesKept, StoreKept DEF StoreInv, Writing, Fetched
<1>9. CASE WriteCurrent
  <2>1. /\ pc = "current"
        /\ UNCHANGED <<store, slot, dryRun, fetched, pending, serial, failed, before>>
        /\ \/ /\ disk' = [disk EXCEPT ![store.identity] = [@ EXCEPT !["current"] = store.current]]
              /\ pc' = "metadata" /\ UNCHANGED faults
           \/ disk' = disk /\ pc' = "idle" /\ faults' = faults + 1
    BY <1>9 DEF WriteCurrent, Write, Fault
  <2>2. /\ disk' \in [Colonies -> Files]
        /\ \A c \in Colonies :
             /\ disk'[c].current \in Snapshots => disk'[c].current.colony = c
             /\ disk'[c].baseline \in Baselines => disk'[c].baseline.state.colony = c
    <3>1. /\ store.current \in Snapshots /\ store.identity \in Colonies
          /\ store.current.colony = store.identity
      BY <1>0, <2>1, NotDocuments DEF Writing, OneColony, Belongs
    <3>. QED BY <2>1, <3>1, FilesKept, FileReplaced
  <2>3. StoreTypeOK'
    BY <1>0, <2>1, <2>2 DEF StoreTypeOK
  <2>. QED BY <1>0, <2>1, <2>2, <2>3, StoreKept DEF StoreInv, Writing, Fetched
<1>10. CASE WriteMetadata
  <2>. DEFINE v == [schema |-> store.current.schema, version |-> store.current.version]
  <2>1. /\ pc = "metadata"
        /\ UNCHANGED <<store, slot, dryRun, fetched, pending, serial, failed, before>>
        /\ \/ /\ disk' = [disk EXCEPT ![store.identity] = [@ EXCEPT !["meta"] = v]]
              /\ pc' = Goal /\ UNCHANGED faults
           \/ disk' = disk /\ pc' = "idle" /\ faults' = faults + 1
    BY <1>10 DEF WriteMetadata, Write, Fault
  <2>2. Goal \in {"rounds", "commit"}
    BY DEF Goal
  <2>3. /\ disk' \in [Colonies -> Files]
        /\ \A c \in Colonies :
             /\ disk'[c].current \in Snapshots => disk'[c].current.colony = c
             /\ disk'[c].baseline \in Baselines => disk'[c].baseline.state.colony = c
    <3>1. v \in Metas /\ store.identity \in Colonies
      BY <1>0, <2>1 DEF Writing, Snapshots, Metas
    <3>. QED BY <2>1, <3>1, FilesKept, FileReplaced
  <2>4. StoreTypeOK'
    BY <1>0, <2>1, <2>2, <2>3 DEF StoreTypeOK
  <2>. QED BY <1>0, <2>1, <2>2, <2>3, <2>4, StoreKept DEF StoreInv, Writing, Fetched
<1>11. CASE BeginCommit
  <2>1. /\ UNCHANGED disk /\ UNCHANGED <<store, fetched, dryRun>>
        /\ pc = "commit" /\ pc' = "write" /\ Committable
    BY <1>11 DEF BeginCommit
  <2>2. StoreTypeOK'
    BY <1>0, <1>11 DEF BeginCommit, StoreTypeOK
  <2>3. /\ ~dryRun /\ store.identity \in Colonies /\ store.current \in Snapshots
        /\ fetched \in Snapshots /\ fetched.colony = store.identity
        /\ fetched.schema = store.current.schema
    BY <1>0, <2>1 DEF Committable, StoreTypeOK, Stores, Fetched
  <2>. QED BY <2>1, <2>2, <2>3, FilesKept, StoreKept DEF StoreInv, Writing, Fetched
<1>12. CASE WriteArtifact
  <2>1. /\ pc = "write" /\ Put(NewArtifacts)
        /\ UNCHANGED <<dryRun, fetched, pending, serial, faults, failed, before>>
    BY <1>12 DEF WriteArtifact
  <2>2. /\ disk' \in [Colonies -> Files]
        /\ \A c \in Colonies :
             /\ disk'[c].current \in Snapshots => disk'[c].current.colony = c
             /\ disk'[c].baseline \in Baselines => disk'[c].baseline.state.colony = c
    BY <2>1, ArtifactPut
  <2>3. slot \in 1..4
    BY <1>0 DEF StoreTypeOK
  <2>4. CASE slot < 4
    <3>1. slot' = slot + 1 /\ UNCHANGED <<pc, store, fetched>>
      BY <1>12, <2>1, <2>4, SlotNames DEF WriteArtifact
    <3>2. StoreTypeOK'
      BY <1>0, <2>1, <2>2, <2>3, <2>4, <3>1 DEF StoreTypeOK
    <3>. QED BY <1>0, <2>1, <2>2, <3>1, <3>2, StoreKept DEF StoreInv, Writing, Fetched
  <2>5. CASE slot = 4
    <3>1. /\ pc' = "idle" /\ slot' = 1
          /\ store' = [store EXCEPT !.handoff = pending.n, !.stall = pending.n,
                         !.risk = pending.n, !.baseline = NewArtifacts.baseline]
      BY <1>12, <2>5, SlotNames DEF WriteArtifact
    <3>2. /\ store \in Stores /\ pending \in [n : Nat, on : Nat]
          /\ fetched \in Snapshots /\ fetched.colony = store.identity
          /\ store.identity \in Colonies /\ store.current \in Snapshots
          /\ fetched.schema = store.current.schema
      BY <1>0, <2>1 DEF StoreTypeOK, Writing, Fetched
    <3>3. NewArtifacts.baseline = [state |-> fetched, by |-> pending.n]
      BY DEF NewArtifacts
    <3>4. NewArtifacts.baseline \in Baselines
      BY <3>2, <3>3 DEF Baselines
    <3>5. /\ store' \in Stores /\ store'.identity = store.identity
          /\ store'.current = store.current
          /\ store'.baseline = NewArtifacts.baseline
      BY <3>1, <3>2, <3>4 DEF Stores
    <3>6. OneColony'
      <4>1. store'.baseline.state = fetched /\ store'.current # Missing
        BY <3>2, <3>3, <3>5, NotDocuments
      <4>2. store'.current.colony = store'.identity
        BY <1>0, <3>2, <3>5, NotDocuments DEF OneColony, Belongs
      <4>. QED BY <2>2, <3>2, <3>5, <4>1, <4>2 DEF OneColony, Belongs
    <3>7. StoreTypeOK'
      BY <1>0, <2>1, <2>2, <3>1, <3>5 DEF StoreTypeOK
    <3>. QED BY <3>1, <3>2, <3>5, <3>6, <3>7, StoreAssumption
         DEF StoreInv, Writing, Fetched, NoMemory
  <2>. QED BY <2>3, <2>4, <2>5
<1>13. CASE WriteFails
  <2>1. /\ UNCHANGED disk /\ UNCHANGED <<store, fetched, dryRun>>
        /\ pc = "write" /\ pc' = "restore"
    BY <1>13 DEF WriteFails
  <2>2. StoreTypeOK'
    BY <1>0, <1>13 DEF WriteFails, Fault, StoreTypeOK
  <2>. QED BY <1>0, <2>1, <2>2, FilesKept, StoreKept DEF StoreInv, Writing, Fetched
<1>14. CASE RestoreArtifact \/ RestoreFails
  <2>1. /\ UNCHANGED <<store, fetched, dryRun, pending, serial, before>>
        /\ pc = "restore" /\ AfterRestore
        /\ faults' \in Nat /\ failed' \in Nat
    BY <1>0, <1>14 DEF RestoreArtifact, RestoreFails, Fault, StoreTypeOK
  <2>2. pc' \in {"restore", "idle"} /\ slot' \in 1..4
    BY <1>0, <2>1, SlotNames DEF AfterRestore, StoreTypeOK
  <2>3. Put(OldArtifacts) \/ disk' = disk
    BY <1>14 DEF RestoreArtifact, RestoreFails
  <2>4. /\ disk' \in [Colonies -> Files]
        /\ \A c \in Colonies :
             /\ disk'[c].current \in Snapshots => disk'[c].current.colony = c
             /\ disk'[c].baseline \in Baselines => disk'[c].baseline.state.colony = c
    BY <2>1, <2>3, ArtifactPut, FilesKept
  <2>5. StoreTypeOK'
    BY <1>0, <2>1, <2>2, <2>4 DEF StoreTypeOK
  <2>. QED BY <1>0, <2>1, <2>2, <2>4, <2>5, StoreKept DEF StoreInv, Writing, Fetched
<1>15. CASE UNCHANGED vars
  <2>1. UNCHANGED <<disk, store, pc, slot, dryRun, fetched, pending, serial, faults, failed, before>>
    BY <1>15 DEF vars
  <2>2. StoreTypeOK'
    BY <1>0, <2>1 DEF StoreTypeOK
  <2>. QED BY <1>0, <2>1, <2>2, FilesKept, StoreKept DEF StoreInv, Writing, Fetched
<1>. QED
  BY <1>1, <1>2, <1>3, <1>4, <1>5, <1>6, <1>7, <1>8, <1>9, <1>10, <1>11, <1>12,
     <1>13, <1>14, <1>15 DEF Next, Decision, Commit

(* So it always holds.                                                       *)
LEMMA StoreInvariant == Spec => []StoreInv
BY StoreInit, StoreStep, PTL DEF Spec

-----------------------------------------------------------------------------
(* What it gives *)

(* Every variable of the store keeps a value of its kind.                    *)
THEOREM StoreTypeCorrect == Spec => []StoreTypeOK
<1>1. StoreInv => StoreTypeOK
  BY DEF StoreInv
<1>. QED BY <1>1, StoreInvariant, PTL

(* No file and no memory of a colony holds a state of another one, and a     *)
(* decision's baseline can be compared with its state.                       *)
THEOREM ColoniesKeptApart == Spec => []OneColony
<1>1. StoreInv => OneColony
  BY DEF StoreInv
<1>. QED BY <1>1, StoreInvariant, PTL

(* A dry run, whatever it fetches, leaves every file of every colony alone.  *)
THEOREM DryRunsOnlyRead == Spec => DryRunWritesNothing
<1>1. StoreInv /\ [Next]_vars => (dryRun /\ pc # "down" => disk' = disk)
  <2>. SUFFICES ASSUME StoreInv, [Next]_vars, dryRun, pc # "down" PROVE disk' = disk
    OBVIOUS
  <2>1. CASE StartDecision \/ RefreshState \/ FinalState
    <3>1. Accept /\ pc \in {"idle", "rounds", "final"}
      BY <2>1 DEF StartDecision, RefreshState, FinalState
    <3>. QED BY <3>1, AcceptKeeps
  <2>2. pc \notin {"current", "metadata", "write", "restore"}
    BY DEF StoreInv, Writing
  <2>3. CASE WriteCurrent \/ WriteMetadata \/ WriteArtifact \/ WriteFails
              \/ RestoreArtifact \/ RestoreFails
    BY <2>2, <2>3 DEF WriteCurrent, WriteMetadata, WriteArtifact, WriteFails,
       RestoreArtifact, RestoreFails
  <2>4. CASE Launch \/ Stop \/ Damage \/ RecordVerification \/ FinishDecision
              \/ FailDecision \/ NoCommit \/ BeginCommit
    BY <2>4 DEF Launch, Stop, Damage, RecordVerification, FinishDecision,
       FailDecision, NoCommit, BeginCommit
  <2>5. CASE UNCHANGED vars
    BY <2>5 DEF vars
  <2>. QED BY <2>1, <2>3, <2>4, <2>5 DEF Next, Decision, Commit
<1>. QED BY <1>1, StoreInvariant, PTL DEF Spec, DryRunWritesNothing

-----------------------------------------------------------------------------
(* A commit: what has been written so far, and what has been restored.       *)

Committing ==
  /\ pc \notin {"write", "restore"} => slot = 1
  /\ pending.n \in {0, serial}
  /\ pc \in {"commit", "write", "restore"} => pending.n # 0
  /\ pc = "write" =>
       /\ failed = 0
       /\ \A k \in 1..4 : k < slot =>
            disk[store.identity][Artifacts[k]] = NewArtifacts[Artifacts[k]]
  /\ pc = "restore" =>
       /\ failed >= 1 /\ faults >= 1
       /\ failed = 1 => \A k \in 1..4 : k < slot =>
            disk[store.identity][Artifacts[k]] = OldArtifacts[Artifacts[k]]

(* Each of the four documents has its slot.                                  *)
LEMMA ArtifactNames ==
  /\ \A k \in 1..4 : Artifacts[k] \in {"handoff", "baseline", "stall", "risk"}
  /\ \A j, k \in 1..4 : Artifacts[j] = Artifacts[k] => j = k
  /\ \A f \in {"handoff", "baseline", "stall", "risk"} : \E k \in 1..4 : Artifacts[k] = f
BY SlotNames

(* Writing a file of a colony changes that file.                             *)
LEMMA OneFile ==
  ASSUME disk \in [Colonies -> Files], NEW id \in Colonies,
         NEW f \in DOMAIN NoFiles, NEW v,
         disk' = [disk EXCEPT ![id] = [@ EXCEPT ![f] = v]]
  PROVE  /\ \A c \in Colonies : c # id => disk'[c] = disk[c]
         /\ disk'[id][f] = v
         /\ \A g \in DOMAIN NoFiles : g # f => disk'[id][g] = disk[id][g]
<1>. DEFINE d == disk[id]
            e == [d EXCEPT ![f] = v]
<1>1. d \in Files
  OBVIOUS
<1>2. DOMAIN d = DOMAIN NoFiles
  BY <1>1 DEF Files, NoFiles
<1>3. e[f] = v /\ \A g \in DOMAIN NoFiles : g # f => e[g] = d[g]
  BY <1>2
<1>4. disk' = [disk EXCEPT ![id] = e]
  OBVIOUS
<1>. HIDE DEF e
<1>. QED BY <1>3, <1>4

(* A step of a commit or rollback changes the document of its slot.          *)
LEMMA PutOne ==
  ASSUME StoreInv, pc \in {"write", "restore"}, NEW artifacts, Put(artifacts)
  PROVE  /\ \A c \in Colonies : c # store.identity => disk'[c] = disk[c]
         /\ disk'[store.identity][Artifacts[slot]] = artifacts[Artifacts[slot]]
         /\ \A g \in DOMAIN NoFiles :
              g # Artifacts[slot] => disk'[store.identity][g] = disk[store.identity][g]
<1>1. disk \in [Colonies -> Files] /\ store.identity \in Colonies /\ slot \in 1..4
  BY DEF StoreInv, StoreTypeOK, Writing
<1>2. Artifacts[slot] \in DOMAIN NoFiles
  BY <1>1, ArtifactNames DEF NoFiles
<1>3. PICK f, v : f = Artifacts[slot] /\ v = artifacts[f]
  OBVIOUS
<1>4. disk' = [disk EXCEPT ![store.identity] = [@ EXCEPT ![f] = v]]
  BY <1>3 DEF Put
<1>5. f \in DOMAIN NoFiles
  BY <1>2, <1>3
<1>. DEFINE d == disk[store.identity]
            e == [d EXCEPT ![f] = v]
<1>6. DOMAIN d = DOMAIN NoFiles
  BY <1>1 DEF Files, NoFiles
<1>7. e[f] = v /\ \A g \in DOMAIN NoFiles : g # f => e[g] = d[g]
  BY <1>5, <1>6
<1>8. disk' = [disk EXCEPT ![store.identity] = e]
  BY <1>4
<1>. HIDE DEF e
<1>. QED BY <1>1, <1>3, <1>7, <1>8

(* Every step keeps the account of what has been written.                    *)
LEMMA CommitStep == StoreInv /\ Committing /\ [Next]_vars => Committing'
<1>. SUFFICES ASSUME StoreInv, Committing, [Next]_vars PROVE Committing'
  OBVIOUS
<1>0. /\ slot \in 1..4 /\ serial \in Nat /\ faults \in Nat /\ failed \in Nat
      /\ pending \in [n : Nat, on : Nat]
      /\ \A k \in 1..4 : Artifacts[k] \in DOMAIN NoFiles
  BY ArtifactNames DEF StoreInv, StoreTypeOK, NoFiles
<1>1. Goal = "commit" => pending.n # 0
  BY DEF Goal
<1>2. CASE StartDecision \/ RefreshState \/ FinalState
  <2>1. /\ Accept /\ pc \in {"idle", "rounds", "final"} /\ slot' = slot
        /\ \/ pending' = NoHandoff /\ pc = "idle"
           \/ UNCHANGED <<pending, serial>>
    BY <1>2 DEF StartDecision, RefreshState, FinalState, Accept
  <2>2. pc' \in {"current", "rounds", "commit"}
    BY <2>1, AcceptKeeps
  <2>3. pc' \in {"current", Goal}
    BY <2>1 DEF Accept, Unloaded, Ignored, Accepted
  <2>4. pc = "idle" => Goal = "rounds"
    BY DEF Goal
  <2>. QED BY <1>1, <2>1, <2>2, <2>3, <2>4 DEF Committing, NoHandoff
<1>3. CASE Launch \/ Stop \/ Damage
  BY <1>0, <1>3 DEF Launch, Stop, Damage, Committing, NoHandoff
<1>4. CASE RecordVerification \/ FinishDecision \/ FailDecision \/ NoCommit
  BY <1>0, <1>4 DEF RecordVerification, FinishDecision, FailDecision, NoCommit, Committing
<1>5. CASE WriteCurrent \/ WriteMetadata
  BY <1>0, <1>1, <1>5 DEF WriteCurrent, WriteMetadata, Write, Goal, Committing
<1>6. CASE BeginCommit
  BY <1>0, <1>6 DEF BeginCommit, Committing
<1>7. CASE WriteArtifact
  <2>1. /\ pc = "write" /\ Put(NewArtifacts) /\ failed = 0
        /\ UNCHANGED <<dryRun, fetched, pending, serial, faults, failed, before>>
    BY <1>7 DEF WriteArtifact, Committing
  <2>2. CASE slot = 4
    <3>1. pc' = "idle" /\ slot' = 1
      BY <1>7, <2>2, SlotNames DEF WriteArtifact
    <3>. QED BY <2>1, <3>1 DEF Committing
  <2>3. CASE slot < 4
    <3>1. slot' = slot + 1 /\ UNCHANGED <<pc, store>>
      BY <1>7, <2>3, SlotNames DEF WriteArtifact
    <3>2. NewArtifacts' = NewArtifacts
      BY <2>1 DEF NewArtifacts
    <3>3. \A k \in 1..4 : k < slot + 1 =>
            disk'[store.identity][Artifacts[k]] = NewArtifacts[Artifacts[k]]
      BY <1>0, <2>1, PutOne, ArtifactNames DEF Committing
    <3>. QED BY <1>0, <2>1, <3>1, <3>2, <3>3 DEF Committing
  <2>. QED BY <1>0, <2>2, <2>3
<1>8. CASE WriteFails
  BY <1>0, <1>8 DEF WriteFails, Fault, Committing
<1>9. CASE RestoreArtifact \/ RestoreFails
  <2>1. /\ pc = "restore" /\ AfterRestore /\ failed >= 1 /\ faults >= 1
        /\ UNCHANGED <<store, dryRun, fetched, pending, serial, before>>
    BY <1>9 DEF RestoreArtifact, RestoreFails, Committing
  <2>2. /\ OldArtifacts' = OldArtifacts /\ faults' >= 1 /\ failed' >= 1
        /\ failed' = 1 => failed' = failed /\ Put(OldArtifacts)
    BY <1>0, <1>9, <2>1 DEF OldArtifacts, RestoreArtifact, RestoreFails, Fault
  <2>3. \/ pc' = "idle" /\ slot' = 1
        \/ pc' = "restore" /\ slot' = slot + 1
    BY <1>0, <2>1, SlotNames DEF AfterRestore
  <2>4. failed' = 1 => \A k \in 1..4 : k < slot + 1 =>
            disk'[store.identity][Artifacts[k]] = OldArtifacts[Artifacts[k]]
    BY <1>0, <2>1, <2>2, PutOne, ArtifactNames DEF Committing
  <2>. QED BY <1>0, <2>1, <2>2, <2>3, <2>4 DEF Committing
<1>10. CASE UNCHANGED vars
  BY <1>10 DEF vars, Committing, NewArtifacts, OldArtifacts
<1>. QED
  BY <1>2, <1>3, <1>4, <1>5, <1>6, <1>7, <1>8, <1>9, <1>10 DEF Next, Decision, Commit

(* So it is always right.                                                    *)
LEMMA CommitInvariant == Spec => [](StoreInv /\ Committing)
<1>1. Init => Committing
  BY DEF Init, Committing, NoHandoff
<1>. QED BY <1>1, StoreInit, StoreStep, CommitStep, PTL DEF Spec

(* A commit of four documents ends with all of them on disk, or, when one    *)
(* write failed and the restoring did not, with none of them.                *)
THEOREM CommitIsAtomic == Spec => CommitAllOrNothing
<1>1. ASSUME StoreInv, Committing, [Next]_vars,
             pc' = "idle", pc \in {"write", "restore"}, failed' <= 1
      PROVE  \A f \in DOMAIN OldArtifacts :
               disk'[store.identity][f] = OldArtifacts'[f]
  <2>0. slot \in 1..4 /\ faults \in Nat /\ failed \in Nat /\ store \in Stores
        /\ pending \in [n : Nat, on : Nat]
        /\ \A k \in 1..4 : Artifacts[k] \in DOMAIN NoFiles
    BY <1>1, ArtifactNames DEF StoreInv, StoreTypeOK, NoFiles
  <2>1. DOMAIN OldArtifacts = {"handoff", "baseline", "stall", "risk"}
    BY DEF OldArtifacts
  <2>2. WriteArtifact \/ RestoreArtifact \/ RestoreFails
    BY <1>1 DEF Next, Decision, Commit, vars, Launch, Stop, Damage, StartDecision,
       RefreshState, RecordVerification, FinishDecision, FailDecision, FinalState,
       WriteCurrent, WriteMetadata, NoCommit, BeginCommit, WriteFails
  <2>3. CASE WriteArtifact
    <3>1. /\ pc = "write" /\ Put(NewArtifacts) /\ pending.n # 0
          /\ slot = 4
          /\ store' = [store EXCEPT !.handoff = pending.n, !.stall = pending.n,
                         !.risk = pending.n, !.baseline = NewArtifacts.baseline]
      BY <1>1, <2>0, <2>3, SlotNames DEF WriteArtifact, Committing
    <3>2. \A k \in 1..4 :
            disk'[store.identity][Artifacts[k]] = NewArtifacts[Artifacts[k]]
      BY <1>1, <2>0, <3>1, PutOne, ArtifactNames DEF Committing
    <3>3. OldArtifacts' = NewArtifacts
      <4>1. /\ store'.handoff = pending.n /\ store'.stall = pending.n
            /\ store'.risk = pending.n /\ store'.baseline = NewArtifacts.baseline
        BY <2>0, <3>1 DEF Stores
      <4>. QED BY <3>1, <4>1 DEF OldArtifacts, NewArtifacts
    <3>. QED BY <2>1, <3>2, <3>3, ArtifactNames
  <2>4. CASE RestoreArtifact \/ RestoreFails
    <3>1. /\ pc = "restore" /\ failed >= 1 /\ store' = store /\ AfterRestore
      BY <1>1, <2>4 DEF RestoreArtifact, RestoreFails, Committing
    <3>2. failed = 1 /\ Put(OldArtifacts) /\ slot = 4
      BY <1>1, <2>0, <2>4, <3>1, SlotNames DEF RestoreArtifact, RestoreFails, AfterRestore
    <3>3. \A k \in 1..4 :
            disk'[store.identity][Artifacts[k]] = OldArtifacts[Artifacts[k]]
      BY <1>1, <2>0, <3>1, <3>2, PutOne, ArtifactNames DEF Committing
    <3>4. OldArtifacts' = OldArtifacts
      BY <3>1 DEF OldArtifacts
    <3>. QED BY <2>1, <3>3, <3>4, ArtifactNames
  <2>. QED BY <2>2, <2>3, <2>4
<1>. QED BY <1>1, CommitInvariant, PTL DEF Spec, CommitAllOrNothing

-----------------------------------------------------------------------------
(* While nothing fails, decisions are written in order.                      *)

(* The handoff of a colony is the newest of what HandoffNotOlder compares,   *)
(* then the baseline, then the risk records; none is newer than serial.      *)
InOrder(d) ==
  /\ d.handoff \in Nat \cup {Missing} /\ d.risk \in Nat \cup {Missing}
  /\ d.baseline \in Baselines \cup {Missing}
  /\ d.handoff \in Nat => d.handoff <= serial
  /\ d.risk \in Nat => d.risk <= serial
  /\ d.baseline \in Baselines =>
       /\ d.handoff \in Nat
       /\ d.baseline.by <= d.handoff
       /\ d.risk \in Nat => d.risk <= d.baseline.by

FilesInOrder == faults = 0 => \A c \in Colonies : InOrder(disk[c])

(* Every step keeps the documents in order.                                  *)
LEMMA OrderStep ==
  StoreInv /\ Committing /\ FilesInOrder /\ [Next]_vars => FilesInOrder'
<1>. SUFFICES ASSUME StoreInv, Committing, FilesInOrder, [Next]_vars, faults' = 0
              PROVE  (\A c \in Colonies : InOrder(disk[c]))'
  BY DEF FilesInOrder
<1>0. /\ slot \in 1..4 /\ serial \in Nat /\ faults \in Nat
      /\ disk \in [Colonies -> Files] /\ pending \in [n : Nat, on : Nat]
  BY DEF StoreInv, StoreTypeOK
<1>1. faults = 0
  <2>1. Accept => faults' = faults \/ faults' = faults + 1
    BY DEF Accept, Unloaded, Ignored, Accepted, Fault
  <2>2. WriteCurrent \/ WriteMetadata => faults' = faults \/ faults' = faults + 1
    BY DEF WriteCurrent, WriteMetadata, Write, Fault
  <2>3. faults' = faults \/ faults' = faults + 1
    BY <2>1, <2>2 DEF Next, Decision, Commit, vars, Launch, Stop, Damage, StartDecision,
       RefreshState, RecordVerification, FinishDecision, FailDecision, FinalState,
       NoCommit, BeginCommit, WriteArtifact, WriteFails, RestoreArtifact, RestoreFails,
       Fault
  <2>. QED BY <1>0, <2>3
<1>2. \A c \in Colonies : InOrder(disk[c])
  BY <1>1 DEF FilesInOrder
<1>3. ASSUME serial' \in {serial, serial + 1},
             \A c \in Colonies :
               /\ disk'[c].handoff \in {disk[c].handoff, Missing}
               /\ disk[c].handoff \in Nat => disk'[c].handoff = disk[c].handoff
               /\ disk'[c].risk \in {disk[c].risk, Missing}
               /\ disk'[c].baseline \in {disk[c].baseline, Missing}
      PROVE  (\A c \in Colonies : InOrder(disk[c]))'
  BY <1>0, <1>2, <1>3, NotDocuments DEF InOrder, Baselines
<1>4. CASE StartDecision \/ RefreshState \/ FinalState
  <2>1. /\ Accept /\ serial' \in {serial, serial + 1}
    BY <1>4 DEF StartDecision, RefreshState, FinalState
  <2>2. PICK s \in Fetchable :
          \/ Unloaded(s)
          \/ /\ s.colony # NoColony
             /\ Ignored(Active(s), s) \/ Accepted(Active(s), s)
    BY <2>1 DEF Accept
  <2>3. s \in Snapshots
    BY StoreAssumption
  <2>4. CASE disk' = disk
    BY <1>3, <2>1, <2>4
  <2>5. CASE s.colony # NoColony /\ disk' = ActiveFiles(s)
    BY <1>3, <2>1, <2>3, <2>5, FilesOfActive
  <2>6. CASE s.colony # NoColony
             /\ disk' = [ActiveFiles(s) EXCEPT ![s.colony].baseline = Missing]
    <3>. DEFINE files == ActiveFiles(s)
    <3>1. files \in [Colonies -> Files] /\ s.colony \in Colonies
      BY <2>3, <2>6, FilesOfActive DEF Snapshots
    <3>2. \A c \in Colonies :
            /\ files[c].handoff \in {disk[c].handoff, Missing}
            /\ disk[c].handoff \in Nat => files[c].handoff = disk[c].handoff
            /\ files[c].risk \in {disk[c].risk, Missing}
            /\ files[c].baseline \in {disk[c].baseline, Missing}
      BY <2>3, <2>6, FilesOfActive
    <3>. HIDE DEF files
    <3>3. disk' = [files EXCEPT ![s.colony] = [@ EXCEPT !["baseline"] = Missing]]
      BY <2>6 DEF files
    <3>4. \A c \in Colonies :
            /\ disk'[c].handoff = files[c].handoff /\ disk'[c].risk = files[c].risk
            /\ disk'[c].baseline \in {files[c].baseline, Missing}
      <4>. DEFINE e == [files[s.colony] EXCEPT !["baseline"] = Missing]
      <4>1. /\ e.handoff = files[s.colony].handoff /\ e.risk = files[s.colony].risk
            /\ e.baseline = Missing
        BY <3>1 DEF Files
      <4>2. disk' = [files EXCEPT ![s.colony] = e]
        BY <3>3
      <4>. HIDE DEF e
      <4>. QED BY <3>1, <4>1, <4>2
    <3>. QED BY <1>3, <2>1, <3>2, <3>4
  <2>. QED BY <2>2, <2>4, <2>5, <2>6 DEF Unloaded, Ignored, Accepted
<1>5. CASE Launch \/ Stop \/ Damage \/ FinishDecision \/ FailDecision \/ NoCommit
           \/ BeginCommit \/ WriteFails \/ RestoreFails \/ UNCHANGED vars
  <2>1. disk' = disk /\ serial' = serial
    BY <1>0, <1>1, <1>5 DEF vars, Launch, Stop, Damage, FinishDecision, FailDecision,
       NoCommit, BeginCommit, WriteFails, RestoreFails, Fault
  <2>. QED BY <1>3, <2>1
<1>6. CASE RecordVerification \/ WriteCurrent \/ WriteMetadata
  <2>1. /\ serial' = serial
        /\ pc \in {"current", "metadata"} => store.identity \in Colonies
        /\ pc = "rounds" /\ store.identity # NoColony => store.identity \in Colonies
    BY <1>6 DEF RecordVerification, WriteCurrent, WriteMetadata, StoreInv, Writing,
       StoreTypeOK, Stores
  <2>2. \/ disk' = disk
        \/ /\ store.identity \in Colonies
           /\ \E f \in {"stall", "current", "meta"}, v \in {serial, store.current,
                  [schema |-> store.current.schema, version |-> store.current.version]} :
                disk' = [disk EXCEPT ![store.identity] = [@ EXCEPT ![f] = v]]
    <3>1. CASE RecordVerification
      BY <2>1, <3>1 DEF RecordVerification
    <3>2. CASE WriteCurrent
      BY <2>1, <3>2 DEF WriteCurrent, Write
    <3>3. CASE WriteMetadata
      BY <2>1, <3>3 DEF WriteMetadata, Write
    <3>. QED BY <1>6, <3>1, <3>2, <3>3
  <2>3. ASSUME store.identity \in Colonies, NEW f \in {"stall", "current", "meta"}, NEW v,
               disk' = [disk EXCEPT ![store.identity] = [@ EXCEPT ![f] = v]]
        PROVE  \A c \in Colonies :
                 /\ disk'[c].handoff = disk[c].handoff /\ disk'[c].risk = disk[c].risk
                 /\ disk'[c].baseline = disk[c].baseline
    <3>1. f \in DOMAIN NoFiles /\ {"handoff", "risk", "baseline"} \subseteq DOMAIN NoFiles
      BY DEF NoFiles
    <3>. QED BY <1>0, <2>3, <3>1, OneFile
  <2>4. \A c \in Colonies :
          /\ disk'[c].handoff = disk[c].handoff /\ disk'[c].risk = disk[c].risk
          /\ disk'[c].baseline = disk[c].baseline
    BY <2>2, <2>3
  <2>. QED BY <1>3, <2>1, <2>4
<1>7. CASE WriteArtifact
  <2>. DEFINE id == store.identity
  <2>1. /\ pc = "write" /\ Put(NewArtifacts) /\ serial' = serial
        /\ pending.n = serial
        /\ \A k \in 1..4 : k < slot => disk[id][Artifacts[k]] = NewArtifacts[Artifacts[k]]
    BY <1>7 DEF WriteArtifact, Committing
  <2>2. /\ NewArtifacts.handoff = serial /\ NewArtifacts.risk = serial
        /\ NewArtifacts.baseline.by = serial /\ NewArtifacts.baseline \in Baselines
    <3>1. fetched \in Snapshots
      BY <2>1 DEF StoreInv, Fetched
    <3>. QED BY <1>0, <2>1, <3>1 DEF NewArtifacts, Baselines
  <2>3. /\ \A c \in Colonies : c # id => disk'[c] = disk[c]
        /\ disk'[id][Artifacts[slot]] = NewArtifacts[Artifacts[slot]]
        /\ \A g \in DOMAIN NoFiles : g # Artifacts[slot] => disk'[id][g] = disk[id][g]
        /\ id \in Colonies
    BY <2>1, PutOne DEF StoreInv, Writing
  <2>4. {"handoff", "baseline", "stall", "risk"} \subseteq DOMAIN NoFiles
    BY DEF NoFiles
  <2>5. InOrder(disk[id])
    BY <1>2, <2>3
  <2>6. CASE slot = 1
    <3>1. /\ disk'[id].handoff = serial /\ disk'[id].baseline = disk[id].baseline
          /\ disk'[id].risk = disk[id].risk
      BY <2>2, <2>3, <2>4, <2>6, SlotNames
    <3>. QED BY <1>0, <1>2, <2>1, <2>3, <2>5, <3>1, NotDocuments DEF InOrder, Baselines
  <2>7. CASE slot = 2
    <3>1. /\ disk'[id].handoff = serial /\ disk'[id].baseline = NewArtifacts.baseline
          /\ disk'[id].risk = disk[id].risk
      BY <2>1, <2>2, <2>3, <2>4, <2>7, SlotNames
    <3>. QED BY <1>0, <1>2, <2>1, <2>2, <2>3, <2>5, <3>1, NotDocuments DEF InOrder, Baselines
  <2>8. CASE slot = 3
    <3>1. /\ disk'[id].handoff = disk[id].handoff /\ disk'[id].baseline = disk[id].baseline
          /\ disk'[id].risk = disk[id].risk
      BY <2>3, <2>4, <2>8, SlotNames
    <3>. QED BY <1>2, <2>1, <2>3, <2>5, <3>1 DEF InOrder
  <2>9. CASE slot = 4
    <3>1. /\ disk'[id].handoff = serial /\ disk'[id].baseline = NewArtifacts.baseline
          /\ disk'[id].risk = serial
      BY <2>1, <2>2, <2>3, <2>4, <2>9, SlotNames
    <3>. QED BY <1>0, <1>2, <2>1, <2>2, <2>3, <2>5, <3>1, NotDocuments DEF InOrder, Baselines
  <2>. QED BY <1>0, <2>6, <2>7, <2>8, <2>9
<1>8. CASE RestoreArtifact
  BY <1>1, <1>8 DEF RestoreArtifact, Committing
<1>. QED
  BY <1>4, <1>5, <1>6, <1>7, <1>8 DEF Next, Decision, Commit

(* Wherever the controller is cut off, no colony's baseline is newer than    *)
(* its handoff, and no risk records are newer than its baseline.             *)
THEOREM HandoffKeepsUp == Spec => []HandoffNotOlder
<1>1. Init => Committing /\ FilesInOrder
  <2>. SUFFICES ASSUME Init PROVE Committing /\ FilesInOrder
    OBVIOUS
  <2>1. Committing
    BY DEF Init, Committing, NoHandoff
  <2>2. \A c \in Colonies : disk[c] = NoFiles
    BY DEF Init
  <2>3. InOrder(NoFiles)
    BY NotDocuments DEF InOrder, NoFiles
  <2>. QED BY <2>1, <2>2, <2>3 DEF FilesInOrder
<1>2. FilesInOrder => HandoffNotOlder
  BY DEF FilesInOrder, InOrder, HandoffNotOlder
<1>. QED BY <1>1, <1>2, StoreInit, StoreStep, CommitStep, OrderStep, PTL DEF Spec
-----------------------------------------------------------------------------
(* What a clean stop leaves is what the next process starts from.            *)

MetaOf(s) == [schema |-> s.schema, version |-> s.version]

(* While nothing has failed, memory is on file: the current state and its    *)
(* version but for the two writes after it was accepted, and a baseline,     *)
(* until a commit has replaced it.  (A baseline on file that memory does not *)
(* have is possible: it is not read beside an invalid current state.)        *)
OnFile ==
  faults = 0 /\ pc # "down" /\ ~dryRun /\ store.identity # NoColony =>
    /\ store.current \in Snapshots
    /\ pc # "current" => disk[store.identity].current = store.current
    /\ pc \notin {"current", "metadata"} =>
         disk[store.identity].meta = MetaOf(store.current)
    /\ store.baseline # Missing /\ ~(pc = "write" /\ slot > 2) =>
         disk[store.identity].baseline = store.baseline

(* The memory of the last clean stop, until a process that writes has begun  *)
(* a decision, is on file too.                                               *)
Handover ==
  /\ pc = "down" => store.identity = NoColony
  /\ before # Missing /\ pc # "down" /\ ~dryRun =>
       pc = "idle" /\ store.identity = NoColony
  /\ before # Missing /\ faults = 0 =>
       /\ before.current \in Snapshots
       /\ before.current.colony \in Colonies
       /\ disk[before.current.colony].current = before.current
       /\ disk[before.current.colony].meta = MetaOf(before.current)
       /\ before.baseline # Missing =>
            /\ disk[before.current.colony].baseline = before.baseline
            /\ before.baseline.state.schema = before.current.schema

(* Failures are counted and never forgotten.                                 *)
LEMMA FaultsCount ==
  ASSUME StoreInv, [Next]_vars
  PROVE  faults' \in {faults, faults + 1}
<1>1. Accept => faults' = faults \/ faults' = faults + 1
  BY DEF Accept, Unloaded, Ignored, Accepted, Fault
<1>2. WriteCurrent \/ WriteMetadata => faults' = faults \/ faults' = faults + 1
  BY DEF WriteCurrent, WriteMetadata, Write, Fault
<1>. QED
  BY <1>1, <1>2 DEF Next, Decision, Commit, vars, Launch, Stop, Damage, StartDecision,
     RefreshState, RecordVerification, FinishDecision, FailDecision, FinalState,
     NoCommit, BeginCommit, WriteArtifact, WriteFails, RestoreArtifact, RestoreFails,
     Fault

(* What activation reads from valid files it leaves there.                   *)
LEMMA ActiveOnFile ==
  ASSUME StoreInv, OnFile, faults = 0, ~dryRun, pc \in {"idle", "rounds", "final"},
         NEW s \in Snapshots, s.colony # NoColony
  PROVE  /\ Active(s).current # Missing =>
              /\ ActiveFiles(s)[s.colony].current = Active(s).current
              /\ ActiveFiles(s)[s.colony].meta = MetaOf(Active(s).current)
         /\ Active(s).baseline # Missing =>
              ActiveFiles(s)[s.colony].baseline = Active(s).baseline
<1>. DEFINE c == s.colony
            d == disk[c]
<1>1. disk \in [Colonies -> Files] /\ c \in Colonies
  BY DEF StoreInv, StoreTypeOK, Snapshots
<1>2. CASE store.identity = c
  <2>1. Active(s) = store /\ ActiveFiles(s) = disk
    BY <1>2 DEF Active, ActiveFiles
  <2>. QED BY <1>2, <2>1 DEF OnFile
<1>3. CASE store.identity # c
  <2>1. /\ Active(s) = Loaded(c, s.schema)
        /\ ActiveFiles(s)[c] = Quarantined(d, s.schema)
    BY <1>1, <1>3 DEF Active, ActiveFiles, Persist
  <2>2. /\ Active(s).current = IF ValidState(d, s.schema) THEN d.current ELSE Missing
        /\ Active(s).baseline = IF ValidBaseline(d, s.schema) THEN d.baseline ELSE Missing
    BY <2>1 DEF Loaded
  <2>3. /\ ValidState(d, s.schema) =>
             /\ ActiveFiles(s)[c].current = d.current
             /\ ActiveFiles(s)[c].meta = d.meta
        /\ ValidBaseline(d, s.schema) => ActiveFiles(s)[c].baseline = d.baseline
    BY <2>1 DEF Quarantined, ValidState
  <2>4. ValidState(d, s.schema) => d.meta = MetaOf(d.current)
    BY DEF ValidState, ValidMeta, Metas, MetaOf
  <2>. QED BY <2>2, <2>3, <2>4
<1>. QED BY <1>2, <1>3

(* A fetched state leaves memory on file.                                    *)
LEMMA FetchOnFile ==
  ASSUME StoreInv, OnFile, faults = 0, Accept, pc \in {"idle", "rounds", "final"}
  PROVE  OnFile'
<1>. SUFFICES ASSUME ~dryRun, store'.identity # NoColony
              PROVE  /\ store'.current \in Snapshots
                     /\ pc' # "current" => disk'[store'.identity].current = store'.current
                     /\ pc' \notin {"current", "metadata"} =>
                          disk'[store'.identity].meta = MetaOf(store'.current)
                     /\ store'.baseline # Missing /\ ~(pc' = "write" /\ slot' > 2) =>
                          disk'[store'.identity].baseline = store'.baseline
  BY DEF OnFile, Accept, MetaOf
<1>1. PICK s \in Fetchable :
        \/ Unloaded(s)
        \/ /\ s.colony # NoColony
           /\ Ignored(Active(s), s) \/ Accepted(Active(s), s)
  BY DEF Accept
<1>2. s \in Snapshots
  BY StoreAssumption
<1>3. ~Unloaded(s)
  BY DEF Unloaded, Inactive
<1>. DEFINE a == Active(s)
            files == ActiveFiles(s)
<1>4. /\ a \in Stores /\ a.identity = s.colony
      /\ s.colony \in Colonies /\ s.colony # NoColony
      /\ files \in [Colonies -> Files]
  BY <1>1, <1>2, <1>3, ActiveStore, FilesOfActive DEF Snapshots
<1>5. /\ a.current # Missing =>
           /\ files[s.colony].current = a.current
           /\ files[s.colony].meta = MetaOf(a.current)
      /\ a.baseline # Missing => files[s.colony].baseline = a.baseline
  BY <1>2, <1>4, ActiveOnFile
<1>6. CASE Ignored(a, s)
  <2>1. /\ store' = [a EXCEPT !.fromDisk = @ /\ ~SameVersion(a, s)]
        /\ disk' = files /\ a.current # Missing
    BY <1>6 DEF Ignored, SameVersion, Older, Compared
  <2>2. /\ store'.identity = s.colony /\ store'.current = a.current
        /\ store'.baseline = a.baseline
    BY <1>4, <2>1 DEF Stores
  <2>3. a.current \in Snapshots
    BY <1>4, <2>1 DEF Stores
  <2>. QED BY <1>5, <2>1, <2>2, <2>3
<1>7. CASE Accepted(a, s)
  <2>1. /\ store' = [a EXCEPT !.current = s, !.fromDisk = FALSE,
                       !.baseline = IF BaselineVoid(a, s) THEN Missing ELSE @]
        /\ pc' = "current"
        /\ ~BaselineVoid(a, s) => disk' = files
    BY <1>7 DEF Accepted, Persist
  <2>2. /\ store'.identity = s.colony /\ store'.current = s
        /\ store'.baseline = IF BaselineVoid(a, s) THEN Missing ELSE a.baseline
    BY <1>4, <2>1 DEF Stores
  <2>. QED BY <1>2, <1>5, <2>1, <2>2
<1>. QED BY <1>1, <1>3, <1>6, <1>7
(* Every other step does too.                                                *)
LEMMA OnFileStep ==
  StoreInv /\ Committing /\ OnFile /\ Handover /\ [Next]_vars => OnFile'
<1>. SUFFICES ASSUME StoreInv, Committing, OnFile, Handover, [Next]_vars,
                     faults' = 0, pc' # "down", ~dryRun', store'.identity # NoColony
              PROVE  OnFile'
  BY DEF OnFile
<1>. DEFINE id == store.identity
<1>1. /\ faults \in Nat /\ faults = 0 /\ slot \in 1..4 /\ store \in Stores
      /\ disk \in [Colonies -> Files]
      /\ id # NoColony => id \in Colonies
  BY FaultsCount DEF StoreInv, StoreTypeOK, Stores
<1>2. {"current", "meta", "baseline", "handoff", "stall", "risk"} = DOMAIN NoFiles
  BY DEF NoFiles
<1>0. ASSUME id \in Colonies, NEW f \in DOMAIN NoFiles, NEW v,
             disk' = [disk EXCEPT ![id] = [@ EXCEPT ![f] = v]]
      PROVE  /\ disk'[id][f] = v
             /\ \A g \in DOMAIN NoFiles : g # f => disk'[id][g] = disk[id][g]
  <2>1. disk \in [Colonies -> Files] /\ id \in Colonies
    BY <1>0, <1>1
  <2>. DEFINE e == [disk[id] EXCEPT ![f] = v]
  <2>2. DOMAIN disk[id] = DOMAIN NoFiles
    BY <2>1 DEF Files, NoFiles
  <2>3. e[f] = v /\ \A g \in DOMAIN NoFiles : g # f => e[g] = disk[id][g]
    BY <2>2
  <2>4. disk' = [disk EXCEPT ![id] = e]
    BY <1>0
  <2>. HIDE DEF e
  <2>. QED BY <2>1, <2>3, <2>4
<1>3. CASE StartDecision \/ RefreshState \/ FinalState
  BY <1>1, <1>3, FetchOnFile DEF StartDecision, RefreshState, FinalState
<1>4. CASE Launch
  BY <1>4 DEF Launch, Handover
<1>5. CASE Stop \/ Damage \/ WriteFails \/ RestoreFails \/ RestoreArtifact
  BY <1>1, <1>5 DEF Stop, Damage, WriteFails, RestoreFails, RestoreArtifact, Fault,
     Committing
<1>6. CASE FinishDecision \/ FailDecision \/ NoCommit \/ BeginCommit \/ UNCHANGED vars
  <2>1. /\ UNCHANGED <<disk, store, slot, dryRun>>
        /\ pc \notin {"down", "current", "metadata"} \/ pc' = pc
        /\ pc' = "write" => pc = "write" \/ slot = 1
        /\ pc # "down"
        /\ pc = "write" => pc' = "write"
        /\ pc' # "current" => pc # "current"
    BY <1>6 DEF FinishDecision, FailDecision, NoCommit, BeginCommit, vars, Committing
  <2>2. pc' \notin {"current", "metadata"} => pc \notin {"current", "metadata"}
    BY <2>1
  <2>. QED BY <1>1, <2>1, <2>2 DEF OnFile, MetaOf
<1>7. CASE RecordVerification
  <2>1. /\ store' = [store EXCEPT !.stall = serial]
        /\ disk' = [disk EXCEPT ![id] = [@ EXCEPT !["stall"] = serial]]
        /\ id # NoColony /\ pc = "rounds" /\ pc' = pc /\ ~dryRun
    BY <1>1, <1>7 DEF RecordVerification, Fault
  <2>2. /\ disk'[id].current = disk[id].current /\ disk'[id].meta = disk[id].meta
        /\ disk'[id].baseline = disk[id].baseline
    BY <1>0, <1>2, <2>1
  <2>3. /\ store'.identity = id /\ store'.current = store.current
        /\ store'.baseline = store.baseline
    BY <1>1, <2>1 DEF Stores
  <2>. QED BY <1>1, <2>1, <2>2, <2>3 DEF OnFile, MetaOf
<1>8. CASE WriteCurrent
  <2>1. /\ pc = "current" /\ pc' = "metadata" /\ UNCHANGED <<store, dryRun>>
        /\ id \in Colonies
        /\ disk' = [disk EXCEPT ![id] = [@ EXCEPT !["current"] = store.current]]
    BY <1>1, <1>8 DEF WriteCurrent, Write, Fault, StoreInv, Writing
  <2>2. /\ disk'[id].current = store.current
        /\ disk'[id].baseline = disk[id].baseline
    BY <1>0, <1>2, <2>1
  <2>. QED BY <1>1, <2>1, <2>2 DEF OnFile
<1>9. CASE WriteMetadata
  <2>1. /\ pc = "metadata" /\ pc' = Goal /\ UNCHANGED <<store, dryRun>>
        /\ id \in Colonies
        /\ disk' = [disk EXCEPT ![id] = [@ EXCEPT !["meta"] = MetaOf(store.current)]]
    BY <1>1, <1>9 DEF WriteMetadata, Write, Fault, MetaOf, StoreInv, Writing
  <2>2. /\ disk'[id].meta = MetaOf(store.current)
        /\ disk'[id].current = disk[id].current
        /\ disk'[id].baseline = disk[id].baseline
    BY <1>0, <1>2, <2>1
  <2>3. pc' # "write"
    BY <2>1 DEF Goal
  <2>. QED BY <1>1, <2>1, <2>2, <2>3 DEF OnFile, MetaOf
<1>10. CASE WriteArtifact
  <2>1. /\ pc = "write" /\ Put(NewArtifacts) /\ dryRun' = dryRun
        /\ id \in Colonies
    BY <1>10 DEF WriteArtifact, StoreInv, Writing
  <2>2. /\ store.current \in Snapshots /\ disk[id].current = store.current
        /\ disk[id].meta = MetaOf(store.current)
        /\ store.baseline # Missing /\ ~(slot > 2) => disk[id].baseline = store.baseline
    BY <1>1, <1>10, <2>1, StoreAssumption DEF OnFile, StoreInv, Writing
  <2>3. /\ disk'[id].current = disk[id].current /\ disk'[id].meta = disk[id].meta
        /\ Artifacts[slot] # "baseline" => disk'[id].baseline = disk[id].baseline
        /\ disk'[id][Artifacts[slot]] = NewArtifacts[Artifacts[slot]]
    BY <1>1, <1>2, <2>1, PutOne, ArtifactNames
  <2>4. CASE slot < 4
    <3>1. pc' = "write" /\ slot' = slot + 1 /\ store' = store
      BY <1>10, <2>1, <2>4, SlotNames DEF WriteArtifact
    <3>2. ~(slot' > 2) => Artifacts[slot] # "baseline" /\ ~(slot > 2)
      BY <1>1, <3>1, SlotNames
    <3>. QED BY <2>2, <2>3, <3>1, <3>2 DEF OnFile, MetaOf
  <2>5. CASE slot = 4
    <3>1. /\ pc' = "idle" /\ slot' = 1
          /\ store' = [store EXCEPT !.handoff = pending.n, !.stall = pending.n,
                         !.risk = pending.n, !.baseline = NewArtifacts.baseline]
      BY <1>10, <2>5, SlotNames DEF WriteArtifact
    <3>2. /\ store'.identity = id /\ store'.current = store.current
          /\ store'.baseline = NewArtifacts.baseline
      BY <1>1, <3>1 DEF Stores
    <3>3. disk[id].baseline = NewArtifacts.baseline /\ Artifacts[slot] # "baseline"
      BY <2>1, <2>5, SlotNames DEF Committing
    <3>. QED BY <2>2, <2>3, <3>1, <3>2, <3>3 DEF OnFile, MetaOf
  <2>. QED BY <1>1, <2>4, <2>5
<1>. QED
  BY <1>3, <1>4, <1>5, <1>6, <1>7, <1>8, <1>9, <1>10 DEF Next, Decision, Commit

(* Nothing is written between a clean stop and the next decision of a        *)
(* process that writes, and that decision takes the files over.              *)
LEMMA HandoverStep ==
  StoreInv /\ OnFile /\ Handover /\ [Next]_vars => Handover'
<1>. SUFFICES ASSUME StoreInv, OnFile, Handover, [Next]_vars PROVE Handover'
  OBVIOUS
<1>1. /\ faults \in Nat /\ faults' \in {faults, faults + 1} /\ store \in Stores
      /\ pc = "down" => store.identity = NoColony
  BY FaultsCount DEF StoreInv, StoreTypeOK, Handover
<1>2. ASSUME disk' = disk, before' = before, pc' # "down",
             before # Missing /\ ~dryRun' => pc' = "idle" /\ store'.identity = NoColony
      PROVE  Handover'
  BY <1>1, <1>2 DEF Handover, MetaOf
<1>3. ASSUME before' = Missing, pc' # "down"
      PROVE  Handover'
  BY <1>3 DEF Handover
<1>4. CASE Launch
  BY <1>1, <1>2, <1>4 DEF Launch
<1>5. CASE Stop
  <2>1. /\ pc' = "down" /\ store' = Inactive /\ disk' = disk /\ faults' = faults
    BY <1>5 DEF Stop
  <2>2. store'.identity = NoColony
    BY <2>1 DEF Inactive
  <2>3. CASE pc = "idle" /\ ~dryRun /\ store.identity # NoColony
    <3>1. before' = [current |-> store.current, baseline |-> store.baseline]
      BY <1>5, <2>3 DEF Stop
    <3>2. faults = 0 =>
            /\ store.current \in Snapshots
            /\ disk[store.identity].current = store.current
            /\ disk[store.identity].meta = MetaOf(store.current)
            /\ store.baseline # Missing =>
                 disk[store.identity].baseline = store.baseline
      BY <2>3 DEF OnFile
    <3>3. /\ store.identity \in Colonies
          /\ store.current # Missing => store.current.colony = store.identity
          /\ store.baseline # Missing => store.baseline.state.schema = store.current.schema
      BY <1>1, <2>3 DEF StoreInv, OneColony, Belongs, Stores
    <3>. QED BY <2>1, <2>2, <3>1, <3>2, <3>3, NotDocuments DEF Handover, MetaOf
  <2>4. CASE ~(pc = "idle" /\ ~dryRun /\ store.identity # NoColony)
    <3>1. before' = before
      BY <1>5, <2>4 DEF Stop
    <3>. QED BY <2>1, <2>2, <3>1 DEF Handover, MetaOf
  <2>. QED BY <2>3, <2>4
<1>6. CASE Damage
  <2>1. faults' # 0 /\ UNCHANGED <<store, pc, dryRun, before>>
    BY <1>1, <1>6 DEF Damage, Fault
  <2>. QED BY <2>1 DEF Handover
<1>7. CASE StartDecision \/ RefreshState \/ FinalState
  <2>1. /\ Accept /\ pc \in {"idle", "rounds", "final"}
        /\ pc = "idle" /\ ~dryRun => before' = Missing
        /\ pc # "idle" => before' = before
        /\ dryRun => before' = before
    BY <1>7 DEF StartDecision, RefreshState, FinalState
  <2>2. /\ pc' \in {"current", "rounds", "commit"} /\ dryRun' = dryRun
        /\ dryRun => disk' = disk
    BY <2>1, AcceptKeeps DEF Accept
  <2>3. CASE dryRun
    BY <1>2, <2>1, <2>2, <2>3
  <2>4. CASE ~dryRun
    <3>1. before' = Missing
      BY <2>1, <2>4 DEF Handover
    <3>. QED BY <1>3, <2>2, <3>1
  <2>. QED BY <2>3, <2>4
<1>8. CASE RecordVerification \/ WriteCurrent \/ WriteMetadata \/ WriteArtifact
           \/ WriteFails \/ RestoreArtifact \/ RestoreFails
  <2>1. /\ ~dryRun /\ pc \notin {"down", "idle"} /\ before' = before
    BY <1>8 DEF RecordVerification, WriteCurrent, WriteMetadata, WriteArtifact,
       WriteFails, RestoreArtifact, RestoreFails, StoreInv, Writing
  <2>2. pc' # "down"
    BY <1>8 DEF RecordVerification, WriteCurrent, WriteMetadata, Write, Goal, WriteArtifact,
       WriteFails, RestoreArtifact, RestoreFails, AfterRestore
  <2>. QED BY <1>3, <2>1, <2>2 DEF Handover
<1>9. CASE FinishDecision \/ FailDecision \/ NoCommit \/ BeginCommit
  <2>1. /\ UNCHANGED <<disk, before, dryRun>> /\ pc \notin {"down", "idle"} /\ pc' # "down"
    BY <1>9 DEF FinishDecision, FailDecision, NoCommit, BeginCommit
  <2>. QED BY <1>2, <2>1 DEF Handover
<1>10. CASE UNCHANGED vars
  BY <1>10 DEF vars, Handover, MetaOf
<1>. QED
  BY <1>4, <1>5, <1>6, <1>7, <1>8, <1>9, <1>10 DEF Next, Decision, Commit

(* After a clean stop the next process has the baseline of the last decision *)
(* again, unless the colony went back in time.                               *)
THEOREM BaselineOutlivesProcess == Spec => BaselineSurvivesRestart
<1>1. Init => Committing /\ OnFile /\ Handover
  <2>. SUFFICES ASSUME Init PROVE Committing /\ OnFile /\ Handover
    OBVIOUS
  <2>1. Committing
    BY DEF Init, Committing, NoHandoff
  <2>2. pc = "down" /\ before = Missing /\ store.identity = NoColony
    BY DEF Init, Inactive
  <2>. QED BY <2>1, <2>2 DEF OnFile, Handover
<1>2. ASSUME StoreInv, Handover, [Next]_vars,
             pc = "idle", store.identity = NoColony, store'.identity # NoColony,
             faults = 0, before # Missing, before.baseline # Missing,
             before.current.colony = fetched'.colony,
             before.current.schema = fetched'.schema,
             before.current.tick <= fetched'.tick
      PROVE  store'.baseline = before.baseline
  <2>1. StartDecision
    BY <1>2 DEF Next, Decision, Commit, vars, Launch, Stop, Damage, Inactive,
       RefreshState, RecordVerification, FinishDecision, FailDecision, FinalState,
       WriteCurrent, WriteMetadata, NoCommit, BeginCommit, WriteArtifact, WriteFails,
       RestoreArtifact, RestoreFails
  <2>2. PICK s \in Fetchable :
          /\ fetched' = s
          /\ \/ Unloaded(s)
             \/ /\ s.colony # NoColony
                /\ Ignored(Active(s), s) \/ Accepted(Active(s), s)
    BY <2>1 DEF StartDecision, Accept
  <2>3. s \in Snapshots /\ s.colony # NoColony /\ s.colony \in Colonies
    BY <1>2, <2>2, StoreAssumption DEF Unloaded, Inactive, Snapshots
  <2>. DEFINE a == Active(s)
              d == disk[s.colony]
              old == before.current
  <2>4. /\ old \in Snapshots
        /\ d.current = old /\ d.meta = MetaOf(old)
        /\ d.baseline = before.baseline /\ before.baseline.state.schema = old.schema
        /\ before.baseline \in Baselines
    BY <1>2, <2>2 DEF Handover, StoreInv, StoreTypeOK
  <2>5. d.meta \in Metas /\ d.meta.schema = old.schema /\ d.meta.version = old.version
    BY <2>4 DEF MetaOf, Metas, Snapshots
  <2>6. ValidState(d, s.schema) /\ ValidBaseline(d, s.schema)
    BY <1>2, <2>2, <2>4, <2>5 DEF ValidState, ValidMeta, ValidBaseline
  <2>7. a \in Stores /\ a.current = old /\ a.baseline = before.baseline
    <3>1. a = Loaded(s.colony, s.schema)
      BY <1>2, <2>3 DEF Active
    <3>2. a \in Stores
      BY <1>2, <2>3, ActiveStore
    <3>3. a.current = old /\ a.baseline = before.baseline
      BY <2>4, <2>6, <3>1 DEF Loaded
    <3>. QED BY <3>2, <3>3
  <2>8. ~BaselineVoid(a, s)
    <3>1. /\ s.version \in Nat /\ s.tick \in Nat /\ old.version \in Nat /\ old.tick \in Nat
      BY <2>3, <2>4, StoreAssumption DEF Snapshots
    <3>. QED BY <1>2, <2>2, <2>7, <3>1 DEF BaselineVoid, NewSchema, LineageReset, SafeReset
  <2>9. CASE Ignored(a, s)
    BY <2>7, <2>9 DEF Ignored, Stores
  <2>10. CASE Accepted(a, s)
    BY <2>7, <2>8, <2>10 DEF Accepted, Stores
  <2>. QED BY <2>2, <2>3, <2>9, <2>10 DEF Unloaded, Inactive
<1>3. StoreInv /\ Handover /\ [Next]_vars =>
        (/\ pc = "idle" /\ store.identity = NoColony /\ store'.identity # NoColony
         /\ faults = 0
         /\ before # Missing /\ before.baseline # Missing
         /\ before.current.colony = fetched'.colony
         /\ before.current.schema = fetched'.schema
         /\ before.current.tick <= fetched'.tick
         => store'.baseline = before.baseline)
  BY <1>2
<1>. QED
  BY <1>1, <1>3, StoreInit, StoreStep, CommitStep, OnFileStep, HandoverStep, PTL
     DEF Spec, BaselineSurvivesRestart
=============================================================================
