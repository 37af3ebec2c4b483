---------------------- MODULE DecisionContinuityProofs ----------------------
(***************************************************************************)
(* DecisionContinuity for any proposals, snapshots and limits: nothing is  *)
(* dropped in silence, a project always has a task to go on with, a        *)
(* verification that keeps failing is not forgotten, and what was planned  *)
(* anew is not called stalled.                                             *)
(***************************************************************************)
EXTENDS DecisionContinuity, FiniteSetTheorems, WellFoundedInduction, TLAPS

(* The handoff that is stored has passed validate_handoff.                 *)
HandoffInv ==
  /\ {"loops", "projects"} \subseteq DOMAIN handoff
  /\ \A i, j \in DOMAIN handoff.projects :
       handoff.projects[i].id = handoff.projects[j].id => i = j
  /\ \A p \in Elements(handoff.projects) :
       /\ \A t \in Elements(p.tasks) : t.dependsOn \subseteq Ids(p.tasks)
       /\ Acyclic(p.tasks)

-----------------------------------------------------------------------------
(* The handoff                                                             *)

LEMMA HandoffInit == Init => HandoffInv
BY DEF Init, HandoffInv, EmptyHandoff, Elements

\* A commit stores what is valid.
LEMMA CommitValid ==
  ASSUME NEW h, NEW resolved, Commit(h, resolved), {"loops", "projects"} \subseteq DOMAIN h
  PROVE  HandoffInv' /\ handoff' = h /\ settled' = resolved
<1>1. handoff' = h /\ settled' = resolved /\ ValidProjects(h.projects)
  BY DEF Commit, ValidHandoff
<1> QED BY <1>1 DEF HandoffInv, ValidProjects, Distinct, Elements, Ids

\* The two ways to finish, by the handoff they store.
LEMMA FinishStores ==
  ASSUME NEW args, Commit(Prepared(args), settled')
  PROVE  /\ HandoffInv'
         /\ handoff'.loops = PreparedLoops(args) /\ handoff'.projects = PreparedProjects(args)
<1>1. /\ {"loops", "projects"} \subseteq DOMAIN Prepared(args)
      /\ Prepared(args).loops = PreparedLoops(args)
      /\ Prepared(args).projects = PreparedProjects(args)
  BY DEF Prepared
<1> QED BY <1>1, CommitValid, Zenon

LEMMA FallbackStores ==
  ASSUME HandoffInv, NEW a, Commit(FallbackHandoff(a), {})
  PROVE  /\ HandoffInv'
         /\ handoff'.loops = handoff.loops /\ handoff'.projects = handoff.projects
<1>1. /\ {"loops", "projects"} \subseteq DOMAIN FallbackHandoff(a)
      /\ FallbackHandoff(a).loops = handoff.loops
      /\ FallbackHandoff(a).projects = handoff.projects
  BY DEF FallbackHandoff, HandoffInv
<1> QED BY <1>1, CommitValid, Zenon

LEMMA HandoffStep ==
  ASSUME HandoffInv, [Next]_vars
  PROVE  HandoffInv'
<1>1. CASE FinishDecision
  <2>1. PICK args \in Proposals : \E resolved : Commit(Prepared(args), resolved)
    BY <1>1 DEF FinishDecision
  <2>2. Commit(Prepared(args), settled')
    BY <2>1 DEF Commit
  <2> QED BY <2>2, FinishStores
<1>2. CASE FinishWithText
  BY <1>2, FallbackStores DEF FinishWithText
<1>3. CASE UNCHANGED handoff
  BY <1>3 DEF HandoffInv
<1>4. LoseBaseline \/ RecordVerification \/ UNCHANGED vars => UNCHANGED handoff
  BY DEF LoseBaseline, RecordVerification, VerificationSucceeds, VerificationFails, vars
<1> QED BY <1>1, <1>2, <1>3, <1>4 DEF Next

(* For any plan the model may make, a project that is not finished has a     *)
(* task that waits for nothing: of the tasks that are not completed one      *)
(* waits for none of the others, and the others are what it could wait for   *)
(* (validate_handoff, validate_dependency_cycles).                          *)
THEOREM ProjectsCanGoOn == Spec => []SomeTaskIsReady
<1>1. HandoffInv => SomeTaskIsReady
  <2>1. SUFFICES ASSUME HandoffInv, NEW p \in Elements(handoff.projects),
                        \E t \in Elements(p.tasks) : t.status # "completed"
                 PROVE  \E t \in Elements(p.tasks) : t.status # "completed" /\ WaitingOn(t, p) = {}
    BY DEF SomeTaskIsReady
  <2> DEFINE some == {t \in Elements(p.tasks) : t.status # "completed"}
  <2>2. some \in (SUBSET Elements(p.tasks)) \ {{}}
    BY <2>1
  <2>3. PICK t \in some : t.dependsOn \cap {u.id : u \in some} = {}
    BY <2>1, <2>2 DEF HandoffInv, Acyclic
  <2>4. t.dependsOn \subseteq Ids(p.tasks)
    BY <2>1 DEF HandoffInv
  <2>5. WaitingOn(t, p) = {}
    BY <2>3, <2>4 DEF WaitingOn, Ids
  <2> QED BY <2>5
<1> QED BY <1>1, HandoffInit, HandoffStep, PTL DEF Spec

-----------------------------------------------------------------------------
(* What is committed to                                                    *)

\* What an accepted project keeps of the one with the same id.
Keeps(q, p) ==
  /\ q.id = p.id /\ q.criteria = p.criteria
  /\ \A t \in Elements(p.tasks) : \E u \in Elements(q.tasks) :
       u.id = t.id /\ (t.status = "completed" => u.status = "completed")

LEMMA AcceptedKeeps ==
  ASSUME HandoffInv, NEW p \in Elements(handoff.projects), NEW q, q.id = p.id, ProjectAccepted(q)
  PROVE  Keeps(q, p)
<1>1. p.id \in Ids(handoff.projects)
  BY DEF Ids
<1>2. WithId(handoff.projects, p.id) = p
  <2>1. \A x \in Elements(handoff.projects) : x.id = p.id => x = p
    BY DEF HandoffInv, Elements
  <2> QED BY <2>1 DEF WithId
<1>3. PreviousTasks(q.id) = p.tasks
  BY <1>1, <1>2 DEF PreviousTasks
<1>4. q.criteria = p.criteria
  BY <1>1, <1>2 DEF ProjectAccepted
<1>5. ASSUME NEW t \in Elements(p.tasks)
      PROVE  \E u \in Elements(q.tasks) :
               u.id = t.id /\ (t.status = "completed" => u.status = "completed")
  <2>1. /\ Ids(p.tasks) \subseteq Ids(q.tasks)
        /\ \A u \in Elements(q.tasks) :
             (\E old \in Elements(p.tasks) : old.id = u.id /\ old.status = "completed")
               => u.status = "completed"
    BY <1>3 DEF ProjectAccepted, TasksAccepted
  <2>2. PICK u \in Elements(q.tasks) : u.id = t.id
    BY <2>1 DEF Ids
  <2> QED BY <2>1, <2>2
<1> QED BY <1>4, <1>5 DEF Keeps

(* Whatever the model proposes, no loop and no project disappears unless it  *)
(* is resolved, and what a project has achieved stays (prepare_handoff).     *)
THEOREM NothingDropped == Spec => CommitmentsAreAccounted
<1> DEFINE P == /\ Ids(handoff.loops) \subseteq Ids(handoff'.loops) \cup settled'
                /\ \A p \in Elements(handoff.projects) :
                     \/ p.id \in settled'
                     \/ \E q \in Elements(handoff'.projects) : Keeps(q, p)
<1>1. ASSUME HandoffInv, [Next]_vars PROVE P
  <2>1. CASE handoff'.loops = handoff.loops /\ handoff'.projects = handoff.projects
    BY <2>1 DEF Keeps
  <2>2. CASE FinishDecision
    <3>1. PICK args \in Proposals :
            /\ LoopsAccepted(args) /\ ProjectsAccepted(args)
            /\ Commit(Prepared(args),
                      Ids(args.resolved) \cup IF args.resolvedProjects = Absent THEN {}
                                              ELSE Ids(args.resolvedProjects))
      BY <2>2 DEF FinishDecision
    <3>2. /\ settled' = Ids(args.resolved) \cup IF args.resolvedProjects = Absent THEN {}
                                               ELSE Ids(args.resolvedProjects)
          /\ Commit(Prepared(args), settled')
      BY <3>1 DEF Commit
    <3>3. handoff'.loops = PreparedLoops(args) /\ handoff'.projects = PreparedProjects(args)
      BY <3>2, FinishStores
    <3>4. Ids(handoff.loops) \subseteq Ids(handoff'.loops) \cup settled'
      BY <3>1, <3>2, <3>3 DEF LoopsAccepted, Accounted
    <3>5. CASE args.projects = Absent
      <4>1. handoff'.projects = handoff.projects
        BY <3>3, <3>5 DEF PreparedProjects
      <4> QED BY <3>4, <4>1 DEF Keeps
    <3>6. CASE args.projects # Absent
      <4>1. /\ args.resolvedProjects # Absent
            /\ \A q \in Elements(handoff'.projects) : ProjectAccepted(q)
            /\ Ids(handoff.projects)
                 \subseteq Ids(handoff'.projects) \cup Ids(args.resolvedProjects)
        BY <3>1, <3>3, <3>6 DEF ProjectsAccepted, Accounted
      <4>2. ASSUME NEW p \in Elements(handoff.projects), p.id \notin settled'
            PROVE  \E q \in Elements(handoff'.projects) : Keeps(q, p)
        <5>1. PICK q \in Elements(handoff'.projects) : q.id = p.id
          BY <3>2, <4>1, <4>2 DEF Ids
        <5> QED BY <1>1, <4>1, <5>1, AcceptedKeeps
      <4> QED BY <3>4, <4>2
    <3> QED BY <3>5, <3>6
  <2>3. CASE FinishWithText
    BY <1>1, <2>1, <2>3, FallbackStores DEF FinishWithText
  <2>4. CASE LoseBaseline \/ RecordVerification \/ UNCHANGED vars
    BY <2>1, <2>4 DEF LoseBaseline, RecordVerification, VerificationSucceeds,
                      VerificationFails, vars
  <2> HIDE DEF P
  <2> QED BY <1>1, <2>2, <2>3, <2>4 DEF Next
<1>2. P => /\ Ids(handoff.loops) \subseteq Ids(handoff'.loops) \cup settled'
           /\ \A p \in Elements(handoff.projects) :
                \/ p.id \in settled'
                \/ \E q \in Elements(handoff'.projects) :
                     /\ q.id = p.id /\ q.criteria = p.criteria
                     /\ \A t \in Elements(p.tasks) : \E u \in Elements(q.tasks) :
                          u.id = t.id /\ (t.status = "completed" => u.status = "completed")
  BY DEF Keeps
<1> HIDE DEF P
<1> QED BY <1>1, <1>2, HandoffInit, HandoffStep, PTL DEF Spec, CommitmentsAreAccounted

-----------------------------------------------------------------------------
(* The table of failed verifications                                       *)

FailedInv ==
  /\ "failed" \in DOMAIN stall
  /\ IsFiniteSet(DOMAIN stall.failed)
  /\ Cardinality(DOMAIN stall.failed) <= MaxStrategies
  /\ \A k \in DOMAIN stall.failed : stall.failed[k] \in 0..MaxCycles

LEMMA MinOfTwo ==
  ASSUME NEW a \in Int, NEW b \in Int
  PROVE  Min({a, b}) = IF a <= b THEN a ELSE b
BY DEF Min

\* A set of numbers that is not empty has a least one.
LEMMA LeastNumber ==
  ASSUME NEW T, T \subseteq Nat, T # {}
  PROVE  \E n \in T : \A m \in T : n <= m
<1>1. PICK n \in T : \A m \in T : ~(<<m, n>> \in OpToRel(<, Nat))
  BY NatLessThanWellFounded, WFMin
<1>2. OpToRel(<, Nat) = {ss \in Nat \X Nat : ss[1] < ss[2]}
  BY DEF OpToRel
<1>3. ASSUME NEW m \in T PROVE n <= m
  <2>1. m \in Nat /\ n \in Nat
    BY <1>1
  <2>2. ~(m < n)
    BY <1>1, <1>2, <2>1
  <2> QED BY <2>1, <2>2
<1> QED BY <1>3

\* A table with something in it has a least entry.
LEMMA LeastEntry ==
  ASSUME NEW f, DOMAIN f # {}, \A k \in DOMAIN f : f[k] \in Nat
  PROVE  \E k \in DOMAIN f : \A l \in DOMAIN f : f[k] <= f[l]
<1> DEFINE T == {f[k] : k \in DOMAIN f}
<1>1. T \subseteq Nat /\ T # {}
  OBVIOUS
<1>2. \E n \in T : \A m \in T : n <= m
  <2> HIDE DEF T
  <2> QED BY <1>1, LeastNumber
<1> QED BY <1>2

\* A table that is at most one entry too long is cut to its size.
LEMMA WorstKeeps ==
  ASSUME NEW f, IsFiniteSet(DOMAIN f), Cardinality(DOMAIN f) <= MaxStrategies + 1,
         \A k \in DOMAIN f : f[k] \in Nat
  PROVE  /\ Worst(f) \in SUBSET DOMAIN f
         /\ Cardinality(Worst(f)) <= MaxStrategies
         /\ Cardinality(DOMAIN f) <= MaxStrategies => Worst(f) = DOMAIN f
         /\ Cardinality(DOMAIN f) = MaxStrategies + 1 => Cardinality(Worst(f)) = MaxStrategies
         /\ \A k \in Worst(f), l \in DOMAIN f \ Worst(f) : f[k] >= f[l]
<1> DEFINE Fits(kept) == /\ Cardinality(kept) = Min({MaxStrategies, Cardinality(DOMAIN f)})
                         /\ \A k \in kept, l \in DOMAIN f \ kept : f[k] >= f[l]
<1>1. MaxStrategies \in Nat \ {0} /\ Cardinality(DOMAIN f) \in Nat
  BY ContinuityAssumption, FS_CardinalityType
<1>2. Min({MaxStrategies, Cardinality(DOMAIN f)})
        = IF MaxStrategies <= Cardinality(DOMAIN f) THEN MaxStrategies ELSE Cardinality(DOMAIN f)
  BY <1>1, MinOfTwo
<1>3. \E kept \in SUBSET DOMAIN f : Fits(kept)
  <2>1. CASE Cardinality(DOMAIN f) <= MaxStrategies
    <3>1. Fits(DOMAIN f)
      BY <1>1, <1>2, <2>1
    <3> QED BY <3>1
  <2>2. CASE Cardinality(DOMAIN f) = MaxStrategies + 1
    <3>1. DOMAIN f # {}
      BY <1>1, <2>2, FS_EmptySet
    <3>2. PICK k \in DOMAIN f : \A l \in DOMAIN f : f[k] <= f[l]
      BY <3>1, LeastEntry
    <3>3. Cardinality(DOMAIN f \ {k}) = MaxStrategies
      BY <1>1, <2>2, <3>2, FS_RemoveElement
    <3>4. Fits(DOMAIN f \ {k})
      BY <1>1, <1>2, <2>2, <3>2, <3>3
    <3> QED BY <3>4
  <2> QED BY <1>1, <2>1, <2>2
<1>4. Worst(f) \in SUBSET DOMAIN f /\ Fits(Worst(f))
  BY <1>3 DEF Worst
<1> HIDE DEF Worst
<1>5. Cardinality(DOMAIN f) <= MaxStrategies => Worst(f) = DOMAIN f
  BY <1>1, <1>2, <1>4, FS_Subset
<1> QED BY <1>1, <1>2, <1>4, <1>5

LEMMA RaisedCount ==
  ASSUME FailedInv, NEW k
  PROVE  LET n == Raised(stall.failed, k, 0)
         IN /\ n \in 1..MaxCycles
            /\ k \in DOMAIN stall.failed => n >= stall.failed[k]
            /\ k \notin DOMAIN stall.failed => n = 1
<1> DEFINE count == IF k \in DOMAIN stall.failed THEN stall.failed[k] ELSE 0
<1>1. count \in 0..MaxCycles /\ MaxCycles \in Nat \ {0, 1}
  BY ContinuityAssumption DEF FailedInv
<1>2. Min({count, MaxCycles - 1}) = IF count <= MaxCycles - 1 THEN count ELSE MaxCycles - 1
  BY <1>1, MinOfTwo
<1> QED BY <1>1, <1>2 DEF Raised

\* A success forgets just that strategy.
LEMMA SuccessStep ==
  ASSUME FailedInv, NEW k, VerificationSucceeds(k)
  PROVE  /\ FailedInv'
         /\ stall'.failed = [l \in DOMAIN stall.failed \ {k} |-> stall.failed[l]]
<1> DEFINE g == [l \in DOMAIN stall.failed \ {k} |-> stall.failed[l]]
<1>1. /\ stall'.failed = Bounded(g)
      /\ "failed" \in DOMAIN stall'
  BY DEF VerificationSucceeds, FailedInv
<1>2. MaxStrategies \in Nat /\ MaxCycles \in Nat
  BY ContinuityAssumption
<1>3. /\ IsFiniteSet(DOMAIN g) /\ Cardinality(DOMAIN g) <= MaxStrategies
      /\ Cardinality(DOMAIN g) \in Nat
      /\ \A l \in DOMAIN g : g[l] \in 0..MaxCycles
  <2> DEFINE D == DOMAIN stall.failed
  <2>1. IsFiniteSet(D) /\ Cardinality(D) <= MaxStrategies /\ k \in D
    BY DEF FailedInv, VerificationSucceeds
  <2>2. Cardinality(D) \in Nat
    BY <2>1, FS_CardinalityType
  <2>3. IsFiniteSet(D \ {k}) /\ Cardinality(D \ {k}) = Cardinality(D) - 1
    BY <2>1, FS_RemoveElement
  <2>4. Cardinality(D \ {k}) \in Nat
    BY <2>3, FS_CardinalityType
  <2>5. DOMAIN g = D \ {k} /\ \A l \in DOMAIN g : g[l] \in 0..MaxCycles
    BY DEF FailedInv
  <2> HIDE DEF g, D
  <2> QED BY <1>2, <2>1, <2>2, <2>3, <2>4, <2>5
<1>4. Worst(g) = DOMAIN g
  <2> HIDE DEF g
  <2> QED BY <1>2, <1>3, WorstKeeps
<1>5. Bounded(g) = g
  BY <1>4 DEF Bounded
<1> QED BY <1>1, <1>3, <1>5 DEF FailedInv

\* A failure drops only what failed once, if anything.
LEMMA FailureStep ==
  ASSUME FailedInv, NEW k, VerificationFails(k)
  PROVE  /\ FailedInv'
         /\ \A l \in DOMAIN stall.failed : stall.failed[l] >= 2
              => l \in DOMAIN stall'.failed /\ stall'.failed[l] >= stall.failed[l]
<1> DEFINE n == Raised(stall.failed, k, 0)
           D == DOMAIN stall.failed
           g == [l \in D \cup {k} |-> IF l = k THEN n ELSE stall.failed[l]]
<1>1. /\ stall'.failed = Bounded(g)
      /\ "failed" \in DOMAIN stall'
  BY DEF VerificationFails, FailedInv
<1>2. MaxStrategies \in Nat \ {0} /\ MaxCycles \in Nat
  BY ContinuityAssumption
<1>3. n \in 1..MaxCycles /\ (k \in D => n >= stall.failed[k]) /\ (k \notin D => n = 1)
  BY RaisedCount
<1> HIDE DEF n
<1>4. /\ IsFiniteSet(D) /\ Cardinality(D) \in Nat /\ Cardinality(D) <= MaxStrategies
      /\ \A l \in D : stall.failed[l] \in 0..MaxCycles
  BY FS_CardinalityType DEF FailedInv
<1>5. /\ IsFiniteSet(DOMAIN g)
      /\ Cardinality(DOMAIN g) = IF k \in D THEN Cardinality(D) ELSE Cardinality(D) + 1
  BY <1>4, FS_AddElement
<1>6. /\ \A l \in DOMAIN g : g[l] \in 0..MaxCycles
      /\ \A l \in D : l \in DOMAIN g /\ g[l] >= stall.failed[l]
      /\ k \notin D => g[k] = 1
      /\ DOMAIN g = D \cup {k}
  BY <1>2, <1>3, <1>4
<1> HIDE DEF g
<1>7. /\ Worst(g) \in SUBSET DOMAIN g
      /\ Cardinality(Worst(g)) <= MaxStrategies
      /\ Cardinality(DOMAIN g) <= MaxStrategies => Worst(g) = DOMAIN g
      /\ Cardinality(DOMAIN g) = MaxStrategies + 1 => Cardinality(Worst(g)) = MaxStrategies
      /\ \A i \in Worst(g), l \in DOMAIN g \ Worst(g) : g[i] >= g[l]
  BY <1>2, <1>4, <1>5, <1>6, WorstKeeps
<1>8. DOMAIN Bounded(g) = Worst(g) /\ \A l \in Worst(g) : Bounded(g)[l] = g[l]
  BY DEF Bounded
<1>9. FailedInv'
  BY <1>1, <1>5, <1>6, <1>7, <1>8, FS_Subset DEF FailedInv
<1>10. ASSUME NEW l \in D, stall.failed[l] >= 2 PROVE l \in Worst(g)
  <2>1. SUFFICES ASSUME l \notin Worst(g) PROVE FALSE
    OBVIOUS
  <2>2. l \in DOMAIN g /\ Worst(g) # DOMAIN g
    BY <1>6, <2>1
  <2>3. Cardinality(DOMAIN g) = MaxStrategies + 1 /\ k \notin D
    BY <1>2, <1>4, <1>5, <1>7, <2>2
  <2>4. g[l] >= 2 /\ g[k] = 1
    BY <1>4, <1>6, <1>10, <2>3
  <2>5. k \notin Worst(g)
    <3>1. \A i \in Worst(g) : g[i] >= g[l]
      BY <1>7, <2>1, <2>2
    <3>2. g[l] \in Int
      BY <1>6, <2>2
    <3> QED BY <2>4, <3>1, <3>2
  <2>6. Worst(g) \subseteq D \ {l}
    BY <1>6, <1>7, <2>1, <2>5
  <2>7. IsFiniteSet(D \ {l}) /\ Cardinality(D \ {l}) = Cardinality(D) - 1
    BY <1>4, <1>10, FS_RemoveElement
  <2>8. Cardinality(Worst(g)) <= Cardinality(D) - 1
    BY <2>6, <2>7, FS_Subset
  <2> QED BY <1>2, <1>4, <1>7, <2>3, <2>8
<1> QED BY <1>1, <1>6, <1>8, <1>9, <1>10

\* The counters of the other two kinds are of no account.
LEMMA OthersKeepFailed ==
  ASSUME FailedInv, FinishDecision \/ FinishWithText \/ LoseBaseline \/ UNCHANGED vars
  PROVE  FailedInv' /\ stall'.failed = stall.failed
<1>1. CASE FinishDecision \/ FinishWithText
  <2>1. PICK h, s : stall' = NextStall(h, s)
    BY <1>1 DEF FinishDecision, FinishWithText, Commit
  <2>2. "failed" \in DOMAIN stall' /\ stall'.failed = stall.failed
    BY <2>1 DEF NextStall
  <2> QED BY <2>2 DEF FailedInv
<1>2. CASE LoseBaseline \/ UNCHANGED vars
  BY <1>2 DEF LoseBaseline, vars, FailedInv
<1> QED BY <1>1, <1>2

LEMMA FailedInit == Init => FailedInv
<1>1. MaxStrategies \in Nat
  BY ContinuityAssumption
<1> QED BY <1>1, FS_EmptySet DEF Init, FailedInv

LEMMA FailedStep ==
  ASSUME FailedInv, [Next]_vars
  PROVE  FailedInv'
BY OthersKeepFailed, SuccessStep, FailureStep DEF Next, RecordVerification

(* Whatever else fails, however often, a verification that failed twice in a *)
(* row is remembered, with its count, until it succeeds: the full table      *)
(* makes room by dropping one that failed once (record_verification_outcome).*)
THEOREM FailuresRemembered == Spec => RepeatedFailuresAreKept
<1> DEFINE P == \A k \in DOMAIN stall.failed :
                  stall.failed[k] >= 2
                    => \/ k \in DOMAIN stall'.failed /\ stall'.failed[k] >= stall.failed[k]
                       \/ DOMAIN stall'.failed = DOMAIN stall.failed \ {k}
<1>1. ASSUME FailedInv, [Next]_vars PROVE P
  <2>1. MaxCycles \in Nat
    BY ContinuityAssumption
  <2>2. CASE FinishDecision \/ FinishWithText \/ LoseBaseline \/ UNCHANGED vars
    BY <1>1, <2>1, <2>2, OthersKeepFailed DEF FailedInv
  <2>3. CASE RecordVerification
    <3>1. PICK k \in Strategies : VerificationSucceeds(k) \/ VerificationFails(k)
      BY <2>3 DEF RecordVerification
    <3>2. CASE VerificationSucceeds(k)
      <4>1. stall'.failed = [l \in DOMAIN stall.failed \ {k} |-> stall.failed[l]]
        BY <1>1, <3>2, SuccessStep
      <4>2. DOMAIN stall'.failed = DOMAIN stall.failed \ {k}
            /\ \A l \in DOMAIN stall.failed \ {k} : stall'.failed[l] = stall.failed[l]
        BY <4>1
      <4> QED BY <1>1, <2>1, <4>2 DEF FailedInv
    <3>3. CASE VerificationFails(k)
      BY <1>1, <3>3, FailureStep
    <3> QED BY <3>1, <3>2, <3>3
  <2> HIDE DEF P
  <2> QED BY <1>1, <2>2, <2>3 DEF Next
<1> QED BY <1>1, FailedInit, FailedStep, PTL DEF Spec, RepeatedFailuresAreKept

-----------------------------------------------------------------------------
(* The last of some places, and what is made step by step                  *)

\* Among the first n numbers some set has a greatest.
LEMMA MaxOf ==
  ASSUME NEW n \in Nat, NEW S, S \subseteq 1..n, S # {}
  PROVE  Max(S) \in S
<1> DEFINE T == {n - i : i \in S}
<1>1. T \subseteq Nat /\ T # {}
  <2>1. \A i \in S : n - i \in Nat
    OBVIOUS
  <2> QED BY <2>1
<1>2. PICK k \in T : \A m \in T : k <= m
  <2> HIDE DEF T
  <2> QED BY <1>1, LeastNumber
<1>3. PICK i \in S : k = n - i
  BY <1>2
<1>4. \A j \in S : i >= j
  <2>1. ASSUME NEW j \in S PROVE i >= j
    <3>1. n - j \in T
      OBVIOUS
    <3>2. n - i <= n - j
      BY <1>2, <1>3, <3>1
    <3> QED BY <3>2
  <2> QED BY <2>1
<1> QED BY <1>4 DEF Max

(* What is made one after the other, each from those before it: from the     *)
(* i-th place and what was made before, H makes the next.                    *)
Closed(H, n, U) == \A i \in 1..n : \A S \in SUBSET U : H[<<i, S>>] \in U
MadeBy(g, H, n) == \A i \in 1..n : g[i] = H[<<i, Before(g, i)>>]

LEMMA StepwiseDefined ==
  ASSUME NEW n \in Nat, NEW U, NEW H, Closed(H, n, U)
  PROVE  \E g \in [1..n -> U] : MadeBy(g, H, n)
<1> DEFINE Good(m) == \E g \in [1..m -> U] : MadeBy(g, H, m)
           Bad == {m \in 0..n : ~Good(m)}
<1>1. SUFFICES ASSUME ~Good(n) PROVE FALSE
  OBVIOUS
<1>2. Bad \subseteq Nat /\ Bad # {}
  <2> HIDE DEF Good
  <2> QED BY <1>1
<1>3. PICK m \in Bad : \A k \in Bad : m <= k
  <2> HIDE DEF Bad
  <2> QED BY <1>2, LeastNumber
<1>4. CASE m = 0
  <2>1. [i \in 1..0 |-> 0] \in [1..0 -> U]
    OBVIOUS
  <2>2. \A i \in 1..0 : FALSE
    OBVIOUS
  <2>3. Good(0)
    BY <2>1, <2>2 DEF MadeBy
  <2> QED BY <1>3, <1>4, <2>3
<1>5. CASE m # 0
  <2>1. m \in 1..n /\ m - 1 \in 0..n /\ Good(m - 1) /\ m \in Nat /\ m - 1 \in Nat
    <3> HIDE DEF Good
    <3> QED BY <1>3, <1>5
  <2>2. PICK g \in [1..(m - 1) -> U] : MadeBy(g, H, m - 1)
    BY <2>1
  <2> DEFINE f == [i \in 1..m |-> IF i = m THEN H[<<m, Before(g, m)>>] ELSE g[i]]
  <2>3. Before(g, m) \in SUBSET U
    BY DEF Before
  <2>4. H[<<m, Before(g, m)>>] \in U
    BY <2>1, <2>3 DEF Closed
  <2>5. \A i \in 1..m : f[i] \in U
    BY <2>1, <2>4
  <2>6. f \in [1..m -> U]
    <3>1. f = [i \in 1..m |-> f[i]]
      OBVIOUS
    <3> HIDE DEF f
    <3> QED BY <2>5, <3>1
  <2>7. \A j \in 1..(m - 1) : f[j] = g[j]
    BY <2>1
  <2>8. \A i \in 1..m : Before(f, i) = Before(g, i)
    <3> HIDE DEF f
    <3> QED BY <2>1, <2>7 DEF Before
  <2>9. f[m] = H[<<m, Before(g, m)>>]
    BY <2>1
  <2>10. ASSUME NEW i \in 1..m PROVE f[i] = H[<<i, Before(f, i)>>]
    <3> HIDE DEF f
    <3>1. CASE i = m
      BY <2>1, <2>8, <2>9, <3>1
    <3>2. CASE i # m
      <4>1. i \in 1..(m - 1)
        BY <2>1, <3>2
      <4> QED BY <2>2, <2>7, <2>8, <4>1 DEF MadeBy
    <3> QED BY <3>1, <3>2
  <2>11. Good(m)
    <3> HIDE DEF f
    <3> QED BY <2>6, <2>10 DEF MadeBy
  <2> HIDE DEF Good
  <2> QED BY <1>3, <2>11
<1> QED BY <1>4, <1>5

-----------------------------------------------------------------------------
(* The ids of tasks                                                        *)

\* An id is the one asked for, that of a prior item, or a new one of the stem.
LEMMA IdsAssigned ==
  ASSUME NEW raws, NEW prior, NEW name, NEW stems,
         NEW n \in Nat, DOMAIN raws = 1..n, NEW m \in Nat, DOMAIN prior = 1..m
  PROVE  \A i \in 1..n :
           LET id == AssignedIds(raws, prior, name, stems)[i]
           IN \/ raws[i].id # NoId /\ id = raws[i].id
              \/ id \in Ids(prior)
              \/ \E v : id = <<stems[i], v>>
<1> DEFINE Id(i, used) == IdFor(raws[i], prior, used, name, stems[i])
           V == {Min(T) : T \in SUBSET Int}
           W == {<<stems[i], v>> : i \in 1..n, v \in V}
           U == Ids(raws) \cup Ids(prior) \cup W
           H == [x \in (1..n) \X (SUBSET U) |-> Id(x[1], x[2])]
           ids == AssignedIds(raws, prior, name, stems)
           Named(i, id) == \/ raws[i].id # NoId /\ id = raws[i].id
                           \/ id \in Ids(prior)
                           \/ id \in W /\ \E v : id = <<stems[i], v>>
<1>1. ASSUME NEW i \in 1..n, NEW used PROVE Named(i, Id(i, used))
  <2> DEFINE same == {k \in DOMAIN prior : prior[k][name] = raws[i][name]}
             T == {k \in 1..(Cardinality(used \cup Ids(prior)) + 1) :
                      <<stems[i], k>> \notin used \cup Ids(prior)}
  <2>1. CASE raws[i].id # NoId
    BY <2>1 DEF IdFor
  <2>2. CASE raws[i].id = NoId /\ same # {}
    <3>1. Max(same) \in same
      BY <2>2, MaxOf
    <3>2. Id(i, used) = prior[Max(same)].id
      BY <2>2 DEF IdFor
    <3>3. prior[Max(same)].id \in Ids(prior)
      BY <3>1 DEF Ids, Elements
    <3> HIDE DEF Id, W, same
    <3> QED BY <3>2, <3>3
  <2>3. CASE raws[i].id = NoId /\ same = {}
    <3>1. Id(i, used) = <<stems[i], Min(T)>>
      BY <2>3 DEF IdFor, Fresh
    <3>2. T \in SUBSET Int
      OBVIOUS
    <3>3. Min(T) \in V
      <4> HIDE DEF T
      <4> QED BY <3>2
    <3>4. <<stems[i], Min(T)>> \in W
      <4> HIDE DEF T, V
      <4> QED BY <3>3
    <3> HIDE DEF T, W, Id
    <3> QED BY <3>1, <3>4
  <2> HIDE DEF Id, W, same
  <2> QED BY <2>1, <2>2, <2>3
<1>2. \A i \in 1..n : raws[i].id \in Ids(raws)
  BY DEF Ids, Elements
<1>3. \A i \in 1..n : \A used : Id(i, used) \in U
  <2> HIDE DEF Id, W
  <2> QED BY <1>1, <1>2
<1>4. Closed(H, n, U)
  <2> HIDE DEF Id, U
  <2> QED BY <1>3 DEF Closed
<1>5. PICK g \in [1..n -> U] : MadeBy(g, H, n)
  <2> HIDE DEF H, U
  <2> QED BY <1>4, StepwiseDefined, Zenon
<1>6. \A i \in 1..n : g[i] = Id(i, Before(g, i))
  <2> HIDE DEF Id, U
  <2>1. ASSUME NEW i \in 1..n PROVE Before(g, i) \in SUBSET U
    BY DEF Before
  <2> QED BY <1>5, <2>1 DEF MadeBy
<1>7. ids = [i \in DOMAIN raws |-> Id(i, Before(ids, i))]
  <2> DEFINE Step(f) == f = [i \in DOMAIN raws |-> Id(i, Before(f, i))]
  <2>1. ids = CHOOSE f : Step(f)
    BY DEF AssignedIds
  <2>2. Step(g)
    <3> HIDE DEF Id, U
    <3> QED BY <1>6
  <2>3. Step(CHOOSE f : Step(f))
    <3> HIDE DEF Step
    <3> QED BY <2>2
  <2>4. Step(ids)
    <3> HIDE DEF Step, ids
    <3> QED BY <2>1, <2>3
  <2> QED BY <2>4
<1>8. \A i \in 1..n : Named(i, ids[i])
  <2> HIDE DEF Id, ids, Named
  <2> QED BY <1>1, <1>7
<1> HIDE DEF W
<1> QED BY <1>8

-----------------------------------------------------------------------------
(* What was planned anew                                                    *)

(* The id of a task tells its project.                                      *)
TasksInv ==
  \A p \in Elements(handoff.projects) :
    /\ \E n \in Nat : DOMAIN p.tasks = 1..n
    /\ \A t \in Elements(p.tasks) : t.id[1][1] = p.id

LEMMA PreviousTaskIds ==
  ASSUME TasksInv, NEW project
  PROVE  /\ \E n \in Nat : DOMAIN PreviousTasks(project) = 1..n
         /\ \A id \in Ids(PreviousTasks(project)) : id[1][1] = project
<1>1. CASE project \in Ids(handoff.projects)
  <2>1. \E p \in Elements(handoff.projects) : p.id = project
    BY <1>1 DEF Ids
  <2>2. /\ WithId(handoff.projects, project) \in Elements(handoff.projects)
        /\ WithId(handoff.projects, project).id = project
    BY <2>1 DEF WithId
  <2>3. PreviousTasks(project) = WithId(handoff.projects, project).tasks
    BY <1>1 DEF PreviousTasks
  <2> QED BY <2>2, <2>3 DEF TasksInv, Ids
<1>2. CASE project \notin Ids(handoff.projects)
  <2>1. PreviousTasks(project) = <<>>
    BY <1>2 DEF PreviousTasks
  <2> QED BY <2>1 DEF Ids, Elements
<1> QED BY <1>1, <1>2

LEMMA PreparedTaskIds ==
  ASSUME TasksInv, NEW project, NEW raws, NEW n \in Nat, DOMAIN raws = 1..n,
         \A i \in 1..n : "id" \in DOMAIN raws[i],
         KnownIds(raws, PreviousTasks(project))
  PROVE  /\ DOMAIN PreparedTasks(raws, project) = 1..n
         /\ \A t \in Elements(PreparedTasks(raws, project)) : t.id[1][1] = project
<1> DEFINE stems == [i \in DOMAIN raws |-> <<project, raws[i].key>>]
           ids == AssignedIds(raws, PreviousTasks(project), "key", stems)
           tasks == PreparedTasks(raws, project)
<1>1. \A i \in 1..n : \/ raws[i].id # NoId /\ ids[i] = raws[i].id
                      \/ ids[i] \in Ids(PreviousTasks(project))
                      \/ \E v : ids[i] = <<stems[i], v>>
  <2>1. PICK m \in Nat : DOMAIN PreviousTasks(project) = 1..m
    BY PreviousTaskIds
  <2> HIDE DEF stems
  <2> QED BY <2>1, IdsAssigned
<1>2. \A i \in 1..n : ids[i][1][1] = project
  <2>1. \A i \in 1..n : stems[i][1] = project
    OBVIOUS
  <2>2. \A i \in 1..n : raws[i].id \in Ids(PreviousTasks(project)) \cup {NoId}
    BY DEF KnownIds, Elements
  <2> HIDE DEF ids, stems
  <2> QED BY <1>1, <2>1, <2>2, PreviousTaskIds
<1>3. /\ DOMAIN tasks = 1..n
      /\ \A i \in 1..n : tasks[i].id = ids[i]
  <2> HIDE DEF ids
  <2> QED BY DEF PreparedTasks, ids
<1> HIDE DEF ids, tasks
<1> QED BY <1>2, <1>3 DEF Elements, tasks

LEMMA TasksStep ==
  ASSUME HandoffInv, TasksInv, [Next]_vars
  PROVE  TasksInv'
<1>1. CASE handoff'.projects = handoff.projects
  BY <1>1 DEF TasksInv
<1>2. CASE FinishDecision
  <2>1. PICK args \in Proposals :
          ProjectsAccepted(args) /\ \E resolved : Commit(Prepared(args), resolved)
    BY <1>2 DEF FinishDecision
  <2>2. handoff'.projects = PreparedProjects(args)
    BY <2>1, FinishStores DEF Commit
  <2>3. CASE args.projects = Absent
    BY <1>1, <2>2, <2>3 DEF PreparedProjects
  <2>4. CASE args.projects # Absent
    <3> DEFINE raw(i) == args.projects[i]
               made == PreparedProjects(args)
    <3>1. /\ DOMAIN made = DOMAIN args.projects
          /\ \A i \in DOMAIN made : \E id : made[i] = PreparedProject(raw(i), id)
      BY <2>4 DEF PreparedProjects
    <3>2. ASSUME NEW i \in DOMAIN made
          PROVE  /\ \E n \in Nat : DOMAIN made[i].tasks = 1..n
                 /\ \A t \in Elements(made[i].tasks) : t.id[1][1] = made[i].id
      <4>1. PICK id : made[i] = PreparedProject(raw(i), id)
        BY <3>1
      <4>2. /\ {"id", "criteria", "tasks"} \subseteq DOMAIN raw(i)
            /\ Len(raw(i).tasks) \in Nat /\ DOMAIN raw(i).tasks = 1..Len(raw(i).tasks)
            /\ \A j \in DOMAIN raw(i).tasks : "id" \in DOMAIN raw(i).tasks[j]
        BY <2>4, <3>1, ProposalsAssumption
      <4>3. made[i].id = id /\ made[i].tasks = PreparedTasks(raw(i).tasks, id)
        BY <4>1, <4>2 DEF PreparedProject
      <4>4. KnownIds(raw(i).tasks, PreviousTasks(made[i].id))
        BY <2>1, <2>4, <3>1 DEF ProjectsAccepted
      <4> HIDE DEF made, raw
      <4> QED BY <4>2, <4>3, <4>4, PreparedTaskIds
    <3> HIDE DEF made
    <3> QED BY <2>2, <3>2 DEF TasksInv, Elements, made
  <2> QED BY <2>3, <2>4
<1>3. CASE FinishWithText
  BY <1>1, <1>3, FallbackStores DEF FinishWithText
<1>4. CASE LoseBaseline \/ RecordVerification \/ UNCHANGED vars
  BY <1>1, <1>4 DEF LoseBaseline, RecordVerification, VerificationSucceeds,
                    VerificationFails, vars
<1> QED BY <1>2, <1>3, <1>4 DEF Next

(* What the last decision made or changed has the counters of a first time. *)
StallInv ==
  /\ {"loops", "tasks"} \subseteq DOMAIN stall
  /\ \A id \in fresh.loops : id \in DOMAIN stall.loops => stall.loops[id].repeated = 1
  /\ \A id \in fresh.tasks : id \in DOMAIN stall.tasks => stall.tasks[id].noProgress = 0

LEMMA CommitStalls ==
  ASSUME NEW h, NEW resolved, Commit(h, resolved), TasksInv', handoff'.projects = h.projects
  PROVE  StallInv'
<1>1. PICK s \in Worlds : stall' = NextStall(h, s)
  BY DEF Commit
<1> DEFINE progress == BuildProgressSignals(baseline, s)
<1>2. /\ {"loops", "tasks"} \subseteq DOMAIN stall'
      /\ stall'.loops = UpdateOpenLoopStalls(h.loops, progress)
      /\ stall'.tasks = UpdateProjectTaskStalls(h, progress)
  BY <1>1 DEF NextStall
<1>3. fresh' = ChangedBy(h) /\ ValidHandoff(h)
  BY DEF Commit
<1> HIDE DEF progress
<1>4. ASSUME NEW id \in fresh'.loops, id \in DOMAIN stall'.loops
      PROVE  stall'.loops[id].repeated = 1
  <2>1. PICK l \in Elements(h.loops) :
          l.id = id /\ ~\E old \in Elements(handoff.loops) : old.id = l.id /\ old.action = l.action
    BY <1>3, <1>4 DEF ChangedBy
  <2>2. WithId(h.loops, id) = l
    <3>1. \A m \in Elements(h.loops) : m.id = id => m = l
      BY <1>3, <2>1 DEF ValidHandoff, Distinct, Elements
    <3> QED BY <2>1, <3>1 DEF WithId
  <2>3. ~SameAction(l)
    BY <2>1 DEF SameAction
  <2>4. \A old, x, idle : Cycles(old, x, SameAction(l), idle).repeated = 1
    BY <2>3 DEF Cycles
  <2>5. id \in Ids(h.loops)
    BY <2>1 DEF Ids
  <2>6. \E idle : stall'.loops[id] = Cycles(stall.loops, id, SameAction(l), idle)
    BY <1>2, <2>2, <2>5 DEF UpdateOpenLoopStalls
  <2> QED BY <2>4, <2>6
<1>5. ASSUME NEW id \in fresh'.tasks, id \in DOMAIN stall'.tasks
      PROVE  stall'.tasks[id].noProgress = 0
  <2> DEFINE Same(task) == \E old \in TasksById(handoff) :
                             old.id = id /\ Fingerprint(old) = Fingerprint(task)
  <2>1. PICK t \in TasksById(h) : t.id = id /\ ~Same(t)
    BY <1>3, <1>5 DEF ChangedBy
  <2>2. (CHOOSE u \in TasksById(h) : u.id = id) = t
    <3>1. ASSUME NEW u \in TasksById(h), u.id = id PROVE u = t
      <4>1. PICK p \in Elements(h.projects) : t \in Elements(p.tasks)
        BY DEF TasksById
      <4>2. PICK q \in Elements(h.projects) : u \in Elements(q.tasks)
        BY DEF TasksById
      <4>3. p.id = q.id
        BY <2>1, <3>1, <4>1, <4>2 DEF TasksInv
      <4>4. p = q
        BY <1>3, <4>3 DEF ValidHandoff, ValidProjects, Distinct, Elements
      <4>5. Distinct(p.tasks)
        BY <1>3 DEF ValidHandoff, ValidProjects
      <4> QED BY <2>1, <3>1, <4>1, <4>2, <4>4, <4>5 DEF Distinct, Elements
    <3> QED BY <2>1, <3>1
  <2>3. \A old, x, idle : Cycles(old, x, Same(t), idle).noProgress = 0
    <3> HIDE DEF Same
    <3> QED BY <2>1 DEF Cycles
  <2>4. \E idle : stall'.tasks[id] = Cycles(stall.tasks, id, Same(t), idle)
    BY <1>2, <1>5, <2>2 DEF UpdateProjectTaskStalls
  <2> HIDE DEF Same
  <2> QED BY <2>3, <2>4
<1> QED BY <1>2, <1>4, <1>5 DEF StallInv

LEMMA StallStep ==
  ASSUME HandoffInv, TasksInv, StallInv, [Next]_vars
  PROVE  StallInv'
<1>1. TasksInv'
  BY TasksStep
<1>2. CASE FinishDecision
  <2>1. PICK args \in Proposals : \E resolved : Commit(Prepared(args), resolved)
    BY <1>2 DEF FinishDecision
  <2>2. handoff'.projects = PreparedProjects(args)
    BY <2>1, FinishStores DEF Commit
  <2>3. PreparedProjects(args) = Prepared(args).projects
    BY DEF Prepared
  <2> QED BY <1>1, <2>1, <2>2, <2>3, CommitStalls
<1>3. CASE FinishWithText
  <2>1. PICK a : Commit(FallbackHandoff(a), {})
    BY <1>3 DEF FinishWithText
  <2>2. handoff'.projects = FallbackHandoff(a).projects
    BY <2>1 DEF Commit
  <2> QED BY <1>1, <2>1, <2>2, CommitStalls
<1>4. CASE LoseBaseline \/ UNCHANGED vars
  BY <1>4 DEF LoseBaseline, vars, StallInv
<1>5. CASE RecordVerification
  <2>1. /\ {"loops", "tasks"} \subseteq DOMAIN stall' /\ fresh' = fresh
        /\ stall'.loops = stall.loops /\ stall'.tasks = stall.tasks
    BY <1>5 DEF RecordVerification, VerificationSucceeds, VerificationFails, StallInv
  <2> QED BY <2>1 DEF StallInv
<1> QED BY <1>2, <1>3, <1>4, <1>5 DEF Next

LEMMA StallInit == Init => TasksInv /\ StallInv
BY DEF Init, TasksInv, StallInv, EmptyHandoff, Elements

(* Whatever ids the model gives up and takes again, in any plan, a loop or   *)
(* a task that is new or was changed is never presented as stalled           *)
(* (update_open_loop_stalls, update_project_task_stalls, make_stable_id).    *)
THEOREM NewWorkIsNotStalled == Spec => []ReplannedIsNotStalled
<1>1. StallInv => ReplannedIsNotStalled
  <2>1. SUFFICES ASSUME StallInv, NEW s \in Worlds
                 PROVE  /\ \A e \in LoopEntries(s) : e.stalled => e.id \notin fresh.loops
                        /\ \A p \in Context(s).projects : p.stalled \cap fresh.tasks = {}
    BY DEF ReplannedIsNotStalled
  <2>2. ASSUME NEW e \in LoopEntries(s), e.stalled PROVE e.id \notin fresh.loops
    <3>1. e.id \in DOMAIN stall.loops /\ stall.loops[e.id].repeated >= 2
      BY <2>2 DEF LoopEntries
    <3> QED BY <2>1, <3>1 DEF StallInv
  <2>3. ASSUME NEW p \in Context(s).projects PROVE p.stalled \cap fresh.tasks = {}
    <3>1. PICK q \in Elements(handoff.projects) :
            p = SummarizeProject(q, stall.tasks, BuildProgressSignals(baseline, s))
      BY <2>3 DEF Context, ProjectContext
    <3>2. \A id \in p.stalled : IdleCycles(stall.tasks, id) >= 2
      BY <3>1 DEF SummarizeProject
    <3> QED BY <2>1, <3>2 DEF StallInv, IdleCycles
  <2> QED BY <2>2, <2>3
<1> QED BY <1>1, HandoffInit, HandoffStep, StallInit, TasksStep, StallStep, PTL DEF Spec
=============================================================================
