----------------------- MODULE TriggerEvaluatorProofs -----------------------
(***************************************************************************)
(* TriggerEvaluator for any snapshots, contexts and limits: the memory of  *)
(* the evaluator is consistent, a threat that appears is told, and a       *)
(* review or idleness that was told is not lost.                           *)
(***************************************************************************)
EXTENDS TriggerEvaluator, SequenceTheorems, TLAPS

(* What is remembered of threats was told at a tick that has passed, so the *)
(* fingerprint of a threat that appears later is a new one.                 *)
ThreatsArePast ==
  /\ seen.tick \in Int
  /\ \A f \in fingerprintSet : f[1] = "new_threat" => f[2][2] \in Int /\ f[2][2] <= seen.tick

MemoryInv ==
  /\ fingerprints \in Seq(fingerprintSet)
  /\ QueueAndSetAgree
  /\ ThreatsArePast

Injective(q) == \A i, j \in DOMAIN q : q[i] = q[j] => i = j
Entries(q) == {q[i] : i \in DOMAIN q}

-----------------------------------------------------------------------------
(* Queues without duplicates                                               *)

\* A sequence of members of T is one over T.
LEMMA SeqOver ==
  ASSUME NEW S, NEW T, NEW q \in Seq(S), \A i \in DOMAIN q : q[i] \in T
  PROVE  q \in Seq(T)
<1>1. /\ Len(q) \in Nat
      /\ q \in [1..Len(q) -> T]
  OBVIOUS
<1> QED BY <1>1, SeqDef

\* What is appended is the one new entry.
LEMMA AppendNew ==
  ASSUME NEW S, NEW q \in Seq(S), Injective(q), Entries(q) = S, NEW f, f \notin S
  PROVE  /\ Append(q, f) \in Seq(S \cup {f})
         /\ Injective(Append(q, f)) /\ Entries(Append(q, f)) = S \cup {f}
         /\ Len(Append(q, f)) = Len(q) + 1
BY DEF Injective, Entries

\* Without its head a queue has lost just the head.
LEMMA TailOnly ==
  ASSUME NEW S, NEW q \in Seq(S), Injective(q), Entries(q) = S, q # <<>>
  PROVE  /\ Tail(q) \in Seq(S \ {Head(q)})
         /\ Injective(Tail(q)) /\ Entries(Tail(q)) = S \ {Head(q)}
         /\ Len(Tail(q)) = Len(q) - 1
<1>1. /\ Tail(q) \in Seq(S) /\ Len(Tail(q)) = Len(q) - 1
      /\ \A i \in 1..(Len(q) - 1) : Tail(q)[i] = q[i + 1]
      /\ Head(q) = q[1] /\ Len(q) \in Nat \ {0}
  OBVIOUS
<1>2. Injective(Tail(q))
  BY <1>1 DEF Injective
<1>3. \A i \in DOMAIN Tail(q) : Tail(q)[i] \in S \ {Head(q)}
  BY <1>1 DEF Injective, Entries
<1>4. \A x \in S \ {Head(q)} : \E i \in DOMAIN Tail(q) : Tail(q)[i] = x
  <2>1. TAKE x \in S \ {Head(q)}
  <2>2. PICK i \in DOMAIN q : q[i] = x
    BY DEF Entries
  <2>3. i \in 2..Len(q)
    BY <2>1, <2>2, <1>1
  <2>4. /\ i - 1 \in DOMAIN Tail(q)
        /\ Tail(q)[i - 1] = x
    BY <2>2, <2>3, <1>1
  <2> QED BY <2>4
<1>5. Entries(Tail(q)) = S \ {Head(q)}
  BY <1>3, <1>4 DEF Entries
<1>6. Tail(q) \in Seq(S \ {Head(q)})
  BY <1>1, <1>3, SeqOver
<1> QED BY <1>1, <1>2, <1>5, <1>6

\* Without its nth entry a sequence keeps the others in their order.
LEMMA RemovedEntries ==
  ASSUME NEW S, NEW q \in Seq(S), NEW n \in DOMAIN q
  PROVE  /\ RemoveAt(q, n) \in Seq(S) /\ Len(RemoveAt(q, n)) = Len(q) - 1
         /\ \A i \in 1..(Len(q) - 1) :
              RemoveAt(q, n)[i] = IF i < n THEN q[i] ELSE q[i + 1]
         /\ n \in 1..Len(q) /\ Len(q) \in Nat
<1> DEFINE r == RemoveAt(q, n)
           before == SubSeq(q, 1, n - 1)
           after == SubSeq(q, n + 1, Len(q))
<1>1. n \in 1..Len(q) /\ Len(q) \in Nat
  OBVIOUS
<1>2. /\ before \in Seq(S) /\ Len(before) = n - 1
      /\ \A i \in 1..(n - 1) : before[i] = q[i]
  BY <1>1
<1>3. /\ after \in Seq(S) /\ Len(after) = Len(q) - n
      /\ \A i \in 1..(Len(q) - n) : after[i] = q[n + i]
  BY <1>1
<1>4. r = before \o after
  BY DEF RemoveAt
<1> HIDE DEF before, after, r
<1>5. /\ r \in Seq(S) /\ Len(r) = Len(q) - 1
      /\ \A i \in 1..Len(r) : r[i] = IF i <= n - 1 THEN before[i] ELSE after[i - (n - 1)]
  <2>1. Len(before) + Len(after) = Len(q) - 1
    BY <1>1, <1>2, <1>3
  <2>2. /\ before \o after \in Seq(S)
        /\ Len(before \o after) = Len(before) + Len(after)
        /\ \A i \in 1..(Len(before) + Len(after)) :
             (before \o after)[i] = IF i <= Len(before) THEN before[i]
                                                     ELSE after[i - Len(before)]
    BY <1>2, <1>3, ConcatProperties
  <2> QED BY <1>2, <1>4, <2>1, <2>2
<1>6. \A i \in 1..(Len(q) - 1) : r[i] = IF i < n THEN q[i] ELSE q[i + 1]
  <2>1. TAKE i \in 1..(Len(q) - 1)
  <2>2. r[i] = IF i <= n - 1 THEN before[i] ELSE after[i - (n - 1)]
    BY <1>5, <2>1
  <2>3. CASE i < n
    BY <1>1, <1>2, <2>1, <2>2, <2>3
  <2>4. CASE i >= n
    <3>1. i - (n - 1) \in 1..(Len(q) - n)
      BY <1>1, <2>1, <2>4
    <3>2. after[i - (n - 1)] = q[n + (i - (n - 1))]
      BY <1>3, <3>1
    <3> QED BY <1>1, <2>1, <2>2, <2>4, <3>2
  <2> QED BY <1>1, <2>1, <2>3, <2>4
<1> USE DEF r
<1> QED BY <1>1, <1>5, <1>6

\* Without one of its entries a queue has lost just that.
LEMMA RemoveOne ==
  ASSUME NEW S, NEW q \in Seq(S), Injective(q), Entries(q) = S, NEW n \in DOMAIN q
  PROVE  /\ RemoveAt(q, n) \in Seq(S \ {q[n]})
         /\ Injective(RemoveAt(q, n)) /\ Entries(RemoveAt(q, n)) = S \ {q[n]}
         /\ Len(RemoveAt(q, n)) = Len(q) - 1
<1> DEFINE r == RemoveAt(q, n)
<1>1. /\ r \in Seq(S) /\ Len(r) = Len(q) - 1
      /\ \A i \in 1..(Len(q) - 1) : r[i] = IF i < n THEN q[i] ELSE q[i + 1]
      /\ n \in 1..Len(q) /\ Len(q) \in Nat
  BY RemovedEntries
<1> HIDE DEF r
<1>2. Injective(r)
  BY <1>1 DEF Injective
<1>3. \A i \in DOMAIN r : r[i] \in S \ {q[n]}
  <2>1. TAKE i \in DOMAIN r
  <2>2. PICK j \in DOMAIN q : r[i] = q[j] /\ j # n
    BY <1>1
  <2>3. q[j] # q[n]
    BY <2>2 DEF Injective
  <2> QED BY <2>2, <2>3 DEF Entries
<1>4. \A x \in S \ {q[n]} : \E i \in DOMAIN r : r[i] = x
  <2>1. TAKE x \in S \ {q[n]}
  <2>2. PICK i \in DOMAIN q : q[i] = x
    BY DEF Entries
  <2>3. CASE i < n
    BY <2>2, <2>3, <1>1
  <2>4. CASE i > n
    <3>1. i - 1 \in DOMAIN r /\ r[i - 1] = x
      BY <2>2, <2>4, <1>1
    <3> QED BY <3>1
  <2> QED BY <2>1, <2>2, <2>3, <2>4, <1>1
<1>5. Entries(r) = S \ {q[n]}
  BY <1>3, <1>4 DEF Entries
<1>6. r \in Seq(S \ {q[n]})
  BY <1>1, <1>3, SeqOver
<1> USE DEF r
<1> QED BY <1>1, <1>2, <1>5, <1>6

-----------------------------------------------------------------------------
(* What a candidate is                                                     *)

OtherKinds == DOMAIN KindOrder \ {"new_threat", "periodic_review"}

Other(t, tick) == \E k \in OtherKinds : \E e : t = Trigger(k, tick, e)

\* Every candidate but a new threat is a trigger of another kind.
LEMMA OtherCandidates ==
  ASSUME NEW old, NEW new, NEW ctx, NEW tick, NEW progress, NEW risk,
         NEW t \in Candidates(old, new, ctx, tick, progress, risk)
  PROVE  t \in NewThreats(old, new, tick) \/ Other(t, tick)
<1> DEFINE before == BuildProgressSignals(old, old)
           view == ProjectContext(ctx.projects, ctx.stall, progress, new,
                                  Interrupts(risk), Interrupts(risk))
           was == OperationalRisk(old.pawns, old.pawns, ctx.risk)
<1> HIDE DEF before, view, was
<1> USE DEF Other, OtherKinds, KindOrder
<1>1. CASE t \in NewlyDowned(old, new, tick)
  BY <1>1, Zenon DEF NewlyDowned
<1>2. CASE t \in RiskEscalations(was, risk, tick)
  BY <1>2 DEF RiskEscalations
<1>3. CASE t \in SignalTriggers(progress, tick)
  BY <1>3 DEF SignalTriggers
<1>4. CASE t \in MembershipChange(old, new, tick)
  BY <1>4 DEF MembershipChange
<1>5. CASE t \in ImportantAwareness(old, new, tick)
  BY <1>5 DEF ImportantAwareness
<1>6. CASE t \in ResourceDeterioration(old, new, tick)
  BY <1>6 DEF ResourceDeterioration
<1>7. CASE t \in NewConstructionBlocker(old, new, tick)
  BY <1>7 DEF NewConstructionBlocker
<1>8. CASE t \in SatisfiedTasks(ctx.projects, before, progress, tick)
  BY <1>8 DEF SatisfiedTasks
<1>9. CASE t \in ProjectTransitions(view, new, tick)
  BY <1>9 DEF ProjectTransitions
<1>10. Candidates(old, new, ctx, tick, progress, risk) =
         NewThreats(old, new, tick) \cup NewlyDowned(old, new, tick)
         \cup RiskEscalations(was, risk, tick)
         \cup SignalTriggers(progress, tick) \cup MembershipChange(old, new, tick)
         \cup ImportantAwareness(old, new, tick) \cup ResourceDeterioration(old, new, tick)
         \cup NewConstructionBlocker(old, new, tick)
         \cup SatisfiedTasks(ctx.projects, before, progress, tick)
         \cup ProjectTransitions(view, new, tick)
  BY Zenon DEF Candidates, before, view, was
<1> QED
  BY <1>1, <1>2, <1>3, <1>4, <1>5, <1>6, <1>7, <1>8, <1>9, <1>10, Zenon

\* A trigger is urgent when its kind comes early, and each kind has a place.
LEMMA Places ==
  ASSUME NEW k \in DOMAIN KindOrder, NEW tick, NEW e
  PROVE  LET t == Trigger(k, tick, e)
         IN /\ t.kind = k /\ t.evidence = e /\ t.tick = tick
            /\ t.rank = KindOrder[k] /\ t.rank \in Nat
            /\ t.rank <= 3 => t.urgent
<1>1. KindOrder[k] \in Nat
  BY DEF KindOrder
<1> HIDE DEF KindOrder
<1> QED BY <1>1 DEF Trigger

\* The fingerprint of another kind is not that of a threat.
LEMMA OtherFingerprint ==
  ASSUME NEW t, NEW tick, Other(t, tick)
  PROVE  Fingerprint(t)[1] # "new_threat" /\ t.rank \in Nat /\ (t.rank <= 3 => t.urgent)
<1>1. PICK k \in OtherKinds : \E e : t = Trigger(k, tick, e)
  BY DEF Other
<1>2. PICK e : t = Trigger(k, tick, e)
  BY <1>1
<1>3. k \in DOMAIN KindOrder /\ k # "new_threat"
  BY DEF OtherKinds
<1>4. t.kind = k /\ t.rank \in Nat /\ (t.rank <= 3 => t.urgent)
  BY <1>2, <1>3, Places
<1> QED BY <1>3, <1>4 DEF Fingerprint

\* That of a threat carries the tick at which it is told.
LEMMA ThreatFingerprint ==
  ASSUME NEW old, NEW new, NEW tick, NEW t \in NewThreats(old, new, tick)
  PROVE  /\ Fingerprint(t)[2][2] = tick
         /\ t.rank \in Nat /\ (t.rank <= 3 => t.urgent)
<1>1. PICK id \in new.threats \ old.threats : t = Trigger("new_threat", tick, <<id, tick>>)
  BY DEF NewThreats
<1>2. "new_threat" \in DOMAIN KindOrder
  BY DEF KindOrder
<1>3. t.evidence = <<id, tick>> /\ t.rank \in Nat /\ (t.rank <= 3 => t.urgent)
  BY <1>1, <1>2, Places
<1> QED BY <1>3 DEF Fingerprint

-----------------------------------------------------------------------------
(* The memory                                                              *)

\* What is told is a trigger of this tick that is not remembered.
Tellable(t, tick) ==
  /\ Fingerprint(t) \notin fingerprintSet
  /\ Fingerprint(t)[1] = "new_threat" => Fingerprint(t)[2][2] = tick

\* Remembering a new fingerprint keeps queue and set alike.
LEMMA RememberKeeps ==
  ASSUME fingerprints \in Seq(fingerprintSet), QueueAndSetAgree,
         NEW f, f \notin fingerprintSet, Remember(f)
  PROVE  /\ fingerprints' \in Seq(fingerprintSet')
         /\ QueueAndSetAgree'
         /\ fingerprintSet' \subseteq fingerprintSet \cup {f}
<1>1. /\ Injective(fingerprints) /\ Entries(fingerprints) = fingerprintSet
      /\ Len(fingerprints) <= MaxFingerprints /\ Len(fingerprints) \in Nat
  BY DEF QueueAndSetAgree, Injective, Entries
<1>2. MaxFingerprints \in Nat \ {0}
  BY TriggerAssumption
<1>3. CASE Len(fingerprints) >= MaxFingerprints
  <2>1. fingerprints # <<>>
    BY <1>1, <1>2, <1>3
  <2> DEFINE T == fingerprintSet \ {Head(fingerprints)}
             q == Tail(fingerprints)
  <2>2. q \in Seq(T) /\ Injective(q) /\ Entries(q) = T /\ Len(q) = Len(fingerprints) - 1
    BY <1>1, <2>1, TailOnly
  <2>3. fingerprints' = Append(q, f) /\ fingerprintSet' = T \cup {f}
    BY <1>3 DEF Remember
  <2>4. f \notin T
    OBVIOUS
  <2> HIDE DEF T, q
  <2>5. /\ Append(q, f) \in Seq(T \cup {f})
        /\ Injective(Append(q, f)) /\ Entries(Append(q, f)) = T \cup {f}
        /\ Len(Append(q, f)) = Len(q) + 1
    BY <2>2, <2>4, AppendNew
  <2>6. QueueAndSetAgree'
    BY <1>1, <1>2, <2>2, <2>3, <2>5 DEF QueueAndSetAgree, Injective, Entries
  <2> QED BY <2>3, <2>5, <2>6 DEF T
<1>4. CASE Len(fingerprints) < MaxFingerprints
  <2>1. fingerprints' = Append(fingerprints, f) /\ fingerprintSet' = fingerprintSet \cup {f}
    BY <1>1, <1>2, <1>4 DEF Remember
  <2>2. /\ Append(fingerprints, f) \in Seq(fingerprintSet \cup {f})
        /\ Injective(Append(fingerprints, f))
        /\ Entries(Append(fingerprints, f)) = fingerprintSet \cup {f}
        /\ Len(Append(fingerprints, f)) = Len(fingerprints) + 1
    BY <1>1, AppendNew
  <2>3. QueueAndSetAgree'
    BY <1>1, <1>2, <1>4, <2>1, <2>2 DEF QueueAndSetAgree, Injective, Entries
  <2> QED BY <2>1, <2>2, <2>3
<1> QED BY <1>1, <1>2, <1>3, <1>4

\* Telling it keeps the memory, at a tick that is not before the last.
LEMMA EmitKeeps ==
  ASSUME MemoryInv, NEW t, NEW tick \in Int, Tellable(t, tick), Emit(t),
         seen'.tick = tick, seen.tick <= tick
  PROVE  MemoryInv'
<1>1. /\ fingerprints' \in Seq(fingerprintSet')
      /\ QueueAndSetAgree'
      /\ fingerprintSet' \subseteq fingerprintSet \cup {Fingerprint(t)}
  BY RememberKeeps DEF MemoryInv, Tellable, Emit
<1>2. ThreatsArePast'
  BY <1>1 DEF MemoryInv, ThreatsArePast, Tellable
<1> QED BY <1>1, <1>2 DEF MemoryInv

\* So does forgetting everything, and remembering nothing new.
LEMMA EmptyMemory ==
  ASSUME fingerprints' = <<>>, fingerprintSet' = {}, seen'.tick \in Int
  PROVE  MemoryInv'
<1>1. Len(<<>>) = 0 /\ MaxFingerprints \in Nat
  BY TriggerAssumption
<1> QED BY <1>1 DEF MemoryInv, QueueAndSetAgree, ThreatsArePast

LEMMA SameMemory ==
  ASSUME MemoryInv, UNCHANGED <<fingerprints, fingerprintSet>>,
         seen'.tick \in Int, seen.tick <= seen'.tick
  PROVE  MemoryInv'
<1>1. QueueAndSetAgree'
  BY DEF MemoryInv, QueueAndSetAgree
<1>2. ThreatsArePast'
  BY DEF MemoryInv, ThreatsArePast
<1> QED BY <1>1, <1>2 DEF MemoryInv

\* What an evaluation tells is tellable; a threat that appears later than the
\* last observation is told, or something that is more urgent.
LEMMA EvaluateTells ==
  ASSUME MemoryInv, NEW old, NEW new, NEW ctx, NEW tick \in Int, Evaluate(old, new, ctx, tick)
  PROVE  /\ \/ \E t : Tellable(t, tick) /\ Emit(t)
            \/ UNCHANGED <<fingerprints, fingerprintSet>>
         /\ tick > seen.tick /\ new.threats \ old.threats # {}
              => decision'.urgent
<1>1. PICK progress, risk :
        \E all \in {Candidates(old, new, ctx, tick, progress, risk)
                   \cup (IF IdleFor(new, tick)
                         THEN {Trigger("productive_idleness", tick, new.idle)} ELSE {})} :
        \E unknown \in {{t \in all : Fingerprint(t) \notin fingerprintSet}} :
          IF unknown = {} THEN ReviewOrNothing(new, tick)
          ELSE \E t \in unknown : (\A u \in unknown : t.rank <= u.rank) /\ Emit(t)
  BY DEF Evaluate
<1> DEFINE candidates == Candidates(old, new, ctx, tick, progress, risk)
           all == candidates \cup (IF IdleFor(new, tick)
                    THEN {Trigger("productive_idleness", tick, new.idle)} ELSE {})
           unknown == {t \in all : Fingerprint(t) \notin fingerprintSet}
<1>2. IF unknown = {} THEN ReviewOrNothing(new, tick)
      ELSE \E t \in unknown : (\A u \in unknown : t.rank <= u.rank) /\ Emit(t)
  BY <1>1
<1>3. \A t \in all : t \in NewThreats(old, new, tick) \/ Other(t, tick)
  <2>1. ASSUME NEW t \in candidates PROVE t \in NewThreats(old, new, tick) \/ Other(t, tick)
    BY <2>1, OtherCandidates, Zenon
  <2>2. Other(Trigger("productive_idleness", tick, new.idle), tick)
    BY DEF Other, OtherKinds, KindOrder
  <2> HIDE DEF candidates
  <2> QED BY <2>1, <2>2
<1>4. NewThreats(old, new, tick) \subseteq all
  BY DEF Candidates
<1> HIDE DEF candidates, all
<1>5. \A t \in unknown : Tellable(t, tick) /\ t.rank \in Nat /\ (t.rank <= 3 => t.urgent)
  <2>1. TAKE t \in unknown
  <2>2. CASE t \in NewThreats(old, new, tick)
    BY <2>2, ThreatFingerprint DEF Tellable
  <2>3. CASE Other(t, tick)
    BY <2>3, OtherFingerprint DEF Tellable
  <2> QED BY <1>3, <2>2, <2>3
<1>6. ASSUME tick > seen.tick, new.threats \ old.threats # {}
      PROVE  \E t \in unknown : t.rank = 2
  <2>1. PICK id : id \in new.threats \ old.threats
    BY <1>6
  <2> DEFINE t == Trigger("new_threat", tick, <<id, tick>>)
  <2>2. t \in NewThreats(old, new, tick) /\ t \in all
    BY <2>1, <1>4 DEF NewThreats
  <2>3. t.rank = 2 /\ t.kind = "new_threat" /\ t.evidence = <<id, tick>>
    BY DEF Trigger, KindOrder
  <2> HIDE DEF t
  <2>4. Fingerprint(t)[1] = "new_threat" /\ Fingerprint(t)[2][2] = tick
    BY <2>3 DEF Fingerprint
  <2>5. Fingerprint(t) \notin fingerprintSet
    BY <2>4, <1>6 DEF MemoryInv, ThreatsArePast
  <2> QED BY <2>2, <2>3, <2>5
<1>7. CASE unknown = {}
  <2>1. ReviewOrNothing(new, tick)
    BY <1>2, <1>7
  <2> DEFINE review == Trigger("periodic_review", tick, lastReview + ReviewInterval)
  <2>2. Fingerprint(review)[1] # "new_threat"
    BY DEF Fingerprint, Trigger
  <2>3. \/ Fingerprint(review) \notin fingerprintSet /\ Emit(review)
        \/ UNCHANGED <<fingerprints, fingerprintSet>>
    BY <2>1 DEF ReviewOrNothing
  <2> HIDE DEF review
  <2>4. \/ \E t : Tellable(t, tick) /\ Emit(t)
        \/ UNCHANGED <<fingerprints, fingerprintSet>>
    BY <2>2, <2>3 DEF Tellable
  <2> QED BY <1>6, <1>7, <2>4
<1>8. CASE unknown # {}
  <2>1. PICK t \in unknown : (\A u \in unknown : t.rank <= u.rank) /\ Emit(t)
    BY <1>2, <1>8
  <2>2. decision' = t
    BY <2>1 DEF Emit
  <2>3. ASSUME tick > seen.tick, new.threats \ old.threats # {} PROVE t.urgent
    <3>1. PICK u \in unknown : u.rank = 2
      BY <1>6, <2>3
    <3>2. t.rank <= 2 /\ t.rank \in Nat
      BY <1>5, <2>1, <3>1
    <3> QED BY <1>5, <3>2
  <2> QED BY <1>5, <2>1, <2>2, <2>3
<1> QED BY <1>7, <1>8

-----------------------------------------------------------------------------
(* What is told is owed until it is acknowledged                           *)

OwedTypes ==
  /\ owed \in Seq(Entries(owed))
  /\ lastReview \in Int /\ idleSince \in Int
  /\ \A j \in DOMAIN owed : owed[j].kind = "periodic_review" =>
       /\ owed[j].tick \in Int /\ owed[j].evidence \in Int
       /\ owed[j].evidence <= owed[j].tick
  /\ \A f \in fingerprintSet : f = <<f[1], f[2]>>

(* The signature is that of the last observation.                          *)
IdleKnown == seen # NotSeen => idleSignature = seen.is.idle

(* Idleness is forgotten when it is acknowledged.                          *)
IdlenessTold ==
  \A f \in fingerprintSet : f[1] = "productive_idleness" => Told(f[1], f[2])

(* A review that is remembered is owed, or the last review is not before   *)
(* it.  Reviews are acknowledged in order: every one told after it has a   *)
(* tick that is not before it, so the next to be acknowledged cannot put   *)
(* the last review back before a remembered one.                           *)
ReviewsTold ==
  \A f \in fingerprintSet : f[1] = "periodic_review" =>
    /\ f[2] \in Int /\ f[2] <= seen.tick
    /\ Told("periodic_review", f[2]) \/ f[2] <= lastReview
    /\ \A j \in DOMAIN owed : owed[j].kind = "periodic_review" =>
         \/ f[2] <= owed[j].tick
         \/ \E k \in DOMAIN owed :
              k >= j /\ owed[k].kind = "periodic_review" /\ owed[k].evidence = f[2]

OwedInv == OwedTypes /\ IdleKnown /\ IdlenessTold /\ ReviewsTold

\* What the idleness tracker leaves.
LEMMA IdlenessTracked ==
  ASSUME OwedInv, NEW s, NEW tick \in Int, TrackIdleness(s, tick), seen'.is = s
  PROVE  idleSince' \in Int /\ IdleKnown'
BY DEF TrackIdleness, OwedInv, OwedTypes, IdleKnown, Never

\* What is told at a tick is owed from then on.
LEMMA EmitOwes ==
  ASSUME MemoryInv, OwedInv, NEW tick \in Int, seen'.tick = tick, seen.tick <= tick,
         NEW t, Emit(t), t.tick = tick, lastReview' = lastReview,
         t.kind = "periodic_review" => t.evidence \in Int /\ t.evidence <= tick,
         idleSince' \in Int
  PROVE  OwedTypes' /\ IdlenessTold' /\ ReviewsTold'
<1> DEFINE f0 == Fingerprint(t)
           n == Len(owed)
           owes == t.kind \in {"periodic_review", "productive_idleness"}
<1>1. /\ fingerprintSet' \subseteq fingerprintSet \cup {f0}
      /\ f0 = <<t.kind, t.evidence>> /\ f0[1] = t.kind /\ f0[2] = t.evidence
  BY DEF Emit, Remember, Fingerprint
<1> HIDE DEF f0
<1>2. /\ owed \in Seq(Entries(owed)) /\ n \in Nat /\ DOMAIN owed = 1..n
      /\ owed' = IF owes THEN Append(owed, t) ELSE owed
      /\ seen.tick \in Int
  BY DEF Emit, OwedInv, OwedTypes, MemoryInv, ThreatsArePast
<1>3. /\ DOMAIN owed' = 1..(IF owes THEN n + 1 ELSE n)
      /\ \A j \in 1..n : owed'[j] = owed[j]
      /\ owes => owed'[n + 1] = t
      /\ owed' \in Seq(Entries(owed) \cup {t})
  <2>1. CASE owes
    <3>1. owed' = Append(owed, t) /\ owed \in Seq(Entries(owed) \cup {t})
      BY <1>2, <2>1, SeqOver
    <3> QED BY <1>2, <2>1, <3>1
  <2>2. CASE ~owes
    BY <1>2, <2>2, SeqOver
  <2> QED BY <2>1, <2>2
<1>4. owed' \in Seq(Entries(owed'))
  BY <1>3, SeqOver DEF Entries
<1>5. ASSUME NEW j \in DOMAIN owed'
      PROVE  \/ j \in DOMAIN owed /\ owed'[j] = owed[j]
             \/ owes /\ j = n + 1 /\ owed'[j] = t
  BY <1>2, <1>3
<1>6. OwedTypes'
  <2>1. \A j \in DOMAIN owed' : owed'[j].kind = "periodic_review" =>
          /\ owed'[j].tick \in Int /\ owed'[j].evidence \in Int
          /\ owed'[j].evidence <= owed'[j].tick
    BY <1>5 DEF OwedInv, OwedTypes
  <2>2. \A f \in fingerprintSet' : f = <<f[1], f[2]>>
    BY <1>1 DEF OwedInv, OwedTypes
  <2> QED BY <1>4, <2>1, <2>2 DEF OwedInv, OwedTypes
<1>7. \A k, e : Told(k, e) => Told(k, e)'
  BY <1>2, <1>3 DEF Told
<1>8. owes => Told(t.kind, t.evidence)'
  BY <1>2, <1>3 DEF Told
<1>9. IdlenessTold'
  BY <1>1, <1>7, <1>8 DEF OwedInv, IdlenessTold
<1>10. ASSUME NEW f \in fingerprintSet', f[1] = "periodic_review"
       PROVE  /\ f[2] \in Int /\ f[2] <= tick
              /\ Told("periodic_review", f[2])' \/ f[2] <= lastReview
              /\ \A j \in DOMAIN owed' : owed'[j].kind = "periodic_review" =>
                   \/ f[2] <= owed'[j].tick
                   \/ \E k \in DOMAIN owed' :
                        k >= j /\ owed'[k].kind = "periodic_review" /\ owed'[k].evidence = f[2]
  <2>1. CASE f = f0
    <3>1. t.kind = "periodic_review" /\ f[2] = t.evidence /\ owes
      BY <1>1, <1>10, <2>1
    <3>2. n + 1 \in DOMAIN owed' /\ owed'[n + 1] = t /\ \A j \in DOMAIN owed' : n + 1 >= j
      BY <1>2, <1>3, <3>1
    <3> QED BY <1>8, <3>1, <3>2
  <2>2. CASE f # f0
    <3>1. f \in fingerprintSet
      BY <1>1, <1>10, <2>2
    <3>2. /\ f[2] \in Int /\ f[2] <= seen.tick
          /\ Told("periodic_review", f[2]) \/ f[2] <= lastReview
          /\ \A j \in DOMAIN owed : owed[j].kind = "periodic_review" =>
               \/ f[2] <= owed[j].tick
               \/ \E k \in DOMAIN owed :
                    k >= j /\ owed[k].kind = "periodic_review" /\ owed[k].evidence = f[2]
      BY <1>10, <3>1 DEF OwedInv, ReviewsTold
    <3>3. f[2] <= tick
      BY <1>2, <3>2
    <3>4. ASSUME NEW j \in DOMAIN owed', owed'[j].kind = "periodic_review"
          PROVE  \/ f[2] <= owed'[j].tick
                 \/ \E k \in DOMAIN owed' :
                      k >= j /\ owed'[k].kind = "periodic_review" /\ owed'[k].evidence = f[2]
      <4>1. CASE j \in DOMAIN owed /\ owed'[j] = owed[j]
        <5>1. CASE f[2] <= owed[j].tick
          BY <4>1, <5>1
        <5>2. ASSUME NEW k \in DOMAIN owed, k >= j, owed[k].kind = "periodic_review",
                     owed[k].evidence = f[2]
              PROVE  k \in DOMAIN owed' /\ owed'[k] = owed[k]
          BY <1>2, <1>3
        <5> QED BY <3>2, <3>4, <4>1, <5>1, <5>2
      <4>2. CASE owed'[j] = t
        BY <3>3, <4>2
      <4> QED BY <1>5, <4>1, <4>2
    <3> QED BY <1>7, <3>2, <3>3, <3>4
  <2> QED BY <2>1, <2>2
<1>11. ReviewsTold'
  BY <1>10 DEF ReviewsTold
<1> QED BY <1>6, <1>9, <1>11

\* Nothing is owed for what is not remembered.
LEMMA NothingRemembered ==
  ASSUME OwedInv, fingerprintSet' = {}, owed' = owed,
         lastReview' \in Int, idleSince' \in Int
  PROVE  OwedTypes' /\ IdlenessTold' /\ ReviewsTold'
BY DEF OwedInv, OwedTypes, IdlenessTold, ReviewsTold

\* A silent evaluation may put a last review of the future back to its own tick.
LEMMA SilenceKeeps ==
  ASSUME MemoryInv, OwedInv, NEW tick \in Int, seen'.tick = tick, seen.tick <= tick,
         fingerprintSet' = fingerprintSet, owed' = owed, idleSince' \in Int,
         lastReview' \in {lastReview, tick}
  PROVE  OwedTypes' /\ IdlenessTold' /\ ReviewsTold'
<1>1. seen.tick \in Int
  BY DEF MemoryInv, ThreatsArePast
<1>2. OwedTypes' /\ IdlenessTold'
  BY DEF OwedInv, OwedTypes, IdlenessTold, Told
<1>3. ReviewsTold'
  <2>1. ASSUME NEW f \in fingerprintSet, f[1] = "periodic_review"
        PROVE  /\ f[2] \in Int /\ f[2] <= tick
               /\ Told("periodic_review", f[2]) \/ f[2] <= lastReview'
    BY <1>1, <2>1 DEF OwedInv, ReviewsTold
  <2> QED BY <2>1 DEF OwedInv, ReviewsTold, Told
<1> QED BY <1>2, <1>3

\* One entry owed is acknowledged: the others stay owed, in their order.
LEMMA OthersStayOwed ==
  ASSUME OwedTypes, NEW i \in DOMAIN owed, owed' = RemoveAt(owed, i)
  PROVE  /\ owed' \in Seq(Entries(owed'))
         /\ \A j \in DOMAIN owed' : \E m \in DOMAIN owed :
              /\ m # i /\ owed'[j] = owed[m]
              /\ \A k \in DOMAIN owed : k >= m /\ k # i =>
                   \E l \in DOMAIN owed' : l >= j /\ owed'[l] = owed[k]
         /\ \A m \in DOMAIN owed \ {i} : \E j \in DOMAIN owed' : owed'[j] = owed[m]
<1> DEFINE n == Len(owed)
<1>1. owed \in Seq(Entries(owed))
  BY DEF OwedTypes
<1>2. /\ owed' \in Seq(Entries(owed)) /\ Len(owed') = n - 1
      /\ \A j \in 1..(n - 1) : owed'[j] = IF j < i THEN owed[j] ELSE owed[j + 1]
      /\ i \in 1..n /\ n \in Nat
  <2> DEFINE S == Entries(owed)
  <2>1. owed \in Seq(S)
    BY <1>1
  <2> HIDE DEF S
  <2>2. /\ RemoveAt(owed, i) \in Seq(S) /\ Len(RemoveAt(owed, i)) = n - 1
        /\ \A j \in 1..(n - 1) :
             RemoveAt(owed, i)[j] = IF j < i THEN owed[j] ELSE owed[j + 1]
        /\ i \in 1..n /\ n \in Nat
    BY <2>1, RemovedEntries
  <2> QED BY <2>2 DEF S
<1> HIDE DEF n
<1>3. DOMAIN owed' = 1..(n - 1) /\ DOMAIN owed = 1..n
  BY <1>1, <1>2 DEF n
<1>4. owed' \in Seq(Entries(owed'))
  BY <1>2, SeqOver DEF Entries
<1>5. ASSUME NEW k \in 1..n, k # i
      PROVE  LET l == IF k < i THEN k ELSE k - 1
             IN l \in 1..(n - 1) /\ owed'[l] = owed[k]
  BY <1>2, <1>5
<1>6. ASSUME NEW j \in 1..(n - 1)
      PROVE  \E m \in 1..n :
               /\ m # i /\ owed'[j] = owed[m]
               /\ \A k \in 1..n : k >= m /\ k # i =>
                    \E l \in 1..(n - 1) : l >= j /\ owed'[l] = owed[k]
  <2> DEFINE m == IF j < i THEN j ELSE j + 1
  <2>1. m \in 1..n /\ m # i /\ owed'[j] = owed[m]
    BY <1>2
  <2>2. ASSUME NEW k \in 1..n, k >= m, k # i
        PROVE  \E l \in 1..(n - 1) : l >= j /\ owed'[l] = owed[k]
    <3> DEFINE l == IF k < i THEN k ELSE k - 1
    <3>1. l \in 1..(n - 1) /\ owed'[l] = owed[k]
      BY <1>5, <2>2
    <3>2. l >= j
      BY <1>2, <2>2
    <3> QED BY <3>1, <3>2
  <2> QED BY <2>1, <2>2
<1>7. \A k \in 1..n : k # i => \E l \in 1..(n - 1) : owed'[l] = owed[k]
  BY <1>5
<1>8. \A m \in DOMAIN owed \ {i} : \E j \in DOMAIN owed' : owed'[j] = owed[m]
  BY <1>3, <1>7, Zenon
<1>9. \A j \in DOMAIN owed' : \E m \in DOMAIN owed :
        /\ m # i /\ owed'[j] = owed[m]
        /\ \A k \in DOMAIN owed : k >= m /\ k # i =>
             \E l \in DOMAIN owed' : l >= j /\ owed'[l] = owed[k]
  <2>1. SUFFICES ASSUME NEW j \in 1..(n - 1)
                 PROVE  \E m \in DOMAIN owed :
                          /\ m # i /\ owed'[j] = owed[m]
                          /\ \A k \in DOMAIN owed : k >= m /\ k # i =>
                               \E l \in DOMAIN owed' : l >= j /\ owed'[l] = owed[k]
    BY <1>3
  <2>2. PICK m \in 1..n :
          /\ m # i /\ owed'[j] = owed[m]
          /\ \A k \in 1..n : k >= m /\ k # i =>
               \E l \in 1..(n - 1) : l >= j /\ owed'[l] = owed[k]
    BY <1>6
  <2>3. \A k \in DOMAIN owed : k >= m /\ k # i =>
          \E l \in DOMAIN owed' : l >= j /\ owed'[l] = owed[k]
    BY <1>3, <2>2, Zenon
  <2> QED BY <1>3, <2>2, <2>3
<1> QED BY <1>4, <1>8, <1>9

\* What is acknowledged is the first of its kind that is owed.
LEMMA FirstIsFirst ==
  ASSUME OwedTypes, NEW kind, NEW i \in FirstOwed(kind)
  PROVE  /\ i \in DOMAIN owed /\ owed[i].kind = kind
         /\ DOMAIN owed \subseteq Nat
         /\ \A j \in DOMAIN owed : owed[j].kind = kind => j >= i
BY DEF FirstOwed, OwedTypes

\* The reviews that stay owed are witnesses as before; a review that only the
\* acknowledged one told is not after the new last review.
LEMMA ReviewAcknowledged ==
  ASSUME MemoryInv, OwedInv, AcknowledgeReview
  PROVE  OwedInv'
<1>1. PICK i \in FirstOwed("periodic_review") :
        lastReview' = owed[i].tick /\ owed' = RemoveAt(owed, i)
  BY DEF AcknowledgeReview
<1>2. UNCHANGED <<seen, fingerprintSet, idleSince, idleSignature>>
  BY DEF AcknowledgeReview
<1>3. /\ i \in DOMAIN owed /\ owed[i].kind = "periodic_review" /\ DOMAIN owed \subseteq Nat
      /\ \A j \in DOMAIN owed : owed[j].kind = "periodic_review" => j >= i
  BY FirstIsFirst DEF OwedInv
<1>4. /\ owed' \in Seq(Entries(owed'))
      /\ \A j \in DOMAIN owed' : \E m \in DOMAIN owed :
           /\ m # i /\ owed'[j] = owed[m]
           /\ \A k \in DOMAIN owed : k >= m /\ k # i =>
                \E l \in DOMAIN owed' : l >= j /\ owed'[l] = owed[k]
      /\ \A m \in DOMAIN owed \ {i} : \E j \in DOMAIN owed' : owed'[j] = owed[m]
  BY <1>1, <1>3, OthersStayOwed DEF OwedInv
<1>5. owed[i].tick \in Int /\ owed[i].evidence \in Int /\ owed[i].evidence <= owed[i].tick
  BY <1>3 DEF OwedInv, OwedTypes
<1>6. OwedTypes'
  BY <1>1, <1>2, <1>4, <1>5 DEF OwedInv, OwedTypes
<1>7. IdleKnown'
  BY <1>2 DEF OwedInv, IdleKnown
<1>8. ASSUME NEW k, NEW e, Told(k, e), ~(k = "periodic_review" /\ e = owed[i].evidence)
      PROVE  Told(k, e)'
  <2>1. PICK m \in DOMAIN owed : owed[m].kind = k /\ owed[m].evidence = e
    BY <1>8 DEF Told
  <2>2. m # i
    BY <1>3, <1>8, <2>1
  <2>3. PICK j \in DOMAIN owed' : owed'[j] = owed[m]
    BY <1>4, <2>2
  <2> QED BY <2>1, <2>3 DEF Told
<1>9. IdlenessTold'
  BY <1>2, <1>8 DEF OwedInv, IdlenessTold
<1>10. ASSUME NEW f \in fingerprintSet, f[1] = "periodic_review"
       PROVE  /\ f[2] \in Int /\ f[2] <= seen.tick
              /\ Told("periodic_review", f[2])' \/ f[2] <= owed[i].tick
              /\ \A j \in DOMAIN owed' : owed'[j].kind = "periodic_review" =>
                   \/ f[2] <= owed'[j].tick
                   \/ \E k \in DOMAIN owed' :
                        k >= j /\ owed'[k].kind = "periodic_review" /\ owed'[k].evidence = f[2]
  <2>1. /\ f[2] \in Int /\ f[2] <= seen.tick
        /\ \A j \in DOMAIN owed : owed[j].kind = "periodic_review" =>
             \/ f[2] <= owed[j].tick
             \/ \E k \in DOMAIN owed :
                  k >= j /\ owed[k].kind = "periodic_review" /\ owed[k].evidence = f[2]
    BY <1>10 DEF OwedInv, ReviewsTold
  <2>2. Told("periodic_review", f[2])' \/ f[2] <= owed[i].tick
    <3>1. CASE f[2] = owed[i].evidence
      BY <1>5, <3>1
    <3>2. CASE f[2] # owed[i].evidence
      <4>1. f[2] <= owed[i].tick \/ Told("periodic_review", f[2])
        BY <1>3, <2>1 DEF Told
      <4> QED BY <1>8, <3>2, <4>1
    <3> QED BY <3>1, <3>2
  <2>3. ASSUME NEW j \in DOMAIN owed', owed'[j].kind = "periodic_review"
        PROVE  \/ f[2] <= owed'[j].tick
               \/ \E k \in DOMAIN owed' :
                    k >= j /\ owed'[k].kind = "periodic_review" /\ owed'[k].evidence = f[2]
    <3>1. PICK m \in DOMAIN owed :
            /\ m # i /\ owed'[j] = owed[m]
            /\ \A k \in DOMAIN owed : k >= m /\ k # i =>
                 \E l \in DOMAIN owed' : l >= j /\ owed'[l] = owed[k]
      BY <1>4, <2>3
    <3>2. m >= i
      BY <1>3, <2>3, <3>1
    <3>3. CASE f[2] <= owed[m].tick
      BY <3>1, <3>3
    <3>4. ASSUME NEW k \in DOMAIN owed, k >= m, owed[k].kind = "periodic_review",
                 owed[k].evidence = f[2]
          PROVE  \E l \in DOMAIN owed' :
                   l >= j /\ owed'[l].kind = "periodic_review" /\ owed'[l].evidence = f[2]
      <4>1. k # i
        BY <1>3, <3>1, <3>2, <3>4
      <4>2. PICK l \in DOMAIN owed' : l >= j /\ owed'[l] = owed[k]
        BY <3>1, <3>4, <4>1
      <4> QED BY <3>4, <4>2
    <3> QED BY <2>1, <2>3, <3>1, <3>3, <3>4
  <2> QED BY <2>1, <2>2, <2>3
<1>11. ReviewsTold'
  BY <1>1, <1>2, <1>10 DEF ReviewsTold
<1> QED BY <1>6, <1>7, <1>9, <1>11 DEF OwedInv

\* Idleness that is acknowledged is no longer remembered.
LEMMA IdlenessAcknowledged ==
  ASSUME MemoryInv, OwedInv, AcknowledgeIdleness
  PROVE  OwedInv'
<1>1. PICK i \in FirstOwed("productive_idleness") :
        /\ fingerprintSet' = fingerprintSet \ {Fingerprint(owed[i])}
        /\ owed' = RemoveAt(owed, i)
  BY DEF AcknowledgeIdleness
<1>2. UNCHANGED <<seen, lastReview, idleSignature>> /\ idleSince' = seen.tick
  BY DEF AcknowledgeIdleness
<1>3. /\ i \in DOMAIN owed /\ owed[i].kind = "productive_idleness"
      /\ DOMAIN owed \subseteq Nat
  BY FirstIsFirst DEF OwedInv
<1>4. /\ owed' \in Seq(Entries(owed'))
      /\ \A j \in DOMAIN owed' : \E m \in DOMAIN owed :
           /\ m # i /\ owed'[j] = owed[m]
           /\ \A k \in DOMAIN owed : k >= m /\ k # i =>
                \E l \in DOMAIN owed' : l >= j /\ owed'[l] = owed[k]
      /\ \A m \in DOMAIN owed \ {i} : \E j \in DOMAIN owed' : owed'[j] = owed[m]
  BY <1>1, <1>3, OthersStayOwed DEF OwedInv
<1>5. OwedTypes'
  BY <1>1, <1>2, <1>4 DEF OwedInv, OwedTypes, MemoryInv, ThreatsArePast
<1>6. IdleKnown'
  BY <1>2 DEF OwedInv, IdleKnown
<1>7. ASSUME NEW k, NEW e, Told(k, e), ~(k = "productive_idleness" /\ e = owed[i].evidence)
      PROVE  Told(k, e)'
  <2>1. PICK m \in DOMAIN owed : owed[m].kind = k /\ owed[m].evidence = e
    BY <1>7 DEF Told
  <2>2. m # i
    BY <1>3, <1>7, <2>1
  <2>3. PICK j \in DOMAIN owed' : owed'[j] = owed[m]
    BY <1>4, <2>2
  <2> QED BY <2>1, <2>3 DEF Told
<1>8. IdlenessTold'
  <2>1. ASSUME NEW f \in fingerprintSet', f[1] = "productive_idleness"
        PROVE  Told(f[1], f[2])'
    <3>1. /\ f \in fingerprintSet /\ f # <<owed[i].kind, owed[i].evidence>>
          /\ f = <<f[1], f[2]>>
      BY <1>1, <2>1 DEF Fingerprint, OwedInv, OwedTypes
    <3>2. f[2] # owed[i].evidence
      BY <1>3, <2>1, <3>1
    <3>3. Told(f[1], f[2])
      BY <2>1, <3>1 DEF OwedInv, IdlenessTold
    <3> QED BY <1>7, <3>2, <3>3
  <2> QED BY <2>1 DEF IdlenessTold
<1>9. ASSUME NEW f \in fingerprintSet, f[1] = "periodic_review"
      PROVE  /\ f[2] \in Int /\ f[2] <= seen.tick
             /\ Told("periodic_review", f[2])' \/ f[2] <= lastReview
             /\ \A j \in DOMAIN owed' : owed'[j].kind = "periodic_review" =>
                  \/ f[2] <= owed'[j].tick
                  \/ \E k \in DOMAIN owed' :
                       k >= j /\ owed'[k].kind = "periodic_review" /\ owed'[k].evidence = f[2]
  <2>1. /\ f[2] \in Int /\ f[2] <= seen.tick
        /\ Told("periodic_review", f[2]) \/ f[2] <= lastReview
        /\ \A j \in DOMAIN owed : owed[j].kind = "periodic_review" =>
             \/ f[2] <= owed[j].tick
             \/ \E k \in DOMAIN owed :
                  k >= j /\ owed[k].kind = "periodic_review" /\ owed[k].evidence = f[2]
    BY <1>9 DEF OwedInv, ReviewsTold
  <2>2. Told("periodic_review", f[2])' \/ f[2] <= lastReview
    BY <1>7, <2>1
  <2>3. ASSUME NEW j \in DOMAIN owed', owed'[j].kind = "periodic_review"
        PROVE  \/ f[2] <= owed'[j].tick
               \/ \E k \in DOMAIN owed' :
                    k >= j /\ owed'[k].kind = "periodic_review" /\ owed'[k].evidence = f[2]
    <3>1. PICK m \in DOMAIN owed :
            /\ m # i /\ owed'[j] = owed[m]
            /\ \A k \in DOMAIN owed : k >= m /\ k # i =>
                 \E l \in DOMAIN owed' : l >= j /\ owed'[l] = owed[k]
      BY <1>4, <2>3
    <3>2. ASSUME NEW k \in DOMAIN owed, k >= m, owed[k].kind = "periodic_review",
                 owed[k].evidence = f[2]
          PROVE  \E l \in DOMAIN owed' :
                   l >= j /\ owed'[l].kind = "periodic_review" /\ owed'[l].evidence = f[2]
      <4>1. k # i
        BY <1>3, <3>2
      <4>2. PICK l \in DOMAIN owed' : l >= j /\ owed'[l] = owed[k]
        BY <3>1, <3>2, <4>1
      <4> QED BY <3>2, <4>2
    <3> QED BY <2>1, <2>3, <3>1, <3>2
  <2> QED BY <2>1, <2>2, <2>3
<1>10. ReviewsTold'
  BY <1>1, <1>2, <1>9 DEF ReviewsTold
<1> QED BY <1>5, <1>6, <1>8, <1>10 DEF OwedInv

\* A candidate is of this tick, and no review: those come last.
LEMMA CandidateKinds ==
  ASSUME NEW old, NEW new, NEW ctx, NEW tick, NEW progress, NEW risk,
         NEW t \in Candidates(old, new, ctx, tick, progress, risk)
  PROVE  t.tick = tick /\ t.kind \notin {"periodic_review", "none"}
<1>1. t \in NewThreats(old, new, tick) \/ Other(t, tick)
  BY OtherCandidates
<1>2. ASSUME NEW k \in DOMAIN KindOrder, NEW e, k # "periodic_review", t = Trigger(k, tick, e)
      PROVE  t.tick = tick /\ t.kind \notin {"periodic_review", "none"}
  <2>1. t.kind = k /\ t.tick = tick
    BY <1>2, Places
  <2>2. k # "none"
    BY <1>2 DEF KindOrder
  <2> QED BY <1>2, <2>1, <2>2
<1>3. CASE t \in NewThreats(old, new, tick)
  <2>1. PICK e : t = Trigger("new_threat", tick, e)
    BY <1>3 DEF NewThreats
  <2>2. "new_threat" \in DOMAIN KindOrder
    BY DEF KindOrder
  <2> QED BY <1>2, <2>1, <2>2
<1>4. CASE Other(t, tick)
  BY <1>2, <1>4 DEF Other, OtherKinds
<1> QED BY <1>1, <1>3, <1>4

\* A poll that tells nothing has nothing to tell that is not owed.
Silence(s, tick) ==
  /\ \/ s.paused \/ tick < lastReview + ReviewInterval
     \/ Told("periodic_review", lastReview + ReviewInterval)
  /\ \/ s.idle = {} \/ s.idle # seen.is.idle
     \/ idleSince = Never \/ tick - idleSince < IdlePersistence
     \/ Told("productive_idleness", s.idle)

LEMMA EvaluateOwes ==
  ASSUME MemoryInv, OwedInv, seen # NotSeen, NEW s, NEW ctx, NEW tick \in Int,
         Evaluate(seen.is, s, ctx, tick),
         seen'.tick = tick, seen'.is = s, seen.tick <= tick
  PROVE  OwedInv' /\ (decision' = NoTrigger => Silence(s, tick))
<1> DEFINE idle == Trigger("productive_idleness", tick, s.idle)
           review == Trigger("periodic_review", tick, lastReview + ReviewInterval)
<1>1. PICK progress, risk :
        \E all \in {Candidates(seen.is, s, ctx, tick, progress, risk)
                   \cup (IF IdleFor(s, tick) THEN {idle} ELSE {})} :
        \E unknown \in {{t \in all : Fingerprint(t) \notin fingerprintSet}} :
          /\ TrackIdleness(s, tick)
          /\ IF unknown = {} THEN ReviewOrNothing(s, tick)
             ELSE /\ \E t \in unknown : (\A u \in unknown : t.rank <= u.rank) /\ Emit(t)
                  /\ UNCHANGED lastReview
  BY DEF Evaluate
<1> DEFINE candidates == Candidates(seen.is, s, ctx, tick, progress, risk)
           all == candidates \cup (IF IdleFor(s, tick) THEN {idle} ELSE {})
           unknown == {t \in all : Fingerprint(t) \notin fingerprintSet}
<1>2. /\ TrackIdleness(s, tick)
      /\ IF unknown = {} THEN ReviewOrNothing(s, tick)
         ELSE (\E t \in unknown : Emit(t)) /\ lastReview' = lastReview
  BY <1>1
<1>3. /\ idle.kind = "productive_idleness" /\ idle.tick = tick /\ idle.evidence = s.idle
      /\ review.kind = "periodic_review" /\ review.tick = tick
      /\ review.evidence = lastReview + ReviewInterval
  BY DEF Trigger
<1> HIDE DEF idle, review
<1>4. \A t \in all : t.tick = tick /\ t.kind \notin {"periodic_review", "none"}
  <2>1. ASSUME NEW t \in candidates
        PROVE  t.tick = tick /\ t.kind \notin {"periodic_review", "none"}
    BY <2>1, CandidateKinds
  <2> HIDE DEF candidates
  <2> QED BY <1>3, <2>1
<1>5. IdleFor(s, tick) => idle \in all
  OBVIOUS
<1> HIDE DEF candidates, all
<1>6. /\ lastReview \in Int /\ idleSince \in Int /\ ReviewInterval \in Nat \ {0}
      /\ IdlePersistence \in Nat \ {0}
      /\ idleSince' \in Int /\ IdleKnown'
  BY <1>2, IdlenessTracked, TriggerAssumption DEF OwedInv, OwedTypes
<1>7. NoTrigger.kind = "none"
  BY DEF NoTrigger
<1>8. CASE unknown # {}
  <2>1. PICK t \in unknown : Emit(t) /\ lastReview' = lastReview
    BY <1>2, <1>8
  <2>2. OwedTypes' /\ IdlenessTold' /\ ReviewsTold'
    BY <1>4, <1>6, <2>1, EmitOwes
  <2>3. decision' = t
    BY <2>1 DEF Emit
  <2> QED BY <1>4, <1>6, <1>7, <2>1, <2>2, <2>3 DEF OwedInv
<1>9. CASE unknown = {}
  <2> DEFINE due == ~s.paused /\ lastReview <= tick /\ tick >= lastReview + ReviewInterval
  <2>1. /\ lastReview' = IF ~s.paused /\ tick < lastReview THEN tick ELSE lastReview
        /\ IF due /\ Fingerprint(review) \notin fingerprintSet
             THEN Emit(review)
             ELSE decision' = NoTrigger /\ fingerprintSet' = fingerprintSet /\ owed' = owed
    BY <1>2, <1>9 DEF ReviewOrNothing, review
  <2>2. CASE due /\ Fingerprint(review) \notin fingerprintSet
    <3>1. Emit(review) /\ lastReview' = lastReview /\ lastReview + ReviewInterval \in Int
      BY <1>6, <2>1, <2>2
    <3>2. OwedTypes' /\ IdlenessTold' /\ ReviewsTold'
      BY <1>3, <1>6, <2>2, <3>1, EmitOwes
    <3>3. decision' = review
      BY <3>1 DEF Emit
    <3> QED BY <1>3, <1>6, <1>7, <3>2, <3>3 DEF OwedInv
  <2>3. CASE ~(due /\ Fingerprint(review) \notin fingerprintSet)
    <3>1. /\ fingerprintSet' = fingerprintSet /\ owed' = owed
          /\ lastReview' \in {lastReview, tick}
      BY <2>1, <2>3
    <3>2. OwedTypes' /\ IdlenessTold' /\ ReviewsTold'
      BY <1>6, <3>1, SilenceKeeps
    <3>3. \/ s.paused \/ tick < lastReview + ReviewInterval
          \/ Told("periodic_review", lastReview + ReviewInterval)
      <4>1. SUFFICES ASSUME ~s.paused, tick >= lastReview + ReviewInterval
                     PROVE  Told("periodic_review", lastReview + ReviewInterval)
        BY <1>6
      <4>2. due
        BY <1>6, <4>1
      <4>3. Fingerprint(review) \in fingerprintSet
        BY <2>3, <4>2
      <4> DEFINE f == Fingerprint(review)
      <4>4. f[1] = "periodic_review" /\ f[2] = lastReview + ReviewInterval
        BY <1>3 DEF Fingerprint
      <4> HIDE DEF f
      <4>5. Told("periodic_review", f[2]) \/ f[2] <= lastReview
        BY <4>3, <4>4 DEF OwedInv, ReviewsTold, f
      <4> QED BY <1>6, <4>4, <4>5
    <3>4. \/ s.idle = {} \/ s.idle # seen.is.idle
          \/ idleSince = Never \/ tick - idleSince < IdlePersistence
          \/ Told("productive_idleness", s.idle)
      <4>1. SUFFICES ASSUME s.idle # {}, s.idle = seen.is.idle, idleSince # Never,
                            tick - idleSince >= IdlePersistence
                     PROVE  Told("productive_idleness", s.idle)
        BY <1>6
      <4>2. idleSignature = s.idle
        BY <4>1 DEF OwedInv, IdleKnown
      <4>3. IdleFor(s, tick)
        BY <1>6, <4>1, <4>2 DEF IdleFor
      <4>4. Fingerprint(idle) \in fingerprintSet
        BY <1>5, <1>9, <4>3
      <4> DEFINE f == Fingerprint(idle)
      <4>5. f[1] = "productive_idleness" /\ f[2] = s.idle
        BY <1>3 DEF Fingerprint
      <4> QED BY <4>4, <4>5 DEF OwedInv, IdlenessTold
    <3> QED BY <1>6, <3>2, <3>3, <3>4 DEF OwedInv, Silence
  <2> QED BY <2>2, <2>3
<1> QED BY <1>8, <1>9

\* One observation: everything remembered stays owed, and silence is accounted for.
LEMMA ObserveOwes ==
  ASSUME MemoryInv, OwedInv, ObserveOnce
  PROVE  /\ OwedInv'
         /\ /\ seen # NotSeen /\ Compatible(seen, seen') /\ decision' = NoTrigger
            => Silence(seen'.is, seen'.tick)
<1>1. PICK s \in Snapshots, tick \in 0..MaxTick :
        LET now == [is |-> s, tick |-> tick]
        IN /\ seen' = now
           /\ \E ctx : IF seen # NotSeen /\ Compatible(seen, now)
                         THEN Evaluate(seen.is, s, ctx, tick) ELSE Establish(s, tick)
  BY DEF ObserveOnce
<1> DEFINE now == [is |-> s, tick |-> tick]
<1>2. now.is = s /\ now.tick = tick /\ tick \in Int
  BY TriggerAssumption
<1> HIDE DEF now
<1>3. PICK ctx : IF seen # NotSeen /\ Compatible(seen, now)
                   THEN Evaluate(seen.is, s, ctx, tick) ELSE Establish(s, tick)
  BY <1>1 DEF now
<1>4. seen' = now
  BY <1>1 DEF now
<1>5. CASE seen # NotSeen /\ Compatible(seen, now)
  <2>1. Evaluate(seen.is, s, ctx, tick) /\ seen'.tick = tick /\ seen'.is = s
    BY <1>2, <1>3, <1>4, <1>5
  <2>2. seen.tick <= tick
    BY <1>2, <1>5 DEF Compatible, MemoryInv, ThreatsArePast
  <2> QED BY <1>2, <1>5, <2>1, <2>2, EvaluateOwes
<1>6. CASE ~(seen # NotSeen /\ Compatible(seen, now))
  <2>1. Establish(s, tick)
    BY <1>3, <1>6
  <2>2. /\ fingerprintSet' = {} /\ owed' = owed /\ lastReview' \in Int
        /\ idleSince' \in Int /\ idleSignature' = s.idle
    BY <1>2, <2>1 DEF Establish, Never
  <2>3. OwedTypes' /\ IdlenessTold' /\ ReviewsTold'
    BY <2>2, NothingRemembered
  <2>4. IdleKnown'
    BY <1>2, <1>4, <2>2 DEF IdleKnown
  <2> QED BY <1>4, <1>6, <2>3, <2>4 DEF OwedInv
<1> QED BY <1>5, <1>6

LEMMA OwedStep ==
  ASSUME MemoryInv, OwedInv, [Next]_vars
  PROVE  OwedInv'
<1>1. CASE ObserveOnce
  BY <1>1, ObserveOwes
<1>2. CASE AcknowledgeReview
  BY <1>2, ReviewAcknowledged
<1>3. CASE AcknowledgeIdleness
  BY <1>3, IdlenessAcknowledged
<1>4. CASE UNCHANGED vars
  BY <1>4 DEF vars, memory, OwedInv, OwedTypes, IdleKnown, IdlenessTold, ReviewsTold, Told,
     Entries
<1> QED BY <1>1, <1>2, <1>3, <1>4 DEF Next

LEMMA OwedInit == Init => OwedInv
<1>1. <<>> \in Seq(Entries(<<>>)) /\ DOMAIN <<>> = {}
  OBVIOUS
<1> QED
  BY <1>1 DEF Init, OwedInv, OwedTypes, IdleKnown, IdlenessTold, ReviewsTold, Never, NotSeen

-----------------------------------------------------------------------------
(* The theorems                                                            *)

LEMMA MemoryInit == Init => MemoryInv
<1>1. <<>> \in Seq({}) /\ Len(<<>>) = 0 /\ MaxFingerprints \in Nat
  BY TriggerAssumption
<1> QED BY <1>1 DEF Init, MemoryInv, QueueAndSetAgree, ThreatsArePast, NotSeen

\* Idleness that is acknowledged leaves the queue and the set.
LEMMA IdlenessStep ==
  ASSUME MemoryInv, AcknowledgeIdleness
  PROVE  MemoryInv'
<1>1. PICK n \in FirstOwed("productive_idleness") :
        /\ fingerprintSet' = fingerprintSet \ {Fingerprint(owed[n])}
        /\ fingerprints' = Forgotten(Fingerprint(owed[n]))
        /\ seen' = seen
  BY DEF AcknowledgeIdleness
<1> DEFINE f == Fingerprint(owed[n])
<1> HIDE DEF f
<1>2. fingerprintSet' = fingerprintSet \ {f} /\ fingerprints' = Forgotten(f)
  BY <1>1 DEF f
<1>3. /\ Injective(fingerprints) /\ Entries(fingerprints) = fingerprintSet
      /\ Len(fingerprints) <= MaxFingerprints /\ Len(fingerprints) \in Nat
      /\ fingerprints \in Seq(fingerprintSet) /\ MaxFingerprints \in Nat
  BY TriggerAssumption DEF MemoryInv, QueueAndSetAgree, Injective, Entries
<1>4. ThreatsArePast'
  BY <1>1, <1>2 DEF MemoryInv, ThreatsArePast
<1>5. CASE \E i \in DOMAIN fingerprints : fingerprints[i] = f
  <2> DEFINE i == CHOOSE j \in DOMAIN fingerprints : fingerprints[j] = f
  <2>1. i \in DOMAIN fingerprints /\ fingerprints[i] = f
    BY <1>5
  <2>2. fingerprints' = RemoveAt(fingerprints, i)
    BY <1>2, <1>5 DEF Forgotten
  <2> HIDE DEF i
  <2>3. /\ RemoveAt(fingerprints, i) \in Seq(fingerprintSet \ {f})
        /\ Injective(RemoveAt(fingerprints, i))
        /\ Entries(RemoveAt(fingerprints, i)) = fingerprintSet \ {f}
        /\ Len(RemoveAt(fingerprints, i)) = Len(fingerprints) - 1
    <3>1. /\ RemoveAt(fingerprints, i) \in Seq(fingerprintSet \ {fingerprints[i]})
          /\ Injective(RemoveAt(fingerprints, i))
          /\ Entries(RemoveAt(fingerprints, i)) = fingerprintSet \ {fingerprints[i]}
          /\ Len(RemoveAt(fingerprints, i)) = Len(fingerprints) - 1
      BY <1>3, <2>1, RemoveOne, Zenon
    <3> QED BY <2>1, <3>1
  <2>4. QueueAndSetAgree'
    BY <1>2, <1>3, <2>2, <2>3 DEF QueueAndSetAgree, Injective, Entries
  <2> QED BY <1>2, <1>4, <2>2, <2>3, <2>4 DEF MemoryInv
<1>6. CASE ~\E i \in DOMAIN fingerprints : fingerprints[i] = f
  <2>1. fingerprintSet \ {f} = fingerprintSet
    BY <1>3, <1>6 DEF Entries
  <2>2. UNCHANGED <<fingerprints, fingerprintSet>>
    BY <1>2, <1>6, <2>1 DEF Forgotten
  <2> QED BY <1>1, <2>2, SameMemory DEF MemoryInv, ThreatsArePast
<1> QED BY <1>5, <1>6

\* One observation: the memory is kept, and a threat that appears is told.
LEMMA ObserveStep ==
  ASSUME MemoryInv, ObserveOnce
  PROVE  /\ MemoryInv'
         /\ /\ seen # NotSeen /\ Compatible(seen, seen') /\ seen'.tick > seen.tick
            /\ seen'.is.threats \ seen.is.threats # {}
            => decision'.urgent
<1>1. PICK s \in Snapshots, tick \in 0..MaxTick :
        LET now == [is |-> s, tick |-> tick]
        IN /\ seen' = now
           /\ \E ctx : IF seen # NotSeen /\ Compatible(seen, now)
                         THEN Evaluate(seen.is, s, ctx, tick) ELSE Establish(s, tick)
  BY DEF ObserveOnce
<1> DEFINE now == [is |-> s, tick |-> tick]
<1>2. now.is = s /\ now.tick = tick /\ tick \in Int
  BY TriggerAssumption
<1> HIDE DEF now
<1>3. PICK ctx : IF seen # NotSeen /\ Compatible(seen, now)
                   THEN Evaluate(seen.is, s, ctx, tick) ELSE Establish(s, tick)
  BY <1>1 DEF now
<1>4. seen' = now
  BY <1>1 DEF now
<1>5. CASE seen # NotSeen /\ Compatible(seen, now)
  <2>1. Evaluate(seen.is, s, ctx, tick)
    BY <1>3, <1>5
  <2>2. seen'.tick = tick /\ seen.tick <= tick
    BY <1>2, <1>4, <1>5 DEF Compatible, MemoryInv, ThreatsArePast
  <2>3. /\ \/ \E t : Tellable(t, tick) /\ Emit(t)
           \/ UNCHANGED <<fingerprints, fingerprintSet>>
        /\ tick > seen.tick /\ s.threats \ seen.is.threats # {} => decision'.urgent
    BY <1>2, <2>1, EvaluateTells
  <2>4. CASE UNCHANGED <<fingerprints, fingerprintSet>>
    BY <1>2, <1>4, <2>2, <2>3, <2>4, SameMemory
  <2>5. CASE \E t : Tellable(t, tick) /\ Emit(t)
    BY <1>2, <1>4, <2>2, <2>3, <2>5, EmitKeeps
  <2> QED BY <2>3, <2>4, <2>5
<1>6. CASE ~(seen # NotSeen /\ Compatible(seen, now))
  <2>1. fingerprints' = <<>> /\ fingerprintSet' = {} /\ seen'.tick \in Int
    BY <1>2, <1>3, <1>4, <1>6 DEF Establish
  <2> QED BY <1>4, <1>6, <2>1, EmptyMemory
<1> QED BY <1>5, <1>6

LEMMA MemoryStep ==
  ASSUME MemoryInv, [Next]_vars
  PROVE  MemoryInv'
<1>1. CASE ObserveOnce
  BY <1>1, ObserveStep
<1>2. CASE AcknowledgeReview
  BY <1>2, SameMemory DEF AcknowledgeReview, MemoryInv, ThreatsArePast
<1>3. CASE AcknowledgeIdleness
  BY <1>3, IdlenessStep
<1>4. CASE UNCHANGED vars
  BY <1>4, SameMemory DEF vars, memory, MemoryInv, ThreatsArePast
<1> QED BY <1>1, <1>2, <1>3, <1>4 DEF Next

(* The queue and the set of remembered fingerprints always agree, for any    *)
(* limit and any sequence of observations and acknowledgements (_remember,   *)
(* acknowledge_trigger, _establish_baseline).                                *)
THEOREM MemoryConsistent == Spec => []QueueAndSetAgree
<1>1. MemoryInv => QueueAndSetAgree
  BY DEF MemoryInv
<1> QED BY <1>1, MemoryInit, MemoryStep, PTL DEF Spec

(* A threat that appears while game time passes is told as something urgent, *)
(* whatever the colony is like and however full the memory is.               *)
THEOREM ThreatsAreTold == Spec => ReturningThreatIsTold
<1> DEFINE P == (Polls /\ seen'.tick > seen.tick /\ seen'.is.threats \ seen.is.threats # {})
                  => decision'.urgent
<1>1. ASSUME MemoryInv, [Next]_vars PROVE [P]_vars
  <2>1. CASE ObserveOnce
    BY <1>1, <2>1, ObserveStep DEF Polls
  <2>2. CASE AcknowledgeReview
    BY <2>2 DEF AcknowledgeReview, Polls
  <2>3. CASE AcknowledgeIdleness
    BY <2>3 DEF AcknowledgeIdleness, Polls
  <2>4. CASE UNCHANGED vars
    BY <2>4
  <2> HIDE DEF P
  <2> QED BY <1>1, <2>1, <2>2, <2>3, <2>4 DEF Next
<1> QED BY <1>1, MemoryInit, MemoryStep, PTL DEF Spec, ReturningThreatIsTold

(* Reviews and idleness are never lost: a poll that tells nothing although   *)
(* one is due is silent about what was told and nobody acknowledged, for any *)
(* intervals, limits and orders of observations, reloads and                 *)
(* acknowledgements.                                                         *)
THEOREM NothingDueIsLost == Spec => SilenceIsOwed
<1> DEFINE P == (Polls /\ decision' = NoTrigger) => Silence(seen'.is, seen'.tick)
<1>1. ASSUME MemoryInv, OwedInv, [Next]_vars PROVE [P]_vars
  <2>1. CASE ObserveOnce
    BY <1>1, <2>1, ObserveOwes DEF Polls
  <2>2. CASE AcknowledgeReview
    BY <2>2 DEF AcknowledgeReview, Polls
  <2>3. CASE AcknowledgeIdleness
    BY <2>3 DEF AcknowledgeIdleness, Polls
  <2>4. CASE UNCHANGED vars
    BY <2>4
  <2> HIDE DEF P
  <2> QED BY <1>1, <2>1, <2>2, <2>3, <2>4 DEF Next
<1> QED
  BY <1>1, MemoryInit, MemoryStep, OwedInit, OwedStep, PTL
     DEF Spec, SilenceIsOwed, Silence

=============================================================================
