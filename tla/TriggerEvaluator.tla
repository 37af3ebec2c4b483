-------------------------- MODULE TriggerEvaluator --------------------------
(***************************************************************************)
(* The passive observer: two successive observations of the game are       *)
(* compared, one trigger at most is emitted for what changed, and what was *)
(* emitted is remembered (Controller/decision_trigger.py,                  *)
(* state_observer.py and the loop of observe.py).                          *)
(*                                                                         *)
(* An observation is a snapshot (a record of StrategicProjects with the    *)
(* fields this module adds: threats, pawns, notices, resources, idle,      *)
(* paused, of one stream) with its tick.  A trigger is a       *)
(* record; its kind and evidence are its fingerprint, and the evidence     *)
(* here keeps the fields that make fingerprints differ.                    *)
(***************************************************************************)
EXTENDS StrategicProjects, RiskTracking

CONSTANTS
  Snapshots,             \* bound: what may be observed
  Contexts,              \* bound: the files of a colony when it is activated
  ReviewInterval, IdlePersistence, MaxFingerprints,
  MaxTick, MaxPolls                  \* bounds

ASSUME TriggerAssumption ==
  /\ ReviewInterval \in Nat \ {0} /\ IdlePersistence \in Nat \ {0}
  /\ MaxFingerprints \in Nat \ {0}
  /\ MaxTick \in Nat /\ MaxPolls \in Nat

VARIABLES
  seen,             \* StateObserver._current
  context,          \* handoff, stall and risk metadata, as the store loaded them
  fingerprints,     \* _fingerprints, the oldest first
  fingerprintSet,   \* _fingerprint_set
  lastReview, idleSince, idleSignature,
  decision,         \* what the last poll returned
  owed,             \* history: reviews and idleness told and not acknowledged, in order
  polls             \* bound

memory == <<fingerprints, fingerprintSet, lastReview, idleSince, idleSignature>>
vars == <<seen, context, memory, decision, owed, polls>>

NotSeen == [tick |-> -1]
Never == -1
NoContext == [projects |-> <<>>, stall |-> <<>>, risk |-> <<>>]

NoTrigger == [kind |-> "none", rank |-> 99, urgent |-> FALSE, tick |-> Never, evidence |-> <<>>]

-----------------------------------------------------------------------------
(* Candidates                                                              *)

\* KIND_ORDER; the others by their names.  Urgent ones are sorted first.
KindOrder ==
  [colonist_downed |-> 0, risk_escalation |-> 1, new_threat |-> 2, threat_increase |-> 3,
   project_task_satisfied |-> 10, blocker_cleared |-> 11, project_task_stalled |-> 12,
   construction_blocked |-> 13, research_complete |-> 14, construction_complete |-> 15,
   productive_idleness |-> 20,
   colony_membership_changed |-> 50, crops_harvestable |-> 51, designation_complete |-> 52,
   idle_actionable_work |-> 53, important_awareness |-> 54, periodic_review |-> 55,
   resource_deterioration |-> 56, sowing_complete |-> 57]

Trigger(kind, tick, evidence) ==
  [kind |-> kind, rank |-> KindOrder[kind], urgent |-> KindOrder[kind] <= 3,
   tick |-> tick, evidence |-> evidence]

Fingerprint(t) == <<t.kind, t.evidence>>

\* Mutant: a threat is told once, not once for each time it comes.
MutNewThreats(old, new, tick) ==
  {Trigger("new_threat", tick, id) : id \in new.threats \ old.threats}

\* The count of threats cannot grow without a new one: threat_increase is never
\* a candidate.
NewThreats(old, new, tick) ==
  {Trigger("new_threat", tick, <<id, tick>>) : id \in new.threats \ old.threats}

NewlyDowned(old, new, tick) ==
  {Trigger("colonist_downed", tick, p) :
     p \in {q \in DOMAIN old.pawns \cap DOMAIN new.pawns :
              ~old.pawns[q].downed /\ new.pawns[q].downed}}

\* risk_identity of first_urgent_risk: one of the most urgent, by its name.
FirstUrgentRisk(items) ==
  LET k == CHOOSE j \in DOMAIN items : Triage[items[j].triage] = OverallTriage(items)
  IN <<k, items[k].triage>>

\* before is the risk of the old snapshot compared with itself, now that of the
\* new one compared with the old.
RiskEscalations(before, now, tick) ==
  LET worse == {k \in DOMAIN now \cap DOMAIN before :
                  /\ Triage[now[k].triage] >= Triage.urgent
                  /\ \/ now[k].severity - before[k].severity >= 10
                     \/ Triage[now[k].triage] > Triage[before[k].triage]}
  IN IF Interrupts(now) /\ OverallTriage(now) > OverallTriage(before)
       THEN {Trigger("risk_escalation", tick, <<"overall", OverallTriage(now), FirstUrgentRisk(now)>>)}
       ELSE {Trigger("risk_escalation", tick,
                     <<"item", (now[k].severity + 5) \div 10, <<k, now[k].triage>> >>) : k \in worse}

\* The whole signal is the evidence.
SignalTriggers(progress, tick) ==
  LET Of(type) == {s \in Elements(progress.signals) : s.type = type}
  IN {Trigger("research_complete", tick, s) : s \in Of("researchCompleted")}
     \cup {Trigger("blocker_cleared", tick, s) : s \in Of("blockerCleared")}
     \cup {Trigger("construction_complete", tick, s) :
             s \in {x \in Of("constructionAdvanced") : x.to = "building"}}
     \cup {Trigger("designation_complete", tick, s) :
             s \in {x \in Of("designationCountChanged") : x.to < x.from}}
     \cup {Trigger("sowing_complete", tick, s) :
             s \in {x \in Of("growingZoneAdvanced") :
                      x.to.complete /\ x.from.phase \notin {"planted", "harvestable"}}}
     \cup {Trigger("crops_harvestable", tick, s) :
             s \in {x \in Of("growingZoneAdvanced") :
                      x.to.phase = "harvestable" /\ x.from.phase # "harvestable"}}

MembershipChange(old, new, tick) ==
  LET joined == DOMAIN new.pawns \ DOMAIN old.pawns
      left == DOMAIN old.pawns \ DOMAIN new.pawns
  IN {Trigger("colony_membership_changed", tick, <<joined, left>>) :
        x \in {y \in {joined \cup left} : y # {}}}

\* new_awareness_entries: alerts, then letters, then events that matter; only
\* the first is told.
ImportantAwareness(old, new, tick) ==
  LET Came(field) == {i \in new.notices[field] \ old.notices[field] :
                        field # "events" \/ i.severe}
      fields == {f \in {"alerts", "letters", "events"} : Came(f) # {}}
      first == IF "alerts" \in fields THEN "alerts"
               ELSE IF "letters" \in fields THEN "letters" ELSE "events"
  IN IF fields = {} THEN {}
     ELSE {Trigger("important_awareness", tick, CHOOSE i \in Came(first) : TRUE)}

\* resource_deterioration: the first that holds.
FoodLimits == <<20, 10, 5>>

Stocks == <<[name |-> "wood", drop |-> 25], [name |-> "steel", drop |-> 50],
            [name |-> "components", drop |-> 3], [name |-> "medicine", drop |-> 3]>>

ResourceDeterioration(old, new, tick) ==
  LET Told(name, limit) == Trigger("resource_deterioration", tick,
                             <<name, limit, old.resources[name], new.resources[name]>>)
      food == SelectSeq(FoodLimits, LAMBDA l : old.resources["food"] >= l /\ l > new.resources["food"])
      stocks == SelectSeq(Stocks, LAMBDA s :
                  /\ old.resources[s.name] > 0
                  /\ new.resources[s.name] * 2 <= old.resources[s.name]
                  /\ old.resources[s.name] - new.resources[s.name] >= s.drop)
  IN CASE food # <<>> -> {Told("food", Head(food))}
       [] food = <<>> /\ stocks # <<>> -> {Told(Head(stocks).name, 0)}
       [] OTHER -> {}

\* Only while construction is pending; a blocker about building is one whose
\* categories say so.
NewConstructionBlocker(old, new, tick) ==
  LET came == {b \in new.blockers \ old.blockers : "construction" \in Meaning[b].categories}
  IN IF came = {} \/ new.pending["blueprints"] + new.pending["frames"] = 0 THEN {}
     ELSE {Trigger("construction_blocked", tick, CHOOSE b \in came : TRUE)}

\* project_transition_candidates: what the state satisfies now and did not
\* before, as far as each snapshot says it.
SatisfiedTasks(projects, before, progress, tick) ==
  UNION {{Trigger("project_task_satisfied", tick,
                  <<t.id, AuthoritativeCompletionFor(t.text, progress),
                    {u.id : u \in {v \in Elements(p.tasks) : t.id \in v.dependsOn}}>>) :
            t \in {u \in Elements(p.tasks) :
                     /\ u.status \notin {"completed", "background"} /\ u.mode # "background"
                     /\ AuthoritativeCompletionFor(u.text, before) = {}
                     /\ AuthoritativeCompletionFor(u.text, progress) # {}}} :
           p \in Elements(projects)}

ProjectTransitions(view, new, tick) ==
  LET stalled == UNION {{<<p.id, id>> : id \in p.stalled} : p \in view.projects}
      available == UNION {p.available : p \in view.projects}
  IN {Trigger("project_task_stalled", tick, t) : t \in stalled}
     \cup {Trigger("idle_actionable_work", tick, <<a, Cardinality(new.idle)>>) :
             a \in {x \in {available} : view.continuity.capableIdle # {}
                                       /\ view.continuity.availableTasks > 0}}

\* _urgent_candidates, _normal_candidates
Candidates(old, new, ctx, tick, progress, risk) ==
  NewThreats(old, new, tick) \cup NewlyDowned(old, new, tick)
  \cup RiskEscalations(OperationalRisk(old.pawns, old.pawns, ctx.risk), risk, tick)
  \cup SignalTriggers(progress, tick) \cup MembershipChange(old, new, tick)
  \cup ImportantAwareness(old, new, tick) \cup ResourceDeterioration(old, new, tick)
  \cup NewConstructionBlocker(old, new, tick)
  \cup SatisfiedTasks(ctx.projects, BuildProgressSignals(old, old), progress, tick)
  \cup ProjectTransitions(ProjectContext(ctx.projects, ctx.stall, progress, new,
                                         Interrupts(risk), Interrupts(risk)), new, tick)

-----------------------------------------------------------------------------
(* The memory of the evaluator                                             *)

\* compatible_observation_stream.  A lower version is that of a restarted game
\* whenever the tick is not lower (is_safe_snapshot_stream_reset), so that the
\* versions, which are left out, make no difference.
Compatible(old, new) ==
  /\ old.is.stream # NoStream /\ old.is.stream = new.is.stream
  /\ new.tick >= old.tick

\* _remember.  The oldest make room.
Remember(f) ==
  LET kept == IF Len(fingerprints) >= MaxFingerprints THEN Tail(fingerprints) ELSE fingerprints
      dropped == IF Len(fingerprints) >= MaxFingerprints THEN {Head(fingerprints)} ELSE {}
  IN /\ fingerprints' = Append(kept, f)
     /\ fingerprintSet' = (fingerprintSet \ dropped) \cup {f}

\* _track_productive_idleness: since when which colonists have been idle.  The
\* candidate is one only of time that passed before.
IdleFor(new, tick) ==
  /\ new.idle # {} /\ new.idle = idleSignature /\ idleSince # Never
  /\ tick >= idleSince /\ tick - idleSince >= IdlePersistence

TrackIdleness(new, tick) ==
  LET same == new.idle = idleSignature /\ idleSince # Never /\ tick >= idleSince
  IN /\ idleSignature' = new.idle
     /\ idleSince' = IF new.idle = {} THEN Never ELSE IF same THEN idleSince ELSE tick

\* evaluate, of a first observation or of another stream
Establish(new, tick) ==
  /\ fingerprints' = <<>> /\ fingerprintSet' = {}
  /\ lastReview' = tick
  /\ idleSignature' = new.idle
  /\ idleSince' = IF new.idle = {} THEN Never ELSE tick
  /\ decision' = NoTrigger
  /\ UNCHANGED owed

Emit(t) ==
  /\ Remember(Fingerprint(t))
  /\ decision' = t
  /\ owed' = IF t.kind \in {"periodic_review", "productive_idleness"} THEN Append(owed, t) ELSE owed

\* _periodic_review, at the end of evaluate.  A last review of the future (it
\* was acknowledged after an earlier save was loaded) is put right.
ReviewOrNothing(new, tick) ==
  LET due == ~new.paused /\ lastReview <= tick /\ tick >= lastReview + ReviewInterval
      review == Trigger("periodic_review", tick, lastReview + ReviewInterval)
  IN /\ lastReview' = IF ~new.paused /\ tick < lastReview THEN tick ELSE lastReview
     /\ IF due /\ Fingerprint(review) \notin fingerprintSet
          THEN Emit(review)
          ELSE decision' = NoTrigger /\ UNCHANGED <<fingerprints, fingerprintSet, owed>>

\* evaluate.  Only the first of the candidates that are not remembered is
\* told, and remembered; equal ones are sorted by a hash.  (Each set is bound
\* once: TLC evaluates a LET where it is used.)
Evaluate(old, new, ctx, tick) ==
  \E progress \in {BuildProgressSignals(old, new)},
     risk \in {OperationalRisk(old.pawns, new.pawns, ctx.risk)} :
  \E all \in {Candidates(old, new, ctx, tick, progress, risk)
              \cup (IF IdleFor(new, tick) THEN {Trigger("productive_idleness", tick, new.idle)}
                    ELSE {})} :
  \E unknown \in {{t \in all : Fingerprint(t) \notin fingerprintSet}} :
    /\ TrackIdleness(new, tick)
    /\ IF unknown = {} THEN ReviewOrNothing(new, tick)
       ELSE /\ \E t \in unknown : (\A u \in unknown : t.rank <= u.rank) /\ Emit(t)
            /\ UNCHANGED lastReview

-----------------------------------------------------------------------------
(* Steps                                                                   *)

Colony(observation) ==
  IF observation = NotSeen \/ observation.is.stream = NoStream THEN NoStream
                                                              ELSE observation.is.stream.colony

\* What update_current_state leaves in the observer's store: the files of a
\* colony are read when it is activated, and not again.
ContextsAfter(stream) ==
  IF stream = NoStream THEN {NoContext}
  ELSE IF stream.colony = Colony(seen) THEN {context} ELSE Contexts

Init ==
  /\ seen = NotSeen /\ context = NoContext
  /\ fingerprints = <<>> /\ fingerprintSet = {}
  /\ lastReview = Never /\ idleSince = Never /\ idleSignature = {}
  /\ decision = NoTrigger /\ owed = <<>> /\ polls = 0

\* observe_once, of whatever the game shows by then: it plays on, it is paused,
\* it is restarted, another save or none is loaded.
ObserveOnce ==
  \E s \in Snapshots, tick \in 0..MaxTick :
    LET now == [is |-> s, tick |-> tick]
    IN /\ polls < MaxPolls
       /\ seen' = now /\ polls' = polls + 1
       /\ \E ctx \in ContextsAfter(s.stream) :
            /\ context' = ctx
            /\ IF seen # NotSeen /\ Compatible(seen, now)
                 THEN Evaluate(seen.is, s, ctx, tick)
                 ELSE Establish(s, tick)

FirstOwed(kind) ==
  {i \in DOMAIN owed : owed[i].kind = kind /\ \A j \in 1..(i - 1) : owed[j].kind # kind}

\* Mutant: the next interval is counted from the last one, not from the review.
MutAcknowledgeReview ==
  \E i \in FirstOwed("periodic_review") :
    /\ owed' = RemoveAt(owed, i)
    /\ UNCHANGED <<seen, context, memory, decision, polls>>

\* acknowledge_trigger: the scheduler does so after the observation that
\* follows its decision, observe.py never.
AcknowledgeReview ==
  \E i \in FirstOwed("periodic_review") :
    /\ lastReview' = owed[i].tick
    /\ owed' = RemoveAt(owed, i)
    /\ UNCHANGED <<seen, context, fingerprints, fingerprintSet, idleSince, idleSignature,
                   decision, polls>>

\* Mutant: the trigger is taken out of the set and left in the queue.
MutForgotten(f) == fingerprints

Forgotten(f) ==
  IF \E i \in DOMAIN fingerprints : fingerprints[i] = f
    THEN RemoveAt(fingerprints, CHOOSE i \in DOMAIN fingerprints : fingerprints[i] = f)
    ELSE fingerprints

AcknowledgeIdleness ==
  \E i \in FirstOwed("productive_idleness") :
    /\ fingerprintSet' = fingerprintSet \ {Fingerprint(owed[i])}
    /\ fingerprints' = Forgotten(Fingerprint(owed[i]))
    /\ idleSince' = seen.tick
    /\ owed' = RemoveAt(owed, i)
    /\ UNCHANGED <<seen, context, lastReview, idleSignature, decision, polls>>

Next == ObserveOnce \/ AcknowledgeReview \/ AcknowledgeIdleness

Spec == Init /\ [][Next]_vars

-----------------------------------------------------------------------------
(* Properties                                                              *)

(* The queue and the set of remembered fingerprints hold the same, each once *)
(* and never more than the limit: what is dropped from one is dropped from   *)
(* the other (_remember, acknowledge_trigger, reset).                        *)
QueueAndSetAgree ==
  /\ fingerprintSet = {fingerprints[i] : i \in DOMAIN fingerprints}
  /\ \A i, j \in DOMAIN fingerprints : fingerprints[i] = fingerprints[j] => i = j
  /\ Len(fingerprints) <= MaxFingerprints

Polls == polls' # polls /\ seen # NotSeen /\ Compatible(seen, seen')

(* A threat that appears while game time passes is told as something urgent, *)
(* however often the same threat came and went before and whatever else is   *)
(* remembered (_urgent_candidates).                                          *)
ReturningThreatIsTold ==
  [][(/\ Polls /\ seen'.tick > seen.tick
      /\ seen'.is.threats \ seen.is.threats # {})
        => decision'.urgent]_vars

Told(kind, evidence) == \E i \in DOMAIN owed : owed[i].kind = kind /\ owed[i].evidence = evidence

(* The observer is silent only about what it has told and nobody has         *)
(* acknowledged yet: a review that is due, and colonists who are idle for    *)
(* long.  As long as the scheduler acknowledges them both come back          *)
(* (_periodic_review, _track_productive_idleness, acknowledge_trigger).      *)
SilenceIsOwed ==
  [][(Polls /\ decision' = NoTrigger)
        => /\ \/ seen'.is.paused \/ seen'.tick < lastReview + ReviewInterval
              \/ Told("periodic_review", lastReview + ReviewInterval)
           /\ \/ seen'.is.idle = {} \/ seen'.is.idle # seen.is.idle
              \/ idleSince = Never \/ seen'.tick - idleSince < IdlePersistence
              \/ Told("productive_idleness", seen'.is.idle)]_vars
=============================================================================
