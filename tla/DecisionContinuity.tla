------------------------- MODULE DecisionContinuity -------------------------
(***************************************************************************)
(* What one decision leaves to the next: the handoff with its open loops   *)
(* and strategic projects (Controller/decision_handoff.py), the metadata   *)
(* that tells repeated work from stalled work (progress_tracking.py) and   *)
(* the view of both in the next context (strategic_projects.py).           *)
(*                                                                         *)
(* A step is a decision, committed (commit_successful_decision), or the    *)
(* outcome of a verification tool, which is recorded at once.  How the     *)
(* files survive crashes is StateStore's; here the commit is whole.  A     *)
(* proposal is the arguments of finish_decision: the model may send any,   *)
(* and one that is refused changes nothing.  The risk metadata, which a    *)
(* commit writes too, depend on neither and are RiskTracking's.            *)
(***************************************************************************)
EXTENDS StrategicProjects

CONSTANTS
  NoId, Absent, Malformed,
  Proposals,        \* bound: the arguments the model may send
  Worlds,           \* bound: the snapshots a decision may end on
  Strategies,       \* verification_strategy: a tool and its arguments
  MaxOpenLoops, MaxProjects, MaxProjectTasks, MaxTaskDependencies,
  MaxHandoff,       \* MAX_HANDOFF_CHARS, in loops, projects, tasks and assessment
  MaxStrategies, MaxCycles,
  MaxDecisions      \* bound

ASSUME ContinuityAssumption ==
  /\ MaxStrategies \in Nat \ {0} /\ MaxCycles \in Nat \ {0, 1}
  /\ MaxDecisions \in Nat

\* What finish_decision's schema requires of the projects in its arguments.
ASSUME ProposalsAssumption ==
  \A args \in Proposals : args.projects # Absent =>
    \A i \in DOMAIN args.projects :
      LET project == args.projects[i]
      IN /\ {"id", "criteria", "tasks"} \subseteq DOMAIN project
         /\ Len(project.tasks) \in Nat /\ DOMAIN project.tasks = 1..Len(project.tasks)
         /\ \A j \in DOMAIN project.tasks : "id" \in DOMAIN project.tasks[j]

VARIABLES
  handoff,     \* decision_handoff.json
  stall,       \* its counters: of loops, of tasks, of failed verifications
  baseline,    \* decision_baseline.json
  decisions,   \* history: how many were committed
  settled,     \* history: what the last decision resolved
  fresh        \* history: loops and tasks the last decision made or changed

vars == <<handoff, stall, baseline, decisions, settled, fresh>>

Nothing == [stream |-> NoStream]

EmptyHandoff == [assessment |-> 0, loops |-> <<>>, projects |-> <<>>]

Init ==
  /\ handoff = EmptyHandoff
  /\ stall = [loops |-> <<>>, tasks |-> <<>>, failed |-> <<>>]
  /\ baseline = Nothing
  /\ decisions = 0 /\ settled = {}
  /\ fresh = [loops |-> {}, tasks |-> {}]

-----------------------------------------------------------------------------
(* Names.  An id is made of what it names and of a number that sets it      *)
(* apart: L-..., P-... and T-..., with a suffix.                            *)

Ids(list) == {x.id : x \in Elements(list)}
WithId(list, id) == CHOOSE x \in Elements(list) : x.id = id
Distinct(list) == \A i, j \in DOMAIN list : list[i].id = list[j].id => i = j

\* make_stable_id, make_loop_id
Fresh(stem, unavailable) ==
  <<stem, Min({n \in 1..(Cardinality(unavailable) + 1) : <<stem, n>> \notin unavailable})>>

Objectives(raws) == [i \in DOMAIN raws |-> raws[i].text]

\* The id asked for, else that of the last prior item of the same name: a loop
\* and a project are named by their text, a task by its key.
IdFor(raw, prior, used, name, stem) ==
  LET same == {i \in DOMAIN prior : prior[i][name] = raw[name]}
  IN IF raw.id # NoId THEN raw.id
     ELSE IF same # {} THEN prior[Max(same)].id
     ELSE Fresh(stem, used \cup Ids(prior))

Before(ids, i) == {ids[j] : j \in 1..(i - 1)}

\* One after the other, each set apart from those before it.
AssignedIds(raws, prior, name, stems) ==
  LET id[i \in DOMAIN raws] == IdFor(raws[i], prior, Before(id, i), name, stems[i])
  IN id

KnownIds(raws, prior) == \A raw \in Elements(raws) : raw.id \in Ids(prior) \cup {NoId}

\* Mutant: what is neither kept nor resolved is forgotten.
MutAccounted(prior, next, resolved) ==
  /\ Distinct(next) /\ Distinct(resolved)
  /\ Ids(resolved) \subseteq Ids(prior) \ Ids(next)

\* Each prior item is kept or resolved, and only once.
Accounted(prior, next, resolved) ==
  /\ Distinct(next) /\ Distinct(resolved)
  /\ Ids(resolved) \subseteq Ids(prior) \ Ids(next)
  /\ Ids(prior) \subseteq Ids(next) \cup Ids(resolved)

-----------------------------------------------------------------------------
(* prepare_handoff: the open loops                                          *)

PreparedLoops(args) ==
  LET ids == AssignedIds(args.open, handoff.loops, "text", Objectives(args.open))
  IN [i \in DOMAIN args.open |-> [args.open[i] EXCEPT !.id = ids[i]]]

LoopsAccepted(args) ==
  /\ Len(args.open) <= MaxOpenLoops /\ Len(args.resolved) <= MaxOpenLoops
  /\ KnownIds(args.open, handoff.loops)
  /\ Accounted(handoff.loops, PreparedLoops(args), args.resolved)

-----------------------------------------------------------------------------
(* prepare_handoff: the projects                                            *)

PreviousTasks(id) ==
  IF id \in Ids(handoff.projects) THEN WithId(handoff.projects, id).tasks ELSE <<>>

\* A dependency is given by its key, or else by its id.
Referred(ref, tasks) ==
  LET named == {t \in Elements(tasks) : t.key = ref}
  IN IF named # {} THEN (CHOOSE t \in named : TRUE).id ELSE ref

PreparedTasks(raws, project) ==
  LET stems == [i \in DOMAIN raws |-> <<project, raws[i].key>>]
      ids == AssignedIds(raws, PreviousTasks(project), "key", stems)
      named == [i \in DOMAIN raws |-> [raws[i] EXCEPT !.id = ids[i]]]
  IN [i \in DOMAIN named |->
        [named[i] EXCEPT !.dependsOn = {Referred(r, named) : r \in Elements(@)}]]

\* Mutant: only a task that waits for itself is a cycle.
MutAcyclic(tasks) == \A t \in Elements(tasks) : t.id \notin t.dependsOn

\* Wherever one looks, some task waits for none of the others.
Acyclic(tasks) ==
  \A some \in (SUBSET Elements(tasks)) \ {{}} :
    \E t \in some : t.dependsOn \cap {u.id : u \in some} = {}

\* Prior tasks stay and what is completed stays completed.
TasksAccepted(tasks, project) ==
  /\ Len(tasks) \in 1..MaxProjectTasks
  /\ Distinct(tasks)
  /\ \A i, j \in DOMAIN tasks : tasks[i].key = tasks[j].key => i = j
  /\ Ids(PreviousTasks(project)) \subseteq Ids(tasks)
  /\ \A t \in Elements(tasks) : t.dependsOn \subseteq Ids(tasks)
  /\ \A t \in Elements(tasks) :
       (\E old \in Elements(PreviousTasks(project)) : old.id = t.id /\ old.status = "completed")
         => t.status = "completed"
  /\ Acyclic(tasks)

\* Criteria are immutable: those of a project named by its id are put right,
\* unless they are malformed.
NormalizedCriteria(raw) ==
  IF raw.id \in Ids(handoff.projects) /\ raw.criteria # Malformed
    THEN WithId(handoff.projects, raw.id).criteria ELSE raw.criteria

PreparedProject(raw, id) ==
  [raw EXCEPT !.id = id, !.criteria = NormalizedCriteria(raw),
              !.tasks = PreparedTasks(@, id)]

PreparedProjects(args) ==
  LET ids == AssignedIds(args.projects, handoff.projects, "text", Objectives(args.projects))
  IN IF args.projects = Absent THEN handoff.projects
     ELSE [i \in DOMAIN args.projects |-> PreparedProject(args.projects[i], ids[i])]

ProjectAccepted(p) ==
  /\ p.criteria # Malformed
  /\ p.id \in Ids(handoff.projects) => p.criteria = WithId(handoff.projects, p.id).criteria
  /\ TasksAccepted(p.tasks, p.id)

\* The references are counted as they are given, before those that name the
\* same task become one dependency.
DependenciesCounted(project) ==
  \A t \in Elements(project.tasks) : Len(t.dependsOn) <= MaxTaskDependencies

\* A project is completed only when each of its criteria is confirmed.
ProjectsAccepted(args) ==
  IF args.projects = Absent
    THEN args.resolvedProjects = Absent
    ELSE /\ args.resolvedProjects # Absent
         /\ Len(args.projects) <= MaxProjects /\ Len(args.resolvedProjects) <= MaxProjects
         /\ KnownIds(args.projects, handoff.projects)
         /\ \A i \in DOMAIN args.projects :
              KnownIds(args.projects[i].tasks, PreviousTasks(PreparedProjects(args)[i].id))
         /\ \A raw \in Elements(args.projects) : DependenciesCounted(raw)
         /\ \A p \in Elements(PreparedProjects(args)) : ProjectAccepted(p)
         /\ Accounted(handoff.projects, PreparedProjects(args), args.resolvedProjects)
         /\ \A r \in Elements(args.resolvedProjects) :
              r.resolution = "completed"
                => r.met = WithId(handoff.projects, r.id).criteria

-----------------------------------------------------------------------------
(* validate_handoff, once more, of the whole document                       *)

Size(h) ==
  FoldLeft(LAMBDA n, p : n + 1 + Len(p.tasks), h.assessment + Len(h.loops), h.projects)

ValidProjects(projects) ==
  /\ Len(projects) <= MaxProjects /\ Distinct(projects)
  /\ \A p \in Elements(projects) :
       /\ Len(p.tasks) \in 1..MaxProjectTasks /\ Distinct(p.tasks)
       /\ \A t \in Elements(p.tasks) : t.dependsOn \subseteq Ids(p.tasks)
       /\ Acyclic(p.tasks)

ValidHandoff(h) ==
  /\ Len(h.loops) <= MaxOpenLoops /\ Distinct(h.loops)
  /\ ValidProjects(h.projects)
  /\ Size(h) <= MaxHandoff

Prepared(args) ==
  [assessment |-> args.assessment, loops |-> PreparedLoops(args),
   projects |-> PreparedProjects(args)]

FallbackHandoff(assessment) ==
  [handoff EXCEPT !.assessment = IF assessment > 0 THEN assessment ELSE @]

-----------------------------------------------------------------------------
(* The counters: how often the same plan was repeated, and in vain          *)

LoopCategories(text, action) == Meaning[text].categories \cup Meaning[action].categories

TasksById(h) == UNION {Elements(p.tasks) : p \in Elements(h.projects)}

\* project_task_fingerprint
Fingerprint(task) == <<task.text, task.status, task.mode, task.dependsOn, task.blockers>>

\* One more, up to the cap; bounded_int reads what is missing as the least.
Raised(counters, id, least) ==
  LET count == IF id \in DOMAIN counters THEN counters[id] ELSE least
  IN Min({count, MaxCycles - 1}) + 1

Cycles(old, id, same, idle) ==
  [repeated |-> IF same THEN Raised([i \in DOMAIN old |-> old[i].repeated], id, 1) ELSE 1,
   noProgress |-> IF same /\ idle
                    THEN Raised([i \in DOMAIN old |-> old[i].noProgress], id, 0) ELSE 0]

\* Mutant: a loop is known by its id, whatever it says to do next.
MutSameAction(loop) == loop.id \in Ids(handoff.loops)

SameAction(loop) ==
  \E old \in Elements(handoff.loops) : old.id = loop.id /\ old.action = loop.action

UpdateOpenLoopStalls(loops, progress) ==
  [id \in Ids(loops) |->
     LET loop == WithId(loops, id)
     IN Cycles(stall.loops, id, SameAction(loop),
               /\ LoopCategories(loop.text, loop.action) \cap progress.categories = {}
               /\ AuthoritativeCompletionFor(loop.text, progress) = {})]

UpdateProjectTaskStalls(h, progress) ==
  [id \in {t.id : t \in {u \in TasksById(h) : u.status # "completed"}} |->
     LET task == CHOOSE t \in TasksById(h) : t.id = id
         same == \E old \in TasksById(handoff) :
                   old.id = id /\ Fingerprint(old) = Fingerprint(task)
     IN Cycles(stall.tasks, id, same,
               /\ TaskCategories(task) \cap progress.categories = {}
               /\ AuthoritativeCompletionFor(task.text, progress) = {})]

\* What the commit makes of handoff h and the final snapshot s.
NextStall(h, s) ==
  LET progress == BuildProgressSignals(baseline, s)
  IN [loops |-> UpdateOpenLoopStalls(h.loops, progress),
      tasks |-> UpdateProjectTaskStalls(h, progress),
      failed |-> stall.failed]

-----------------------------------------------------------------------------
(* What the next decision is shown, in a context built on snapshot s        *)

\* build_stall_context: the loops that moved, were repeated or stood still.
LoopEntries(s) ==
  LET progress == BuildProgressSignals(baseline, s)
      Entry(l) ==
        LET stored == IF l.id \in DOMAIN stall.loops THEN stall.loops[l.id]
                                                     ELSE [repeated |-> 1, noProgress |-> 0]
            moved == {g.type : g \in {f \in Elements(progress.signals) :
                                        f.category \in LoopCategories(l.text, l.action)}}
            done == AuthoritativeCompletionFor(l.text, progress)
        IN [id |-> l.id, moved |-> moved, done |-> done,
            shown |-> done # {} \/ moved # {} \/ stored.repeated >= 2 \/ stored.noProgress >= 1,
            stalled |-> /\ stored.repeated >= 2 /\ stored.noProgress >= 1
                        /\ moved = {} /\ done = {}]
  IN {e \in {Entry(l) : l \in Elements(handoff.loops)} : e.shown}

Context(s) ==
  ProjectContext(handoff.projects, stall.tasks, BuildProgressSignals(baseline, s), s,
                 FALSE, FALSE)

-----------------------------------------------------------------------------
(* The steps                                                                *)

ChangedBy(h) ==
  [loops |-> {l.id : l \in {m \in Elements(h.loops) : ~\E old \in Elements(handoff.loops) :
                               old.id = m.id /\ old.action = m.action}},
   tasks |-> {t.id : t \in {u \in TasksById(h) : ~\E old \in TasksById(handoff) :
                               old.id = u.id /\ Fingerprint(old) = Fingerprint(u)}}]

\* commit_successful_decision
Commit(h, resolved) ==
  /\ decisions < MaxDecisions
  /\ ValidHandoff(h)
  /\ \E s \in Worlds : stall' = NextStall(h, s) /\ baseline' = s
  /\ handoff' = h
  /\ decisions' = decisions + 1
  /\ settled' = resolved /\ fresh' = ChangedBy(h)

FinishDecision ==
  \E args \in Proposals :
    /\ LoopsAccepted(args)
    /\ ProjectsAccepted(args)
    /\ Commit(Prepared(args),
              Ids(args.resolved)
                \cup IF args.resolvedProjects = Absent THEN {} ELSE Ids(args.resolvedProjects))

\* An ordinary final text is the assessment of the previous handoff.
FinishWithText ==
  \E assessment \in 0..1 : Commit(FallbackHandoff(assessment), {})

\* update_current_state found a new schema or another lineage.
LoseBaseline ==
  /\ baseline # Nothing
  /\ baseline' = Nothing
  /\ UNCHANGED <<handoff, stall, decisions, settled, fresh>>

\* Mutant: the table makes room for the strategy that failed last.
MutWorst(failed) ==
  CHOOSE kept \in SUBSET DOMAIN failed :
    /\ Cardinality(kept) = Min({MaxStrategies, Cardinality(DOMAIN failed)})
    /\ \A k \in kept, l \in DOMAIN failed \ kept : failed[k] <= failed[l]

\* The strategies that failed most often; of equals any (by a hash).
Worst(failed) ==
  CHOOSE kept \in SUBSET DOMAIN failed :
    /\ Cardinality(kept) = Min({MaxStrategies, Cardinality(DOMAIN failed)})
    /\ \A k \in kept, l \in DOMAIN failed \ kept : failed[k] >= failed[l]

Bounded(failed) == [k \in Worst(failed) |-> failed[k]]

\* record_verification_outcome
VerificationSucceeds(k) ==
  /\ k \in DOMAIN stall.failed
  /\ stall' = [stall EXCEPT !.failed = Bounded([l \in DOMAIN @ \ {k} |-> @[l]])]
  /\ UNCHANGED <<handoff, baseline, decisions, settled, fresh>>

VerificationFails(k) ==
  /\ stall' = [stall EXCEPT !.failed =
                 Bounded([l \in DOMAIN @ \cup {k} |->
                            IF l = k THEN Raised(@, k, 0) ELSE @[l]])]
  /\ UNCHANGED <<handoff, baseline, decisions, settled, fresh>>

RecordVerification ==
  \E k \in Strategies : VerificationSucceeds(k) \/ VerificationFails(k)

Next == FinishDecision \/ FinishWithText \/ LoseBaseline \/ RecordVerification

Spec == Init /\ [][Next]_vars

-----------------------------------------------------------------------------
(* Properties                                                               *)

(* A commitment that is new, or whose next action the last decision changed, *)
(* is not presented as stalled, whatever became of its id before: resolving  *)
(* an objective and opening it again gives the same id (build_stall_context  *)
(* and summarize_project read the counters by id).                           *)
ReplannedIsNotStalled ==
  \A s \in Worlds :
    /\ \A e \in LoopEntries(s) : e.stalled => e.id \notin fresh.loops
    /\ \A p \in Context(s).projects : p.stalled \cap fresh.tasks = {}

(* A project that is not finished has a task to go on with: one whose        *)
(* dependencies are all completed.  With ids, keys and statuses changing     *)
(* from decision to decision a project never waits for itself.               *)
SomeTaskIsReady ==
  \A p \in Elements(handoff.projects) :
    (\E t \in Elements(p.tasks) : t.status # "completed")
      => \E t \in Elements(p.tasks) : t.status # "completed" /\ WaitingOn(t, p) = {}

(* Nothing is dropped in silence: from one handoff to the next each loop and *)
(* each project stays or is resolved, a project keeps its criteria and its   *)
(* tasks, and a completed task stays completed.                              *)
CommitmentsAreAccounted ==
  [][/\ Ids(handoff.loops) \subseteq Ids(handoff'.loops) \cup settled'
     /\ \A p \in Elements(handoff.projects) :
          \/ p.id \in settled'
          \/ \E q \in Elements(handoff'.projects) :
               /\ q.id = p.id /\ q.criteria = p.criteria
               /\ \A t \in Elements(p.tasks) : \E u \in Elements(q.tasks) :
                    u.id = t.id /\ (t.status = "completed" => u.status = "completed")]_vars

(* A verification that failed twice or more in a row is forgotten only when  *)
(* it succeeds: neither the cap of the table nor a commit drops it           *)
(* (record_verification_outcome).                                            *)
RepeatedFailuresAreKept ==
  [][\A k \in DOMAIN stall.failed :
       stall.failed[k] >= 2
         => \/ k \in DOMAIN stall'.failed /\ stall'.failed[k] >= stall.failed[k]
            \/ DOMAIN stall'.failed = DOMAIN stall.failed \ {k}]_vars
=============================================================================
