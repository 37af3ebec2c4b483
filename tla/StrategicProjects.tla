-------------------------- MODULE StrategicProjects --------------------------
(***************************************************************************)
(* How the projects of a handoff stand against a snapshot, as the next     *)
(* decision and the observer see it: Controller/strategic_projects.py.     *)
(* Pure definitions.  A project is [id, text, status, criteria, blockers,  *)
(* tasks], a task [id, key, text, status, mode, dependsOn, blockers].      *)
(***************************************************************************)
EXTENDS ProgressEvidence

Elements(list) == {list[i] : i \in DOMAIN list}

TaskCategories(task) ==
  Meaning[task.text].categories \cup UNION {Meaning[b].categories : b \in task.blockers}

\* Only the model completes a task: what the state satisfies still blocks.
WaitingOn(task, project) ==
  task.dependsOn \ {t.id : t \in {u \in Elements(project.tasks) : u.status = "completed"}}

IsBlocked(task) == task.status = "blocked" \/ task.blockers # {}

IdleCycles(stalls, id) == IF id \in DOMAIN stalls THEN stalls[id].noProgress ELSE 0

\* summarize_project.  The types of the signals it shows as evidence are left out.
SummarizeProject(project, stalls, progress) ==
  LET satisfied == {t \in Elements(project.tasks) :
                      /\ t.status # "completed"
                      /\ AuthoritativeCompletionFor(t.text, progress) # {}}
      open == {t \in Elements(project.tasks) : t.status # "completed"} \ satisfied
      IdsOf(tasks) == {t.id : t \in tasks}
  IN [id |-> project.id,
      completed |-> IdsOf({t \in Elements(project.tasks) : t.status = "completed"}),
      satisfied |-> IdsOf(satisfied),
      background |-> IdsOf({t \in open : "background" \in {t.mode, t.status}}),
      active |-> IdsOf({t \in open : t.status = "active"}),
      waiting |-> IdsOf({t \in open : WaitingOn(t, project) # {}}),
      available |-> IdsOf({t \in open : /\ WaitingOn(t, project) = {}
                                        /\ t.status = "pending"
                                        /\ t.blockers = {}}),
      blocked |-> IdsOf({t \in open : IsBlocked(t)}),
      stalled |-> IdsOf({t \in open : ~IsBlocked(t) /\ IdleCycles(stalls, t.id) >= 2})]

\* build_work_continuity: what goes on by itself, what asks for attention, and
\* whether there are hands for more.
WorkContinuity(s, urgent, interrupt, summaries) ==
  LET Count(field) == FoldSet(LAMBDA p, n : n + Cardinality(p[field]), 0, summaries)
  IN [background |-> {k \in {"research", "growing", "construction", "normalSleep"} :
                        \/ k = "research" /\ s.research.current # NoProject
                        \/ k = "growing" /\ DOMAIN s.zones # {}
                        \/ /\ k = "construction"
                           /\ s.pending["blueprints"] + s.pending["frames"] > 0
                        \/ k = "normalSleep" /\ s.sleeping > 0},
      attention |-> {k \in {"operationalRisk", "visibleThreats", "laborBlockers", "projectTasks"} :
                       \/ k = "operationalRisk" /\ urgent
                       \/ k = "visibleThreats" /\ s.threats # {}
                       \/ k = "laborBlockers" /\ s.blockers # {}
                       \/ k = "projectTasks" /\ Count("blocked") + Count("stalled") > 0},
      capableIdle |-> s.idle,
      availableTasks |-> Count("available"),
      parallel |-> ~interrupt /\ s.threats = {} /\ s.idle # {}]

\* build_project_context
ProjectContext(projects, stalls, progress, s, urgent, interrupt) ==
  LET summaries == {SummarizeProject(p, stalls, progress) : p \in Elements(projects)}
  IN [projects |-> summaries,
      continuity |-> WorkContinuity(s, urgent, interrupt, summaries)]
=============================================================================
