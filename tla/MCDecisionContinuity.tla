------------------------ MODULE MCDecisionContinuity ------------------------
(* An instance of DecisionContinuity for TLC: a field and a shelter as loops, *)
(* a project of two tasks, and a colony that sows, builds or looks at         *)
(* another map.  The proposals hold what is refused next to what is accepted. *)
EXTENDS DecisionContinuity, TLC

CONSTANTS field, room, sow, place, wait, cloth, wool, home, away, k1, k2

MCTexts == {field, room, sow, place, wait}

Words(categories, about, names, specific) ==
  [categories |-> categories, about |-> about, names |-> names, specific |-> specific]

MCMeaning ==
  field :> Words({"growing", "work"}, {}, <<"potato">>, TRUE)
  @@ room :> Words({"room", "construction"}, {"shelter"}, <<>>, TRUE)
  @@ sow :> Words({"growing", "work"}, {}, <<>>, FALSE)
  @@ place :> Words({"construction"}, {}, <<"wall">>, TRUE)
  @@ wait :> Words({}, {}, <<>>, TRUE)

Wall(stage, r) == [def |-> "wall", cell |-> 1, stage |-> stage, room |-> r]

Zone(state, planted) ==
  [plant |-> "potato", state |-> state, planted |-> planted, harvestable |-> 0,
   complete |-> state = "planted"]

Start ==
  [stream |-> home,
   buildings |-> 1 :> Wall("blueprint", NoRoom),
   pending |-> [blueprints |-> 1, frames |-> 0, haulables |-> 1],
   designated |-> [tree |-> 1], blockers |-> {place},
   zones |-> "z1" :> Zone("empty", 0),
   research |-> [current |-> "stonecutting", progress |-> 0, completed |-> {}],
   colonists |-> 2, beds |-> {}, idle |-> {}, threats |-> {}, sleeping |-> 0]

Sown == [Start EXCEPT !.zones = "z1" :> Zone("partiallyPlanted", 1)]
Grown == [Start EXCEPT !.zones = "z1" :> Zone("planted", 2), !.idle = {"p1"},
                       !.buildings = 2 :> Wall("building", [shelter |-> TRUE]),
                       !.pending["blueprints"] = 0]
Elsewhere == [Start EXCEPT !.stream = away]

MCWorlds == {Start, Sown, Grown, Elsewhere}

Loop(id, text, action) == [id |-> id, text |-> text, action |-> action, status |-> "pending"]
Done(id) == [id |-> id]
L(text) == <<text, 1>>

LoopArgs ==
  {<<>>, <<Loop(NoId, field, sow)>>, <<Loop(NoId, field, wait)>>,
   <<Loop(L(field), room, place)>>, <<Loop(NoId, room, place)>>,
   <<Loop(NoId, room, place), Loop(NoId, field, sow)>>}
  \X {<<>>, <<Done(L(field))>>}

Task(id, key, text, status, waits) ==
  [id |-> id, key |-> key, text |-> text, status |-> status, mode |-> "active",
   dependsOn |-> waits, blockers |-> {}]

Project(id, criteria, tasks) ==
  [id |-> id, text |-> room, status |-> "active", criteria |-> criteria,
   blockers |-> {}, tasks |-> tasks]

P == <<room, 1>>
Resolved(resolution, met) == [id |-> P, resolution |-> resolution, met |-> met]

Sow(status) == Task(NoId, k1, field, status, <<>>)

ProjectArgs ==
  {<<Absent, Absent>>, <<Absent, <<>>>>}
  \cup {<<<<Project(id, criteria, tasks)>>, <<>>>> :
          id \in {NoId, P}, criteria \in {cloth},
          tasks \in {<<Sow("pending")>>,
                     <<Sow("completed")>>,
                     <<Sow("completed"), Task(NoId, k2, place, "pending", <<k1>>)>>,
                     <<Sow("pending"), Task(NoId, k2, place, "active", <<k1>>)>>}}
  \cup {<<<<Project(id, criteria, <<Sow("completed")>>)>>, <<>>>> :
          id \in {NoId, P}, criteria \in {wool, Malformed}}
  \cup {
        \* a dependency by id, one given twice, and tasks that wait for each other
        <<<<Project(NoId, cloth, <<Sow("pending"),
              Task(NoId, k2, place, "pending", <<<<<<P, k1>>, 1>>>>)>>)>>, <<>>>>,
        <<<<Project(NoId, cloth, <<Sow("pending"),
              Task(NoId, k2, place, "pending", <<k1, k1>>)>>)>>, <<>>>>,
        <<<<Project(NoId, cloth, <<Task(NoId, k1, field, "pending", <<k2>>),
              Task(NoId, k2, place, "blocked", <<k1>>)>>)>>, <<>>>>}
  \cup {<<<<>>, <<Resolved(r, m)>>>> : r \in {"completed", "cancelled"}, m \in {cloth, wool}}
  \cup {<<<<>>, <<>>>>}

MCProposals ==
  {[assessment |-> 0, open |-> l[1], resolved |-> l[2], projects |-> p[1],
    resolvedProjects |-> p[2]] : l \in LoopArgs, p \in ProjectArgs}
=============================================================================
