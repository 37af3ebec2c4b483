-------------------------- MODULE ProgressEvidence --------------------------
(***************************************************************************)
(* What two snapshots of a colony say about its progress, and what one     *)
(* snapshot says is done: Controller/progress_tracking.py.  Pure           *)
(* definitions: the continuity of decisions and the triggers of the        *)
(* observer are both built on them.                                        *)
(*                                                                         *)
(* A text (an objective, an action, a blocker) is a model value, and       *)
(* Meaning says which of the words the code searches it has.  A snapshot   *)
(* keeps the fields these searches look at; the caps on the lists of the   *)
(* completion evidence (20 zones, 30 definitions, 40 projects) are left    *)
(* out, the cap on the signals is not.                                     *)
(***************************************************************************)
EXTENDS ConstructionPairing

CONSTANTS
  Texts,            \* objectives, next actions and blockers
  Meaning,          \* what the code finds in a text
  Generic,          \* definitions a text does not single out: wall, bed, ...
  NoStream, NoRoom, NoProject,
  MaxProgressSignals

Categories == {"room", "construction", "designation", "blocker", "work",
               "growing", "research", "hauling", "beds"}

\* names are the definitions and zones a text names, the longest name first.
ASSUME MeaningAssumption ==
  /\ MaxProgressSignals \in Nat
  /\ \A t \in Texts : /\ Meaning[t].categories \subseteq Categories
                      /\ Meaning[t].about \subseteq {"harvest", "shelter", "capacity"}
                      /\ Meaning[t].specific \in BOOLEAN
                      /\ Len(Meaning[t].names) \in Nat

-----------------------------------------------------------------------------
(* Signals: what changed between two snapshots of one colony and map.      *)

CompatibleSnapshots(old, new) ==
  old.stream # NoStream /\ old.stream = new.stream

Signal(category, type, of, from, to) ==
  [category |-> category, type |-> type, of |-> of, from |-> from, to |-> to]

ConstructionTransitions(old, new) ==
  {Signal("construction", "constructionAdvanced", new[p[2]].def,
          old[p[1]].stage, new[p[2]].stage) : p \in Advances(old, new)}

ConstructionCounts(old, new) ==
  LET Kinds(bs) == {<<bs[i].def, bs[i].stage>> : i \in DOMAIN bs}
      Count(bs, k) == Cardinality({i \in DOMAIN bs : <<bs[i].def, bs[i].stage>> = k})
  IN {Signal("construction", "constructionCountChanged", k, Count(old, k), Count(new, k)) :
        k \in {j \in Kinds(old) \cup Kinds(new) : Count(old, j) # Count(new, j)}}

\* A room is compared without its id.  Things of one transition are grouped.
RoomTransitions(old, new) ==
  {Signal("room", "roomTopologyChanged", "room", old[i].room, new[i].room) :
     i \in {j \in DOMAIN old \cap DOMAIN new : old[j].room # new[j].room}}

LaborProgress(old, new) ==
  {Signal("work", "pendingWorkChanged", w, old.pending[w], new.pending[w]) :
     w \in {v \in DOMAIN new.pending : old.pending[v] # new.pending[v]}}
  \cup
  {Signal("designation", "designationCountChanged", d, old.designated[d], new.designated[d]) :
     d \in {e \in DOMAIN new.designated : old.designated[e] # new.designated[e]}}
  \cup
  {Signal("blocker", "blockerCleared", b, 1, 0) : b \in old.blockers \ new.blockers}

\* The state the mod reports, or the one its counts say.
GrowingPhase(z) ==
  CASE z.state # "none" -> z.state
    [] z.state = "none" /\ z.harvestable > 0 -> "harvestable"
    [] z.state = "none" /\ z.harvestable = 0 /\ z.complete -> "planted"
    [] z.state = "none" /\ z.harvestable = 0 /\ ~z.complete /\ z.planted > 0 -> "partiallyPlanted"
    [] OTHER -> "empty"

GrowingProgress(old, new) ==
  {Signal("growing", "growingZoneAdvanced", z,
          [phase |-> GrowingPhase(old[z]), planted |-> old[z].planted],
          [phase |-> GrowingPhase(new[z]), planted |-> new[z].planted,
           complete |-> new[z].complete]) :
     z \in {y \in DOMAIN old \cap DOMAIN new :
              \/ GrowingPhase(old[y]) # GrowingPhase(new[y])
              \/ old[y].planted # new[y].planted}}

ResearchProgress(old, new) ==
  {Signal("research", "researchCompleted", p, 0, 1) : p \in new.completed \ old.completed}
  \cup
  (IF old.current = new.current /\ new.current # NoProject /\ new.progress > old.progress
     THEN {Signal("research", "researchAdvanced", new.current, old.progress, new.progress)}
     ELSE {})

-----------------------------------------------------------------------------
(* Completion: what one snapshot says is there.                            *)

\* room_is_completed_shelter: enclosed, indoors, not of outdoor temperature and
\* roofed by half.
IsShelter(room) == room # NoRoom /\ room.shelter

CompletionEvidence(s) ==
  LET at(stages) == {i \in DOMAIN s.buildings : s.buildings[i].stage \in stages}
      defs(ids) == {s.buildings[i].def : i \in ids}
      usable == {b \in s.beds : b.ordinary}
  IN [zones |-> s.zones,
      built |-> defs(at({"building"})),
      unbuilt |-> defs(at({"blueprint", "frame"})),
      shelters |-> {r \in {s.buildings[i].room : i \in at({"building"})}
                          \cup {b.room : b \in usable} : IsShelter(r)},
      missingBeds |-> IF s.colonists > Cardinality(usable)
                        THEN s.colonists - Cardinality(usable) ELSE 0,
      researched |-> s.research.completed,
      hauled |-> s.pending["haulables"] = 0]

\* The categories are those of all signals; the signals themselves are cut.
BuildProgressSignals(old, new) ==
  LET all == IF CompatibleSnapshots(old, new)
               THEN <<ConstructionTransitions(old.buildings, new.buildings),
                      ConstructionCounts(old.buildings, new.buildings),
                      RoomTransitions(old.buildings, new.buildings),
                      LaborProgress(old, new),
                      GrowingProgress(old.zones, new.zones),
                      ResearchProgress(old.research, new.research)>>
               ELSE <<>>
      list == FoldLeft(LAMBDA l, kind : l \o FoldSet(LAMBDA x, t : Append(t, x), <<>>, kind),
                       <<>>, all)
  IN [categories |-> {list[i].category : i \in DOMAIN list},
      signals |-> SubSeq(list, 1, IF Len(list) < MaxProgressSignals
                                    THEN Len(list) ELSE MaxProgressSignals),
      evidence |-> CompletionEvidence(new)]

-----------------------------------------------------------------------------
(* Does the state already satisfy what an objective asks for?              *)

Mentions(text, names) == SelectSeq(Meaning[text].names, LAMBDA n : n \in names)

\* A zone is named by its id or its crop.
RelevantZones(text, zones) ==
  {z \in DOMAIN zones : Meaning[text].specific =>
                          Mentions(text, {z, zones[z].plant}) # <<>>}

\* Only the longest name of a completed building counts.
BuildingPresent(text, e) ==
  LET named == Mentions(text, e.built \ Generic)
  IN named # <<>> /\ Head(named) \notin e.unbuilt

\* authoritative_completion_for returns a sentence for each; none is no evidence.
AuthoritativeCompletionFor(text, progress) ==
  LET e == progress.evidence
      in(category) == category \in Meaning[text].categories
      about(word) == word \in Meaning[text].about
      zones == RelevantZones(text, e.zones)
      Holds ==
        [planting |-> /\ in("growing") /\ ~about("harvest")
                      /\ zones # {} /\ \A z \in zones : e.zones[z].complete,
         shelter |-> in("room") /\ about("shelter") /\ e.shelters # {},
         beds |-> in("beds") /\ about("capacity") /\ e.missingBeds = 0,
         present |-> BuildingPresent(text, e),
         ordered |-> \E i \in DOMAIN progress.signals :
                       /\ progress.signals[i].type = "constructionAdvanced"
                       /\ progress.signals[i].to = "building"
                       /\ Mentions(text, {progress.signals[i].of}) # <<>>,
         research |-> in("research") /\ Mentions(text, e.researched) # <<>>,
         hauling |-> in("hauling") /\ e.hauled]
  IN {k \in DOMAIN Holds : Holds[k]}
=============================================================================
