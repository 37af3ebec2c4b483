------------------------------ MODULE StateDiff ------------------------------
(***************************************************************************)
(* The delta a decision is shown: what changed between the baseline of the *)
(* last committed decision and the current snapshot, without the noise,    *)
(* and cut to size (Controller/state_diff.py).                             *)
(*                                                                         *)
(* A snapshot is a record of lists, a list a function from ids to records; *)
(* what is one object in the code (the game, the research) is a list of    *)
(* one.  The fields a delta compares as they are come together in two: self*)
(* are those that the summary of a newcomer tells, more those that it      *)
(* leaves out (the skills of a colonist, the room of a wall).  The fields  *)
(* it compares by band or by distance keep their numbers, in percent and   *)
(* in cells.  The size of a text is the number of things it lists.  An     *)
(* entry is told whole: the limits inside one entry (the cells of a zone,  *)
(* the bills of a table, the members of a network, the clothes of a        *)
(* newcomer, a list in a field) are left out.                              *)
(***************************************************************************)
EXTENDS ConstructionPairing

CONSTANTS
  Snapshots,       \* bound: the contents a snapshot may have
  Sources,         \* colony, schema and map of a snapshot
  MaxVersion, MaxTick,                       \* bounds
  MaxDetails, MaxDelta,     \* max_entity_details, max_delta_chars
  CompactDetails            \* min(10, max_entity_details)

ASSUME DiffAssumption ==
  /\ MaxDetails \in Nat \ {0} /\ MaxDelta \in Nat
  /\ CompactDetails \in 1..MaxDetails
  /\ MaxVersion \in Nat \ {0} /\ MaxTick \in Nat

\* What the game knows one of, and the lists of a snapshot besides its networks
\* and its map things, which come in two categories.
Objects == {"game", "colony", "resources", "research", "map", "labor"}

Lists == Objects \cup
  {"pawns", "completed", "threats", "alerts", "letters", "events", "points", "zones", "areas",
   "buildings", "plants", "equipment", "apparel", "beds", "worktables", "unpowered", "fuel"}

Categories == {"forbidden", "haulable"}

\* The fields that the summary of a newcomer tells.
ColonistSummary == {"self", "drafted", "position", "food", "mood", "rest", "recreation",
                    "bleeding", "pain", "hediffs"}
PlacedSummary == {"self", "position"}
GearSummary == PlacedSummary \cup {"hp", "maxHp"}
ZoneSummary == {"self", "cells"}
BuildingSummary == {"def", "cell", "stage", "self", "hp", "maxHp"}
ThingSummary == {"def", "cell", "stack", "forbidden"}
FuelSummary == {"self", "fuel", "capacity"}

\* What the documents of the game say of each thing.
Has(list, fields) == \A i \in DOMAIN list : fields \subseteq DOMAIN list[i]
Numbers(list, field) == \A i \in DOMAIN list : list[i][field] \in Int
Plain(list, fields) == \A i \in DOMAIN list : list[i] = [f \in fields |-> list[i][f]]

ASSUME SnapshotsAssumption ==
  \A s \in Snapshots :
    /\ \A l \in Lists : IsFiniteSet(DOMAIN s[l])
    /\ \A l \in Objects : DOMAIN s[l] = {l}
    /\ \A c \in Categories : IsFiniteSet(DOMAIN s.things[c]) /\ DOMAIN s.things[c] \subseteq Nat
    /\ IsFiniteSet(s.networks)
    /\ DOMAIN s.buildings \subseteq Nat
    /\ Plain(s.game, {"self"}) /\ Plain(s.resources, {"self"}) /\ Plain(s.zones, ZoneSummary)
    /\ Has(s.pawns, ColonistSummary \cup {"more"})
    /\ Has(s.research, {"project", "progress", "cost"})
    /\ Has(s.threats, PlacedSummary)
    /\ Has(s.buildings, BuildingSummary \cup {"more"})
    /\ \A l \in {"equipment", "apparel"} : Has(s[l], GearSummary \cup {"more"})
    /\ Has(s.beds, PlacedSummary \cup {"more"})
    /\ Has(s.fuel, FuelSummary)
    /\ \A l \in {"pawns", "threats", "equipment", "apparel", "beds"} : Numbers(s[l], "position")
    /\ \A i \in DOMAIN s.pawns : Numbers(s.pawns[i].hediffs, "severity")
    /\ \A i \in DOMAIN s.buildings : s.buildings[i].hp \in Nat

VARIABLES baseline, current      \* StateStore: decision_baseline, current_state

vars == <<baseline, current>>

NoBaseline == [source |-> "none"]

-----------------------------------------------------------------------------
(* Bands and distances                                                     *)

\* Of the limits the value is below, the lowest gives the band; 101: adequate.
Band(value, limits) == Min({l \in limits : value < l} \cup {101})

NeedLimits == [food |-> {12, 30}, mood |-> {5, 18, 35}, rest |-> {14, 30},
               recreation |-> {15, 35}]

\* need_band
NeedBand(need, value) == Band(value, NeedLimits[need])

\* bleeding_band, pain_band: no bleeding at all is a band of its own.
BleedingBand(value) == Band(value, {1, 15, 50})
PainBand(value) == Band(value, {5, 30, 60})

\* temperature_band, in degrees
TemperatureBand(value) == Band(value, {-10, 0, 10, 30, 40})

\* storage_band: empty at 2 percent or less, low below 20.
StorageBand(b) ==
  CASE b.capacity = 0 -> "none"
    [] b.capacity > 0 /\ b.stored * 100 <= 2 * b.capacity -> "empty"
    [] b.capacity > 0 /\ b.stored * 100 > 2 * b.capacity /\ b.stored * 100 < 20 * b.capacity -> "low"
    [] OTHER -> "adequate"

\* fuel_band: empty at zero, low below 25 percent.
FuelBand(f) ==
  CASE f.fuel = 0 -> "empty"
    [] f.fuel > 0 /\ f.fuel * 4 < f.capacity -> "low"
    [] OTHER -> "adequate"

\* power_band
PowerBand(p) ==
  CASE p.generated <= 0 /\ p.consumed > 0 -> "offline"
    [] ~(p.generated <= 0 /\ p.consumed > 0) /\ p.net < -1 -> "deficit"
    [] OTHER -> "stable"

Distance(a, b) == IF a < b THEN b - a ELSE a - b

\* position_change, of things that move along a line
Moved(old, new, least) == old.position # new.position
                          /\ Distance(old.position, new.position) >= least

\* hitpoint_change_meaningful: a tenth, or destroyed; any, of what has no most.
HitPointsMeaningful(old, new) ==
  LET most == IF new.maxHp # 0 THEN new.maxHp ELSE old.maxHp
  IN IF most <= 0 THEN old.hp # new.hp
     ELSE \/ Distance(old.hp, new.hp) * 10 >= most
          \/ old.hp > 0 /\ new.hp <= 0

\* meaningful_progress: a quarter of the cost, or all of it; without a cost 100.
MeaningfulProgress(old, new) ==
  LET cost == IF new.cost # 0 THEN new.cost ELSE old.cost
  IN /\ old.progress # new.progress
     /\ IF cost > 0 THEN (old.progress * 4) \div cost # (new.progress * 4) \div cost
                    ELSE Distance(old.progress, new.progress) >= 100

-----------------------------------------------------------------------------
(* The fields in which two records of one id are reported                  *)

\* fields_diff
Differing(old, new, fields) == {f \in fields : old[f] # new[f]}

SelfFields(old, new) == Differing(old, new, {"self"})

\* keyed_severity_diff, of hediffs counted by name (aggregate_hediffs)
HediffTold(old, new) ==
  old.count # new.count \/ Distance(old.severity, new.severity) >= 10

\* The new colonists with the old value of each hediff whose change is noise: of a
\* colonist that stays only the other hediffs are told.
Noiseless(old, new) ==
  [i \in DOMAIN new |->
     IF i \notin DOMAIN old THEN new[i]
     ELSE [new[i] EXCEPT !.hediffs =
             LET was == old[i].hediffs
             IN [h \in DOMAIN @ |-> IF h \in DOMAIN was /\ ~HediffTold(was[h], @[h]) THEN was[h]
                                                                                 ELSE @[h]]]]

\* Mutant: a drafted colonist is reported like the others.
MutColonistFields(old, new) ==
  Differing(old, new, {"self", "more", "drafted", "hediffs"})
  \cup {f \in {"position"} : Moved(old, new, 15)}
  \cup {f \in {"food", "mood", "rest", "recreation"} : NeedBand(f, old[f]) # NeedBand(f, new[f])}
  \cup {f \in {"bleeding"} : BleedingBand(old[f]) # BleedingBand(new[f])}
  \cup {f \in {"pain"} : PainBand(old[f]) # PainBand(new[f])}

\* _diff_colonist, needs_diff, health_diff; mental state, work, skills and gear
\* are in more.
ColonistFields(old, new) ==
  Differing(old, new, {"self", "more", "drafted", "hediffs"})
  \cup {f \in {"position"} : Moved(old, new, IF old.drafted \/ new.drafted THEN 3 ELSE 15)}
  \cup {f \in {"food", "mood", "rest", "recreation"} : NeedBand(f, old[f]) # NeedBand(f, new[f])}
  \cup {f \in {"bleeding"} : BleedingBand(old[f]) # BleedingBand(new[f])}
  \cup {f \in {"pain"} : PainBand(old[f]) # PainBand(new[f])}

\* _diff_research: with another project its progress is told too, with its cost.
ResearchFields(old, new) ==
  {f \in {"project"} : old.project # new.project}
  \cup {f \in {"progress", "cost"} : old.project # new.project \/ MeaningfulProgress(old, new)}

ThreatFields(old, new) ==
  SelfFields(old, new) \cup {f \in {"position"} : Moved(old, new, 8)}

\* _diff_map, environment_diff
MapFields(old, new) ==
  SelfFields(old, new)
  \cup {f \in {"position"} : Moved(old, new, 10)}
  \cup {f \in {"temperature"} : TemperatureBand(old[f]) # TemperatureBand(new[f])}

\* _diff_zones; cell_geometry_diff tells the cells that came and went.
ZoneFields(old, new) == Differing(old, new, ZoneSummary)

\* construction_entity_diff; stuffDef and the room are in more.
ConstructionFields(old, new) ==
  Differing(old, new, {"stage", "def", "cell", "self", "more"})
  \cup {f \in {"hp"} : HitPointsMeaningful(old, new)}

\* _diff_plants: growth is noise.
PlantFields(old, new) == Differing(old, new, {"harvestable", "self"})
HarvestFields(old, new) == {f \in {"harvestable"} : ~old.harvestable /\ new.harvestable}

\* generic_entity_diff, of what has no hit points and of what has some
PlacedFields(old, new) ==
  Differing(old, new, {"self", "more"}) \cup {f \in {"position"} : Moved(old, new, 5)}

GearFields(old, new) ==
  PlacedFields(old, new) \cup Differing(old, new, {"maxHp"})
  \cup {f \in {"hp"} : HitPointsMeaningful(old, new)}

BillFields(old, new) == Differing(old, new, {"self", "more"})

\* map_thing_diff
ThingFields(old, new) == Differing(old, new, {"stack", "forbidden"})

\* power_network_diff, of networks that are told by their bands
NetworkFields(old, new) == Differing(old, new, {"power", "storage", "connected"})

\* _diff_fuel: the fuel with its band, here with the capacity the band is of.
FuelFields(old, new) ==
  SelfFields(old, new) \cup {f \in {"fuel", "capacity"} : FuelBand(old) # FuelBand(new)}

-----------------------------------------------------------------------------
(* Two lists compared                                                      *)

\* pick: what a summary tells of a record
Pick(record, summary) == [f \in summary |-> record[f]]

\* _diff_id_list, _diff_indexed_maps and their like; reported: of what stays the
\* fields to tell.
DeltaOf(old, new, reported, summary) ==
  [added |-> [i \in DOMAIN new \ DOMAIN old |-> Pick(new[i], summary)],
   removed |-> DOMAIN old \ DOMAIN new,
   changed |-> [i \in {j \in DOMAIN reported : reported[j] # {}} |->
                  [f \in reported[i] |-> new[i][f]]],
   transitions |-> {}]

ListDelta(old, new, Fields(_, _), summary) ==
  DeltaOf(old, new, [i \in DOMAIN old \cap DOMAIN new |-> Fields(old[i], new[i])], summary)

\* An object is there on both sides: nothing comes or goes.
ObjectDelta(old, new, Fields(_, _)) == ListDelta(old, new, Fields, {})

Without(list, ids) == [i \in DOMAIN list \ ids |-> list[i]]

\* _diff_construction: what became something else is told as a transition, in its
\* summary, the rest as a list.
ConstructionDelta(old, new) ==
  LET pairs == Advances(old, new)
      rest == ListDelta(Without(old, {p[1] : p \in pairs}), Without(new, {p[2] : p \in pairs}),
                        ConstructionFields, BuildingSummary)
  IN [rest EXCEPT !.transitions =
        {[from |-> p[1], to |-> p[2], what |-> Pick(new[p[2]], BuildingSummary)] : p \in pairs}]

ThingKey(t) == <<t.def, t.cell>>

\* Of some things those of the same kind and cell with lower ids.
Lower(list, ids, i) == {j \in ids : ThingKey(list[j]) = ThingKey(list[i]) /\ j < i}

\* The k-th old and the k-th new thing of a kind and cell, by their ids.
Paired(old, new, gone, came) ==
  {p \in gone \X came : /\ ThingKey(old[p[1]]) = ThingKey(new[p[2]])
                       /\ Cardinality(Lower(old, gone, p[1])) = Cardinality(Lower(new, came, p[2]))}

\* Mutant: things are matched by id alone.
MutThingsDelta(old, new) == ListDelta(old, new, ThingFields, ThingSummary)

\* _diff_restart_safe_map_thing_list: the game may give all things new ids.
ThingsDelta(old, new) ==
  LET both == DOMAIN old \cap DOMAIN new
      pairs == {<<i, i>> : i \in both}
                 \cup Paired(old, new, DOMAIN old \ both, DOMAIN new \ both)
      Told(p) == ThingFields(old[p[1]], new[p[2]])
      told == {p \in pairs : Told(p) # {}}
  IN [added |-> [i \in DOMAIN new \ {p[2] : p \in pairs} |-> Pick(new[i], ThingSummary)],
      removed |-> DOMAIN old \ {p[1] : p \in pairs},
      changed |-> [i \in {p[2] : p \in told} |->
                     LET p == CHOOSE q \in told : q[2] = i
                     IN [f \in Told(p) |-> new[i][f]]],
      transitions |-> {}]

\* power_network_key: a network is known by the buildings on it.
NetworkKey(n) == IF DOMAIN n.connected # {} THEN DOMAIN n.connected ELSE {n.id}

\* power_building_delta tells the members of a network in their bands.
Banded(n) ==
  [power |-> PowerBand(n.power), storage |-> StorageBand(n.storage),
   connected |-> [m \in DOMAIN n.connected |->
                    [self |-> n.connected[m].self, storage |-> StorageBand(n.connected[m])]]]

ByKey(nets) ==
  [k \in {NetworkKey(n) : n \in nets} |-> Banded(CHOOSE n \in nets : NetworkKey(n) = k)]

\* power_network_summary tells nothing of the members.
NetworksDelta(old, new) == ListDelta(ByKey(old), ByKey(new), NetworkFields, {"power", "storage"})

\* Alerts and letters are resolved; an event, or research, that is no longer
\* listed is not told.
NoticesDelta(old, new) == [ListDelta(old, new, SelfFields, {"self"}) EXCEPT !.changed = <<>>]
EventsDelta(old, new) == [NoticesDelta(old, new) EXCEPT !.removed = {}]

\* What is said of those that stay, in a list of its own.
Staying(d) == [d EXCEPT !.added = <<>>, !.removed = {}]

-----------------------------------------------------------------------------
(* The sections of a delta                                                 *)

Silent(d) == /\ DOMAIN d.added = {} /\ d.removed = {}
             /\ DOMAIN d.changed = {} /\ d.transitions = {}

\* _diff_worktables: the tables whose bills changed
BillsFields(old, new) ==
  {f \in {"bills"} : ~Silent(ListDelta(old.bills, new.bills, BillFields, {"self"}))}

AllSections(o, n) ==
  [game |-> [game |-> ObjectDelta(o.game, n.game, SelfFields)],
   colony |-> [colony |-> ObjectDelta(o.colony, n.colony, SelfFields)],
   resources |-> [resources |-> ObjectDelta(o.resources, n.resources, SelfFields)],
   colonists |-> [pawns |-> ListDelta(o.pawns, Noiseless(o.pawns, n.pawns), ColonistFields,
                                      ColonistSummary)],
   research |-> [research |-> ObjectDelta(o.research, n.research, ResearchFields),
                 completed |-> EventsDelta(o.completed, n.completed)],
   threats |-> [threats |-> ListDelta(o.threats, n.threats, ThreatFields, PlacedSummary)],
   awareness |-> [alerts |-> NoticesDelta(o.alerts, n.alerts),
                  letters |-> NoticesDelta(o.letters, n.letters),
                  newEvents |-> EventsDelta(o.events, n.events)],
   mapThings |-> [c \in Categories |-> ThingsDelta(o.things[c], n.things[c])],
   map |-> [map |-> ObjectDelta(o.map, n.map, MapFields),
            pointsOfInterest |-> ListDelta(o.points, n.points, PlacedFields, PlacedSummary),
            zones |-> ListDelta(o.zones, n.zones, ZoneFields, ZoneSummary)],
   construction |-> [buildings |-> ConstructionDelta(o.buildings, n.buildings)],
   plants |-> [becameHarvestable |-> Staying(ListDelta(o.plants, n.plants, HarvestFields, {})),
               plants |-> ListDelta(o.plants, n.plants, PlantFields, {})],
   operations |-> [equipment |-> ListDelta(o.equipment, n.equipment, GearFields, GearSummary),
                   apparel |-> ListDelta(o.apparel, n.apparel, GearFields, GearSummary),
                   beds |-> ListDelta(o.beds, n.beds, PlacedFields, PlacedSummary),
                   worktables |-> ListDelta(o.worktables, n.worktables, SelfFields, {"self"}),
                   billChanges |-> Staying(ListDelta(o.worktables, n.worktables, BillsFields, {})),
                   power |-> NetworksDelta(o.networks, n.networks),
                   unpoweredBuildings |-> ListDelta(o.unpowered, n.unpowered, PlacedFields,
                                                    PlacedSummary),
                   fuel |-> ListDelta(o.fuel, n.fuel, FuelFields, FuelSummary),
                   allowedAreas |-> ListDelta(o.areas, n.areas, ZoneFields, ZoneSummary),
                   labor |-> ObjectDelta(o.labor, n.labor, SelfFields)]]

Reduced(all, IsEmpty(_)) == [k \in {j \in DOMAIN all : ~IsEmpty(all[j])} |-> all[k]]

\* _put leaves out what is empty.
Sections(o, n) ==
  LET all == AllSections(o, n)
      Empty(section) == \A l \in DOMAIN section : Silent(section[l])
  IN Reduced(all, Empty)
-----------------------------------------------------------------------------
(* The delta cut to size                                                   *)

Kinds == {"added", "removed", "changed", "transitions"}

TrueIds(d, kind) ==
  CASE kind = "added" -> DOMAIN d.added [] kind = "removed" -> d.removed
    [] kind = "changed" -> DOMAIN d.changed [] kind = "transitions" -> d.transitions

First(n, ids) ==
  IF Cardinality(ids) <= n THEN ids ELSE CHOOSE k \in SUBSET ids : Cardinality(k) = n

\* _bounded_put: a list that is cut has a count, newly completed research none; of
\* plants that came and went there is the count alone.  count is what a reader
\* takes the list to have: its count, or else as many as are shown.
Bounded(section) ==
  [l \in DOMAIN section |-> [k \in Kinds |->
     LET ids == TrueIds(section[l], k)
         shown == IF l = "plants" /\ k \in {"added", "removed"} THEN {} ELSE First(MaxDetails, ids)
     IN [shown |-> shown, count |-> Cardinality(IF l = "completed" THEN shown ELSE ids)]]]

Critical == {"threats", "colonists", "awareness"}

Entries(lists) ==
  MapThenSumSet(LAMBDA l : MapThenSumSet(LAMBDA k : Cardinality(lists[l][k].shown), Kinds),
                DOMAIN lists)

Listed(form, lists) == [form |-> form, lists |-> lists, size |-> Entries(lists)]
Summary(lists) == [form |-> "summary", lists |-> <<>>, size |-> 1]

\* Mutant: a list that is cut again counts what was left of it.
MutCompacted(lists) ==
  Listed("compact", [l \in DOMAIN lists \ {"alerts", "letters"} |-> [k \in Kinds |->
           [shown |-> First(CompactDetails, lists[l][k].shown),
            count |-> Cardinality(lists[l][k].shown)]]])

\* compact_critical_section keeps the lists of a section and their counts; the
\* alerts and letters, one level down, are dropped, and the section is marked.
Compacted(lists) ==
  Listed("compact", [l \in DOMAIN lists \ {"alerts", "letters"} |-> [k \in Kinds |->
           [shown |-> First(CompactDetails, lists[l][k].shown),
            count |-> lists[l][k].count]]])

TotalSize(output) == MapThenSumSet(LAMBDA s : output[s].size, DOMAIN output)

\* _bound_final
Output(sections) ==
  LET full == [s \in DOMAIN sections |-> Listed("detail", Bounded(sections[s]))]
      summed == [s \in DOMAIN full |-> IF s \in Critical THEN full[s] ELSE Summary(full[s])]
      compact == [s \in DOMAIN full |-> IF s \in Critical THEN Compacted(full[s].lists)
                                                          ELSE summed[s]]
      samples == [s \in DOMAIN full |-> Summary(full[s])]
  IN CASE TotalSize(full) <= MaxDelta -> full
       [] TotalSize(full) > MaxDelta /\ TotalSize(summed) <= MaxDelta -> summed
       [] TotalSize(full) > MaxDelta /\ TotalSize(summed) > MaxDelta
            /\ TotalSize(compact) <= MaxDelta -> compact
       [] OTHER -> samples

-----------------------------------------------------------------------------
(* Snapshots compared                                                      *)

\* is_safe_snapshot_stream_reset, of one source: the game was restarted and
\* plays on.
SafeReset(old, new) ==
  /\ new.version <= old.version /\ new.tick >= old.tick
  /\ new.version < old.version \/ new.tick > old.tick

\* _validate; otherwise the delta is bootstrapRequired.
Comparable(old, new) ==
  /\ old # NoBaseline
  /\ old.source = new.source
  /\ new.version >= old.version \/ SafeReset(old, new)

Init ==
  /\ baseline = NoBaseline
  /\ \E c \in Snapshots, s \in Sources :
       current = [source |-> s, version |-> 1, tick |-> 0, is |-> c]

\* The game publishes its state again.
Play ==
  \E c \in Snapshots, t \in 0..1 :
    /\ current.version < MaxVersion /\ current.tick + t <= MaxTick
    /\ current' = [current EXCEPT !.version = @ + 1, !.tick = @ + t, !.is = c]
    /\ UNCHANGED baseline

\* The game is restarted with this save or another.
Restart ==
  \E c \in Snapshots, s \in Sources, t \in 0..MaxTick :
    /\ current' = [source |-> s, version |-> 1, tick |-> t, is |-> c]
    /\ UNCHANGED baseline

Commit ==
  /\ baseline # current
  /\ baseline' = current
  /\ UNCHANGED current

Next == Play \/ Restart \/ Commit

Spec == Init /\ [][Next]_vars

-----------------------------------------------------------------------------
(* Properties                                                              *)

Delta == Sections(baseline.is, current.is)

Silence == [added |-> <<>>, removed |-> {}, changed |-> <<>>, transitions |-> {}]

Of(section, list) == IF section \in DOMAIN Delta THEN Delta[section][list] ELSE Silence

\* What a reader of the baseline and the delta takes the list to be now.
Patched(old, d) ==
  LET from == {t.from : t \in d.transitions}
      to == {t.to : t \in d.transitions}
      Entry(i) ==
        IF i \in DOMAIN d.added THEN d.added[i]
        ELSE IF i \in to THEN (CHOOSE t \in d.transitions : t.to = i).what
        ELSE IF i \in DOMAIN d.changed
          THEN [f \in DOMAIN old[i] |-> IF f \in DOMAIN d.changed[i] THEN d.changed[i][f]
                                                                   ELSE old[i][f]]
        ELSE old[i]
  IN [i \in (DOMAIN old \ (d.removed \cup from)) \cup DOMAIN d.added \cup to |-> Entry(i)]

\* Of what stayed the reader knows all that is not noise, of what came its summary.
Same(old, d, new, summary, Alike(_, _)) ==
  LET told == Patched(old, d)
  IN /\ DOMAIN told = DOMAIN new
     /\ \A i \in DOMAIN new : IF i \in DOMAIN old THEN Alike(told[i], new[i])
                                                ELSE told[i] = Pick(new[i], summary)

Equal(a, b) == a = b

\* Of an alert only that it is active: a new wording of one is not told.
Active(a, b) == TRUE

\* The need for help that README.md promises to report.
Condition(p) == [n \in DOMAIN NeedLimits |-> NeedBand(n, p[n])]

AlikeHediffs(a, b) ==
  /\ DOMAIN a = DOMAIN b
  /\ \A h \in DOMAIN b : a[h].count = b[h].count /\ Distance(a[h].severity, b[h].severity) < 10

AlikeColonists(a, b) ==
  /\ a.self = b.self /\ a.more = b.more /\ a.drafted = b.drafted /\ Condition(a) = Condition(b)
  /\ BleedingBand(a.bleeding) = BleedingBand(b.bleeding) /\ PainBand(a.pain) = PainBand(b.pain)
  /\ AlikeHediffs(a.hediffs, b.hediffs)
  /\ Distance(a.position, b.position) < IF b.drafted THEN 3 ELSE 15

AlikeResearch(a, b) == a.project = b.project /\ ~MeaningfulProgress(a, b)
AlikeThreats(a, b) == a.self = b.self /\ Distance(a.position, b.position) < 8
AlikePlaced(a, b) == a.self = b.self /\ a.more = b.more /\ Distance(a.position, b.position) < 5
AlikeBuildings(a, b) ==
  /\ a.def = b.def /\ a.stage = b.stage /\ a.cell = b.cell /\ a.self = b.self /\ a.more = b.more
  /\ b.hp = 0 => a.hp = 0
AlikeFuel(a, b) == a.self = b.self /\ FuelBand(a) = FuelBand(b)

(* The baseline and the delta, before it is cut to size, say together how    *)
(* the colony stands.  What stayed is known in every field, those that are   *)
(* told by bands or by distance up to the limits of README.md: what the      *)
(* delta leaves out as noise or pairs up loses nothing.  Of what came, and   *)
(* of a construction that advanced, is known what its summary tells, which   *)
(* is not all that is compared of what stays (compact_colonist,              *)
(* construction_summary).  The baseline is the last committed one: a change  *)
(* spread over several commits may stay below the limits each time.          *)
DeltaTellsCurrent ==
  Comparable(baseline, current) =>
    LET o == baseline.is  n == current.is IN
      /\ Same(o.game, Of("game", "game"), n.game, {}, Equal)
      /\ Same(o.resources, Of("resources", "resources"), n.resources, {}, Equal)
      /\ Same(o.pawns, Of("colonists", "pawns"), n.pawns, ColonistSummary, AlikeColonists)
      /\ Same(o.research, Of("research", "research"), n.research, {}, AlikeResearch)
      /\ DOMAIN n.completed \ DOMAIN o.completed = DOMAIN Of("research", "completed").added
      /\ Same(o.threats, Of("threats", "threats"), n.threats, PlacedSummary, AlikeThreats)
      /\ Same(o.alerts, Of("awareness", "alerts"), n.alerts, {"self"}, Active)
      /\ Same(o.letters, Of("awareness", "letters"), n.letters, {"self"}, Active)
      /\ Same(o.zones, Of("map", "zones"), n.zones, ZoneSummary, Equal)
      /\ Same(o.buildings, Of("construction", "buildings"), n.buildings, BuildingSummary,
              AlikeBuildings)
      /\ \A l \in {"equipment", "apparel"} :
           Same(o[l], Of("operations", l), n[l], GearSummary, AlikePlaced)
      /\ Same(o.beds, Of("operations", "beds"), n.beds, PlacedSummary, AlikePlaced)
      /\ Same(o.fuel, Of("operations", "fuel"), n.fuel, FuelSummary, AlikeFuel)
      /\ Same(ByKey(o.networks), Of("operations", "power"), ByKey(n.networks), {"power", "storage"},
              Equal)

(* Each thing is told once.  A thing of a category that only got a new id    *)
(* (the game was restarted) is not gone and come; a construction that went   *)
(* is either gone or became one other, and no other became the same          *)
(* (_diff_restart_safe_map_thing_list, _diff_construction).                  *)
EachThingIsToldOnce ==
  Comparable(baseline, current) =>
    LET o == baseline.is  n == current.is
        built == Of("construction", "buildings")
        went == DOMAIN o.buildings \ DOMAIN n.buildings
        became == {t.from : t \in built.transitions}
    IN /\ \A c \in Categories :
            LET things == Of("mapThings", c) IN
              /\ {ThingKey(n.things[c][i]) : i \in DOMAIN things.added}
                   \cap {ThingKey(o.things[c][i]) : i \in things.removed} = {}
              /\ Cardinality(DOMAIN things.added) - Cardinality(things.removed)
                   = Cardinality(DOMAIN n.things[c]) - Cardinality(DOMAIN o.things[c])
       /\ built.removed \cup became = went /\ built.removed \cap became = {}
       /\ Cardinality({t.to : t \in built.transitions}) = Cardinality(built.transitions)
       /\ Cardinality(became) = Cardinality(built.transitions)

(* The delta names every section that changed, and a list it shows in part   *)
(* has the count of all of it, also after a second cut (_bounded_put,        *)
(* compact_critical_section).  Two things are lost: newly completed research *)
(* is cut without a count (_diff_research), and compaction drops the alerts  *)
(* and letters of a section that it marks as truncated.                      *)
CutsAreCounted ==
  Comparable(baseline, current) =>
    LET output == Output(Delta) IN
      /\ DOMAIN output = DOMAIN Delta
      /\ \A s \in DOMAIN output : output[s].form # "summary" =>
           /\ \A l \in DOMAIN output[s].lists, k \in Kinds :
                LET cut == output[s].lists[l][k] IN
                  /\ cut.shown \subseteq TrueIds(Delta[s][l], k)
                  /\ l # "completed" => cut.count = Cardinality(TrueIds(Delta[s][l], k))
           /\ DOMAIN Delta[s] \ DOMAIN output[s].lists
                \subseteq IF output[s].form = "compact" THEN {"alerts", "letters"} ELSE {}
=============================================================================
