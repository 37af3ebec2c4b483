-------------------------- MODULE StateDiffProofs --------------------------
(***************************************************************************)
(* StateDiff for any two snapshots the game may publish and any limits:    *)
(* the baseline and the delta tell the current state, each thing is told   *)
(* once, and what is cut is counted.                                       *)
(***************************************************************************)
EXTENDS StateDiff, FiniteSetTheorems, WellFoundedInduction, TLAPS

(* What is compared are snapshots.                                         *)
ComparedInv ==
  /\ "is" \in DOMAIN current /\ current.is \in Snapshots
  /\ baseline # NoBaseline => baseline.is \in Snapshots

LEMMA ComparedInit == Init => ComparedInv
BY DEF Init, ComparedInv

LEMMA ComparedStep ==
  ASSUME ComparedInv, [Next]_vars
  PROVE  ComparedInv'
<1>1. CASE Play
  BY <1>1 DEF Play, ComparedInv
<1>2. CASE Restart
  BY <1>2 DEF Restart, ComparedInv
<1>3. CASE Commit
  BY <1>3 DEF Commit, ComparedInv
<1>4. CASE UNCHANGED vars
  BY <1>4 DEF vars, ComparedInv
<1> QED BY <1>1, <1>2, <1>3, <1>4 DEF Next

LEMMA SnapshotFinite ==
  ASSUME NEW s \in Snapshots
  PROVE  /\ \A l \in Lists : IsFiniteSet(DOMAIN s[l])
         /\ IsFiniteSet(s.networks)
         /\ \A c \in Categories : IsFiniteSet(DOMAIN s.things[c]) /\ DOMAIN s.things[c] \subseteq Nat
         /\ DOMAIN s.buildings \subseteq Nat
BY SnapshotsAssumption

-----------------------------------------------------------------------------
(* The sections                                                            *)

\* Only what is silent is left out.
LEMMA SectionsKeep ==
  ASSUME NEW o, NEW n
  PROVE  LET all == AllSections(o, n)  put == Sections(o, n)
         IN /\ DOMAIN put \subseteq DOMAIN all
            /\ \A s \in DOMAIN put : put[s] = all[s]
            /\ \A s \in DOMAIN all \ DOMAIN put : \A l \in DOMAIN all[s] : Silent(all[s][l])
BY DEF Sections, Reduced

FiniteDelta(d) ==
  /\ IsFiniteSet(DOMAIN d.added) /\ IsFiniteSet(d.removed)
  /\ IsFiniteSet(DOMAIN d.changed) /\ IsFiniteSet(d.transitions)

LEMMA DeltaOfFinite ==
  ASSUME NEW old, NEW new, NEW reported, NEW summary, IsFiniteSet(DOMAIN old),
         IsFiniteSet(DOMAIN new), DOMAIN reported \subseteq DOMAIN old
  PROVE  FiniteDelta(DeltaOf(old, new, reported, summary))
<1> DEFINE d == DeltaOf(old, new, reported, summary)
<1>1. /\ DOMAIN d.added \subseteq DOMAIN new /\ d.removed \subseteq DOMAIN old
      /\ DOMAIN d.changed \subseteq DOMAIN old /\ d.transitions = {}
  BY DEF DeltaOf
<1> HIDE DEF d
<1>2. FiniteDelta(d)
  BY <1>1, FS_Subset, FS_EmptySet DEF FiniteDelta
<1> QED BY <1>2 DEF d

\* The lists of each section.
LEMMA SectionLists ==
  ASSUME NEW o, NEW n
  PROVE  LET all == AllSections(o, n)
         IN /\ DOMAIN all = {"game", "colony", "resources", "colonists", "research", "threats",
                             "awareness", "mapThings", "map", "construction", "plants",
                             "operations"}
            /\ DOMAIN all["game"] = {"game"} /\ DOMAIN all["colony"] = {"colony"}
            /\ DOMAIN all["resources"] = {"resources"}
            /\ DOMAIN all["colonists"] = {"pawns"}
            /\ DOMAIN all["research"] = {"research", "completed"}
            /\ DOMAIN all["threats"] = {"threats"}
            /\ DOMAIN all["awareness"] = {"alerts", "letters", "newEvents"}
            /\ DOMAIN all["mapThings"] = Categories
            /\ DOMAIN all["map"] = {"map", "pointsOfInterest", "zones"}
            /\ DOMAIN all["construction"] = {"buildings"}
            /\ DOMAIN all["plants"] = {"becameHarvestable", "plants"}
            /\ DOMAIN all["operations"] = {"equipment", "apparel", "beds", "worktables",
                                           "billChanges", "power", "unpoweredBuildings", "fuel",
                                           "allowedAreas", "labor"}
BY DEF AllSections

-----------------------------------------------------------------------------
(* What a reader makes of a delta                                          *)

\* Of what stays the reader knows the fields that are told, and else the old.
Telling(told, a, b, fields) ==
  IF fields = {} THEN told = a
  ELSE told = [f \in DOMAIN a |-> IF f \in fields THEN b[f] ELSE a[f]]

TellsFields(told, a, b, fields) ==
  \A f \in DOMAIN a : told[f] = IF f \in fields THEN b[f] ELSE a[f]

TellingAll(told, old, new, reported, summary) ==
  /\ DOMAIN told = DOMAIN new
  /\ \A i \in DOMAIN new \cap DOMAIN old : Telling(told[i], old[i], new[i], reported[i])
  /\ \A i \in DOMAIN new \ DOMAIN old : told[i] = Pick(new[i], summary)

\* A delta with what came, what went, what became what, and the reported fields.
DeltaFor(d, old, new, reported, summary) ==
  /\ DOMAIN d.added \subseteq DOMAIN new \ DOMAIN old
  /\ \A i \in DOMAIN d.added : d.added[i] = Pick(new[i], summary)
  /\ d.removed \subseteq DOMAIN old \ DOMAIN new
  /\ \A t \in d.transitions : /\ t.from \in DOMAIN old \ DOMAIN new
                              /\ t.to \in DOMAIN new \ DOMAIN old
                              /\ t.what = Pick(new[t.to], summary)
  /\ \A i \in DOMAIN new \ DOMAIN old : i \in DOMAIN d.added \/ \E t \in d.transitions : t.to = i
  /\ \A i \in DOMAIN old \ DOMAIN new : i \in d.removed \/ \E t \in d.transitions : t.from = i
  /\ DOMAIN d.changed = {i \in DOMAIN reported : reported[i] # {}}
  /\ \A i \in DOMAIN d.changed : d.changed[i] = [f \in reported[i] |-> new[i][f]]

LEMMA PatchedFor ==
  ASSUME NEW old, NEW new, NEW reported, NEW summary, NEW d,
         DOMAIN reported = DOMAIN old \cap DOMAIN new, DeltaFor(d, old, new, reported, summary)
  PROVE  TellingAll(Patched(old, d), old, new, reported, summary)
<1> DEFINE told == Patched(old, d)
           from == {t.from : t \in d.transitions}
           to == {t.to : t \in d.transitions}
           rest == (DOMAIN old \ (d.removed \cup from)) \cup DOMAIN d.added \cup to
<1>1. rest = DOMAIN new
  <2>1. /\ from \subseteq DOMAIN old \ DOMAIN new /\ to \subseteq DOMAIN new \ DOMAIN old
        /\ DOMAIN old \ DOMAIN new \subseteq d.removed \cup from
        /\ DOMAIN new \ DOMAIN old \subseteq DOMAIN d.added \cup to
    BY DEF DeltaFor
  <2>2. /\ DOMAIN d.added \subseteq DOMAIN new \ DOMAIN old
        /\ d.removed \subseteq DOMAIN old \ DOMAIN new
    BY DEF DeltaFor
  <2> HIDE DEF from, to
  <2> QED BY <2>1, <2>2
<1>2. DOMAIN told = DOMAIN new
  BY <1>1 DEF Patched
<1>3. ASSUME NEW i \in DOMAIN new \ DOMAIN old
      PROVE  told[i] = Pick(new[i], summary)
  <2>1. CASE i \in DOMAIN d.added
    <3>1. told[i] = d.added[i]
      BY <1>1, <2>1 DEF Patched
    <3> QED BY <2>1, <3>1 DEF DeltaFor
  <2>2. CASE i \notin DOMAIN d.added
    <3>1. i \in to
      BY <1>3, <2>2 DEF DeltaFor
    <3>2. told[i] = (CHOOSE t \in d.transitions : t.to = i).what
      BY <1>1, <2>2, <3>1 DEF Patched
    <3>3. \E t \in d.transitions : t.to = i
      BY <3>1
    <3>4. PICK t \in d.transitions : t.to = i /\ told[i] = t.what
      BY <3>2, <3>3
    <3> QED BY <3>4 DEF DeltaFor
  <2> QED BY <2>1, <2>2
<1>4. ASSUME NEW i \in DOMAIN new \cap DOMAIN old
      PROVE  Telling(told[i], old[i], new[i], reported[i])
  <2>1. i \notin DOMAIN d.added /\ i \notin to
    BY DEF DeltaFor
  <2>2. i \in DOMAIN d.changed <=> reported[i] # {}
    BY DEF DeltaFor
  <2>3. CASE reported[i] = {}
    <3>1. told[i] = old[i]
      BY <1>1, <2>1, <2>2, <2>3 DEF Patched
    <3> QED BY <2>3, <3>1 DEF Telling
  <2>4. CASE reported[i] # {}
    <3>1. told[i] = [f \in DOMAIN old[i] |-> IF f \in DOMAIN d.changed[i] THEN d.changed[i][f]
                                                                       ELSE old[i][f]]
      BY <1>1, <2>1, <2>2, <2>4 DEF Patched
    <3>2. d.changed[i] = [f \in reported[i] |-> new[i][f]]
      BY <2>2, <2>4 DEF DeltaFor
    <3>3. \A f \in DOMAIN old[i] : (IF f \in DOMAIN d.changed[i] THEN d.changed[i][f] ELSE old[i][f])
                                     = IF f \in reported[i] THEN new[i][f] ELSE old[i][f]
      BY <3>2
    <3>4. told[i] = [f \in DOMAIN old[i] |-> IF f \in reported[i] THEN new[i][f] ELSE old[i][f]]
      <4> HIDE DEF told
      <4> QED BY <3>1, <3>3
    <3> HIDE DEF told
    <3> QED BY <2>4, <3>4 DEF Telling
  <2> QED BY <2>3, <2>4
<1> HIDE DEF told
<1>5. TellingAll(told, old, new, reported, summary)
  BY <1>2, <1>3, <1>4 DEF TellingAll
<1> QED BY <1>5 DEF told

LEMMA PatchedDelta ==
  ASSUME NEW old, NEW new, NEW reported, NEW summary,
         DOMAIN reported = DOMAIN old \cap DOMAIN new
  PROVE  TellingAll(Patched(old, DeltaOf(old, new, reported, summary)), old, new, reported, summary)
<1>1. DeltaFor(DeltaOf(old, new, reported, summary), old, new, reported, summary)
  BY DEF DeltaOf, DeltaFor
<1> QED BY <1>1, PatchedFor

\* Field by field.
LEMMA TellingTells ==
  ASSUME NEW told, NEW a, NEW b, NEW fields, Telling(told, a, b, fields)
  PROVE  TellsFields(told, a, b, fields)
BY DEF Telling, TellsFields

LEMMA PatchedSilent ==
  ASSUME NEW old, NEW d, Silent(d)
  PROVE  Patched(old, d) = Patched(old, Silence)
<1>1. /\ DOMAIN d.added = {} /\ d.removed = {} /\ DOMAIN d.changed = {} /\ d.transitions = {}
      /\ DOMAIN Silence.added = {} /\ Silence.removed = {} /\ DOMAIN Silence.changed = {}
      /\ Silence.transitions = {}
  BY DEF Silent, Silence
<1>2. \A e : (/\ DOMAIN e.added = {} /\ e.removed = {} /\ DOMAIN e.changed = {}
              /\ e.transitions = {}) => Patched(old, e) = [i \in DOMAIN old |-> old[i]]
  BY DEF Patched
<1> QED BY <1>1, <1>2

\* What is left out of the delta changes nothing for the reader.
LEMMA OfSection ==
  ASSUME NEW s, NEW l,
         s \in DOMAIN AllSections(baseline.is, current.is),
         l \in DOMAIN AllSections(baseline.is, current.is)[s]
  PROVE  \A old : Patched(old, Of(s, l)) = Patched(old, AllSections(baseline.is, current.is)[s][l])
<1> DEFINE all == AllSections(baseline.is, current.is)
<1>1. CASE s \in DOMAIN Delta
  <2>1. Of(s, l) = all[s][l]
    BY <1>1, SectionsKeep DEF Of, Delta
  <2> QED BY <2>1
<1>2. CASE s \notin DOMAIN Delta
  <2>1. Of(s, l) = Silence /\ Silent(all[s][l])
    BY <1>2, SectionsKeep DEF Of, Delta
  <2> QED BY <2>1, PatchedSilent
<1> QED BY <1>1, <1>2
-----------------------------------------------------------------------------
(* Each kind of record is told as well as it should be                     *)

\* b is c but for the hediffs that differ by noise.
LEMMA ColonistTold ==
  ASSUME NEW told, NEW a, NEW b, NEW c, TellsFields(told, a, b, ColonistFields(a, b)),
         ColonistSummary \cup {"more"} \subseteq DOMAIN a,
         a.position \in Int, b.position \in Int,
         \A f \in (ColonistSummary \cup {"more"}) \ {"hediffs"} : b[f] = c[f],
         AlikeHediffs(b.hediffs, c.hediffs)
  PROVE  AlikeColonists(told, c)
<1> DEFINE fields == ColonistFields(a, b)
           known == ColonistSummary \cup {"more"}
<1>1. \A f \in known : told[f] = IF f \in fields THEN b[f] ELSE a[f]
  BY DEF TellsFields
<1>2. /\ told.self = b.self /\ told.more = b.more /\ told.drafted = b.drafted
      /\ told.hediffs = b.hediffs
  BY <1>1 DEF ColonistFields, Differing, ColonistSummary
<1>3. \A f \in {"food", "mood", "rest", "recreation"} : NeedBand(f, told[f]) = NeedBand(f, b[f])
  <2>1. \A f \in {"food", "mood", "rest", "recreation"} :
          f \notin fields => NeedBand(f, a[f]) = NeedBand(f, b[f])
    BY DEF ColonistFields
  <2> QED BY <1>1, <2>1 DEF ColonistSummary
<1>4. Condition(told) = Condition(b)
  BY <1>3 DEF Condition, NeedLimits
<1>5. BleedingBand(told.bleeding) = BleedingBand(b.bleeding)
  <2>1. "bleeding" \notin fields => BleedingBand(a["bleeding"]) = BleedingBand(b["bleeding"])
    BY DEF ColonistFields
  <2>2. told["bleeding"] = IF "bleeding" \in fields THEN b["bleeding"] ELSE a["bleeding"]
    BY <1>1 DEF ColonistSummary
  <2> QED BY <2>1, <2>2
<1>6. PainBand(told.pain) = PainBand(b.pain)
  <2>1. "pain" \notin fields => PainBand(a["pain"]) = PainBand(b["pain"])
    BY DEF ColonistFields
  <2>2. told["pain"] = IF "pain" \in fields THEN b["pain"] ELSE a["pain"]
    BY <1>1 DEF ColonistSummary
  <2> QED BY <2>1, <2>2
<1>7. Distance(told.position, b.position) < IF b.drafted THEN 3 ELSE 15
  <2>1. "position" \notin fields =>
          \/ a.position = b.position
          \/ Distance(a.position, b.position) < IF a.drafted \/ b.drafted THEN 3 ELSE 15
    <3>1. "position" \notin fields => ~Moved(a, b, IF a.drafted \/ b.drafted THEN 3 ELSE 15)
      BY DEF ColonistFields
    <3> QED BY <3>1 DEF Moved, Distance
  <2>2. told.position = IF "position" \in fields THEN b.position ELSE a.position
    BY <1>1 DEF ColonistSummary
  <2> HIDE DEF fields
  <2> QED BY <2>1, <2>2 DEF Distance
<1>8. /\ b.self = c.self /\ b.more = c.more /\ b.drafted = c.drafted
      /\ b.bleeding = c.bleeding /\ b.pain = c.pain /\ b.position = c.position
      /\ \A f \in {"food", "mood", "rest", "recreation"} : b[f] = c[f]
  BY DEF ColonistSummary
<1>9. Condition(b) = Condition(c)
  BY <1>8 DEF Condition, NeedLimits
<1> QED BY <1>2, <1>4, <1>5, <1>6, <1>7, <1>8, <1>9 DEF AlikeColonists

LEMMA ResearchTold ==
  ASSUME NEW told, NEW a, NEW b, TellsFields(told, a, b, ResearchFields(a, b)),
         {"project", "progress", "cost"} \subseteq DOMAIN a
  PROVE  AlikeResearch(told, b)
<1>1. \A f \in {"project", "progress", "cost"} :
        told[f] = IF f \in ResearchFields(a, b) THEN b[f] ELSE a[f]
  BY DEF TellsFields
<1>2. told.project = b.project
  BY <1>1 DEF ResearchFields
<1>3. CASE a.project # b.project \/ MeaningfulProgress(a, b)
  <2>1. told.progress = b.progress
    BY <1>1, <1>3 DEF ResearchFields
  <2> QED BY <1>2, <2>1 DEF AlikeResearch, MeaningfulProgress
<1>4. CASE ~(a.project # b.project \/ MeaningfulProgress(a, b))
  <2>1. told.progress = a.progress /\ told.cost = a.cost
    BY <1>1, <1>4 DEF ResearchFields
  <2>2. MeaningfulProgress(told, b) <=> MeaningfulProgress(a, b)
    BY <2>1 DEF MeaningfulProgress
  <2> QED BY <1>2, <1>4, <2>2 DEF AlikeResearch
<1> QED BY <1>3, <1>4

LEMMA ThreatTold ==
  ASSUME NEW told, NEW a, NEW b, TellsFields(told, a, b, ThreatFields(a, b)),
         PlacedSummary \subseteq DOMAIN a, a.position \in Int, b.position \in Int
  PROVE  AlikeThreats(told, b)
<1>1. told.self = b.self
  BY DEF TellsFields, ThreatFields, SelfFields, Differing, PlacedSummary
<1>2. told.position = IF Moved(a, b, 8) THEN b.position ELSE a.position
  BY DEF TellsFields, ThreatFields, SelfFields, Differing, PlacedSummary
<1> QED BY <1>1, <1>2 DEF Moved, Distance, AlikeThreats

LEMMA PlacedTold ==
  ASSUME NEW told, NEW a, NEW b, TellsFields(told, a, b, PlacedFields(a, b)),
         PlacedSummary \cup {"more"} \subseteq DOMAIN a, a.position \in Int, b.position \in Int
  PROVE  AlikePlaced(told, b)
<1>1. told.self = b.self /\ told.more = b.more
  BY DEF TellsFields, PlacedFields, Differing, PlacedSummary
<1>2. told.position = IF Moved(a, b, 5) THEN b.position ELSE a.position
  BY DEF TellsFields, PlacedFields, Differing, PlacedSummary
<1> QED BY <1>1, <1>2 DEF Moved, Distance, AlikePlaced

LEMMA GearTold ==
  ASSUME NEW told, NEW a, NEW b, TellsFields(told, a, b, GearFields(a, b)),
         PlacedSummary \cup {"more"} \subseteq DOMAIN a, a.position \in Int, b.position \in Int
  PROVE  AlikePlaced(told, b)
<1>1. told.self = b.self /\ told.more = b.more
  BY DEF TellsFields, GearFields, PlacedFields, Differing, PlacedSummary
<1>2. told.position = IF Moved(a, b, 5) THEN b.position ELSE a.position
  BY DEF TellsFields, GearFields, PlacedFields, Differing, PlacedSummary
<1> QED BY <1>1, <1>2 DEF Moved, Distance, AlikePlaced

LEMMA ConstructionTold ==
  ASSUME NEW told, NEW a, NEW b, TellsFields(told, a, b, ConstructionFields(a, b)),
         BuildingSummary \cup {"more"} \subseteq DOMAIN a, a.hp \in Nat, b.hp \in Nat
  PROVE  AlikeBuildings(told, b)
<1>1. \A f \in {"def", "cell", "stage", "self", "more"} : told[f] = b[f]
  BY DEF TellsFields, ConstructionFields, Differing, BuildingSummary
<1>2. told.hp = IF HitPointsMeaningful(a, b) THEN b.hp ELSE a.hp
  BY DEF TellsFields, ConstructionFields, Differing, BuildingSummary
<1>3. b.hp = 0 => told.hp = 0
  BY <1>2 DEF HitPointsMeaningful
<1> QED BY <1>1, <1>3 DEF AlikeBuildings

LEMMA FuelTold ==
  ASSUME NEW told, NEW a, NEW b, TellsFields(told, a, b, FuelFields(a, b)),
         FuelSummary \subseteq DOMAIN a
  PROVE  AlikeFuel(told, b)
<1>1. told.self = b.self
  BY DEF TellsFields, FuelFields, SelfFields, Differing, FuelSummary
<1>2. \A f \in {"fuel", "capacity"} : told[f] = IF FuelBand(a) # FuelBand(b) THEN b[f] ELSE a[f]
  BY DEF TellsFields, FuelFields, SelfFields, Differing, FuelSummary
<1>3. FuelBand(told) = FuelBand(b)
  <2>1. told.fuel = IF FuelBand(a) # FuelBand(b) THEN b.fuel ELSE a.fuel
    BY <1>2
  <2>2. told.capacity = IF FuelBand(a) # FuelBand(b) THEN b.capacity ELSE a.capacity
    BY <1>2
  <2>3. \A x, y : x.fuel = y.fuel /\ x.capacity = y.capacity => FuelBand(x) = FuelBand(y)
    BY DEF FuelBand
  <2> QED BY <2>1, <2>2, <2>3
<1> QED BY <1>1, <1>3 DEF AlikeFuel

\* Of a record that is told as it is the reader knows all.
LEMMA PlainTold ==
  ASSUME NEW S, NEW told, NEW a, NEW b, a = [f \in S |-> a[f]], b = [f \in S |-> b[f]],
         Telling(told, a, b, Differing(a, b, S))
  PROVE  told = b
<1>1. CASE Differing(a, b, S) = {}
  <2>1. \A f \in S : a[f] = b[f]
    BY <1>1 DEF Differing
  <2>2. [f \in S |-> a[f]] = [f \in S |-> b[f]]
    BY <2>1
  <2> QED BY <1>1, <2>2 DEF Telling
<1>2. CASE Differing(a, b, S) # {}
  <2>1. DOMAIN a = S
    OBVIOUS
  <2>2. told = [f \in S |-> IF f \in Differing(a, b, S) THEN b[f] ELSE a[f]]
    BY <1>2, <2>1 DEF Telling
  <2>3. \A f \in S : (IF f \in Differing(a, b, S) THEN b[f] ELSE a[f]) = b[f]
    BY DEF Differing
  <2>4. told = [f \in S |-> b[f]]
    BY <2>2, <2>3
  <2> QED BY <2>4
<1> QED BY <1>1, <1>2

-----------------------------------------------------------------------------
(* Each list                                                               *)

LEMMA ResearchListTold ==
  ASSUME NEW old, NEW new, NEW told,
         Has(old, {"project", "progress", "cost"}),
         TellingAll(told, old, new,
                    [i \in DOMAIN old \cap DOMAIN new |-> ResearchFields(old[i], new[i])],
                    {})
  PROVE  /\ DOMAIN told = DOMAIN new
         /\ \A i \in DOMAIN new : IF i \in DOMAIN old THEN AlikeResearch(told[i], new[i])
                                                   ELSE told[i] = Pick(new[i], {})
<1>1. DOMAIN told = DOMAIN new /\ \A i \in DOMAIN new \ DOMAIN old : told[i] = Pick(new[i], {})
  BY DEF TellingAll
<1>2. ASSUME NEW i \in DOMAIN new, i \in DOMAIN old
      PROVE  AlikeResearch(told[i], new[i])
  <2>1. Telling(told[i], old[i], new[i], ResearchFields(old[i], new[i]))
    BY <1>2 DEF TellingAll
  <2>2. TellsFields(told[i], old[i], new[i], ResearchFields(old[i], new[i]))
    BY <2>1, TellingTells
  <2> QED BY <1>2, <2>2, ResearchTold DEF Has, Numbers
<1> QED BY <1>1, <1>2

LEMMA ThreatsListTold ==
  ASSUME NEW old, NEW new, NEW told,
         Has(old, PlacedSummary),
         Numbers(old, "position"),
         Numbers(new, "position"),
         TellingAll(told, old, new,
                    [i \in DOMAIN old \cap DOMAIN new |-> ThreatFields(old[i], new[i])],
                    PlacedSummary)
  PROVE  /\ DOMAIN told = DOMAIN new
         /\ \A i \in DOMAIN new : IF i \in DOMAIN old THEN AlikeThreats(told[i], new[i])
                                                   ELSE told[i] = Pick(new[i], PlacedSummary)
<1>1. /\ DOMAIN told = DOMAIN new
      /\ \A i \in DOMAIN new \ DOMAIN old : told[i] = Pick(new[i], PlacedSummary)
  BY DEF TellingAll
<1>2. ASSUME NEW i \in DOMAIN new, i \in DOMAIN old
      PROVE  AlikeThreats(told[i], new[i])
  <2>1. Telling(told[i], old[i], new[i], ThreatFields(old[i], new[i]))
    BY <1>2 DEF TellingAll
  <2>2. TellsFields(told[i], old[i], new[i], ThreatFields(old[i], new[i]))
    BY <2>1, TellingTells
  <2> QED BY <1>2, <2>2, ThreatTold DEF Has, Numbers
<1> QED BY <1>1, <1>2

LEMMA GearListTold ==
  ASSUME NEW old, NEW new, NEW told,
         Has(old, GearSummary \cup {"more"}),
         Numbers(old, "position"),
         Numbers(new, "position"),
         TellingAll(told, old, new,
                    [i \in DOMAIN old \cap DOMAIN new |-> GearFields(old[i], new[i])],
                    GearSummary)
  PROVE  /\ DOMAIN told = DOMAIN new
         /\ \A i \in DOMAIN new : IF i \in DOMAIN old THEN AlikePlaced(told[i], new[i])
                                                   ELSE told[i] = Pick(new[i], GearSummary)
<1>1. /\ DOMAIN told = DOMAIN new
      /\ \A i \in DOMAIN new \ DOMAIN old : told[i] = Pick(new[i], GearSummary)
  BY DEF TellingAll
<1>2. ASSUME NEW i \in DOMAIN new, i \in DOMAIN old
      PROVE  AlikePlaced(told[i], new[i])
  <2>1. Telling(told[i], old[i], new[i], GearFields(old[i], new[i]))
    BY <1>2 DEF TellingAll
  <2>2. TellsFields(told[i], old[i], new[i], GearFields(old[i], new[i]))
    BY <2>1, TellingTells
  <2> QED BY <1>2, <2>2, GearTold DEF Has, Numbers, GearSummary
<1> QED BY <1>1, <1>2

LEMMA PlacedListTold ==
  ASSUME NEW old, NEW new, NEW told,
         Has(old, PlacedSummary \cup {"more"}),
         Numbers(old, "position"),
         Numbers(new, "position"),
         TellingAll(told, old, new,
                    [i \in DOMAIN old \cap DOMAIN new |-> PlacedFields(old[i], new[i])],
                    PlacedSummary)
  PROVE  /\ DOMAIN told = DOMAIN new
         /\ \A i \in DOMAIN new : IF i \in DOMAIN old THEN AlikePlaced(told[i], new[i])
                                                   ELSE told[i] = Pick(new[i], PlacedSummary)
<1>1. /\ DOMAIN told = DOMAIN new
      /\ \A i \in DOMAIN new \ DOMAIN old : told[i] = Pick(new[i], PlacedSummary)
  BY DEF TellingAll
<1>2. ASSUME NEW i \in DOMAIN new, i \in DOMAIN old
      PROVE  AlikePlaced(told[i], new[i])
  <2>1. Telling(told[i], old[i], new[i], PlacedFields(old[i], new[i]))
    BY <1>2 DEF TellingAll
  <2>2. TellsFields(told[i], old[i], new[i], PlacedFields(old[i], new[i]))
    BY <2>1, TellingTells
  <2> QED BY <1>2, <2>2, PlacedTold DEF Has, Numbers
<1> QED BY <1>1, <1>2

LEMMA BuildingsListTold ==
  ASSUME NEW old, NEW new, NEW told,
         Has(old, BuildingSummary \cup {"more"}),
         \A i \in DOMAIN old : old[i].hp \in Nat,
         \A i \in DOMAIN new : new[i].hp \in Nat,
         TellingAll(told, old, new,
                    [i \in DOMAIN old \cap DOMAIN new |-> ConstructionFields(old[i], new[i])],
                    BuildingSummary)
  PROVE  /\ DOMAIN told = DOMAIN new
         /\ \A i \in DOMAIN new : IF i \in DOMAIN old THEN AlikeBuildings(told[i], new[i])
                                                   ELSE told[i] = Pick(new[i], BuildingSummary)
<1>1. /\ DOMAIN told = DOMAIN new
      /\ \A i \in DOMAIN new \ DOMAIN old : told[i] = Pick(new[i], BuildingSummary)
  BY DEF TellingAll
<1>2. ASSUME NEW i \in DOMAIN new, i \in DOMAIN old
      PROVE  AlikeBuildings(told[i], new[i])
  <2>1. Telling(told[i], old[i], new[i], ConstructionFields(old[i], new[i]))
    BY <1>2 DEF TellingAll
  <2>2. TellsFields(told[i], old[i], new[i], ConstructionFields(old[i], new[i]))
    BY <2>1, TellingTells
  <2> QED BY <1>2, <2>2, ConstructionTold DEF Has, Numbers
<1> QED BY <1>1, <1>2

LEMMA FuelListTold ==
  ASSUME NEW old, NEW new, NEW told,
         Has(old, FuelSummary),
         TellingAll(told, old, new,
                    [i \in DOMAIN old \cap DOMAIN new |-> FuelFields(old[i], new[i])],
                    FuelSummary)
  PROVE  /\ DOMAIN told = DOMAIN new
         /\ \A i \in DOMAIN new : IF i \in DOMAIN old THEN AlikeFuel(told[i], new[i])
                                                   ELSE told[i] = Pick(new[i], FuelSummary)
<1>1. /\ DOMAIN told = DOMAIN new
      /\ \A i \in DOMAIN new \ DOMAIN old : told[i] = Pick(new[i], FuelSummary)
  BY DEF TellingAll
<1>2. ASSUME NEW i \in DOMAIN new, i \in DOMAIN old
      PROVE  AlikeFuel(told[i], new[i])
  <2>1. Telling(told[i], old[i], new[i], FuelFields(old[i], new[i]))
    BY <1>2 DEF TellingAll
  <2>2. TellsFields(told[i], old[i], new[i], FuelFields(old[i], new[i]))
    BY <2>1, TellingTells
  <2> QED BY <1>2, <2>2, FuelTold DEF Has, Numbers
<1> QED BY <1>1, <1>2

LEMMA PlainListTold ==
  ASSUME NEW S, NEW summary, NEW old, NEW new, NEW told, NEW reported,
         Plain(old, S), Plain(new, S), TellingAll(told, old, new, reported, summary),
         \A i \in DOMAIN old \cap DOMAIN new : reported[i] = Differing(old[i], new[i], S)
  PROVE  /\ DOMAIN told = DOMAIN new
         /\ \A i \in DOMAIN new : IF i \in DOMAIN old THEN Equal(told[i], new[i])
                                                   ELSE told[i] = Pick(new[i], summary)
<1>1. /\ DOMAIN told = DOMAIN new
      /\ \A i \in DOMAIN new \ DOMAIN old : told[i] = Pick(new[i], summary)
  BY DEF TellingAll
<1>2. ASSUME NEW i \in DOMAIN new, i \in DOMAIN old
      PROVE  told[i] = new[i]
  <2>1. Telling(told[i], old[i], new[i], Differing(old[i], new[i], S))
    BY <1>2 DEF TellingAll
  <2>2. old[i] = [f \in S |-> old[i][f]] /\ new[i] = [f \in S |-> new[i][f]]
    BY <1>2 DEF Plain
  <2> QED BY <2>1, <2>2, PlainTold
<1> QED BY <1>1, <1>2 DEF Equal

\* Of a hediff the old value stands for a new one that differs by noise.
LEMMA NoiselessIs ==
  ASSUME NEW old, NEW new, Has(new, ColonistSummary), NEW i \in DOMAIN new, i \in DOMAIN old,
         Numbers(old[i].hediffs, "severity"), Numbers(new[i].hediffs, "severity")
  PROVE  LET calm == Noiseless(old, new)[i]
         IN /\ \A f \in DOMAIN new[i] \ {"hediffs"} : calm[f] = new[i][f]
            /\ DOMAIN calm = DOMAIN new[i]
            /\ AlikeHediffs(calm.hediffs, new[i].hediffs)
<1> DEFINE was == old[i].hediffs
           now == new[i].hediffs
           merged == [h \in DOMAIN now |-> IF h \in DOMAIN was /\ ~HediffTold(was[h], now[h])
                                           THEN was[h] ELSE now[h]]
           calm == Noiseless(old, new)[i]
<1>1. calm = [new[i] EXCEPT !.hediffs = merged]
  BY DEF Noiseless
<1>2. "hediffs" \in DOMAIN new[i]
  BY DEF Has, ColonistSummary
<1> HIDE DEF calm, merged
<1>3. /\ \A f \in DOMAIN new[i] \ {"hediffs"} : calm[f] = new[i][f]
      /\ DOMAIN calm = DOMAIN new[i] /\ calm.hediffs = merged
  BY <1>1, <1>2
<1>4. AlikeHediffs(merged, now)
  <2>1. DOMAIN merged = DOMAIN now
    BY DEF merged
  <2>2. ASSUME NEW h \in DOMAIN now
        PROVE  merged[h].count = now[h].count /\ Distance(merged[h].severity, now[h].severity) < 10
    <3>1. CASE h \in DOMAIN was /\ ~HediffTold(was[h], now[h])
      <4>1. merged[h] = was[h]
        BY <2>2, <3>1 DEF merged
      <4>2. was[h].severity \in Int /\ now[h].severity \in Int
        BY <2>2, <3>1 DEF Numbers
      <4> QED BY <3>1, <4>1, <4>2 DEF HediffTold, Distance
    <3>2. CASE ~(h \in DOMAIN was /\ ~HediffTold(was[h], now[h]))
      <4>1. merged[h] = now[h]
        BY <2>2, <3>2 DEF merged
      <4>2. now[h].severity \in Int
        BY <2>2 DEF Numbers
      <4> QED BY <4>1, <4>2 DEF Distance
    <3> QED BY <3>1, <3>2
  <2> QED BY <2>1, <2>2 DEF AlikeHediffs
<1> QED BY <1>3, <1>4 DEF calm

LEMMA PawnsListTold ==
  ASSUME NEW old, NEW new, NEW told,
         Has(old, ColonistSummary \cup {"more"}), Has(new, ColonistSummary \cup {"more"}),
         Numbers(old, "position"), Numbers(new, "position"),
         \A i \in DOMAIN old : Numbers(old[i].hediffs, "severity"),
         \A i \in DOMAIN new : Numbers(new[i].hediffs, "severity"),
         TellingAll(told, old, Noiseless(old, new),
                    [i \in DOMAIN old \cap DOMAIN Noiseless(old, new) |->
                       ColonistFields(old[i], Noiseless(old, new)[i])], ColonistSummary)
  PROVE  /\ DOMAIN told = DOMAIN new
         /\ \A i \in DOMAIN new : IF i \in DOMAIN old THEN AlikeColonists(told[i], new[i])
                                                   ELSE told[i] = Pick(new[i], ColonistSummary)
<1> DEFINE calm == Noiseless(old, new)
<1>1. DOMAIN calm = DOMAIN new /\ \A i \in DOMAIN new \ DOMAIN old : calm[i] = new[i]
  BY DEF Noiseless
<1> HIDE DEF calm
<1>2. TellingAll(told, old, calm, [i \in DOMAIN old \cap DOMAIN calm |->
                                     ColonistFields(old[i], calm[i])], ColonistSummary)
  BY DEF calm
<1>3. DOMAIN told = DOMAIN new
  BY <1>1, <1>2 DEF TellingAll
<1>4. ASSUME NEW i \in DOMAIN new, i \notin DOMAIN old
      PROVE  told[i] = Pick(new[i], ColonistSummary)
  <2>1. told[i] = Pick(calm[i], ColonistSummary) /\ calm[i] = new[i]
    BY <1>1, <1>2, <1>4 DEF TellingAll
  <2> QED BY <2>1
<1>5. ASSUME NEW i \in DOMAIN new, i \in DOMAIN old
      PROVE  AlikeColonists(told[i], new[i])
  <2>1. Telling(told[i], old[i], calm[i], ColonistFields(old[i], calm[i]))
    BY <1>1, <1>2, <1>5 DEF TellingAll
  <2>2. TellsFields(told[i], old[i], calm[i], ColonistFields(old[i], calm[i]))
    BY <2>1, TellingTells
  <2>3. ColonistSummary \cup {"more"} \subseteq DOMAIN new[i]
    BY DEF Has
  <2>4. /\ \A f \in DOMAIN new[i] \ {"hediffs"} : calm[i][f] = new[i][f]
        /\ AlikeHediffs(calm[i].hediffs, new[i].hediffs)
    <3>1. Has(new, ColonistSummary)
      BY DEF Has
    <3> QED BY <1>5, <3>1, NoiselessIs DEF calm
  <2>5. \A f \in (ColonistSummary \cup {"more"}) \ {"hediffs"} : calm[i][f] = new[i][f]
    BY <2>3, <2>4
  <2>6. ColonistSummary \cup {"more"} \subseteq DOMAIN old[i]
    BY <1>5 DEF Has
  <2>7. old[i].position \in Int /\ new[i].position \in Int /\ calm[i].position = new[i].position
    BY <1>5, <2>5 DEF Numbers, ColonistSummary
  <2> QED BY <2>2, <2>4, <2>5, <2>6, <2>7, ColonistTold
<1> QED BY <1>3, <1>4, <1>5

\* Of alerts and letters the reader knows which there are.
LEMMA NoticesTold ==
  ASSUME NEW old, NEW new
  PROVE  LET told == Patched(old, NoticesDelta(old, new))
         IN /\ DOMAIN told = DOMAIN new
            /\ \A i \in DOMAIN new \ DOMAIN old : told[i] = Pick(new[i], {"self"})
<1> DEFINE d == NoticesDelta(old, new)
           nothing == [i \in DOMAIN old \cap DOMAIN new |-> {}]
<1>1. /\ DOMAIN d.added = DOMAIN new \ DOMAIN old /\ d.removed = DOMAIN old \ DOMAIN new
      /\ \A i \in DOMAIN d.added : d.added[i] = Pick(new[i], {"self"})
      /\ d.changed = <<>> /\ d.transitions = {}
  BY DEF NoticesDelta, ListDelta, DeltaOf
<1>2. DOMAIN d.changed = {}
  BY <1>1
<1> HIDE DEF d
<1>3. DeltaFor(d, old, new, nothing, {"self"})
  BY <1>1, <1>2 DEF DeltaFor
<1>4. DOMAIN nothing = DOMAIN old \cap DOMAIN new
  OBVIOUS
<1> HIDE DEF nothing
<1>5. TellingAll(Patched(old, d), old, new, nothing, {"self"})
  BY <1>3, <1>4, PatchedFor
<1> QED BY <1>5 DEF TellingAll, d

LEMMA OfTold ==
  ASSUME NEW s, NEW l, NEW old, NEW new, NEW reported, NEW summary,
         s \in DOMAIN AllSections(baseline.is, current.is),
         l \in DOMAIN AllSections(baseline.is, current.is)[s],
         AllSections(baseline.is, current.is)[s][l] = DeltaOf(old, new, reported, summary),
         DOMAIN reported = DOMAIN old \cap DOMAIN new
  PROVE  TellingAll(Patched(old, Of(s, l)), old, new, reported, summary)
BY OfSection, PatchedDelta

\* Network by network, each in its bands.
LEMMA KeyedNetworks ==
  ASSUME NEW nets
  PROVE  Plain(ByKey(nets), {"power", "storage", "connected"})
<1>1. ASSUME NEW x
      PROVE  Banded(x) = [f \in {"power", "storage", "connected"} |-> Banded(x)[f]]
  <2>1. DOMAIN Banded(x) = {"power", "storage", "connected"}
    BY DEF Banded
  <2>2. Banded(x) = [f \in DOMAIN Banded(x) |-> Banded(x)[f]]
    BY DEF Banded
  <2> QED BY <2>1, <2>2
<1>2. ASSUME NEW k \in DOMAIN ByKey(nets)
      PROVE  \E x : ByKey(nets)[k] = Banded(x)
  BY DEF ByKey
<1> QED BY <1>1, <1>2 DEF Plain

\* What is said of the documents, list by list.
LEMMA SnapshotHas ==
  ASSUME NEW s \in Snapshots
  PROVE  /\ Plain(s.game, {"self"}) /\ Plain(s.resources, {"self"}) /\ Plain(s.zones, ZoneSummary)
         /\ Has(s.pawns, ColonistSummary \cup {"more"})
         /\ Has(s.research, {"project", "progress", "cost"})
         /\ Has(s.threats, PlacedSummary)
         /\ Has(s.buildings, BuildingSummary \cup {"more"})
         /\ Has(s.equipment, GearSummary \cup {"more"}) /\ Has(s.apparel, GearSummary \cup {"more"})
         /\ Has(s.beds, PlacedSummary \cup {"more"})
         /\ Has(s.fuel, FuelSummary)
         /\ Numbers(s.pawns, "position") /\ Numbers(s.threats, "position")
         /\ Numbers(s.equipment, "position") /\ Numbers(s.apparel, "position")
         /\ Numbers(s.beds, "position")
         /\ \A i \in DOMAIN s.pawns : Numbers(s.pawns[i].hediffs, "severity")
         /\ \A i \in DOMAIN s.buildings : s.buildings[i].hp \in Nat
BY SnapshotsAssumption

\* The lists that are compared id by id, as the reader knows them.
LEMMA ListsTold ==
  ASSUME ComparedInv, Comparable(baseline, current)
  PROVE  LET o == baseline.is  n == current.is IN
           /\ Same(o.pawns, Of("colonists", "pawns"), n.pawns, ColonistSummary, AlikeColonists)
           /\ Same(ByKey(o.networks), Of("operations", "power"), ByKey(n.networks),
                   {"power", "storage"}, Equal)
           /\ Same(o.game, Of("game", "game"), n.game, {}, Equal)
           /\ Same(o.resources, Of("resources", "resources"), n.resources, {}, Equal)
           /\ Same(o.research, Of("research", "research"), n.research, {}, AlikeResearch)
           /\ Same(o.threats, Of("threats", "threats"), n.threats, PlacedSummary, AlikeThreats)
           /\ Same(o.zones, Of("map", "zones"), n.zones, ZoneSummary, Equal)
           /\ Same(o.equipment, Of("operations", "equipment"), n.equipment, GearSummary, AlikePlaced)
           /\ Same(o.apparel, Of("operations", "apparel"), n.apparel, GearSummary, AlikePlaced)
           /\ Same(o.beds, Of("operations", "beds"), n.beds, PlacedSummary, AlikePlaced)
           /\ Same(o.fuel, Of("operations", "fuel"), n.fuel, FuelSummary, AlikeFuel)
           /\ Same(o.alerts, Of("awareness", "alerts"), n.alerts, {"self"}, Active)
           /\ Same(o.letters, Of("awareness", "letters"), n.letters, {"self"}, Active)
<1> DEFINE o == baseline.is
           n == current.is
           all == AllSections(o, n)
<1>1. o \in Snapshots /\ n \in Snapshots
  BY DEF ComparedInv, Comparable
<1>2. Same(o.pawns, Of("colonists", "pawns"), n.pawns, ColonistSummary, AlikeColonists)
  <2> DEFINE calm == Noiseless(o.pawns, n.pawns)
             reported == [i \in DOMAIN o.pawns \cap DOMAIN calm |->
                           ColonistFields(o.pawns[i], calm[i])]
             told == Patched(o.pawns, Of("colonists", "pawns"))
  <2>1. all["colonists"]["pawns"] = DeltaOf(o.pawns, calm, reported, ColonistSummary)
    BY DEF AllSections, ListDelta
  <2>2. "colonists" \in DOMAIN all /\ "pawns" \in DOMAIN all["colonists"]
    BY SectionLists
  <2>3. DOMAIN reported = DOMAIN o.pawns \cap DOMAIN calm
    OBVIOUS
  <2>4. TellingAll(told, o.pawns, calm, reported, ColonistSummary)
    <3> HIDE DEF calm, reported
    <3> QED BY <2>1, <2>2, <2>3, OfTold
  <2> HIDE DEF told
  <2>5. /\ DOMAIN told = DOMAIN n.pawns
        /\ \A i \in DOMAIN n.pawns :
             IF i \in DOMAIN o.pawns THEN AlikeColonists(told[i], n.pawns[i])
                                     ELSE told[i] = Pick(n.pawns[i], ColonistSummary)
    <3>1. /\ Has(o.pawns, ColonistSummary \cup {"more"})
          /\ Has(n.pawns, ColonistSummary \cup {"more"})
          /\ Numbers(o.pawns, "position") /\ Numbers(n.pawns, "position")
          /\ \A i \in DOMAIN o.pawns : Numbers(o.pawns[i].hediffs, "severity")
          /\ \A i \in DOMAIN n.pawns : Numbers(n.pawns[i].hediffs, "severity")
      BY <1>1, SnapshotHas
    <3> QED BY <2>4, <3>1, PawnsListTold
  <2> QED BY <2>5 DEF Same, told
<1>3. Same(ByKey(o.networks), Of("operations", "power"), ByKey(n.networks), {"power", "storage"},
           Equal)
  <2> DEFINE S == {"power", "storage", "connected"}
             old == ByKey(o.networks)
             new == ByKey(n.networks)
             reported == [i \in DOMAIN old \cap DOMAIN new |-> Differing(old[i], new[i], S)]
             told == Patched(old, Of("operations", "power"))
  <2>1. all["operations"]["power"] = DeltaOf(old, new, reported, {"power", "storage"})
    <3>1. all["operations"]["power"] = NetworksDelta(o.networks, n.networks)
      BY DEF AllSections
    <3> QED BY <3>1 DEF NetworksDelta, ListDelta, NetworkFields
  <2>2. "operations" \in DOMAIN all /\ "power" \in DOMAIN all["operations"]
    BY SectionLists
  <2>3. Plain(old, S) /\ Plain(new, S)
    BY KeyedNetworks
  <2> HIDE DEF old, new, S
  <2>4. TellingAll(told, old, new, reported, {"power", "storage"})
    BY <2>1, <2>2, OfTold
  <2> HIDE DEF told
  <2>5. \A i \in DOMAIN old \cap DOMAIN new : reported[i] = Differing(old[i], new[i], S)
    OBVIOUS
  <2> HIDE DEF reported
  <2>6. /\ DOMAIN told = DOMAIN new
        /\ \A i \in DOMAIN new : IF i \in DOMAIN old THEN Equal(told[i], new[i])
                                                  ELSE told[i] = Pick(new[i], {"power", "storage"})
    BY <2>3, <2>4, <2>5, PlainListTold
  <2> QED BY <2>6 DEF Same, told, old, new
<1>4. Same(o.game, Of("game", "game"), n.game, {}, Equal)
  <2> DEFINE reported == [i \in DOMAIN o.game \cap DOMAIN n.game |->
                           Differing(o.game[i], n.game[i], {"self"})]
             told == Patched(o.game, Of("game", "game"))
  <2>1. all["game"]["game"] = DeltaOf(o.game, n.game, reported, {})
    BY DEF AllSections, ListDelta, ObjectDelta, SelfFields
  <2>2. "game" \in DOMAIN all /\ "game" \in DOMAIN all["game"]
    BY SectionLists
  <2>3. TellingAll(told, o.game, n.game, reported, {})
    BY <2>1, <2>2, OfTold
  <2> HIDE DEF told
  <2>4. /\ DOMAIN told = DOMAIN n.game
        /\ \A i \in DOMAIN n.game : IF i \in DOMAIN o.game THEN Equal(told[i], n.game[i])
                                                 ELSE told[i] = Pick(n.game[i], {})
    <3>1. Plain(o.game, {"self"}) /\ Plain(n.game, {"self"})
      BY <1>1, SnapshotHas
    <3>2. \A i \in DOMAIN o.game \cap DOMAIN n.game :
            reported[i] = Differing(o.game[i], n.game[i], {"self"})
      OBVIOUS
    <3> HIDE DEF reported
    <3> QED BY <2>3, <3>1, <3>2, PlainListTold
  <2> QED BY <2>4 DEF Same, told
<1>5. Same(o.resources, Of("resources", "resources"), n.resources, {}, Equal)
  <2> DEFINE reported == [i \in DOMAIN o.resources \cap DOMAIN n.resources |->
                           Differing(o.resources[i], n.resources[i], {"self"})]
             told == Patched(o.resources, Of("resources", "resources"))
  <2>1. all["resources"]["resources"] = DeltaOf(o.resources, n.resources, reported, {})
    BY DEF AllSections, ListDelta, ObjectDelta, SelfFields
  <2>2. "resources" \in DOMAIN all /\ "resources" \in DOMAIN all["resources"]
    BY SectionLists
  <2>3. TellingAll(told, o.resources, n.resources, reported, {})
    BY <2>1, <2>2, OfTold
  <2> HIDE DEF told
  <2>4. /\ DOMAIN told = DOMAIN n.resources
        /\ \A i \in DOMAIN n.resources :
                IF i \in DOMAIN o.resources THEN Equal(told[i], n.resources[i])
                                                 ELSE told[i] = Pick(n.resources[i], {})
    <3>1. Plain(o.resources, {"self"}) /\ Plain(n.resources, {"self"})
      BY <1>1, SnapshotHas
    <3>2. \A i \in DOMAIN o.resources \cap DOMAIN n.resources :
            reported[i] = Differing(o.resources[i], n.resources[i], {"self"})
      OBVIOUS
    <3> HIDE DEF reported
    <3> QED BY <2>3, <3>1, <3>2, PlainListTold
  <2> QED BY <2>4 DEF Same, told
<1>6. Same(o.research, Of("research", "research"), n.research, {}, AlikeResearch)
  <2> DEFINE reported == [i \in DOMAIN o.research \cap DOMAIN n.research |->
                           ResearchFields(o.research[i], n.research[i])]
             told == Patched(o.research, Of("research", "research"))
  <2>1. all["research"]["research"] = DeltaOf(o.research, n.research, reported, {})
    BY DEF AllSections, ListDelta, ObjectDelta
  <2>2. "research" \in DOMAIN all /\ "research" \in DOMAIN all["research"]
    BY SectionLists
  <2>3. TellingAll(told, o.research, n.research, reported, {})
    BY <2>1, <2>2, OfTold
  <2> HIDE DEF told
  <2>4. /\ DOMAIN told = DOMAIN n.research
        /\ \A i \in DOMAIN n.research :
                IF i \in DOMAIN o.research THEN AlikeResearch(told[i], n.research[i])
                                                 ELSE told[i] = Pick(n.research[i], {})
    <3>1. Has(o.research, {"project", "progress", "cost"})
      BY <1>1, SnapshotHas
    <3> QED BY <2>3, <3>1, ResearchListTold
  <2> QED BY <2>4 DEF Same, told
<1>7. Same(o.threats, Of("threats", "threats"), n.threats, PlacedSummary, AlikeThreats)
  <2> DEFINE reported == [i \in DOMAIN o.threats \cap DOMAIN n.threats |->
                           ThreatFields(o.threats[i], n.threats[i])]
             told == Patched(o.threats, Of("threats", "threats"))
  <2>1. all["threats"]["threats"] = DeltaOf(o.threats, n.threats, reported, PlacedSummary)
    BY DEF AllSections, ListDelta
  <2>2. "threats" \in DOMAIN all /\ "threats" \in DOMAIN all["threats"]
    BY SectionLists
  <2>3. TellingAll(told, o.threats, n.threats, reported, PlacedSummary)
    BY <2>1, <2>2, OfTold
  <2> HIDE DEF told
  <2>4. /\ DOMAIN told = DOMAIN n.threats
        /\ \A i \in DOMAIN n.threats :
                IF i \in DOMAIN o.threats THEN AlikeThreats(told[i], n.threats[i])
                                                 ELSE told[i] = Pick(n.threats[i], PlacedSummary)
    <3>1. /\ Has(o.threats, PlacedSummary)
          /\ Numbers(o.threats, "position")
          /\ Numbers(n.threats, "position")
      BY <1>1, SnapshotHas
    <3> QED BY <2>3, <3>1, ThreatsListTold
  <2> QED BY <2>4 DEF Same, told
<1>8. Same(o.zones, Of("map", "zones"), n.zones, ZoneSummary, Equal)
  <2> DEFINE reported == [i \in DOMAIN o.zones \cap DOMAIN n.zones |->
                           Differing(o.zones[i], n.zones[i], ZoneSummary)]
             told == Patched(o.zones, Of("map", "zones"))
  <2>1. all["map"]["zones"] = DeltaOf(o.zones, n.zones, reported, ZoneSummary)
    BY DEF AllSections, ListDelta, ZoneFields
  <2>2. "map" \in DOMAIN all /\ "zones" \in DOMAIN all["map"]
    BY SectionLists
  <2>3. TellingAll(told, o.zones, n.zones, reported, ZoneSummary)
    BY <2>1, <2>2, OfTold
  <2> HIDE DEF told
  <2>4. /\ DOMAIN told = DOMAIN n.zones
        /\ \A i \in DOMAIN n.zones : IF i \in DOMAIN o.zones THEN Equal(told[i], n.zones[i])
                                                 ELSE told[i] = Pick(n.zones[i], ZoneSummary)
    <3>1. Plain(o.zones, ZoneSummary) /\ Plain(n.zones, ZoneSummary)
      BY <1>1, SnapshotHas
    <3>2. \A i \in DOMAIN o.zones \cap DOMAIN n.zones :
            reported[i] = Differing(o.zones[i], n.zones[i], ZoneSummary)
      OBVIOUS
    <3> HIDE DEF reported
    <3> QED BY <2>3, <3>1, <3>2, PlainListTold
  <2> QED BY <2>4 DEF Same, told
<1>9. Same(o.equipment, Of("operations", "equipment"), n.equipment, GearSummary, AlikePlaced)
  <2> DEFINE reported == [i \in DOMAIN o.equipment \cap DOMAIN n.equipment |->
                           GearFields(o.equipment[i], n.equipment[i])]
             told == Patched(o.equipment, Of("operations", "equipment"))
  <2>1. all["operations"]["equipment"] = DeltaOf(o.equipment, n.equipment, reported, GearSummary)
    BY DEF AllSections, ListDelta
  <2>2. "operations" \in DOMAIN all /\ "equipment" \in DOMAIN all["operations"]
    BY SectionLists
  <2>3. TellingAll(told, o.equipment, n.equipment, reported, GearSummary)
    BY <2>1, <2>2, OfTold
  <2> HIDE DEF told
  <2>4. /\ DOMAIN told = DOMAIN n.equipment
        /\ \A i \in DOMAIN n.equipment :
                IF i \in DOMAIN o.equipment THEN AlikePlaced(told[i], n.equipment[i])
                                                 ELSE told[i] = Pick(n.equipment[i], GearSummary)
    <3>1. /\ Has(o.equipment, GearSummary \cup {"more"})
          /\ Numbers(o.equipment, "position")
          /\ Numbers(n.equipment, "position")
      BY <1>1, SnapshotHas
    <3> QED BY <2>3, <3>1, GearListTold
  <2> QED BY <2>4 DEF Same, told
<1>10. Same(o.apparel, Of("operations", "apparel"), n.apparel, GearSummary, AlikePlaced)
  <2> DEFINE reported == [i \in DOMAIN o.apparel \cap DOMAIN n.apparel |->
                           GearFields(o.apparel[i], n.apparel[i])]
             told == Patched(o.apparel, Of("operations", "apparel"))
  <2>1. all["operations"]["apparel"] = DeltaOf(o.apparel, n.apparel, reported, GearSummary)
    BY DEF AllSections, ListDelta
  <2>2. "operations" \in DOMAIN all /\ "apparel" \in DOMAIN all["operations"]
    BY SectionLists
  <2>3. TellingAll(told, o.apparel, n.apparel, reported, GearSummary)
    BY <2>1, <2>2, OfTold
  <2> HIDE DEF told
  <2>4. /\ DOMAIN told = DOMAIN n.apparel
        /\ \A i \in DOMAIN n.apparel :
                IF i \in DOMAIN o.apparel THEN AlikePlaced(told[i], n.apparel[i])
                                                 ELSE told[i] = Pick(n.apparel[i], GearSummary)
    <3>1. /\ Has(o.apparel, GearSummary \cup {"more"})
          /\ Numbers(o.apparel, "position")
          /\ Numbers(n.apparel, "position")
      BY <1>1, SnapshotHas
    <3> QED BY <2>3, <3>1, GearListTold
  <2> QED BY <2>4 DEF Same, told
<1>11. Same(o.beds, Of("operations", "beds"), n.beds, PlacedSummary, AlikePlaced)
  <2> DEFINE reported == [i \in DOMAIN o.beds \cap DOMAIN n.beds |->
                           PlacedFields(o.beds[i], n.beds[i])]
             told == Patched(o.beds, Of("operations", "beds"))
  <2>1. all["operations"]["beds"] = DeltaOf(o.beds, n.beds, reported, PlacedSummary)
    BY DEF AllSections, ListDelta
  <2>2. "operations" \in DOMAIN all /\ "beds" \in DOMAIN all["operations"]
    BY SectionLists
  <2>3. TellingAll(told, o.beds, n.beds, reported, PlacedSummary)
    BY <2>1, <2>2, OfTold
  <2> HIDE DEF told
  <2>4. /\ DOMAIN told = DOMAIN n.beds
        /\ \A i \in DOMAIN n.beds : IF i \in DOMAIN o.beds THEN AlikePlaced(told[i], n.beds[i])
                                                 ELSE told[i] = Pick(n.beds[i], PlacedSummary)
    <3>1. /\ Has(o.beds, PlacedSummary \cup {"more"})
          /\ Numbers(o.beds, "position")
          /\ Numbers(n.beds, "position")
      BY <1>1, SnapshotHas
    <3> QED BY <2>3, <3>1, PlacedListTold
  <2> QED BY <2>4 DEF Same, told
<1>12. Same(o.fuel, Of("operations", "fuel"), n.fuel, FuelSummary, AlikeFuel)
  <2> DEFINE reported == [i \in DOMAIN o.fuel \cap DOMAIN n.fuel |->
                           FuelFields(o.fuel[i], n.fuel[i])]
             told == Patched(o.fuel, Of("operations", "fuel"))
  <2>1. all["operations"]["fuel"] = DeltaOf(o.fuel, n.fuel, reported, FuelSummary)
    BY DEF AllSections, ListDelta
  <2>2. "operations" \in DOMAIN all /\ "fuel" \in DOMAIN all["operations"]
    BY SectionLists
  <2>3. TellingAll(told, o.fuel, n.fuel, reported, FuelSummary)
    BY <2>1, <2>2, OfTold
  <2> HIDE DEF told
  <2>4. /\ DOMAIN told = DOMAIN n.fuel
        /\ \A i \in DOMAIN n.fuel : IF i \in DOMAIN o.fuel THEN AlikeFuel(told[i], n.fuel[i])
                                                 ELSE told[i] = Pick(n.fuel[i], FuelSummary)
    <3>1. Has(o.fuel, FuelSummary)
      BY <1>1, SnapshotHas
    <3> QED BY <2>3, <3>1, FuelListTold
  <2> QED BY <2>4 DEF Same, told
<1>13. Same(o.alerts, Of("awareness", "alerts"), n.alerts, {"self"}, Active)
  <2> DEFINE told == Patched(o.alerts, Of("awareness", "alerts"))
  <2>1. all["awareness"]["alerts"] = NoticesDelta(o.alerts, n.alerts)
    BY DEF AllSections
  <2>2. "awareness" \in DOMAIN all /\ "alerts" \in DOMAIN all["awareness"]
    BY SectionLists
  <2>3. told = Patched(o.alerts, NoticesDelta(o.alerts, n.alerts))
    BY <2>1, <2>2, OfSection
  <2>4. /\ DOMAIN told = DOMAIN n.alerts
        /\ \A i \in DOMAIN n.alerts \ DOMAIN o.alerts : told[i] = Pick(n.alerts[i], {"self"})
    BY <2>3, NoticesTold
  <2> HIDE DEF told
  <2>5. \A i \in DOMAIN n.alerts : IF i \in DOMAIN o.alerts THEN Active(told[i], n.alerts[i])
                                              ELSE told[i] = Pick(n.alerts[i], {"self"})
    BY <2>4 DEF Active
  <2> QED BY <2>4, <2>5 DEF Same, told
<1>14. Same(o.letters, Of("awareness", "letters"), n.letters, {"self"}, Active)
  <2> DEFINE told == Patched(o.letters, Of("awareness", "letters"))
  <2>1. all["awareness"]["letters"] = NoticesDelta(o.letters, n.letters)
    BY DEF AllSections
  <2>2. "awareness" \in DOMAIN all /\ "letters" \in DOMAIN all["awareness"]
    BY SectionLists
  <2>3. told = Patched(o.letters, NoticesDelta(o.letters, n.letters))
    BY <2>1, <2>2, OfSection
  <2>4. /\ DOMAIN told = DOMAIN n.letters
        /\ \A i \in DOMAIN n.letters \ DOMAIN o.letters : told[i] = Pick(n.letters[i], {"self"})
    BY <2>3, NoticesTold
  <2> HIDE DEF told
  <2>5. \A i \in DOMAIN n.letters : IF i \in DOMAIN o.letters THEN Active(told[i], n.letters[i])
                                              ELSE told[i] = Pick(n.letters[i], {"self"})
    BY <2>4 DEF Active
  <2> QED BY <2>4, <2>5 DEF Same, told
<1> QED BY <1>2, <1>3, <1>4, <1>5, <1>6, <1>7, <1>8, <1>9, <1>10, <1>11, <1>12, <1>13, <1>14

-----------------------------------------------------------------------------
(* Numbers and their ranks                                                 *)

Below(T, i) == {q \in T : q < i}

LEMMA RankBounds ==
  ASSUME NEW T, IsFiniteSet(T), T \subseteq Nat, NEW i \in T
  PROVE  /\ Cardinality(T) \in Nat /\ Cardinality(Below(T, i)) \in 0..(Cardinality(T) - 1)
         /\ Cardinality(Below(T, i)) = Cardinality(T) - 1 => \A q \in T : q <= i
<1>1. Cardinality(T) \in Nat
  BY FS_CardinalityType
<1>2. IsFiniteSet(T \ {i}) /\ Cardinality(T \ {i}) = Cardinality(T) - 1
  BY FS_RemoveElement
<1>3. Below(T, i) \in SUBSET (T \ {i})
  BY DEF Below
<1> DEFINE U == T \ {i}
           B == Below(T, i)
<1>4. /\ IsFiniteSet(B) /\ Cardinality(B) <= Cardinality(U)
      /\ Cardinality(U) = Cardinality(B) => U = B
  <2> HIDE DEF U, B
  <2>1. IsFiniteSet(U) /\ B \in SUBSET U
    BY <1>2, <1>3 DEF U, B
  <2> QED BY <2>1, FS_Subset
<1>5. Cardinality(Below(T, i)) \in Nat
  BY <1>4, FS_CardinalityType
<1>6. ASSUME T \ {i} = Below(T, i), NEW q \in T
      PROVE  q <= i
  <2>1. q = i \/ q \in Below(T, i)
    BY <1>6
  <2> QED BY <2>1 DEF Below
<1> QED BY <1>1, <1>2, <1>4, <1>5, <1>6

LEMMA RanksGrow ==
  ASSUME NEW T, IsFiniteSet(T), T \subseteq Nat, NEW i \in T, NEW j \in T, i < j
  PROVE  Cardinality(Below(T, i)) < Cardinality(Below(T, j))
<1> i \in Nat /\ j \in Nat
  OBVIOUS
<1>1. Below(T, i) \in SUBSET Below(T, j) /\ i \in Below(T, j) /\ i \notin Below(T, i)
  <2>1. ASSUME NEW q \in Below(T, i) PROVE q \in Below(T, j)
    <3>1. q \in T /\ q < i /\ q \in Nat
      BY DEF Below
    <3>2. q < j
      BY <3>1
    <3> QED BY <3>1, <3>2 DEF Below
  <2>2. i \in Below(T, j) /\ i \notin Below(T, i)
    BY DEF Below
  <2> QED BY <2>1, <2>2
<1>2. Below(T, j) \in SUBSET T
  BY DEF Below
<1>3. IsFiniteSet(Below(T, j)) /\ IsFiniteSet(Below(T, i))
  BY <1>1, <1>2, FS_Subset
<1>4. /\ Cardinality(Below(T, i)) <= Cardinality(Below(T, j))
      /\ Cardinality(Below(T, j)) = Cardinality(Below(T, i)) => Below(T, j) = Below(T, i)
  BY <1>1, <1>3, FS_Subset
<1>5. Cardinality(Below(T, i)) \in Nat /\ Cardinality(Below(T, j)) \in Nat
  BY <1>3, FS_CardinalityType
<1> QED BY <1>1, <1>4, <1>5

\* No two have one rank, and every rank up to their number is taken.
LEMMA RanksDiffer ==
  ASSUME NEW T, IsFiniteSet(T), T \subseteq Nat, NEW i \in T, NEW j \in T,
         Cardinality(Below(T, i)) = Cardinality(Below(T, j))
  PROVE  i = j
<1>1. /\ i < j => Cardinality(Below(T, i)) < Cardinality(Below(T, j))
      /\ j < i => Cardinality(Below(T, j)) < Cardinality(Below(T, i))
  BY RanksGrow, Zenon
<1>2. Cardinality(T) \in Nat /\ Cardinality(Below(T, i)) \in 0..(Cardinality(T) - 1)
  BY RankBounds, Zenon
<1>3. i \in Nat /\ j \in Nat
  OBVIOUS
<1>4. ~(i < j) /\ ~(j < i)
  BY <1>1, <1>2
<1> QED BY <1>3, <1>4

LEMMA RanksOnto ==
  ASSUME NEW T, IsFiniteSet(T), T \subseteq Nat, NEW r \in 0..(Cardinality(T) - 1)
  PROVE  \E i \in T : Cardinality(Below(T, i)) = r
<1> DEFINE R == 0..(Cardinality(T) - 1)
           f == [i \in T |-> Cardinality(Below(T, i))]
<1>1. Cardinality(T) \in Nat
  BY FS_CardinalityType
<1>2. IsFiniteSet(R) /\ Cardinality(R) = Cardinality(T)
  <2>1. Cardinality(T) - 1 \in Int /\ 0 \in Int
    BY <1>1
  <2>2. IsFiniteSet(R) /\ Cardinality(R) = IF 0 > Cardinality(T) - 1 THEN 0 ELSE (Cardinality(T) - 1) - 0 + 1
    BY <2>1, FS_Interval
  <2> QED BY <1>1, <2>2
<1>3. \A i \in T : f[i] \in R
  BY RankBounds
<1>4. \A i, j \in T : f[i] = f[j] => i = j
  BY RanksDiffer
<1>5. f \in Injection(T, R)
  BY <1>3, <1>4 DEF Injection, IsInjective
<1>6. f \in Surjection(T, R)
  BY <1>2, <1>5, FS_Injection
<1>7. \A x \in R : \E i \in T : f[i] = x
  BY <1>6 DEF Surjection
<1> QED BY <1>7
LEMMA LeastNumber ==
  ASSUME NEW T, T \subseteq Nat, T # {}
  PROVE  \E n \in T : \A m \in T : n <= m
<1>1. PICK n \in T : \A m \in T : ~(<<m, n>> \in OpToRel(<, Nat))
  BY NatLessThanWellFounded, WFMin
<1>2. OpToRel(<, Nat) = {ss \in Nat \X Nat : ss[1] < ss[2]}
  BY DEF OpToRel
<1>3. ASSUME NEW m \in T PROVE n <= m
  <2>1. m \in Nat /\ n \in Nat
    BY <1>1
  <2>2. ~(m < n)
    BY <1>1, <1>2, <2>1
  <2> QED BY <2>1, <2>2
<1> QED BY <1>3

-----------------------------------------------------------------------------
(* Constructions that advance                                              *)

\* What each of the ids was given, in their order.
Made(f, old, new, ids) == f = [o \in ids |-> Takes(old, new, o, TakenBefore(f, ids, o))]

LEMMA TakenAlike ==
  ASSUME NEW f, NEW g, NEW S, NEW R, NEW o, Below(S, o) = Below(R, o),
         \A q \in Below(S, o) : f[q] = g[q]
  PROVE  TakenBefore(f, S, o) = TakenBefore(g, R, o)
BY DEF TakenBefore, Below

LEMMA MadeStep ==
  ASSUME NEW old, NEW new, NEW ids, ids \subseteq Nat, NEW k \in Nat, k # 0,
         NEW f, Made(f, old, new, Below(ids, k - 1))
  PROVE  \E g : Made(g, old, new, Below(ids, k))
<1> DEFINE B == Below(ids, k - 1)
           D == Below(ids, k)
<1>1. CASE k - 1 \notin ids
  <2>1. \A q \in ids : q < k <=> q < k - 1
    BY <1>1
  <2>2. D = B
    BY <2>1 DEF Below
  <2> QED BY <2>2
<1>2. CASE k - 1 \in ids
  <2> DEFINE last == Takes(old, new, k - 1, TakenBefore(f, B, k - 1))
             g == [o \in D |-> IF o = k - 1 THEN last ELSE f[o]]
  <2>1. D = B \cup {k - 1} /\ k - 1 \notin B
    <3>1. \A q \in ids : q \in D <=> q \in B \/ q = k - 1
      BY DEF Below
    <3>2. D \subseteq ids /\ B \subseteq ids /\ k - 1 \notin B
      BY DEF Below
    <3> QED BY <1>2, <3>1, <3>2
  <2>2. ASSUME NEW o \in D
        PROVE  TakenBefore(f, B, o) = TakenBefore(g, D, o)
    <3>1. \A q \in ids : q < o => q < k - 1 /\ q < k
      BY DEF Below
    <3>2. Below(B, o) = Below(D, o)
      BY <3>1 DEF Below
    <3>3. \A q \in Below(B, o) : q \in D /\ q # k - 1
      BY <3>1 DEF Below
    <3>4. \A q \in Below(B, o) : f[q] = g[q]
      BY <3>3
    <3> HIDE DEF g, B, D
    <3> QED BY <3>2, <3>4, TakenAlike
  <2>3. ASSUME NEW o \in D
        PROVE  g[o] = Takes(old, new, o, TakenBefore(f, B, o))
    <3>1. CASE o = k - 1
      BY <3>1
    <3>2. CASE o # k - 1
      <4>1. o \in B
        BY <2>1, <2>3, <3>2
      <4>2. f[o] = Takes(old, new, o, TakenBefore(f, B, o))
        BY <4>1 DEF Made
      <4> QED BY <3>2, <4>2
    <3> QED BY <3>1, <3>2
  <2>4. \A o \in D : g[o] = Takes(old, new, o, TakenBefore(g, D, o))
    <3> HIDE DEF g, B, D
    <3> QED BY <2>2, <2>3
  <2>5. g = [o \in D |-> g[o]]
    OBVIOUS
  <2> HIDE DEF g, D
  <2>6. Made(g, old, new, D)
    BY <2>4, <2>5 DEF Made
  <2> QED BY <2>6 DEF D
<1> QED BY <1>1, <1>2

LEMMA TookExists ==
  ASSUME NEW old, NEW new, NEW ids, IsFiniteSet(ids), ids \subseteq Nat
  PROVE  \E f : Made(f, old, new, ids)
<1> DEFINE Makes(k) == \E f : Made(f, old, new, Below(ids, k))
           T == {k \in Nat : ~Makes(k)}
<1>1. T = {}
  <2>1. SUFFICES ASSUME T # {} PROVE FALSE
    OBVIOUS
  <2>2. PICK k \in T : \A m \in T : k <= m
    <3>1. T \subseteq Nat
      OBVIOUS
    <3> HIDE DEF T
    <3> QED BY <2>1, <3>1, LeastNumber
  <2>3. k \in Nat /\ ~Makes(k)
    OBVIOUS
  <2>4. CASE k = 0
    <3>1. Below(ids, 0) = {}
      <4>1. \A q \in ids : ~(q < 0)
        OBVIOUS
      <4> QED BY <4>1 DEF Below
    <3> DEFINE f == [o \in {} |-> {}]
    <3>2. f = [o \in {} |-> Takes(old, new, o, TakenBefore(f, {}, o))]
      OBVIOUS
    <3>3. Made(f, old, new, {})
      BY <3>2 DEF Made
    <3> QED BY <2>3, <2>4, <3>1, <3>3
  <2>5. CASE k # 0
    <3>1. k - 1 \in Nat /\ ~(k <= k - 1)
      BY <2>3, <2>5
    <3>2. k - 1 \notin T
      BY <2>2, <3>1
    <3>3. Makes(k - 1)
      BY <3>1, <3>2
    <3>4. PICK f : Made(f, old, new, Below(ids, k - 1))
      BY <3>3
    <3>5. Makes(k)
      BY <2>3, <2>5, <3>4, MadeStep
    <3> QED BY <2>3, <3>5
  <2> QED BY <2>4, <2>5
<1>2. \A k \in Nat : Makes(k)
  BY <1>1
<1>3. \E k \in Nat : ids = Below(ids, k)
  <2>1. CASE ids = {}
    <3>1. ids = Below(ids, 0)
      BY <2>1 DEF Below
    <3> QED BY <3>1
  <2>2. CASE ids # {}
    <3>1. Cardinality(ids) \in Nat /\ Cardinality(ids) # 0
      BY <2>2, FS_CardinalityType, FS_EmptySet
    <3>2. PICK i \in ids : Cardinality(Below(ids, i)) = Cardinality(ids) - 1
      <4>1. Cardinality(ids) - 1 \in 0..(Cardinality(ids) - 1)
        BY <3>1
      <4> QED BY <4>1, RanksOnto, Zenon
    <3>3. \A q \in ids : q <= i
      BY <3>2, RankBounds
    <3>4. i + 1 \in Nat /\ \A q \in ids : q < i + 1
      BY <3>3
    <3>5. ids = Below(ids, i + 1)
      BY <3>4 DEF Below
    <3> QED BY <3>4, <3>5
  <2> QED BY <2>1, <2>2
<1> HIDE DEF T
<1> QED BY <1>2, <1>3
\* Nothing has two partners.
Matching(pairs, A, B) ==
  /\ pairs \subseteq A \X B
  /\ \A p, q \in pairs : p[1] = q[1] \/ p[2] = q[2] => p = q

LEMMA TakesOne ==
  ASSUME NEW old, NEW new, IsFiniteSet(DOMAIN new), NEW o, NEW taken
  PROVE  /\ Takes(old, new, o, taken) \subseteq AddedIds(old, new) \ taken
         /\ \A x, y \in Takes(old, new, o, taken) : x = y
<1> DEFINE free == {n \in AddedIds(old, new) \ taken :
                      /\ ConstructionKey(new[n]) = ConstructionKey(old[o])
                      /\ ConstructionRank(new[n]) > ConstructionRank(old[o])}
<1>1. free \in SUBSET DOMAIN new /\ free \subseteq AddedIds(old, new) \ taken
  BY DEF AddedIds
<1>2. Takes(old, new, o, taken) = IF Cardinality(free) = 1 THEN free ELSE {}
  BY DEF Takes
<1> HIDE DEF free
<1>3. IsFiniteSet(free)
  BY <1>1, FS_Subset
<1>4. Cardinality(free) = 1 => \E x : free = {x}
  BY <1>3, FS_Singleton
<1> QED BY <1>1, <1>2, <1>4

LEMMA AdvancesMatch ==
  ASSUME NEW old, NEW new, IsFiniteSet(DOMAIN old), IsFiniteSet(DOMAIN new),
         DOMAIN old \subseteq Nat
  PROVE  Matching(Advances(old, new), RemovedIds(old, new), AddedIds(old, new))
<1> DEFINE gone == RemovedIds(old, new)
           took == CHOOSE f : f = [o \in gone |-> Takes(old, new, o, TakenBefore(f, gone, o))]
           pairs == UNION {{<<o, n>> : n \in took[o]} : o \in gone}
<1>1. IsFiniteSet(gone) /\ gone \subseteq Nat
  <2>1. gone \in SUBSET DOMAIN old
    BY DEF RemovedIds
  <2> QED BY <2>1, FS_Subset
<1>2. \E f : f = [o \in gone |-> Takes(old, new, o, TakenBefore(f, gone, o))]
  <2>1. \E f : Made(f, old, new, gone)
    <3> HIDE DEF gone
    <3> QED BY <1>1, TookExists
  <2> QED BY <2>1 DEF Made
<1>3. took = [o \in gone |-> Takes(old, new, o, TakenBefore(took, gone, o))]
  <2> HIDE DEF gone
  <2> QED BY <1>2, Zenon
<1>4. Advances(old, new) = pairs
  BY DEF Advances
<1> HIDE DEF took
<1>5. ASSUME NEW o \in gone
      PROVE  /\ took[o] \subseteq AddedIds(old, new) \ TakenBefore(took, gone, o)
             /\ \A x, y \in took[o] : x = y
  <2>1. took[o] = Takes(old, new, o, TakenBefore(took, gone, o))
    <3> HIDE DEF gone
    <3> QED BY <1>3
  <2> HIDE DEF gone
  <2> QED BY <2>1, TakesOne
<1>6. \A p \in pairs : \E o \in gone : \E n \in took[o] : p = <<o, n>>
  OBVIOUS
<1> HIDE DEF pairs, gone
<1>7. ASSUME NEW o \in gone, NEW m \in gone, o < m, NEW x \in took[o], NEW y \in took[m]
      PROVE  x # y
  <2>1. x \in TakenBefore(took, gone, m)
    BY <1>7 DEF TakenBefore
  <2> QED BY <1>5, <2>1
<1>8. ASSUME NEW p \in pairs, NEW q \in pairs, p[1] = q[1] \/ p[2] = q[2]
      PROVE  p = q
  <2>1. PICK o, x : o \in gone /\ x \in took[o] /\ p = <<o, x>>
    BY <1>6
  <2>2. PICK m, y : m \in gone /\ y \in took[m] /\ q = <<m, y>>
    BY <1>6
  <2>3. o \in Nat /\ m \in Nat
    BY <1>1, <2>1, <2>2
  <2>4. CASE o = m
    <3>1. x = y
      BY <1>5, <2>1, <2>2, <2>4
    <3> QED BY <2>1, <2>2, <2>4, <3>1
  <2>5. CASE o # m
    <3>1. o < m \/ m < o
      BY <2>3, <2>5
    <3>2. x # y
      BY <1>7, <2>1, <2>2, <3>1
    <3> QED BY <1>8, <2>1, <2>2, <2>5, <3>2
  <2> QED BY <2>4, <2>5
<1>9. \A p \in pairs : p \in gone \X AddedIds(old, new)
  BY <1>5, <1>6
<1>10. Matching(pairs, gone, AddedIds(old, new))
  BY <1>8, <1>9 DEF Matching
<1> QED BY <1>4, <1>10 DEF gone
-----------------------------------------------------------------------------
(* Things that got other ids                                               *)

OfKind(list, ids, key) == {i \in ids : ThingKey(list[i]) = key}

LEMMA LowerOfKind ==
  ASSUME NEW list, NEW ids, NEW i, NEW key, ThingKey(list[i]) = key
  PROVE  Lower(list, ids, i) = Below(OfKind(list, ids, key), i)
BY DEF Lower, Below, OfKind

LEMMA KindFinite ==
  ASSUME NEW list, NEW ids, NEW key, IsFiniteSet(ids), ids \subseteq Nat
  PROVE  IsFiniteSet(OfKind(list, ids, key)) /\ OfKind(list, ids, key) \subseteq Nat
<1>1. OfKind(list, ids, key) \in SUBSET ids
  BY DEF OfKind
<1> QED BY <1>1, FS_Subset

LEMMA SameRank ==
  ASSUME NEW list, NEW ids, IsFiniteSet(ids), ids \subseteq Nat, NEW i \in ids, NEW j \in ids,
         ThingKey(list[i]) = ThingKey(list[j]),
         Cardinality(Lower(list, ids, i)) = Cardinality(Lower(list, ids, j))
  PROVE  i = j
<1> DEFINE key == ThingKey(list[i])
           T == OfKind(list, ids, key)
<1>1. i \in T /\ j \in T
  BY DEF OfKind
<1>2. IsFiniteSet(T) /\ T \subseteq Nat
  BY KindFinite
<1>3. Lower(list, ids, i) = Below(T, i) /\ Lower(list, ids, j) = Below(T, j)
  BY LowerOfKind
<1> HIDE DEF T
<1> QED BY <1>1, <1>2, <1>3, RanksDiffer

\* Of the things of a kind on two sides, those of the side with fewer all have
\* their partner.
HasPartner(list, ids, i, other, others) ==
  \E j \in others : /\ ThingKey(other[j]) = ThingKey(list[i])
                    /\ Cardinality(Lower(list, ids, i)) = Cardinality(Lower(other, others, j))

LEMMA RankThere ==
  ASSUME NEW list, NEW ids, IsFiniteSet(ids), ids \subseteq Nat,
         NEW other, NEW others, IsFiniteSet(others), others \subseteq Nat,
         NEW i \in ids,
         Cardinality(OfKind(list, ids, ThingKey(list[i])))
           <= Cardinality(OfKind(other, others, ThingKey(list[i])))
  PROVE  HasPartner(list, ids, i, other, others)
<1> DEFINE key == ThingKey(list[i])
           T == OfKind(list, ids, key)
           U == OfKind(other, others, key)
           r == Cardinality(Below(T, i))
<1>1. IsFiniteSet(T) /\ T \subseteq Nat /\ IsFiniteSet(U) /\ U \subseteq Nat
  BY KindFinite
<1>2. i \in T
  BY DEF OfKind
<1>3. Lower(list, ids, i) = Below(T, i)
  BY LowerOfKind
<1>4. Cardinality(T) <= Cardinality(U)
  OBVIOUS
<1>5. \A j \in U : j \in others /\ ThingKey(other[j]) = key /\ Lower(other, others, j) = Below(U, j)
  <2>1. \A j \in U : j \in others /\ ThingKey(other[j]) = key
    BY DEF OfKind
  <2> QED BY <2>1, LowerOfKind
<1> HIDE DEF T, U
<1>6. /\ Cardinality(T) \in Nat /\ Cardinality(U) \in Nat
      /\ r \in 0..(Cardinality(T) - 1)
  BY <1>1, <1>2, RankBounds, FS_CardinalityType
<1>7. r \in 0..(Cardinality(U) - 1)
  <2> HIDE DEF r
  <2> QED BY <1>4, <1>6
<1>8. PICK j \in U : Cardinality(Below(U, j)) = r
  BY <1>1, <1>7, RanksOnto, Zenon
<1> QED BY <1>3, <1>5, <1>8 DEF HasPartner

LEMMA PairedMatch ==
  ASSUME NEW old, NEW new, NEW gone, NEW came,
         IsFiniteSet(gone), gone \subseteq Nat, IsFiniteSet(came), came \subseteq Nat
  PROVE  Matching(Paired(old, new, gone, came), gone, came)
<1> DEFINE pairs == Paired(old, new, gone, came)
<1>1. \A p \in pairs : /\ p \in gone \X came
                       /\ ThingKey(old[p[1]]) = ThingKey(new[p[2]])
                       /\ Cardinality(Lower(old, gone, p[1])) = Cardinality(Lower(new, came, p[2]))
  BY DEF Paired
<1> HIDE DEF pairs
<1>2. ASSUME NEW p \in pairs, NEW q \in pairs, p[1] = q[1] \/ p[2] = q[2]
      PROVE  p = q
  <2>1. /\ p[1] \in gone /\ p[2] \in came /\ p = <<p[1], p[2]>>
        /\ q[1] \in gone /\ q[2] \in came /\ q = <<q[1], q[2]>>
    BY <1>1
  <2>2. CASE p[1] = q[1]
    <3>1. /\ ThingKey(new[p[2]]) = ThingKey(new[q[2]])
          /\ Cardinality(Lower(new, came, p[2])) = Cardinality(Lower(new, came, q[2]))
      BY <1>1, <2>2
    <3>2. p[2] = q[2]
      BY <2>1, <3>1, SameRank
    <3> QED BY <2>1, <2>2, <3>2
  <2>3. CASE p[2] = q[2]
    <3>1. /\ ThingKey(old[p[1]]) = ThingKey(old[q[1]])
          /\ Cardinality(Lower(old, gone, p[1])) = Cardinality(Lower(old, gone, q[1]))
      BY <1>1, <2>3
    <3>2. p[1] = q[1]
      BY <2>1, <3>1, SameRank
    <3> QED BY <2>1, <2>3, <3>2
  <2> QED BY <1>2, <2>2, <2>3
<1>3. Matching(pairs, gone, came)
  BY <1>1, <1>2 DEF Matching
<1> QED BY <1>3 DEF pairs

\* What is left without a partner on one side has none on the other.
LEMMA PairedLeaves ==
  ASSUME NEW old, NEW new, NEW gone, NEW came,
         IsFiniteSet(gone), gone \subseteq Nat, IsFiniteSet(came), came \subseteq Nat,
         NEW i \in gone, NEW j \in came, ThingKey(old[i]) = ThingKey(new[j])
  PROVE  \E p \in Paired(old, new, gone, came) : p[1] = i \/ p[2] = j
<1> DEFINE key == ThingKey(old[i])
           fewer == Cardinality(OfKind(old, gone, key)) <= Cardinality(OfKind(new, came, key))
           more == Cardinality(OfKind(new, came, key)) <= Cardinality(OfKind(old, gone, key))
<1>1. fewer \/ more
  <2>1. /\ Cardinality(OfKind(old, gone, key)) \in Nat
        /\ Cardinality(OfKind(new, came, key)) \in Nat
    BY KindFinite, FS_CardinalityType
  <2> QED BY <2>1
<1>2. CASE fewer
  <2>1. HasPartner(old, gone, i, new, came)
    BY <1>2, RankThere
  <2>2. PICK l \in came : /\ ThingKey(new[l]) = ThingKey(old[i])
                          /\ Cardinality(Lower(old, gone, i)) = Cardinality(Lower(new, came, l))
    BY <2>1 DEF HasPartner
  <2>3. <<i, l>> \in Paired(old, new, gone, came)
    BY <2>2 DEF Paired
  <2> QED BY <2>3
<1>3. CASE more
  <2>1. HasPartner(new, came, j, old, gone)
    BY <1>3, RankThere
  <2>2. PICK l \in gone : /\ ThingKey(old[l]) = ThingKey(new[j])
                          /\ Cardinality(Lower(new, came, j)) = Cardinality(Lower(old, gone, l))
    BY <2>1 DEF HasPartner
  <2>3. <<l, j>> \in Paired(old, new, gone, came)
    BY <2>2 DEF Paired
  <2> QED BY <2>3
<1> QED BY <1>1, <1>2, <1>3
-----------------------------------------------------------------------------
(* What is told of things and constructions                                *)

Firsts(pairs) == {p[1] : p \in pairs}
Seconds(pairs) == {p[2] : p \in pairs}

LEMMA MatchingCounts ==
  ASSUME NEW pairs, NEW A, NEW B, IsFiniteSet(A), Matching(pairs, A, B)
  PROVE  /\ IsFiniteSet(pairs) /\ Firsts(pairs) \subseteq A /\ Seconds(pairs) \subseteq B
         /\ Cardinality(Firsts(pairs)) = Cardinality(pairs)
         /\ Cardinality(Seconds(pairs)) = Cardinality(pairs)
<1> DEFINE f == [p \in pairs |-> p[1]]
           s == [p \in pairs |-> p[2]]
<1>1. /\ \A p \in pairs : p[1] \in A /\ p[2] \in B
      /\ \A p, q \in pairs : p[1] = q[1] \/ p[2] = q[2] => p = q
  BY DEF Matching
<1>2. f \in Injection(pairs, A)
  BY <1>1 DEF Injection, IsInjective
<1>3. IsFiniteSet(pairs)
  BY <1>2, FS_Injection
<1>4. f \in Surjection(pairs, Firsts(pairs)) /\ f \in Injection(pairs, Firsts(pairs))
  BY <1>1 DEF Injection, IsInjective, Surjection, Firsts
<1>5. s \in Surjection(pairs, Seconds(pairs)) /\ s \in Injection(pairs, Seconds(pairs))
  BY <1>1 DEF Injection, IsInjective, Surjection, Seconds
<1>6. Firsts(pairs) \subseteq A /\ Seconds(pairs) \subseteq B
  BY <1>1 DEF Firsts, Seconds
<1> HIDE DEF f, s
<1> QED BY <1>3, <1>4, <1>5, <1>6, FS_Surjection

\* The pairs of a list of things, the ones that kept their id and the others.
ThingPairs(old, new) ==
  LET both == DOMAIN old \cap DOMAIN new
  IN {<<i, i>> : i \in both} \cup Paired(old, new, DOMAIN old \ both, DOMAIN new \ both)

LEMMA ThingsOnce ==
  ASSUME NEW old, NEW new, IsFiniteSet(DOMAIN old), DOMAIN old \subseteq Nat,
         IsFiniteSet(DOMAIN new), DOMAIN new \subseteq Nat
  PROVE  LET d == ThingsDelta(old, new)
         IN /\ {ThingKey(new[i]) : i \in DOMAIN d.added} \cap {ThingKey(old[i]) : i \in d.removed} = {}
            /\ Cardinality(DOMAIN d.added) - Cardinality(d.removed)
                 = Cardinality(DOMAIN new) - Cardinality(DOMAIN old)
<1> DEFINE d == ThingsDelta(old, new)
           both == DOMAIN old \cap DOMAIN new
           gone == DOMAIN old \ both
           came == DOMAIN new \ both
           others == Paired(old, new, gone, came)
           pairs == ThingPairs(old, new)
<1>1. DOMAIN d.added = DOMAIN new \ Seconds(pairs) /\ d.removed = DOMAIN old \ Firsts(pairs)
  BY DEF ThingsDelta, ThingPairs, Firsts, Seconds
<1>2. pairs = {<<i, i>> : i \in both} \cup others
  BY DEF ThingPairs
<1>3. /\ IsFiniteSet(gone) /\ gone \subseteq Nat /\ gone \cap both = {} /\ gone \subseteq DOMAIN old
      /\ IsFiniteSet(came) /\ came \subseteq Nat /\ came \cap both = {} /\ came \subseteq DOMAIN new
      /\ DOMAIN old = gone \cup both /\ DOMAIN new = came \cup both
  <2>1. gone \in SUBSET DOMAIN old /\ came \in SUBSET DOMAIN new
    OBVIOUS
  <2>2. IsFiniteSet(gone) /\ IsFiniteSet(came)
    <3> HIDE DEF gone, came
    <3> QED BY <2>1, FS_Subset
  <2> QED BY <2>2
<1> HIDE DEF gone, came, both
<1>4. Matching(others, gone, came)
  BY <1>3, PairedMatch
<1> HIDE DEF d, pairs
<1>5. /\ \A p \in others : p = <<p[1], p[2]>> /\ p[1] \in gone /\ p[2] \in came
      /\ \A p \in pairs \ others : p = <<p[1], p[2]>> /\ p[1] = p[2] /\ p[1] \in both
  <2>1. \A p \in others : p \in gone \X came
    BY <1>4 DEF Matching
  <2>2. \A p \in pairs \ others : \E i \in both : p = <<i, i>>
    BY <1>2
  <2> HIDE DEF others
  <2> QED BY <2>1, <2>2
<1>6. \A i \in both : i \in Firsts(pairs) /\ i \in Seconds(pairs)
  <2>1. ASSUME NEW i \in both
        PROVE  \E p \in pairs : p[1] = i /\ p[2] = i
    <3>1. <<i, i>> \in pairs
      BY <1>2
    <3> QED BY <3>1
  <2> QED BY <2>1 DEF Firsts, Seconds
<1>7. \A p \in others : p \in pairs
  BY <1>2
<1>8. Matching(pairs, DOMAIN old, DOMAIN new)
  <2> HIDE DEF others
  <2>1. ASSUME NEW p \in pairs
        PROVE  p \in (DOMAIN old) \X (DOMAIN new)
    <3>1. p = <<p[1], p[2]>> /\ p[1] \in DOMAIN old /\ p[2] \in DOMAIN new
      BY <1>3, <1>5
    <3> QED BY <3>1
  <2>2. ASSUME NEW p \in pairs, NEW q \in pairs, p[1] = q[1] \/ p[2] = q[2]
        PROVE  p = q
    <3>1. CASE p \in others /\ q \in others
      BY <1>4, <2>2, <3>1 DEF Matching
    <3>2. CASE p \notin others /\ q \notin others
      BY <1>5, <2>2, <3>2
    <3>3. CASE p \in others /\ q \notin others
      BY <1>3, <1>5, <2>2, <3>3
    <3>4. CASE p \notin others /\ q \in others
      BY <1>3, <1>5, <2>2, <3>4
    <3> QED BY <3>1, <3>2, <3>3, <3>4
  <2> QED BY <2>1, <2>2 DEF Matching
<1>9. ASSUME NEW i \in DOMAIN d.added, NEW j \in d.removed, ThingKey(new[i]) = ThingKey(old[j])
      PROVE  FALSE
  <2>1. i \in DOMAIN new \ Seconds(pairs) /\ j \in DOMAIN old \ Firsts(pairs)
    BY <1>1, <1>9
  <2>2. i \notin both /\ j \notin both
    BY <1>6, <2>1
  <2>3. i \in came /\ j \in gone
    BY <1>3, <2>1, <2>2
  <2>4. PICK p \in others : p[1] = j \/ p[2] = i
    BY <1>3, <1>9, <2>3, PairedLeaves
  <2> QED BY <1>7, <2>1, <2>4 DEF Firsts, Seconds
<1>10. Cardinality(DOMAIN d.added) - Cardinality(d.removed)
         = Cardinality(DOMAIN new) - Cardinality(DOMAIN old)
  <2> DEFINE F == Firsts(pairs)
             S == Seconds(pairs)
  <2>1. /\ IsFiniteSet(pairs) /\ F \subseteq DOMAIN old /\ S \subseteq DOMAIN new
        /\ Cardinality(F) = Cardinality(pairs) /\ Cardinality(S) = Cardinality(pairs)
    BY <1>8, MatchingCounts
  <2> HIDE DEF F, S
  <2>2. DOMAIN new \cap S = S /\ DOMAIN old \cap F = F
    BY <2>1
  <2>3. /\ Cardinality(DOMAIN new \ S) = Cardinality(DOMAIN new) - Cardinality(DOMAIN new \cap S)
        /\ Cardinality(DOMAIN old \ F) = Cardinality(DOMAIN old) - Cardinality(DOMAIN old \cap F)
    BY FS_Difference
  <2>4. /\ Cardinality(DOMAIN new) \in Nat /\ Cardinality(DOMAIN old) \in Nat
        /\ Cardinality(pairs) \in Nat
    BY <2>1, FS_CardinalityType
  <2>5. /\ Cardinality(DOMAIN d.added) = Cardinality(DOMAIN new) - Cardinality(pairs)
        /\ Cardinality(d.removed) = Cardinality(DOMAIN old) - Cardinality(pairs)
    BY <1>1, <2>1, <2>2, <2>3 DEF F, S
  <2> QED BY <2>4, <2>5
<1>11. {ThingKey(new[i]) : i \in DOMAIN d.added} \cap {ThingKey(old[i]) : i \in d.removed} = {}
  BY <1>9
<1> QED BY <1>10, <1>11 DEF d
\* A delta of constructions of which these pairs advanced: what stayed is
\* compared, what has no partner went or came.
Transitions(new, pairs) == {[from |-> p[1], to |-> p[2], what |-> Pick(new[p[2]], BuildingSummary)] : p \in pairs}

AdvancedBy(d, old, new, pairs) ==
  /\ DOMAIN d.added = AddedIds(old, new) \ Seconds(pairs)
  /\ \A i \in DOMAIN d.added : d.added[i] = Pick(new[i], BuildingSummary)
  /\ d.removed = RemovedIds(old, new) \ Firsts(pairs)
  /\ d.transitions = Transitions(new, pairs)
  /\ LET reported == [i \in DOMAIN old \cap DOMAIN new |-> ConstructionFields(old[i], new[i])]
     IN /\ DOMAIN d.changed = {i \in DOMAIN reported : reported[i] # {}}
        /\ \A i \in DOMAIN d.changed : d.changed[i] = [f \in reported[i] |-> new[i][f]]

LEMMA ConstructionIs ==
  ASSUME NEW old, NEW new, IsFiniteSet(DOMAIN old), IsFiniteSet(DOMAIN new),
         DOMAIN old \subseteq Nat
  PROVE  AdvancedBy(ConstructionDelta(old, new), old, new, Advances(old, new))
<1> DEFINE pairs == Advances(old, new)
           F == Firsts(pairs)
           S == Seconds(pairs)
           o == Without(old, F)
           n == Without(new, S)
           reported == [i \in DOMAIN old \cap DOMAIN new |-> ConstructionFields(old[i], new[i])]
           rest == DeltaOf(o, n, [i \in DOMAIN o \cap DOMAIN n |-> ConstructionFields(o[i], n[i])],
                           BuildingSummary)
           d == ConstructionDelta(old, new)
<1>1. F \subseteq RemovedIds(old, new) /\ S \subseteq AddedIds(old, new)
  BY AdvancesMatch DEF Matching, Firsts, Seconds
<1>2. d = [rest EXCEPT !.transitions =
                 Transitions(new, pairs)]
  BY DEF ConstructionDelta, ListDelta, Firsts, Seconds, Transitions
<1> HIDE DEF F, S, d, pairs
<1>3. /\ DOMAIN o = DOMAIN old \ F /\ \A i \in DOMAIN o : o[i] = old[i]
      /\ DOMAIN n = DOMAIN new \ S /\ \A i \in DOMAIN n : n[i] = new[i]
  BY DEF Without
<1>4. /\ DOMAIN o \cap DOMAIN n = DOMAIN old \cap DOMAIN new
      /\ DOMAIN n \ DOMAIN o = AddedIds(old, new) \ S
      /\ DOMAIN o \ DOMAIN n = RemovedIds(old, new) \ F
  BY <1>1, <1>3 DEF AddedIds, RemovedIds
<1> HIDE DEF o, n
<1>5. [i \in DOMAIN o \cap DOMAIN n |-> ConstructionFields(o[i], n[i])] = reported
  BY <1>3, <1>4
<1>6. rest = DeltaOf(o, n, reported, BuildingSummary)
  <2> HIDE DEF reported
  <2> QED BY <1>5
<1> HIDE DEF rest, reported
<1>7. /\ d.added = rest.added /\ d.removed = rest.removed /\ d.changed = rest.changed
      /\ d.transitions = Transitions(new, pairs)
  BY <1>2, <1>6 DEF DeltaOf
<1>8. /\ DOMAIN rest.added = DOMAIN n \ DOMAIN o
      /\ \A i \in DOMAIN rest.added : rest.added[i] = Pick(n[i], BuildingSummary)
      /\ rest.removed = DOMAIN o \ DOMAIN n
      /\ DOMAIN rest.changed = {i \in DOMAIN reported : reported[i] # {}}
      /\ \A i \in DOMAIN rest.changed : rest.changed[i] = [f \in reported[i] |-> n[i][f]]
  BY <1>6 DEF DeltaOf
<1>9. DOMAIN reported = DOMAIN o \cap DOMAIN n
  BY <1>4 DEF reported
<1>10. \A i \in DOMAIN rest.changed : n[i] = new[i]
  BY <1>3, <1>8, <1>9
<1>11. /\ DOMAIN d.added = AddedIds(old, new) \ S
       /\ \A i \in DOMAIN d.added : d.added[i] = Pick(new[i], BuildingSummary)
       /\ d.removed = RemovedIds(old, new) \ F
       /\ DOMAIN d.changed = {i \in DOMAIN reported : reported[i] # {}}
       /\ \A i \in DOMAIN d.changed : d.changed[i] = [f \in reported[i] |-> new[i][f]]
  BY <1>3, <1>4, <1>7, <1>8, <1>10
<1>12. AdvancedBy(d, old, new, pairs)
  BY <1>7, <1>11 DEF AdvancedBy, F, S, reported
<1> QED BY <1>12 DEF d, pairs

LEMMA TransitionsOf ==
  ASSUME NEW new, NEW pairs
  PROVE  /\ \A p \in pairs : \E t \in Transitions(new, pairs) : t.from = p[1] /\ t.to = p[2]
         /\ \A t \in Transitions(new, pairs) :
              \E p \in pairs : t.from = p[1] /\ t.to = p[2] /\ t.what = Pick(new[p[2]], BuildingSummary)
<1>1. ASSUME NEW p \in pairs
      PROVE  \E t \in Transitions(new, pairs) : t.from = p[1] /\ t.to = p[2]
  <2> DEFINE t == [from |-> p[1], to |-> p[2], what |-> Pick(new[p[2]], BuildingSummary)]
  <2>1. t \in Transitions(new, pairs)
    BY DEF Transitions
  <2>2. t.from = p[1] /\ t.to = p[2]
    OBVIOUS
  <2> HIDE DEF t
  <2> QED BY <2>1, <2>2
<1> QED BY <1>1 DEF Transitions

LEMMA ConstructionFor ==
  ASSUME NEW old, NEW new, IsFiniteSet(DOMAIN old), IsFiniteSet(DOMAIN new),
         DOMAIN old \subseteq Nat
  PROVE  DeltaFor(ConstructionDelta(old, new), old, new,
                  [i \in DOMAIN old \cap DOMAIN new |-> ConstructionFields(old[i], new[i])],
                  BuildingSummary)
<1> DEFINE d == ConstructionDelta(old, new)
           pairs == Advances(old, new)
           F == Firsts(pairs)
           S == Seconds(pairs)
           reported == [i \in DOMAIN old \cap DOMAIN new |-> ConstructionFields(old[i], new[i])]
<1>1. /\ DOMAIN d.added = AddedIds(old, new) \ S
      /\ \A i \in DOMAIN d.added : d.added[i] = Pick(new[i], BuildingSummary)
      /\ d.removed = RemovedIds(old, new) \ F
      /\ d.transitions = Transitions(new, pairs)
      /\ DOMAIN d.changed = {i \in DOMAIN reported : reported[i] # {}}
      /\ \A i \in DOMAIN d.changed : d.changed[i] = [f \in reported[i] |-> new[i][f]]
  <2>1. AdvancedBy(d, old, new, pairs)
    BY ConstructionIs
  <2> HIDE DEF d, pairs
  <2> QED BY <2>1 DEF AdvancedBy
<1>2. \A p \in pairs : p[1] \in RemovedIds(old, new) /\ p[2] \in AddedIds(old, new)
  BY AdvancesMatch DEF Matching
<1>3. /\ F = {p[1] : p \in pairs} /\ S = {p[2] : p \in pairs}
  BY DEF Firsts, Seconds
<1>4. /\ RemovedIds(old, new) = DOMAIN old \ DOMAIN new
      /\ AddedIds(old, new) = DOMAIN new \ DOMAIN old
  BY DEF RemovedIds, AddedIds
<1> HIDE DEF d, pairs, F, S, reported
<1>5. \A t \in d.transitions : /\ t.from \in DOMAIN old \ DOMAIN new
                               /\ t.to \in DOMAIN new \ DOMAIN old /\ t.what = Pick(new[t.to], BuildingSummary)
  BY <1>1, <1>2, <1>4 DEF Transitions
<1>6. /\ \A i \in F : \E t \in d.transitions : t.from = i
      /\ \A i \in S : \E t \in d.transitions : t.to = i
  <2>1. \A p \in pairs : \E t \in d.transitions : t.from = p[1] /\ t.to = p[2]
    BY <1>1, TransitionsOf
  <2> QED BY <1>3, <2>1
<1>7. DeltaFor(d, old, new, reported, BuildingSummary)
  BY <1>1, <1>4, <1>5, <1>6 DEF DeltaFor
<1> QED BY <1>7 DEF d, reported

\* Each construction that went is gone or became one other.
LEMMA ConstructionOnce ==
  ASSUME NEW old, NEW new, IsFiniteSet(DOMAIN old), IsFiniteSet(DOMAIN new),
         DOMAIN old \subseteq Nat
  PROVE  LET d == ConstructionDelta(old, new)
             became == {t.from : t \in d.transitions}
         IN /\ d.removed \cup became = DOMAIN old \ DOMAIN new /\ d.removed \cap became = {}
            /\ Cardinality({t.to : t \in d.transitions}) = Cardinality(d.transitions)
            /\ Cardinality(became) = Cardinality(d.transitions)
<1> DEFINE d == ConstructionDelta(old, new)
           pairs == Advances(old, new)
           T == d.transitions
           g == [p \in pairs |->
                  [from |-> p[1], to |-> p[2], what |-> Pick(new[p[2]], BuildingSummary)]]
           became == {t.from : t \in T}
           into == {t.to : t \in T}
<1>1. /\ d.removed = RemovedIds(old, new) \ Firsts(pairs)
      /\ T = Transitions(new, pairs)
  BY ConstructionIs DEF AdvancedBy
<1>2. Matching(pairs, RemovedIds(old, new), AddedIds(old, new))
  BY AdvancesMatch
<1>3. IsFiniteSet(RemovedIds(old, new)) /\ RemovedIds(old, new) = DOMAIN old \ DOMAIN new
  <2>1. RemovedIds(old, new) \in SUBSET DOMAIN old
    BY DEF RemovedIds
  <2> QED BY <2>1, FS_Subset DEF RemovedIds
<1>4. /\ IsFiniteSet(pairs) /\ Firsts(pairs) \subseteq RemovedIds(old, new)
      /\ Cardinality(Firsts(pairs)) = Cardinality(pairs)
      /\ Cardinality(Seconds(pairs)) = Cardinality(pairs)
  BY <1>2, <1>3, MatchingCounts
<1> HIDE DEF d, pairs
<1>5. became = Firsts(pairs) /\ into = Seconds(pairs)
  <2>1. \A p \in pairs : \E t \in T : t.from = p[1] /\ t.to = p[2]
    BY <1>1, TransitionsOf
  <2>2. \A t \in T : \E p \in pairs : t.from = p[1] /\ t.to = p[2]
    BY <1>1, TransitionsOf
  <2> HIDE DEF T
  <2> QED BY <2>1, <2>2 DEF Firsts, Seconds
<1>6. Cardinality(T) = Cardinality(pairs)
  <2>1. \A p \in pairs : g[p] \in T
    BY <1>1 DEF Transitions
  <2>2. \A t \in T : \E p \in pairs : g[p] = t
    BY <1>1 DEF Transitions
  <2>3. \A p, q \in pairs : g[p] = g[q] => p[1] = q[1]
    OBVIOUS
  <2>4. \A p, q \in pairs : p[1] = q[1] => p = q
    BY <1>2 DEF Matching
  <2>5. g \in [pairs -> T]
    BY <2>1
  <2>6. g \in Surjection(pairs, T) /\ g \in Injection(pairs, T)
    BY <2>2, <2>3, <2>4, <2>5 DEF Surjection, Injection, IsInjective
  <2> HIDE DEF g, T
  <2> QED BY <1>4, <2>6, FS_Surjection
<1> HIDE DEF T, became, into
<1>7. /\ d.removed \cup became = DOMAIN old \ DOMAIN new /\ d.removed \cap became = {}
      /\ Cardinality(into) = Cardinality(T) /\ Cardinality(became) = Cardinality(T)
  BY <1>1, <1>3, <1>4, <1>5, <1>6
<1> QED BY <1>7 DEF d, T, became, into
-----------------------------------------------------------------------------
(* The delta tells the current state                                       *)

LEMMA BuildingsAreTold ==
  ASSUME ComparedInv, Comparable(baseline, current)
  PROVE  Same(baseline.is.buildings, Of("construction", "buildings"), current.is.buildings,
              BuildingSummary, AlikeBuildings)
<1> DEFINE o == baseline.is
           n == current.is
           all == AllSections(o, n)
           reported == [i \in DOMAIN o.buildings \cap DOMAIN n.buildings |->
                          ConstructionFields(o.buildings[i], n.buildings[i])]
           told == Patched(o.buildings, Of("construction", "buildings"))
<1>1. o \in Snapshots /\ n \in Snapshots
  BY DEF ComparedInv, Comparable
<1>2. /\ IsFiniteSet(DOMAIN o.buildings) /\ DOMAIN o.buildings \subseteq Nat
      /\ IsFiniteSet(DOMAIN n.buildings)
  BY <1>1, SnapshotFinite DEF Lists
<1>3. all["construction"]["buildings"] = ConstructionDelta(o.buildings, n.buildings)
  BY DEF AllSections
<1>4. "construction" \in DOMAIN all /\ "buildings" \in DOMAIN all["construction"]
  BY SectionLists
<1>5. told = Patched(o.buildings, ConstructionDelta(o.buildings, n.buildings))
  BY <1>3, <1>4, OfSection
<1>6. DeltaFor(ConstructionDelta(o.buildings, n.buildings), o.buildings, n.buildings, reported,
                BuildingSummary)
  BY <1>2, ConstructionFor
<1>7. TellingAll(told, o.buildings, n.buildings, reported, BuildingSummary)
  BY <1>5, <1>6, PatchedFor
<1> HIDE DEF told
<1>8. /\ DOMAIN told = DOMAIN n.buildings
      /\ \A i \in DOMAIN n.buildings :
           IF i \in DOMAIN o.buildings THEN AlikeBuildings(told[i], n.buildings[i])
                                       ELSE told[i] = Pick(n.buildings[i], BuildingSummary)
  <2>1. /\ Has(o.buildings, BuildingSummary \cup {"more"})
        /\ \A i \in DOMAIN o.buildings : o.buildings[i].hp \in Nat
        /\ \A i \in DOMAIN n.buildings : n.buildings[i].hp \in Nat
    BY <1>1, SnapshotHas
  <2> QED BY <1>7, <2>1, BuildingsListTold
<1> QED BY <1>8 DEF Same, told

LEMMA OfCounts ==
  ASSUME NEW s, NEW l,
         s \in DOMAIN AllSections(baseline.is, current.is),
         l \in DOMAIN AllSections(baseline.is, current.is)[s]
  PROVE  LET d == AllSections(baseline.is, current.is)[s][l]
         IN /\ DOMAIN Of(s, l).added = DOMAIN d.added /\ Of(s, l).removed = d.removed
            /\ Of(s, l).transitions = d.transitions
<1> DEFINE all == AllSections(baseline.is, current.is)
<1>1. CASE s \in DOMAIN Delta
  <2>1. Of(s, l) = all[s][l]
    BY <1>1, SectionsKeep DEF Of, Delta
  <2> QED BY <2>1
<1>2. CASE s \notin DOMAIN Delta
  <2>1. Of(s, l) = Silence /\ Silent(all[s][l])
    BY <1>2, SectionsKeep DEF Of, Delta
  <2>2. DOMAIN Silence.added = {} /\ Silence.removed = {} /\ Silence.transitions = {}
    BY DEF Silence
  <2> QED BY <2>1, <2>2 DEF Silent
<1> QED BY <1>1, <1>2

LEMMA CompletedTold ==
  ASSUME NEW o, NEW n, o = baseline.is, n = current.is
  PROVE  DOMAIN n.completed \ DOMAIN o.completed = DOMAIN Of("research", "completed").added
<1> DEFINE all == AllSections(o, n)
<1>1. all["research"]["completed"] = EventsDelta(o.completed, n.completed)
  BY DEF AllSections
<1>2. "research" \in DOMAIN all /\ "completed" \in DOMAIN all["research"]
  BY SectionLists
<1>3. DOMAIN EventsDelta(o.completed, n.completed).added = DOMAIN n.completed \ DOMAIN o.completed
  BY DEF EventsDelta, NoticesDelta, ListDelta, DeltaOf
<1> HIDE DEF all
<1>4. DOMAIN Of("research", "completed").added = DOMAIN all["research"]["completed"].added
  BY <1>2, OfCounts DEF all
<1> QED BY <1>1, <1>3, <1>4

(* Whatever the game publishes, and whatever happens between two committed   *)
(* decisions: the baseline and the delta together tell the current state, of *)
(* what stayed up to the bands and distances that are noise, of what came    *)
(* what its summary tells (state_diff.py).                                   *)
THEOREM CurrentIsTold == Spec => []DeltaTellsCurrent
<1>1. ASSUME ComparedInv, Comparable(baseline, current)
      PROVE  DeltaTellsCurrent
  <2>1. \A l \in {"equipment", "apparel"} :
          Same(baseline.is[l], Of("operations", l), current.is[l], GearSummary, AlikePlaced)
    BY <1>1, ListsTold
  <2> QED BY <1>1, <2>1, ListsTold, BuildingsAreTold, CompletedTold DEF DeltaTellsCurrent
<1>2. ComparedInv => DeltaTellsCurrent
  BY <1>1 DEF DeltaTellsCurrent
<1> QED BY <1>2, ComparedInit, ComparedStep, PTL DEF Spec

-----------------------------------------------------------------------------
(* Each thing is told once                                                 *)

(* A thing or a construction with a new id is never told as gone and come,   *)
(* nor as two (_diff_restart_safe_map_thing_list, _diff_construction).       *)
THEOREM ThingsToldOnce == Spec => []EachThingIsToldOnce
<1>1. ASSUME ComparedInv, Comparable(baseline, current)
      PROVE  EachThingIsToldOnce
  <2> DEFINE o == baseline.is
             n == current.is
             all == AllSections(o, n)
             built == Of("construction", "buildings")
             b == ConstructionDelta(o.buildings, n.buildings)
  <2>1. o \in Snapshots /\ n \in Snapshots
    BY <1>1 DEF ComparedInv, Comparable
  <2>2. /\ IsFiniteSet(DOMAIN o.buildings) /\ DOMAIN o.buildings \subseteq Nat
        /\ IsFiniteSet(DOMAIN n.buildings)
        /\ \A c \in Categories :
             /\ IsFiniteSet(DOMAIN o.things[c]) /\ DOMAIN o.things[c] \subseteq Nat
             /\ IsFiniteSet(DOMAIN n.things[c]) /\ DOMAIN n.things[c] \subseteq Nat
    BY <2>1, SnapshotFinite DEF Lists
  <2>3. ASSUME NEW c \in Categories
        PROVE  LET things == Of("mapThings", c) IN
                 /\ {ThingKey(n.things[c][i]) : i \in DOMAIN things.added}
                      \cap {ThingKey(o.things[c][i]) : i \in things.removed} = {}
                 /\ Cardinality(DOMAIN things.added) - Cardinality(things.removed)
                      = Cardinality(DOMAIN n.things[c]) - Cardinality(DOMAIN o.things[c])
    <3> DEFINE things == Of("mapThings", c)
               d == ThingsDelta(o.things[c], n.things[c])
               was == o.things[c]
               now == n.things[c]
    <3>1. all["mapThings"][c] = d
      BY DEF AllSections
    <3>2. "mapThings" \in DOMAIN all /\ c \in DOMAIN all["mapThings"]
      BY SectionLists
    <3>3. DOMAIN things.added = DOMAIN d.added /\ things.removed = d.removed
      BY <3>1, <3>2, OfCounts
    <3>4. /\ IsFiniteSet(DOMAIN was) /\ DOMAIN was \subseteq Nat
          /\ IsFiniteSet(DOMAIN now) /\ DOMAIN now \subseteq Nat
      BY <2>2
    <3>5. /\ {ThingKey(now[i]) : i \in DOMAIN d.added} \cap {ThingKey(was[i]) : i \in d.removed} = {}
          /\ Cardinality(DOMAIN d.added) - Cardinality(d.removed)
               = Cardinality(DOMAIN now) - Cardinality(DOMAIN was)
      <4> HIDE DEF was, now
      <4>1. d = ThingsDelta(was, now)
        BY DEF was, now
      <4> HIDE DEF d
      <4> QED BY <3>4, <4>1, ThingsOnce
    <3> HIDE DEF d, things
    <3>6. /\ {ThingKey(now[i]) : i \in DOMAIN things.added}
               \cap {ThingKey(was[i]) : i \in things.removed} = {}
          /\ Cardinality(DOMAIN things.added) - Cardinality(things.removed)
               = Cardinality(DOMAIN now) - Cardinality(DOMAIN was)
      BY <3>3, <3>5
    <3> QED BY <3>6 DEF things
  <2>4. all["construction"]["buildings"] = b
    BY DEF AllSections
  <2>5. built.removed = b.removed /\ built.transitions = b.transitions
    <3>1. "construction" \in DOMAIN all /\ "buildings" \in DOMAIN all["construction"]
      BY SectionLists
    <3> QED BY <2>4, <3>1, OfCounts
  <2>6. LET became == {t.from : t \in b.transitions}
        IN /\ b.removed \cup became = DOMAIN o.buildings \ DOMAIN n.buildings
           /\ b.removed \cap became = {}
           /\ Cardinality({t.to : t \in b.transitions}) = Cardinality(b.transitions)
           /\ Cardinality(became) = Cardinality(b.transitions)
    BY <2>2, ConstructionOnce
  <2> HIDE DEF b, built
  <2>7. LET became == {t.from : t \in built.transitions}
        IN /\ built.removed \cup became = DOMAIN o.buildings \ DOMAIN n.buildings
           /\ built.removed \cap became = {}
           /\ Cardinality({t.to : t \in built.transitions}) = Cardinality(built.transitions)
           /\ Cardinality(became) = Cardinality(built.transitions)
    BY <2>5, <2>6
  <2> QED BY <2>3, <2>7 DEF EachThingIsToldOnce, built
<1>2. ComparedInv => EachThingIsToldOnce
  BY <1>1 DEF EachThingIsToldOnce
<1> QED BY <1>2, ComparedInit, ComparedStep, PTL DEF Spec

-----------------------------------------------------------------------------
(* The lists of a delta are finite                                         *)

LEMMA FiniteList ==
  ASSUME NEW old, NEW new, NEW reported, NEW summary, IsFiniteSet(DOMAIN old),
         IsFiniteSet(DOMAIN new), DOMAIN reported \subseteq DOMAIN old, NEW d, NEW e,
         e = DeltaOf(old, new, reported, summary),
         d.added = e.added \/ d.added = <<>>, d.removed = e.removed \/ d.removed = {},
         d.changed = e.changed \/ d.changed = <<>>, d.transitions = {}
  PROVE  FiniteDelta(d)
<1>1. DOMAIN <<>> = {}
  OBVIOUS
<1>2. FiniteDelta(e)
  BY DeltaOfFinite
<1> QED BY <1>1, <1>2, FS_EmptySet DEF FiniteDelta

LEMMA KeysFinite ==
  ASSUME NEW nets, IsFiniteSet(nets)
  PROVE  IsFiniteSet(DOMAIN ByKey(nets))
<1> DEFINE f == [x \in nets |-> NetworkKey(x)]
<1>1. \A k \in DOMAIN ByKey(nets) : \E x \in nets : f[x] = k
  BY DEF ByKey
<1>2. \A x \in nets : f[x] \in DOMAIN ByKey(nets)
  BY DEF ByKey
<1>3. f \in Surjection(nets, DOMAIN ByKey(nets))
  BY <1>1, <1>2 DEF Surjection
<1> HIDE DEF f
<1> QED BY <1>3, FS_Surjection

LEMMA ThingsFinite ==
  ASSUME NEW old, NEW new, IsFiniteSet(DOMAIN old), IsFiniteSet(DOMAIN new)
  PROVE  FiniteDelta(ThingsDelta(old, new))
<1> DEFINE d == ThingsDelta(old, new)
           both == DOMAIN old \cap DOMAIN new
           pairs == {<<i, i>> : i \in both}
                      \cup Paired(old, new, DOMAIN old \ both, DOMAIN new \ both)
<1>1. \A p \in pairs : p[2] \in DOMAIN new
  BY DEF Paired
<1>2. /\ DOMAIN d.added \subseteq DOMAIN new /\ d.removed \subseteq DOMAIN old
      /\ d.transitions = {}
  BY DEF ThingsDelta
<1>3. DOMAIN d.changed \subseteq DOMAIN new
  <2>1. DOMAIN d.changed = {p[2] : p \in {q \in pairs : ThingFields(old[q[1]], new[q[2]]) # {}}}
    BY DEF ThingsDelta
  <2> HIDE DEF pairs, d
  <2> QED BY <1>1, <2>1
<1> HIDE DEF d
<1>4. FiniteDelta(d)
  BY <1>2, <1>3, FS_Subset, FS_EmptySet DEF FiniteDelta
<1> QED BY <1>4 DEF d

LEMMA ConstructionFinite ==
  ASSUME NEW old, NEW new, IsFiniteSet(DOMAIN old), IsFiniteSet(DOMAIN new),
         DOMAIN old \subseteq Nat
  PROVE  FiniteDelta(ConstructionDelta(old, new))
<1> DEFINE d == ConstructionDelta(old, new)
           pairs == Advances(old, new)
           reported == [i \in DOMAIN old \cap DOMAIN new |-> ConstructionFields(old[i], new[i])]
           g == [p \in pairs |->
                  [from |-> p[1], to |-> p[2], what |-> Pick(new[p[2]], BuildingSummary)]]
<1>1. AdvancedBy(d, old, new, pairs)
  BY ConstructionIs
<1>2. IsFiniteSet(pairs)
  <2>1. RemovedIds(old, new) \in SUBSET DOMAIN old
    BY DEF RemovedIds
  <2>2. IsFiniteSet(RemovedIds(old, new))
    BY <2>1, FS_Subset
  <2>3. Matching(pairs, RemovedIds(old, new), AddedIds(old, new))
    BY AdvancesMatch
  <2> HIDE DEF pairs
  <2> QED BY <2>2, <2>3, MatchingCounts
<1> HIDE DEF d, pairs
<1>3. /\ DOMAIN d.added \subseteq DOMAIN new /\ d.removed \subseteq DOMAIN old
      /\ d.transitions = Transitions(new, pairs)
  BY <1>1 DEF AdvancedBy, AddedIds, RemovedIds
<1>4. DOMAIN d.changed \subseteq DOMAIN old
  <2>1. DOMAIN d.changed = {i \in DOMAIN reported : reported[i] # {}}
    BY <1>1 DEF AdvancedBy
  <2> QED BY <2>1
<1>5. IsFiniteSet(Transitions(new, pairs))
  <2>1. \A p \in pairs : g[p] \in Transitions(new, pairs)
    BY DEF Transitions
  <2>2. \A t \in Transitions(new, pairs) : \E p \in pairs : g[p] = t
    BY DEF Transitions
  <2>3. g \in Surjection(pairs, Transitions(new, pairs))
    BY <2>1, <2>2 DEF Surjection
  <2> HIDE DEF g
  <2> QED BY <1>2, <2>3, FS_Surjection
<1>6. FiniteDelta(d)
  BY <1>3, <1>4, <1>5, FS_Subset DEF FiniteDelta
<1> QED BY <1>6 DEF d

LEMMA NoticesFinite ==
  ASSUME NEW old, NEW new, IsFiniteSet(DOMAIN old), IsFiniteSet(DOMAIN new)
  PROVE  FiniteDelta(NoticesDelta(old, new)) /\ FiniteDelta(EventsDelta(old, new))
<1> DEFINE reported == [i \in DOMAIN old \cap DOMAIN new |-> SelfFields(old[i], new[i])]
           d == DeltaOf(old, new, reported, {"self"})
<1>1. /\ NoticesDelta(old, new) = [d EXCEPT !.changed = <<>>]
      /\ EventsDelta(old, new) = [NoticesDelta(old, new) EXCEPT !.removed = {}]
  BY DEF NoticesDelta, EventsDelta, ListDelta
<1>2. d.transitions = {} /\ DOMAIN d = {"added", "removed", "changed", "transitions"}
  BY DEF DeltaOf
<1>3. DOMAIN reported \subseteq DOMAIN old
  OBVIOUS
<1> HIDE DEF d, reported
<1>4. /\ NoticesDelta(old, new).added = d.added /\ NoticesDelta(old, new).removed = d.removed
      /\ NoticesDelta(old, new).changed = <<>> /\ NoticesDelta(old, new).transitions = {}
      /\ EventsDelta(old, new).added = d.added /\ EventsDelta(old, new).removed = {}
      /\ EventsDelta(old, new).changed = <<>> /\ EventsDelta(old, new).transitions = {}
  BY <1>1, <1>2
<1>5. d = DeltaOf(old, new, reported, {"self"})
  BY DEF d
<1> QED BY <1>3, <1>4, <1>5, FiniteList

LEMMA StayingFinite ==
  ASSUME NEW old, NEW new, NEW reported, NEW summary, IsFiniteSet(DOMAIN old),
         IsFiniteSet(DOMAIN new), DOMAIN reported \subseteq DOMAIN old
  PROVE  FiniteDelta(Staying(DeltaOf(old, new, reported, summary)))
<1> DEFINE e == DeltaOf(old, new, reported, summary)
           d == Staying(e)
<1>1. e.transitions = {} /\ DOMAIN e = {"added", "removed", "changed", "transitions"}
  BY DEF DeltaOf
<1>2. e = DeltaOf(old, new, reported, summary)
  OBVIOUS
<1> HIDE DEF e
<1>3. d.added = <<>> /\ d.removed = {} /\ d.changed = e.changed /\ d.transitions = {}
  BY <1>1 DEF Staying
<1> HIDE DEF d
<1>4. FiniteDelta(d)
  BY <1>2, <1>3, FiniteList
<1> QED BY <1>4 DEF d, e

LEMMA AllFinite ==
  ASSUME NEW o \in Snapshots, NEW n \in Snapshots
  PROVE  \A s \in DOMAIN AllSections(o, n) :
           \A l \in DOMAIN AllSections(o, n)[s] : FiniteDelta(AllSections(o, n)[s][l])
<1> DEFINE all == AllSections(o, n)
<1>1. /\ \A l \in Lists : IsFiniteSet(DOMAIN o[l]) /\ IsFiniteSet(DOMAIN n[l])
      /\ IsFiniteSet(o.networks) /\ IsFiniteSet(n.networks)
      /\ DOMAIN o.buildings \subseteq Nat
      /\ \A c \in Categories : IsFiniteSet(DOMAIN o.things[c]) /\ IsFiniteSet(DOMAIN n.things[c])
  BY SnapshotFinite
<1>2. \A l \in DOMAIN all["game"] : FiniteDelta(all["game"][l])
  <2>1. FiniteDelta(all["game"]["game"])
    <3> DEFINE reported == [i \in DOMAIN o.game \cap DOMAIN n.game |->
                             SelfFields(o.game[i], n.game[i])]
    <3>1. IsFiniteSet(DOMAIN o.game) /\ IsFiniteSet(DOMAIN n.game)
      BY <1>1 DEF Lists, Objects
    <3>2. all["game"]["game"] = DeltaOf(o.game, n.game, reported, {})
      BY DEF AllSections, ListDelta, ObjectDelta
    <3>3. DOMAIN reported \subseteq DOMAIN o.game
      OBVIOUS
    <3> HIDE DEF reported
    <3> QED BY <3>1, <3>2, <3>3, DeltaOfFinite
  <2> QED BY <2>1, SectionLists
<1>3. \A l \in DOMAIN all["colony"] : FiniteDelta(all["colony"][l])
  <2>1. FiniteDelta(all["colony"]["colony"])
    <3> DEFINE reported == [i \in DOMAIN o.colony \cap DOMAIN n.colony |->
                             SelfFields(o.colony[i], n.colony[i])]
    <3>1. IsFiniteSet(DOMAIN o.colony) /\ IsFiniteSet(DOMAIN n.colony)
      BY <1>1 DEF Lists, Objects
    <3>2. all["colony"]["colony"] = DeltaOf(o.colony, n.colony, reported, {})
      BY DEF AllSections, ListDelta, ObjectDelta
    <3>3. DOMAIN reported \subseteq DOMAIN o.colony
      OBVIOUS
    <3> HIDE DEF reported
    <3> QED BY <3>1, <3>2, <3>3, DeltaOfFinite
  <2> QED BY <2>1, SectionLists
<1>4. \A l \in DOMAIN all["resources"] : FiniteDelta(all["resources"][l])
  <2>1. FiniteDelta(all["resources"]["resources"])
    <3> DEFINE reported == [i \in DOMAIN o.resources \cap DOMAIN n.resources |->
                             SelfFields(o.resources[i], n.resources[i])]
    <3>1. IsFiniteSet(DOMAIN o.resources) /\ IsFiniteSet(DOMAIN n.resources)
      BY <1>1 DEF Lists, Objects
    <3>2. all["resources"]["resources"] = DeltaOf(o.resources, n.resources, reported, {})
      BY DEF AllSections, ListDelta, ObjectDelta
    <3>3. DOMAIN reported \subseteq DOMAIN o.resources
      OBVIOUS
    <3> HIDE DEF reported
    <3> QED BY <3>1, <3>2, <3>3, DeltaOfFinite
  <2> QED BY <2>1, SectionLists
<1>5. \A l \in DOMAIN all["colonists"] : FiniteDelta(all["colonists"][l])
  <2>1. FiniteDelta(all["colonists"]["pawns"])
    <3> DEFINE calm == Noiseless(o.pawns, n.pawns)
               reported == [i \in DOMAIN o.pawns \cap DOMAIN calm |->
                             ColonistFields(o.pawns[i], calm[i])]
    <3>1. IsFiniteSet(DOMAIN o.pawns) /\ IsFiniteSet(DOMAIN n.pawns)
      BY <1>1 DEF Lists, Objects
    <3>2. all["colonists"]["pawns"] = DeltaOf(o.pawns, calm, reported, ColonistSummary)
      BY DEF AllSections, ListDelta
    <3>3. DOMAIN calm = DOMAIN n.pawns /\ DOMAIN reported \subseteq DOMAIN o.pawns
      BY DEF Noiseless
    <3> HIDE DEF calm, reported
    <3> QED BY <3>1, <3>2, <3>3, DeltaOfFinite
  <2> QED BY <2>1, SectionLists
<1>6. \A l \in DOMAIN all["research"] : FiniteDelta(all["research"][l])
  <2>1. FiniteDelta(all["research"]["research"])
    <3> DEFINE reported == [i \in DOMAIN o.research \cap DOMAIN n.research |->
                             ResearchFields(o.research[i], n.research[i])]
    <3>1. IsFiniteSet(DOMAIN o.research) /\ IsFiniteSet(DOMAIN n.research)
      BY <1>1 DEF Lists, Objects
    <3>2. all["research"]["research"] = DeltaOf(o.research, n.research, reported, {})
      BY DEF AllSections, ListDelta, ObjectDelta
    <3>3. DOMAIN reported \subseteq DOMAIN o.research
      OBVIOUS
    <3> HIDE DEF reported
    <3> QED BY <3>1, <3>2, <3>3, DeltaOfFinite
  <2>2. FiniteDelta(all["research"]["completed"])
    <3>1. IsFiniteSet(DOMAIN o.completed) /\ IsFiniteSet(DOMAIN n.completed)
      BY <1>1 DEF Lists, Objects
    <3>2. all["research"]["completed"] = EventsDelta(o.completed, n.completed)
      BY DEF AllSections
    <3> QED BY <3>1, <3>2, NoticesFinite
  <2> QED BY <2>1, <2>2, SectionLists
<1>7. \A l \in DOMAIN all["threats"] : FiniteDelta(all["threats"][l])
  <2>1. FiniteDelta(all["threats"]["threats"])
    <3> DEFINE reported == [i \in DOMAIN o.threats \cap DOMAIN n.threats |->
                             ThreatFields(o.threats[i], n.threats[i])]
    <3>1. IsFiniteSet(DOMAIN o.threats) /\ IsFiniteSet(DOMAIN n.threats)
      BY <1>1 DEF Lists, Objects
    <3>2. all["threats"]["threats"] = DeltaOf(o.threats, n.threats, reported, PlacedSummary)
      BY DEF AllSections, ListDelta
    <3>3. DOMAIN reported \subseteq DOMAIN o.threats
      OBVIOUS
    <3> HIDE DEF reported
    <3> QED BY <3>1, <3>2, <3>3, DeltaOfFinite
  <2> QED BY <2>1, SectionLists
<1>8. \A l \in DOMAIN all["awareness"] : FiniteDelta(all["awareness"][l])
  <2>1. FiniteDelta(all["awareness"]["alerts"])
    <3>1. IsFiniteSet(DOMAIN o.alerts) /\ IsFiniteSet(DOMAIN n.alerts)
      BY <1>1 DEF Lists, Objects
    <3>2. all["awareness"]["alerts"] = NoticesDelta(o.alerts, n.alerts)
      BY DEF AllSections
    <3> QED BY <3>1, <3>2, NoticesFinite
  <2>2. FiniteDelta(all["awareness"]["letters"])
    <3>1. IsFiniteSet(DOMAIN o.letters) /\ IsFiniteSet(DOMAIN n.letters)
      BY <1>1 DEF Lists, Objects
    <3>2. all["awareness"]["letters"] = NoticesDelta(o.letters, n.letters)
      BY DEF AllSections
    <3> QED BY <3>1, <3>2, NoticesFinite
  <2>3. FiniteDelta(all["awareness"]["newEvents"])
    <3>1. IsFiniteSet(DOMAIN o.events) /\ IsFiniteSet(DOMAIN n.events)
      BY <1>1 DEF Lists, Objects
    <3>2. all["awareness"]["newEvents"] = EventsDelta(o.events, n.events)
      BY DEF AllSections
    <3> QED BY <3>1, <3>2, NoticesFinite
  <2> QED BY <2>1, <2>2, <2>3, SectionLists
<1>9. \A l \in DOMAIN all["mapThings"] : FiniteDelta(all["mapThings"][l])
  <2>1. ASSUME NEW c \in Categories
        PROVE  FiniteDelta(all["mapThings"][c])
    <3>1. all["mapThings"][c] = ThingsDelta(o.things[c], n.things[c])
      BY DEF AllSections
    <3> QED BY <1>1, <3>1, ThingsFinite
  <2> QED BY <2>1, SectionLists
<1>10. \A l \in DOMAIN all["map"] : FiniteDelta(all["map"][l])
  <2>1. FiniteDelta(all["map"]["map"])
    <3> DEFINE reported == [i \in DOMAIN o.map \cap DOMAIN n.map |-> MapFields(o.map[i], n.map[i])]
    <3>1. IsFiniteSet(DOMAIN o.map) /\ IsFiniteSet(DOMAIN n.map)
      BY <1>1 DEF Lists, Objects
    <3>2. all["map"]["map"] = DeltaOf(o.map, n.map, reported, {})
      BY DEF AllSections, ListDelta, ObjectDelta
    <3>3. DOMAIN reported \subseteq DOMAIN o.map
      OBVIOUS
    <3> HIDE DEF reported
    <3> QED BY <3>1, <3>2, <3>3, DeltaOfFinite
  <2>2. FiniteDelta(all["map"]["pointsOfInterest"])
    <3> DEFINE reported == [i \in DOMAIN o.points \cap DOMAIN n.points |->
                             PlacedFields(o.points[i], n.points[i])]
    <3>1. IsFiniteSet(DOMAIN o.points) /\ IsFiniteSet(DOMAIN n.points)
      BY <1>1 DEF Lists, Objects
    <3>2. all["map"]["pointsOfInterest"] = DeltaOf(o.points, n.points, reported, PlacedSummary)
      BY DEF AllSections, ListDelta
    <3>3. DOMAIN reported \subseteq DOMAIN o.points
      OBVIOUS
    <3> HIDE DEF reported
    <3> QED BY <3>1, <3>2, <3>3, DeltaOfFinite
  <2>3. FiniteDelta(all["map"]["zones"])
    <3> DEFINE reported == [i \in DOMAIN o.zones \cap DOMAIN n.zones |->
                             ZoneFields(o.zones[i], n.zones[i])]
    <3>1. IsFiniteSet(DOMAIN o.zones) /\ IsFiniteSet(DOMAIN n.zones)
      BY <1>1 DEF Lists, Objects
    <3>2. all["map"]["zones"] = DeltaOf(o.zones, n.zones, reported, ZoneSummary)
      BY DEF AllSections, ListDelta
    <3>3. DOMAIN reported \subseteq DOMAIN o.zones
      OBVIOUS
    <3> HIDE DEF reported
    <3> QED BY <3>1, <3>2, <3>3, DeltaOfFinite
  <2> QED BY <2>1, <2>2, <2>3, SectionLists
<1>11. \A l \in DOMAIN all["construction"] : FiniteDelta(all["construction"][l])
  <2>1. FiniteDelta(all["construction"]["buildings"])
    <3>1. IsFiniteSet(DOMAIN o.buildings) /\ IsFiniteSet(DOMAIN n.buildings)
      BY <1>1 DEF Lists, Objects
    <3>2. all["construction"]["buildings"] = ConstructionDelta(o.buildings, n.buildings)
      BY DEF AllSections
    <3> QED BY <1>1, <3>1, <3>2, ConstructionFinite
  <2> QED BY <2>1, SectionLists
<1>12. \A l \in DOMAIN all["plants"] : FiniteDelta(all["plants"][l])
  <2>1. FiniteDelta(all["plants"]["becameHarvestable"])
    <3> DEFINE reported == [i \in DOMAIN o.plants \cap DOMAIN n.plants |->
                             HarvestFields(o.plants[i], n.plants[i])]
    <3>1. IsFiniteSet(DOMAIN o.plants) /\ IsFiniteSet(DOMAIN n.plants)
      BY <1>1 DEF Lists, Objects
    <3>2. all["plants"]["becameHarvestable"] = Staying(DeltaOf(o.plants, n.plants, reported, {}))
      BY DEF AllSections, ListDelta
    <3>3. DOMAIN reported \subseteq DOMAIN o.plants
      OBVIOUS
    <3> HIDE DEF reported
    <3> QED BY <3>1, <3>2, <3>3, StayingFinite
  <2>2. FiniteDelta(all["plants"]["plants"])
    <3> DEFINE reported == [i \in DOMAIN o.plants \cap DOMAIN n.plants |->
                             PlantFields(o.plants[i], n.plants[i])]
    <3>1. IsFiniteSet(DOMAIN o.plants) /\ IsFiniteSet(DOMAIN n.plants)
      BY <1>1 DEF Lists, Objects
    <3>2. all["plants"]["plants"] = DeltaOf(o.plants, n.plants, reported, {})
      BY DEF AllSections, ListDelta
    <3>3. DOMAIN reported \subseteq DOMAIN o.plants
      OBVIOUS
    <3> HIDE DEF reported
    <3> QED BY <3>1, <3>2, <3>3, DeltaOfFinite
  <2> QED BY <2>1, <2>2, SectionLists
<1>13. \A l \in DOMAIN all["operations"] : FiniteDelta(all["operations"][l])
  <2>1. FiniteDelta(all["operations"]["equipment"])
    <3> DEFINE reported == [i \in DOMAIN o.equipment \cap DOMAIN n.equipment |->
                             GearFields(o.equipment[i], n.equipment[i])]
    <3>1. IsFiniteSet(DOMAIN o.equipment) /\ IsFiniteSet(DOMAIN n.equipment)
      BY <1>1 DEF Lists, Objects
    <3>2. all["operations"]["equipment"] = DeltaOf(o.equipment, n.equipment, reported, GearSummary)
      BY DEF AllSections, ListDelta
    <3>3. DOMAIN reported \subseteq DOMAIN o.equipment
      OBVIOUS
    <3> HIDE DEF reported
    <3> QED BY <3>1, <3>2, <3>3, DeltaOfFinite
  <2>2. FiniteDelta(all["operations"]["apparel"])
    <3> DEFINE reported == [i \in DOMAIN o.apparel \cap DOMAIN n.apparel |->
                             GearFields(o.apparel[i], n.apparel[i])]
    <3>1. IsFiniteSet(DOMAIN o.apparel) /\ IsFiniteSet(DOMAIN n.apparel)
      BY <1>1 DEF Lists, Objects
    <3>2. all["operations"]["apparel"] = DeltaOf(o.apparel, n.apparel, reported, GearSummary)
      BY DEF AllSections, ListDelta
    <3>3. DOMAIN reported \subseteq DOMAIN o.apparel
      OBVIOUS
    <3> HIDE DEF reported
    <3> QED BY <3>1, <3>2, <3>3, DeltaOfFinite
  <2>3. FiniteDelta(all["operations"]["beds"])
    <3> DEFINE reported == [i \in DOMAIN o.beds \cap DOMAIN n.beds |->
                             PlacedFields(o.beds[i], n.beds[i])]
    <3>1. IsFiniteSet(DOMAIN o.beds) /\ IsFiniteSet(DOMAIN n.beds)
      BY <1>1 DEF Lists, Objects
    <3>2. all["operations"]["beds"] = DeltaOf(o.beds, n.beds, reported, PlacedSummary)
      BY DEF AllSections, ListDelta
    <3>3. DOMAIN reported \subseteq DOMAIN o.beds
      OBVIOUS
    <3> HIDE DEF reported
    <3> QED BY <3>1, <3>2, <3>3, DeltaOfFinite
  <2>4. FiniteDelta(all["operations"]["worktables"])
    <3> DEFINE reported == [i \in DOMAIN o.worktables \cap DOMAIN n.worktables |->
                             SelfFields(o.worktables[i], n.worktables[i])]
    <3>1. IsFiniteSet(DOMAIN o.worktables) /\ IsFiniteSet(DOMAIN n.worktables)
      BY <1>1 DEF Lists, Objects
    <3>2. all["operations"]["worktables"] = DeltaOf(o.worktables, n.worktables, reported, {"self"})
      BY DEF AllSections, ListDelta
    <3>3. DOMAIN reported \subseteq DOMAIN o.worktables
      OBVIOUS
    <3> HIDE DEF reported
    <3> QED BY <3>1, <3>2, <3>3, DeltaOfFinite
  <2>5. FiniteDelta(all["operations"]["billChanges"])
    <3> DEFINE reported == [i \in DOMAIN o.worktables \cap DOMAIN n.worktables |->
                             BillsFields(o.worktables[i], n.worktables[i])]
    <3>1. IsFiniteSet(DOMAIN o.worktables) /\ IsFiniteSet(DOMAIN n.worktables)
      BY <1>1 DEF Lists, Objects
    <3>2. all["operations"]["billChanges"] = Staying(DeltaOf(o.worktables, n.worktables, reported, {}))
      BY DEF AllSections, ListDelta
    <3>3. DOMAIN reported \subseteq DOMAIN o.worktables
      OBVIOUS
    <3> HIDE DEF reported
    <3> QED BY <3>1, <3>2, <3>3, StayingFinite
  <2>6. FiniteDelta(all["operations"]["power"])
    <3> DEFINE old == ByKey(o.networks)
               new == ByKey(n.networks)
               reported == [i \in DOMAIN old \cap DOMAIN new |-> NetworkFields(old[i], new[i])]
    <3>1. all["operations"]["power"] = NetworksDelta(o.networks, n.networks)
      BY DEF AllSections
    <3>2. NetworksDelta(o.networks, n.networks) = DeltaOf(old, new, reported, {"power", "storage"})
      BY DEF NetworksDelta, ListDelta
    <3>3. IsFiniteSet(DOMAIN old) /\ IsFiniteSet(DOMAIN new)
      BY <1>1, KeysFinite
    <3>4. DOMAIN reported \subseteq DOMAIN old
      OBVIOUS
    <3> HIDE DEF old, new, reported
    <3> QED BY <3>1, <3>2, <3>3, <3>4, DeltaOfFinite
  <2>7. FiniteDelta(all["operations"]["unpoweredBuildings"])
    <3> DEFINE reported == [i \in DOMAIN o.unpowered \cap DOMAIN n.unpowered |->
                             PlacedFields(o.unpowered[i], n.unpowered[i])]
    <3>1. IsFiniteSet(DOMAIN o.unpowered) /\ IsFiniteSet(DOMAIN n.unpowered)
      BY <1>1 DEF Lists, Objects
    <3>2. all["operations"]["unpoweredBuildings"] = DeltaOf(o.unpowered, n.unpowered, reported, PlacedSummary)
      BY DEF AllSections, ListDelta
    <3>3. DOMAIN reported \subseteq DOMAIN o.unpowered
      OBVIOUS
    <3> HIDE DEF reported
    <3> QED BY <3>1, <3>2, <3>3, DeltaOfFinite
  <2>8. FiniteDelta(all["operations"]["fuel"])
    <3> DEFINE reported == [i \in DOMAIN o.fuel \cap DOMAIN n.fuel |->
                             FuelFields(o.fuel[i], n.fuel[i])]
    <3>1. IsFiniteSet(DOMAIN o.fuel) /\ IsFiniteSet(DOMAIN n.fuel)
      BY <1>1 DEF Lists, Objects
    <3>2. all["operations"]["fuel"] = DeltaOf(o.fuel, n.fuel, reported, FuelSummary)
      BY DEF AllSections, ListDelta
    <3>3. DOMAIN reported \subseteq DOMAIN o.fuel
      OBVIOUS
    <3> HIDE DEF reported
    <3> QED BY <3>1, <3>2, <3>3, DeltaOfFinite
  <2>9. FiniteDelta(all["operations"]["allowedAreas"])
    <3> DEFINE reported == [i \in DOMAIN o.areas \cap DOMAIN n.areas |->
                             ZoneFields(o.areas[i], n.areas[i])]
    <3>1. IsFiniteSet(DOMAIN o.areas) /\ IsFiniteSet(DOMAIN n.areas)
      BY <1>1 DEF Lists, Objects
    <3>2. all["operations"]["allowedAreas"] = DeltaOf(o.areas, n.areas, reported, ZoneSummary)
      BY DEF AllSections, ListDelta
    <3>3. DOMAIN reported \subseteq DOMAIN o.areas
      OBVIOUS
    <3> HIDE DEF reported
    <3> QED BY <3>1, <3>2, <3>3, DeltaOfFinite
  <2>10. FiniteDelta(all["operations"]["labor"])
    <3> DEFINE reported == [i \in DOMAIN o.labor \cap DOMAIN n.labor |->
                             SelfFields(o.labor[i], n.labor[i])]
    <3>1. IsFiniteSet(DOMAIN o.labor) /\ IsFiniteSet(DOMAIN n.labor)
      BY <1>1 DEF Lists, Objects
    <3>2. all["operations"]["labor"] = DeltaOf(o.labor, n.labor, reported, {})
      BY DEF AllSections, ListDelta, ObjectDelta
    <3>3. DOMAIN reported \subseteq DOMAIN o.labor
      OBVIOUS
    <3> HIDE DEF reported
    <3> QED BY <3>1, <3>2, <3>3, DeltaOfFinite
  <2> QED BY <2>1, <2>2, <2>3, <2>4, <2>5, <2>6, <2>7, <2>8, <2>9, <2>10, SectionLists
<1>14. DOMAIN all = {"game", "colony", "resources", "colonists", "research", "threats",
                   "awareness", "mapThings", "map", "construction", "plants", "operations"}
  BY SectionLists
<1> HIDE DEF all
<1>15. \A s \in DOMAIN all : \A l \in DOMAIN all[s] : FiniteDelta(all[s][l])
  BY <1>2, <1>3, <1>4, <1>5, <1>6, <1>7, <1>8, <1>9, <1>10, <1>11, <1>12, <1>13, <1>14
<1> QED BY <1>15 DEF all

-----------------------------------------------------------------------------
(* What is cut is counted                                                  *)

\* Of a finite set that is larger there is a part of each smaller size.
LEMMA PartOfSize ==
  ASSUME NEW S, IsFiniteSet(S), NEW n \in Nat, n <= Cardinality(S)
  PROVE  \E k \in SUBSET S : Cardinality(k) = n
<1>1. Cardinality(S) \in Nat /\ ExistsBijection(1..Cardinality(S), S)
  BY FS_CardinalityType
<1>2. PICK f \in Bijection(1..Cardinality(S), S) : TRUE
  BY <1>1 DEF ExistsBijection
<1>3. /\ \A i \in 1..Cardinality(S) : f[i] \in S
      /\ \A i, j \in 1..Cardinality(S) : f[i] = f[j] => i = j
  BY <1>2 DEF Bijection, Injection, Surjection, IsInjective
<1> DEFINE g == [i \in 1..n |-> f[i]]
           k == {f[i] : i \in 1..n}
<1>4. 1..n \subseteq 1..Cardinality(S)
  BY <1>1
<1>5. k \subseteq S
  BY <1>3, <1>4
<1>6. \A i \in 1..n : g[i] \in k
  OBVIOUS
<1>7. \A x \in k : \E i \in 1..n : g[i] = x
  OBVIOUS
<1>8. \A i, j \in 1..n : g[i] = g[j] => i = j
  BY <1>3, <1>4
<1> g \in [1..n -> k]
  BY <1>6
<1>9. g \in Surjection(1..n, k) /\ g \in Injection(1..n, k)
  <2> HIDE DEF k
  <2> QED BY <1>7, <1>8 DEF Surjection, Injection, IsInjective
<1>10. IsFiniteSet(1..n) /\ Cardinality(1..n) = n
  BY FS_Interval
<1> HIDE DEF g, k
<1>11. Cardinality(k) = n
  BY <1>9, <1>10, FS_Surjection
<1> QED BY <1>5, <1>11

LEMMA FirstIs ==
  ASSUME NEW ids, IsFiniteSet(ids), NEW n \in Nat
  PROVE  First(n, ids) \subseteq ids /\ IsFiniteSet(First(n, ids))
<1>1. Cardinality(ids) \in Nat
  BY FS_CardinalityType
<1>2. First(n, ids) \in SUBSET ids
  <2>1. CASE Cardinality(ids) <= n
    BY <2>1 DEF First
  <2>2. CASE ~(Cardinality(ids) <= n)
    <3>1. \E k \in SUBSET ids : Cardinality(k) = n
      BY <1>1, <2>2, PartOfSize
    <3>2. First(n, ids) = CHOOSE k \in SUBSET ids : Cardinality(k) = n
      BY <2>2 DEF First
    <3> QED BY <3>1, <3>2
  <2> QED BY <2>1, <2>2
<1> QED BY <1>2, FS_Subset

\* A list that shows a part of what it has, and counts all of it: all lists but
\* the newly completed research.
CutOf(l, cut, ids) == cut.shown \subseteq ids /\ (l # "completed" => cut.count = Cardinality(ids))

CutsOf(lists, section) ==
  \A l \in DOMAIN lists : l \in DOMAIN section /\
    \A k \in Kinds : CutOf(l, lists[l][k], TrueIds(section[l], k))

FiniteSection(section) ==
  \A l \in DOMAIN section : \A k \in Kinds : IsFiniteSet(TrueIds(section[l], k))

LEMMA BoundedCuts ==
  ASSUME NEW section, FiniteSection(section)
  PROVE  DOMAIN Bounded(section) = DOMAIN section /\ CutsOf(Bounded(section), section)
<1>1. DOMAIN Bounded(section) = DOMAIN section
  BY DEF Bounded
<1>2. ASSUME NEW l \in DOMAIN section, NEW k \in Kinds
      PROVE  CutOf(l, Bounded(section)[l][k], TrueIds(section[l], k))
  <2> DEFINE ids == TrueIds(section[l], k)
             cut == Bounded(section)[l][k]
  <2>1. /\ cut.shown = {} \/ cut.shown = First(MaxDetails, ids)
        /\ l # "completed" => cut.count = Cardinality(ids)
    BY <1>2 DEF Bounded
  <2>2. IsFiniteSet(ids)
    BY <1>2 DEF FiniteSection
  <2> HIDE DEF ids, cut
  <2>3. First(MaxDetails, ids) \subseteq ids
    BY <2>2, FirstIs, DiffAssumption
  <2>4. CutOf(l, cut, ids)
    BY <2>1, <2>3 DEF CutOf
  <2> QED BY <2>4 DEF cut, ids
<1> QED BY <1>1, <1>2 DEF CutsOf

LEMMA CompactedCuts ==
  ASSUME NEW section, NEW lists, FiniteSection(section), CutsOf(lists, section)
  PROVE  LET again == Compacted(lists)
         IN /\ DOMAIN again.lists = DOMAIN lists \ {"alerts", "letters"}
            /\ CutsOf(again.lists, section)
<1> DEFINE again == Compacted(lists)
           shorter == [l \in DOMAIN lists \ {"alerts", "letters"} |-> [k \in Kinds |->
                         [shown |-> First(CompactDetails, lists[l][k].shown),
                          count |-> lists[l][k].count]]]
<1>1. again.lists = shorter
  BY DEF Compacted, Listed
<1>2. ASSUME NEW l \in DOMAIN shorter, NEW k \in Kinds
      PROVE  l \in DOMAIN section /\ CutOf(l, shorter[l][k], TrueIds(section[l], k))
  <2> DEFINE ids == TrueIds(section[l], k)
             cut == lists[l][k]
  <2>1. /\ shorter[l][k].shown = First(CompactDetails, cut.shown)
        /\ shorter[l][k].count = cut.count
    BY <1>2
  <2>2. l \in DOMAIN section /\ CutOf(l, cut, ids)
    BY <1>2 DEF CutsOf
  <2>3. IsFiniteSet(ids)
    BY <1>2, <2>2 DEF FiniteSection
  <2> HIDE DEF ids, cut, shorter
  <2>4. IsFiniteSet(cut.shown)
    BY <2>2, <2>3, FS_Subset DEF CutOf
  <2>5. CompactDetails \in Nat
    BY DiffAssumption
  <2>6. First(CompactDetails, cut.shown) \subseteq cut.shown
    BY <2>4, <2>5, FirstIs
  <2>7. CutOf(l, shorter[l][k], ids)
    BY <2>1, <2>2, <2>6 DEF CutOf
  <2> QED BY <2>2, <2>7 DEF ids
<1>3. DOMAIN shorter = DOMAIN lists \ {"alerts", "letters"}
  OBVIOUS
<1> HIDE DEF shorter, again
<1>4. DOMAIN again.lists = DOMAIN lists \ {"alerts", "letters"} /\ CutsOf(again.lists, section)
  BY <1>1, <1>2, <1>3 DEF CutsOf
<1> QED BY <1>4 DEF again

\* One section of the output, of a section of the delta.
SectionCut(out, section) ==
  out.form # "summary" =>
    /\ CutsOf(out.lists, section)
    /\ DOMAIN section \ DOMAIN out.lists
         \subseteq IF out.form = "compact" THEN {"alerts", "letters"} ELSE {}

LEMMA SectionCuts ==
  ASSUME NEW section, FiniteSection(section)
  PROVE  LET full == Listed("detail", Bounded(section))
         IN /\ SectionCut(full, section)
            /\ SectionCut(Summary(full), section)
            /\ SectionCut(Compacted(full.lists), section)
<1> DEFINE b == Bounded(section)
           full == Listed("detail", b)
<1>1. DOMAIN b = DOMAIN section /\ CutsOf(b, section)
  BY BoundedCuts
<1>2. /\ full.form = "detail" /\ full.lists = b
      /\ Compacted(b).form = "compact" /\ \A x : Summary(x).form = "summary"
  BY DEF Listed, Compacted, Summary
<1> HIDE DEF b
<1>3. /\ DOMAIN Compacted(b).lists = DOMAIN b \ {"alerts", "letters"}
      /\ CutsOf(Compacted(b).lists, section)
  BY <1>1, CompactedCuts
<1> HIDE DEF full
<1>4. SectionCut(full, section)
  BY <1>1, <1>2 DEF SectionCut
<1>5. SectionCut(Summary(full), section)
  BY <1>2 DEF SectionCut
<1>6. SectionCut(Compacted(full.lists), section)
  BY <1>1, <1>2, <1>3 DEF SectionCut
<1> QED BY <1>4, <1>5, <1>6 DEF full, b

LEMMA OutputCuts ==
  ASSUME NEW sections, \A s \in DOMAIN sections : FiniteSection(sections[s])
  PROVE  /\ DOMAIN Output(sections) = DOMAIN sections
         /\ \A s \in DOMAIN sections : SectionCut(Output(sections)[s], sections[s])
<1> DEFINE full == [s \in DOMAIN sections |-> Listed("detail", Bounded(sections[s]))]
           summed == [s \in DOMAIN full |-> IF s \in Critical THEN full[s] ELSE Summary(full[s])]
           compact == [s \in DOMAIN full |-> IF s \in Critical THEN Compacted(full[s].lists)
                                                              ELSE summed[s]]
           samples == [s \in DOMAIN full |-> Summary(full[s])]
           Cut(out) == /\ DOMAIN out = DOMAIN sections
                       /\ \A s \in DOMAIN sections : SectionCut(out[s], sections[s])
<1>1. Output(sections) \in {full, summed, compact, samples}
  BY DEF Output
<1>2. ASSUME NEW s \in DOMAIN sections
      PROVE  /\ SectionCut(Listed("detail", Bounded(sections[s])), sections[s])
             /\ SectionCut(Summary(Listed("detail", Bounded(sections[s]))), sections[s])
             /\ SectionCut(Compacted(Listed("detail", Bounded(sections[s])).lists), sections[s])
  BY <1>2, SectionCuts
<1>3. \A s \in DOMAIN sections : full[s] = Listed("detail", Bounded(sections[s]))
  OBVIOUS
<1>4. Cut(full)
  BY <1>2, <1>3
<1>5. Cut(samples)
  BY <1>2, <1>3
<1>6. Cut(summed)
  BY <1>2, <1>3
<1>7. Cut(compact)
  BY <1>2, <1>3
<1> HIDE DEF full, summed, compact, samples
<1> QED BY <1>1, <1>4, <1>5, <1>6, <1>7

(* However the delta is cut to its size, every section that changed is named *)
(* and what is listed in part is counted in full, but for newly completed    *)
(* research and the alerts and letters of a compacted section (_bounded_put, *)
(* _bound_final, compact_critical_section).                                  *)
THEOREM CutsCounted == Spec => []CutsAreCounted
<1>1. ASSUME ComparedInv, Comparable(baseline, current)
      PROVE  CutsAreCounted
  <2> DEFINE all == AllSections(baseline.is, current.is)
             output == Output(Delta)
  <2>1. baseline.is \in Snapshots /\ current.is \in Snapshots
    BY <1>1 DEF ComparedInv, Comparable
  <2>2. DOMAIN Delta \subseteq DOMAIN all /\ \A s \in DOMAIN Delta : Delta[s] = all[s]
    BY SectionsKeep DEF Delta
  <2>3. \A s \in DOMAIN all : \A l \in DOMAIN all[s] : FiniteDelta(all[s][l])
    BY <2>1, AllFinite
  <2> HIDE DEF all
  <2>4. \A d, k : FiniteDelta(d) /\ k \in Kinds => IsFiniteSet(TrueIds(d, k))
    BY DEF FiniteDelta, Kinds, TrueIds
  <2>5. \A s \in DOMAIN Delta : FiniteSection(Delta[s])
    BY <2>2, <2>3, <2>4 DEF FiniteSection
  <2>6. /\ DOMAIN output = DOMAIN Delta
        /\ \A s \in DOMAIN Delta : SectionCut(output[s], Delta[s])
    BY <2>5, OutputCuts
  <2> HIDE DEF output
  <2>7. ASSUME NEW s \in DOMAIN output, output[s].form # "summary"
        PROVE  /\ \A l \in DOMAIN output[s].lists, k \in Kinds :
                    LET cut == output[s].lists[l][k] IN
                      /\ cut.shown \subseteq TrueIds(Delta[s][l], k)
                      /\ l # "completed" => cut.count = Cardinality(TrueIds(Delta[s][l], k))
               /\ DOMAIN Delta[s] \ DOMAIN output[s].lists
                    \subseteq IF output[s].form = "compact" THEN {"alerts", "letters"} ELSE {}
    <3>1. SectionCut(output[s], Delta[s])
      BY <2>6, <2>7
    <3>2. CutsOf(output[s].lists, Delta[s])
      BY <2>7, <3>1 DEF SectionCut
    <3>3. \A l \in DOMAIN output[s].lists, k \in Kinds :
            CutOf(l, output[s].lists[l][k], TrueIds(Delta[s][l], k))
      BY <3>2 DEF CutsOf
    <3> QED BY <2>7, <3>1, <3>3 DEF SectionCut, CutOf
  <2> QED BY <2>6, <2>7 DEF CutsAreCounted, output
<1>2. ComparedInv => CutsAreCounted
  BY <1>1 DEF CutsAreCounted
<1> QED BY <1>2, ComparedInit, ComparedStep, PTL DEF Spec
=============================================================================
