---------------------------- MODULE MCStateDiff ----------------------------
(***************************************************************************)
(* A small colony and the ways it is seen to change.  Any two of these     *)
(* snapshots may be compared, so that every pair of edits occurs, done and *)
(* undone.                                                                 *)
(***************************************************************************)
EXTENDS StateDiff, TLC

CONSTANTS Ann, Bob, Wound, Raider, Bear, Wolf, A1, A2, L1, L2, E1, E2, Bench,
          Bill, Bed, Fence, Zone, Plant, Stove, Battery, Lamp, Quiet, Busy

Only(id, value) == [i \in {id} |-> value]
Self(x) == [self |-> x]
Placed(x) == [self |-> Quiet, more |-> Quiet, position |-> x]
Gear(x, hits) == [self |-> Quiet, more |-> Quiet, position |-> x, hp |-> hits, maxHp |-> 10]

Blueprint == [def |-> "wall", cell |-> 1, stage |-> "blueprint", self |-> Quiet,
              more |-> Quiet, hp |-> 10, maxHp |-> 10]
Frame == [Blueprint EXCEPT !.stage = "frame"]
Wall == [Blueprint EXCEPT !.stage = "building"]
Meal == [def |-> "meal", cell |-> 1, stack |-> 3, forbidden |-> FALSE]

Hediffs(n, s) == Only(Wound, [count |-> n, severity |-> s])
Colonist == [self |-> Quiet, more |-> Quiet, hediffs |-> <<>>, drafted |-> FALSE, position |-> 0,
             food |-> 80, mood |-> 60, rest |-> 80, recreation |-> 80, bleeding |-> 0, pain |-> 0]

Net == [id |-> 7,
        connected |-> [m \in {Battery, Lamp} |->
                        [self |-> Quiet, stored |-> 50, capacity |-> IF m = Battery THEN 100 ELSE 0]],
        power |-> [generated |-> 10, consumed |-> 5, net |-> 5],
        storage |-> [stored |-> 50, capacity |-> 100]]

Table == [self |-> Quiet, bills |-> <<>>]
Research(p, done, all) == Only("research", [project |-> p, progress |-> done, cost |-> all])

Base ==
  [game |-> Only("game", Self(Quiet)), colony |-> Only("colony", Self(Quiet)),
   resources |-> Only("resources", Self(Quiet)),
   pawns |-> Only(Ann, Colonist),
   research |-> Research("bows", 10, 100), completed |-> <<>>,
   threats |-> <<>>, alerts |-> <<>>, letters |-> <<>>, events |-> Only(E1, Self(Quiet)),
   things |-> [forbidden |-> 1 :> Meal @@ 2 :> Meal, haulable |-> <<>>],
   map |-> Only("map", [self |-> Quiet, position |-> 0, temperature |-> 20]),
   points |-> <<>>, zones |-> Only(Zone, [self |-> Quiet, cells |-> {1}]),
   areas |-> <<>>,
   buildings |-> (1 :> Blueprint @@ 2 :> Wall),
   plants |-> Only(Plant, [harvestable |-> FALSE, self |-> Quiet]),
   equipment |-> <<>>, apparel |-> Only(Lamp, Gear(0, 10)), beds |-> Only(Bed, Placed(0)),
   worktables |-> Only(Bench, Table), unpowered |-> <<>>, networks |-> {Net},
   fuel |-> Only(Stove, [self |-> Quiet, fuel |-> 30, capacity |-> 100]),
   labor |-> Only("labor", Self(Quiet))]

Edits == {
  \* The colonist walks: less than 15 cells, drafted or not.
  [Base EXCEPT !.pawns = Only(Ann, [Colonist EXCEPT !.position = 5])],
  [Base EXCEPT !.pawns = Only(Ann, [Colonist EXCEPT !.drafted = TRUE])],
  [Base EXCEPT !.pawns = Only(Ann, [Colonist EXCEPT !.drafted = TRUE, !.position = 5])],
  \* Needs and health cross a limit, or do not.
  [Base EXCEPT !.pawns = Only(Ann, [Colonist EXCEPT !.food = 40, !.mood = 36])],
  [Base EXCEPT !.pawns = Only(Ann, [Colonist EXCEPT !.food = 29, !.rest = 13, !.pain = 5,
                                                    !.hediffs = Hediffs(1, 20)])],
  [Base EXCEPT !.pawns = Only(Ann, [Colonist EXCEPT !.bleeding = 20, !.hediffs = Hediffs(1, 25)])],
  \* A colonist joins, wounded, with skills of his own; a skill is learnt.
  [Base EXCEPT !.pawns = Ann :> [Colonist EXCEPT !.more = Busy]
                         @@ Bob :> [Colonist EXCEPT !.more = Busy, !.hediffs = Hediffs(2, 90)]],
  \* Research goes on, is completed, is changed, has no cost.
  [Base EXCEPT !.research["research"].progress = 24],
  [Base EXCEPT !.research["research"].progress = 60],
  [Base EXCEPT !.research = Research("beer", 0, 100), !.completed = Only("bows", Self(Quiet))],
  [Base EXCEPT !.research = Research("beer", 20, 0), !.completed = Only("bows", Self(Quiet))],
  [Base EXCEPT !.research = Research("beer", 130, 0),
               !.completed = [r \in {"bows", "doors", "stone"} |-> Self(Quiet)]],
  \* A raid: the threats come near, notices come.
  [Base EXCEPT !.threats = [t \in {Raider, Bear, Wolf} |-> [self |-> Quiet, position |-> 50]],
               !.alerts = Only(A1, Self(Quiet)), !.letters = Only(L1, Self(Quiet)),
               !.events = E1 :> Self(Quiet) @@ E2 :> Self(Quiet)],
  [Base EXCEPT !.threats = Raider :> [self |-> Quiet, position |-> 42] @@ Bear :> [self |-> Busy, position |-> 5],
               !.alerts = A1 :> Self(Quiet) @@ A2 :> Self(Quiet),
               !.letters = L1 :> Self(Quiet) @@ L2 :> Self(Quiet),
               !.pawns = Only(Ann, [Colonist EXCEPT !.self = Busy]),
               !.events = Only(E2, Self(Quiet))],
  \* Things get new ids, are merged, spoil, are replaced, change their category.
  [Base EXCEPT !.things.forbidden = 3 :> Meal @@ 4 :> Meal],
  [Base EXCEPT !.things.forbidden = 3 :> [Meal EXCEPT !.stack = 6]],
  [Base EXCEPT !.things.forbidden = 1 :> Meal,
               !.things.haulable = 2 :> [Meal EXCEPT !.forbidden = TRUE] @@ 5 :> [Meal EXCEPT !.cell = 2]],
  \* Construction advances: to a frame, to a wall in a room, to either of two.
  [Base EXCEPT !.buildings = 2 :> [Wall EXCEPT !.more = Busy] @@ 3 :> Frame],
  [Base EXCEPT !.buildings = 2 :> [Wall EXCEPT !.hp = 0] @@ 4 :> [Wall EXCEPT !.more = Busy]],
  [Base EXCEPT !.buildings = 1 :> Blueprint @@ 5 :> [Blueprint EXCEPT !.maxHp = 0]],
  [Base EXCEPT !.buildings = 6 :> Frame @@ 7 :> Wall],
  \* Zones, plants, the map, the work.
  [Base EXCEPT !.zones = Only(Zone, [self |-> Quiet, cells |-> {1, 2}]), !.plants[Plant].harvestable = TRUE,
               !.map["map"].temperature = -5, !.labor["labor"] = Self(Busy)],
  [Base EXCEPT !.areas = Only(Fence, [self |-> Quiet, cells |-> {1}]), !.colony["colony"] = Self(Busy),
               !.points = Only(Bear, Placed(1)), !.unpowered = Only(Lamp, Placed(1)),
               !.zones = <<>>, !.plants = <<>>],
  \* Bills, gear, fuel and power.
  [Base EXCEPT !.worktables[Bench].bills = Only(Bill, [self |-> Quiet, more |-> Quiet]),
               !.fuel[Stove].fuel = 26, !.equipment = Only(Lamp, Gear(1, 9)), !.beds[Bed].more = Busy],
  [Base EXCEPT !.worktables[Bench].bills = Only(Bill, [self |-> Quiet, more |-> Busy]),
               !.fuel[Stove].fuel = 24, !.equipment = Only(Lamp, Gear(7, 8)), !.beds[Bed].position = 6,
               !.networks = {[Net EXCEPT !.id = 8, !.power.net = -5, !.storage.stored = 10]}],
  [Base EXCEPT !.worktables = <<>>, !.fuel[Stove].fuel = 0, !.apparel = <<>>,
               !.networks = {[Net EXCEPT !.connected = <<>>]}],
  \* Nearly everything at once.
  [Base EXCEPT !.game["game"] = Self(Busy), !.resources["resources"] = Self(Busy),
               !.threats = [t \in {Raider, Bear, Wolf} |-> [self |-> Busy, position |-> 5]],
               !.pawns = Ann :> [Colonist EXCEPT !.self = Busy, !.hediffs = Hediffs(1, 20)] @@ Bob :> Colonist,
               !.alerts = A1 :> Self(Quiet) @@ A2 :> Self(Quiet),
               !.things.forbidden = 8 :> Meal @@ 9 :> [Meal EXCEPT !.cell = 3],
               !.apparel[Lamp] = Gear(0, 8), !.buildings = 8 :> Wall, !.labor["labor"] = Self(Busy)]}

MCSnapshots == {Base} \cup Edits
=============================================================================
