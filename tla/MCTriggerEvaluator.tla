------------------------- MODULE MCTriggerEvaluator -------------------------
(***************************************************************************)
(* An instance of TriggerEvaluator for TLC: a quiet colony, raiders who    *)
(* come, leave and come back, a wound that gets worse, colonists who stand *)
(* idle, work that gets done, another map and the main menu.               *)
(***************************************************************************)
EXTENDS TriggerEvaluator, TLC

CONSTANTS sowing, room, builder, home, away, Ann, Bob, Infection, raider, letter,
          project, sow, build

MCTexts == {sowing, room, builder}

Words(categories, about, names, specific) ==
  [categories |-> categories, about |-> about, names |-> names, specific |-> specific]

MCMeaning ==
  sowing :> Words({"growing", "work"}, {}, <<"potato">>, TRUE)
  @@ room :> Words({"room", "construction"}, {"shelter"}, <<"wall">>, TRUE)
  @@ builder :> Words({"construction", "blocker"}, {}, <<>>, FALSE)

Wall(stage, r) == [def |-> "wall", cell |-> 1, stage |-> stage, room |-> r]

Zone(state, planted) ==
  [plant |-> "potato", state |-> state, planted |-> planted, harvestable |-> 0,
   complete |-> state = "planted"]

Healthy == [downed |-> FALSE, immediate |-> FALSE, danger |-> 0, old |-> FALSE, hediffs |-> <<>>]
Infected(severity) == [Healthy EXCEPT !.hediffs = Infection :> severity]
Downed == [Healthy EXCEPT !.downed = TRUE, !.immediate = TRUE, !.danger = 50]

Quiet ==
  [stream |-> [colony |-> home, map |-> 1],
   buildings |-> 1 :> Wall("blueprint", NoRoom),
   pending |-> [blueprints |-> 1, frames |-> 0, haulables |-> 1],
   designated |-> [tree |-> 1], blockers |-> {},
   zones |-> "z1" :> Zone("empty", 0),
   research |-> [current |-> "stonecutting", progress |-> 0, completed |-> {}],
   colonists |-> 2, beds |-> {}, sleeping |-> 0,
   threats |-> {}, pawns |-> Ann :> Healthy @@ Bob :> Infected(15),
   notices |-> [alerts |-> {}, letters |-> {}, events |-> {}],
   resources |-> [food |-> 30, wood |-> 100, steel |-> 0, components |-> 6, medicine |-> 0],
   idle |-> {}, paused |-> FALSE]

Raided == [Quiet EXCEPT !.threats = {raider}, !.notices["letters"] = {[id |-> letter, severe |-> TRUE]},
                        !.pawns[Ann] = Downed, !.pawns[Bob] = Infected(30)]
Raid == [Quiet EXCEPT !.threats = {raider}]
Besieged == [Raided EXCEPT !.pawns[Bob] = Infected(50), !.blockers = {builder},
                           !.resources["food"] = 8, !.resources["wood"] = 40]
Starving == [Quiet EXCEPT !.pawns = Ann :> Healthy, !.resources["food"] = 8]
Idle == [Quiet EXCEPT !.idle = {Ann}]
Worked == [Quiet EXCEPT !.zones = "z1" :> Zone("planted", 2), !.idle = {Ann},
             !.buildings = 2 :> Wall("building", [shelter |-> TRUE]),
             !.pending["blueprints"] = 0, !.designated["tree"] = 0,
             !.research = [current |-> NoProject, progress |-> 0, completed |-> {"stonecutting"}],
             !.paused = TRUE]
Elsewhere == [Quiet EXCEPT !.stream = [colony |-> home, map |-> 2]]
Fled == [Elsewhere EXCEPT !.stream.colony = away, !.pawns = Ann :> Healthy]
Menu == [Quiet EXCEPT !.stream = NoStream]

MCSnapshots == {Quiet, Raid, Raided, Besieged, Starving, Idle, Worked, Fled, Menu}

Task(id, text, waits) ==
  [id |-> id, key |-> id, text |-> text, status |-> "pending", mode |-> "active",
   dependsOn |-> waits, blockers |-> {}]

Plan == <<[id |-> project, text |-> room, status |-> "active", criteria |-> {}, blockers |-> {},
           tasks |-> <<Task(sow, sowing, {}), Task(build, room, {sow})>>]>>

\* The risk metadata are those that two decisions left.
MCContexts ==
  {NoContext,
   [projects |-> Plan, stall |-> sow :> [repeated |-> 3, noProgress |-> 2],
    risk |-> UpdateRiskMetadata(UpdateRiskMetadata(<<>>, <<>>, Quiet.pawns),
                                Quiet.pawns, Ann :> Healthy)]}
=============================================================================
