---------------------------- MODULE MCStateStore ----------------------------
(* Instances of StateStore for TLC: one colony has snapshots of every        *)
(* version and tick, the other mod's only late ones; the other colonies and *)
(* the menu have one snapshot each.                                         *)
EXTENDS StateStore

CONSTANT Home

MCFetchable ==
  {s \in Snapshots :
     IF s.colony = Home THEN s.schema = 1 \/ s.tick = MaxTick
                        ELSE s.schema = 1 /\ s.tick = 0 /\ s.version = 1}
=============================================================================
