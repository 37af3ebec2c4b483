------------------------ MODULE ConstructionPairing ------------------------
(***************************************************************************)
(* A blueprint that becomes a frame and a frame that becomes a building    *)
(* are new things to the game, with new ids.  Both users of two snapshots, *)
(* progress_tracking.py and state_diff.py, pair them up again, in the same *)
(* way.  A construction is a record with its definition (without the       *)
(* prefix Blueprint_ or Frame_), its cell and its stage; two snapshots     *)
(* give it by id, a number.                                                *)
(***************************************************************************)
EXTENDS Integers, Sequences, FiniteSets, SequencesExt, FiniteSetsExt

ConstructionKey(b) == <<b.def, b.cell>>

ConstructionRank(b) ==
  CASE b.stage = "blueprint" -> 1 [] b.stage = "frame" -> 2 [] b.stage = "building" -> 3

RemovedIds(old, new) == DOMAIN old \ DOMAIN new
AddedIds(old, new) == DOMAIN new \ DOMAIN old

\* What took has given to the ids that were tried before o.
TakenBefore(took, ids, o) == UNION {took[p] : p \in {q \in ids : q < o}}

\* The one free new id that is a later stage of o, if there is just one.
Takes(old, new, o, taken) ==
  LET free == {n \in AddedIds(old, new) \ taken :
                 /\ ConstructionKey(new[n]) = ConstructionKey(old[o])
                 /\ ConstructionRank(new[n]) > ConstructionRank(old[o])}
  IN IF Cardinality(free) = 1 THEN free ELSE {}

\* Old things that became new ones: the ids that went are tried in their order.
Advances(old, new) ==
  LET gone == RemovedIds(old, new)
      took[o \in gone] == Takes(old, new, o, TakenBefore(took, gone, o))
  IN UNION {{<<o, n>> : n \in took[o]} : o \in gone}

=============================================================================
