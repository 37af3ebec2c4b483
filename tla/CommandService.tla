---------------------------- MODULE CommandService ----------------------------
(***************************************************************************)
(* What the game side of the bridge promises a client that issues commands: *)
(* a command that was sent takes effect on the colony at most once, its     *)
(* effect is visible in the published state before its result is reported   *)
(* (or the publication is known to have failed), and a reported result may  *)
(* later be forgotten but never changes its mind. There are no queues,      *)
(* threads or frames here; GameBridgeRefinement shows GameBridge to be one  *)
(* way of keeping the promise.                                              *)
(***************************************************************************)
EXTENDS Naturals

CONSTANT Ids

VARIABLES sent,      \* commands a client has sent
          effects,   \* how often each took effect on the colony
          visible,   \* the effects the published state shows
          stale,     \* the last publication failed
          reported   \* commands whose result a client can read

serviceVars == <<sent, effects, visible, stale, reported>>

ServiceInit ==
    /\ sent = {}
    /\ effects = [id \in Ids |-> 0]
    /\ visible = effects
    /\ stale = FALSE
    /\ reported = {}

Send(id) ==
    /\ id \notin sent
    /\ sent' = sent \cup {id}
    /\ UNCHANGED <<effects, visible, stale, reported>>

Execute(id) ==
    /\ id \in sent
    /\ effects[id] = 0
    /\ effects' = [effects EXCEPT ![id] = 1]
    /\ UNCHANGED <<sent, visible, stale, reported>>

Publish ==
    /\ visible' = effects /\ stale' = FALSE
    /\ UNCHANGED <<sent, effects, reported>>

FailToPublish ==
    /\ stale' = TRUE
    /\ UNCHANGED <<sent, effects, visible, reported>>

(* Only bounded history is kept: a report may push older ones out.          *)
Report(id) ==
    /\ effects[id] = 1
    /\ visible[id] = 1 \/ stale
    /\ \E kept \in SUBSET reported : reported' = kept \cup {id}
    /\ UNCHANGED <<sent, effects, visible, stale>>

Forget ==
    /\ reported' \in SUBSET reported
    /\ UNCHANGED <<sent, effects, visible, stale>>

ServiceNext ==
    \/ \E id \in Ids : Send(id) \/ Execute(id) \/ Report(id)
    \/ Publish \/ FailToPublish \/ Forget

ServiceSpec == ServiceInit /\ [][ServiceNext]_serviceVars
=============================================================================
