------------------------- MODULE GameBridgeRefinement -------------------------
(* GameBridge implements CommandService: a command is sent when its POST is *)
(* on the wire, its effect is its execution count on the colony, what is    *)
(* visible is the published document, and a result is reported while the    *)
(* ledger has it as completed.                                              *)
EXTENDS GameBridge

Service == INSTANCE CommandService
             WITH sent     <- {id \in Ids : post[id] # "none"},
                  effects  <- world,
                  visible  <- currentJson.world,
                  stale    <- PublicationFailed,
                  reported <- {id \in Ids : Completed(id)}

(* The detailed bridge keeps the abstract promise: at-most-once execution,  *)
(* and no result before its effect is in the published state.               *)
ImplementsService == Service!ServiceSpec
=============================================================================
