----------------------- MODULE MCAutonomousScheduler -----------------------
(* TLC instances of AutonomousScheduler: one urgent problem, one persistent *)
(* idleness and (in SchedulerOrder) one periodic review, so that urgent,     *)
(* recoverable and unrecoverable triggers come in every order.               *)
EXTENDS AutonomousScheduler, TLC
NoCost == {0}
Costs == {1, Unpriced}
=============================================================================
