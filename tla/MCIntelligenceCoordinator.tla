----------------------- MODULE MCIntelligenceCoordinator -----------------------
(* Instances of IntelligenceCoordinator for TLC. *)
EXTENDS IntelligenceCoordinator

TwoPriorities == {3, 4}
=============================================================================
