------------------------- MODULE MCStandaloneRuntime -------------------------
(* An instance of StandaloneRuntime for TLC. *)
EXTENDS StandaloneRuntime

OneLevel == {"HOT"}
OnTime == {FALSE}
=============================================================================
