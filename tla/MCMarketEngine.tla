---------------------------- MODULE MCMarketEngine ----------------------------
(* Instances of MarketEngine for TLC. *)
EXTENDS MarketEngine

AllLevels == {"COLD", "WARM", "HOT"}
OnTimeOrLate == {FALSE, TRUE}
=============================================================================
