--------------------------- MODULE MCSignalPipeline ---------------------------
(* Instances of SignalPipeline for TLC: the sets of event types and          *)
(* severities that the configurations choose from.                           *)
EXTENDS SignalPipeline

\* Both directions and NONE in one lineage, all possible in one tick.
BreakoutTypes == {"volume_spike", "day_high_breakout", "day_low_breakdown"}
\* Moves and volume, whose conjunction is the expansion event.
MoveVolumeTypes == {"rapid_move", "volume_spike"}
\* A single directional event type.
OneType == {"day_high_breakout"}

OnlyThree == {3}
=============================================================================
