---------------------------- MODULE MCEvaluation ----------------------------
(* Rows of two runs over a Friday and the following Monday. *)
EXTENDS Evaluation

CONSTANTS r1, r2, g1, a1, hk

Row(name, run, symbol, signal, ts, reason, amount) ==
    [name |-> name, run |-> run, symbol |-> symbol, signal |-> signal, ts |-> ts,
     event |-> IF name \in EventNames THEN "e1" ELSE None,
     priority |-> IF name \in SignalNames THEN "IMPORTANT" ELSE None,
     reason |-> reason, amount |-> amount]

FridayMorning == 4 * 48 + 22   \* 11:00
FridayNoon == 4 * 48 + 24      \* 12:00, the lunch break
FridayAfternoon == 4 * 48 + 29 \* 14:30
Monday == 7 * 48 + 20          \* 10:00

MCRuns == {r1, r2}
MCSignals == {g1}
MCAShares == {a1}

MCProduced ==
    {Row("alert_candidate", run, a1, g1, t, None, -1) :
        run \in MCRuns, t \in {FridayAfternoon, Monday}}
    \cup {Row("alert_candidate", r1, a1, g1, FridayMorning, None, -1),
          Row("event_generated", r1, a1, None, FridayNoon, None, -1),
          Row("signal_escalated", r1, hk, g1, Monday, None, -1),
          Row("alert_suppressed", r2, a1, g1, Monday, "cooldown", -1),
          Row("alert_suppressed", r2, a1, g1, Monday, None, -1),
          Row("alert_presented", r1, a1, g1, Monday, None, -1),
          Row("alert_badge_reset", r1, None, g1, -1, None, -1),
          Row("intelligence_fallback", r1, a1, g1, Monday, "timeout", -1),
          Row("intelligence_latency", r1, a1, g1, Monday, "model", 3)}

MCForeign ==
    {[Row("alert_candidate", None, a1, g1, Monday, None, -1) EXCEPT !.priority = "important"],
     [Row("alert_candidate", r2, a1, g1, Monday, None, -1) EXCEPT !.priority = "notice"],
     Row("alert_suppressed", r1, a1, g1, Monday, "quiet_hours", -1)}
=============================================================================
