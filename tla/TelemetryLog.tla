---------------------------- MODULE TelemetryLog ----------------------------
(***************************************************************************)
(* What the local telemetry log promises its readers: a sequence of whole  *)
(* records, in the order they were written, each at most once.  While the  *)
(* writer runs the log only grows at its end and forgets at its beginning; *)
(* records at the end are lost only between a crash and the next start.    *)
(* Records are numbered in the order they are written.                     *)
(***************************************************************************)
EXTENDS Integers, Sequences

VARIABLES
    log,  \* the records a reader finds
    up    \* a writer has the log open

log_vars == <<log, up>>

\* s continues l with newer records.
Extends(l, s) ==
    /\ Len(s) >= Len(l) /\ SubSeq(s, 1, Len(l)) = l
    /\ \A i \in 1..Len(s) - 1 : i >= Len(l) => s[i] < s[i + 1]

Suffixes(l) == {SubSeq(l, i, Len(l)) : i \in 1..Len(l) + 1}
Prefixes(l) == {SubSeq(l, 1, i) : i \in 0..Len(l)}

Init == log = <<>> /\ up = FALSE

Open == ~up /\ up' /\ log' = log

Grow == up /\ up' /\ Extends(log, log')

Forget == up /\ up' /\ log' \in Suffixes(log)

\* The writer stops or crashes; a record being written may still get through.
Stop == up /\ ~up' /\ Extends(log, log')

\* The start after a crash fails and takes records at the end with it.
Lose == ~up /\ ~up' /\ log' \in Prefixes(log)

Next == Open \/ Grow \/ Forget \/ Stop \/ Lose

Spec == Init /\ [][Next]_log_vars
=============================================================================
