----------------------------- MODULE JsonlSink -----------------------------
(***************************************************************************)
(* JsonlTelemetrySink (telemetry/jsonl.py) on a file system, with the      *)
(* collectors around it and the reader of evaluation/reader.py.            *)
(*                                                                         *)
(* A file is a sequence of newline-terminated lines and what follows the   *)
(* last newline.  Records are numbered in the order they are written and   *)
(* all have the same size, so max_bytes is counted in records.  The        *)
(* process may be killed between any two file operations and in the middle *)
(* of a write; an operation may raise OSError, which the collector         *)
(* swallows.                                                               *)
(***************************************************************************)
EXTENDS Integers, Sequences, FiniteSets

CONSTANTS
    BackupCount,  \* backup_count
    MaxLines,     \* max_bytes, in records
    MaxRecords,   \* bound on records written
    MaxFaults     \* bound on crashes and raised OSErrors together

ASSUME SinkAssumption ==
    /\ BackupCount \in Nat \ {0} /\ MaxLines \in Nat \ {0}
    /\ MaxRecords \in Nat /\ MaxFaults \in Nat

VARIABLES
    pc,           \* the operation the sink is in
    at,           \* in a rotation, the file it is about to move
    handle,       \* is _handle open?
    files,        \* 0 is the current file, i is the backup ".i"
    buffer,       \* records the handle has not handed to the system yet
    salvage,      \* the bytes _truncate_trailing_partial is about to write back
    issued,       \* records write was called with (history)
    acked,        \* records whose write returned normally (history)
    wiped,        \* records a crash in the repair destroyed (history)
    interrupted,  \* rotations that never renamed the current file (history)
    faults        \* crashes and OSErrors so far (history)

history == <<issued, acked, wiped, interrupted>>
vars == <<pc, at, handle, files, buffer, salvage, history, faults>>

Indices == 0..BackupCount
NoTail == [rec |-> 0, whole |-> FALSE]
Empty == [exists |-> TRUE, lines |-> <<>>, tail |-> NoTail]
Absent == [Empty EXCEPT !.exists = FALSE]

\* A complete line that is not a record.
Malformed == 0

st_size(f) == Len(f.lines) + (IF f.tail.rec # 0 THEN 1 ELSE 0)

\* The bytes of recs appended to f.  A fragment at the end is completed when it
\* is the fragment of the first of them; any other merges with it into one line.
Append_(f, recs) ==
    LET glued == f.tail.rec \notin {0, Head(recs)}
    IN  [f EXCEPT !.lines = @ \o (IF glued THEN <<Malformed>> \o Tail(recs) ELSE recs),
                  !.tail = NoTail]

\* The file when k of recs have been written to the end, and of the next nothing, a
\* part, or all but the newline.  What has been written stays written.
Torn(f, recs, k, cut) ==
    LET base == IF k = 0 THEN f ELSE Append_(f, SubSeq(recs, 1, k))
    IN  IF cut = "none" THEN base
        ELSE [base EXCEPT !.tail = [rec |-> recs[k + 1],
                                    whole |-> cut = "whole" \/ base.tail.whole]]

\* What an interrupted write of recs can leave behind, with the records that
\* were not written to the end.
Interrupted(f, recs) ==
    {<<Torn(f, recs, k, cut), SubSeq(recs, k + 1, Len(recs))>> :
        k \in 0..Len(recs) - 1, cut \in {"none", "partial", "whole"}}

-----------------------------------------------------------------------------
(* TelemetryReader *)

\* read_jsonl: line by line, skipping a complete line that is not a record, and the
\* last line only if it is a record already.
read_jsonl(f) ==
    LET Kept[n \in 0..Len(f.lines)] ==
            IF n = 0 THEN <<>>
            ELSE Kept[n - 1] \o (IF f.lines[n] = Malformed THEN <<>> ELSE <<f.lines[n]>>)
    IN  Kept[Len(f.lines)] \o (IF f.tail.whole THEN <<f.tail.rec>> ELSE <<>>)

\* Faulty variant: the newest file is read first.
LoadsNewestFirst(fs) ==
    LET Read[i \in 0..BackupCount + 1] ==
            IF i = 0 THEN <<>> ELSE Read[i - 1] \o read_jsonl(fs[i - 1])
    IN  Read[BackupCount + 1]

\* rotated_paths and TelemetryReader.load: oldest backup first, current last.
load(fs) ==
    LET Read[i \in 0..BackupCount + 1] ==
            IF i = 0 THEN <<>> ELSE Read[i - 1] \o read_jsonl(fs[BackupCount + 1 - i])
    IN  Read[BackupCount + 1]

malformed_complete_lines(fs) ==
    Cardinality({p \in Indices \X (1..MaxRecords) :
                    p[2] \in DOMAIN fs[p[1]].lines /\ fs[p[1]].lines[p[2]] = Malformed})

-----------------------------------------------------------------------------

Init ==
    /\ pc = "down"
    /\ at = -1
    /\ handle = FALSE
    /\ files = [i \in Indices |-> Absent]
    /\ buffer = <<>>
    /\ salvage = Empty
    /\ issued = 0
    /\ acked = {}
    /\ wiped = {}
    /\ interrupted = 0
    /\ faults = 0

Fault == faults < MaxFaults /\ faults' = faults + 1

\* _open: append mode creates the file when it is missing.
Opened(fs) == [fs EXCEPT ![0] = IF @.exists THEN @ ELSE Empty]

\* Faulty variant: the sink opens the file as it finds it.
OpensWithoutRepair ==
    /\ pc = "down"
    /\ pc' = "idle" /\ handle' = TRUE
    /\ files' = Opened(files)
    /\ UNCHANGED <<at, buffer, salvage, history, faults>>

\* __init__ where the file ends with a newline, is empty or does not exist.
OpenClean ==
    /\ pc = "down" /\ files[0].tail.rec = 0
    /\ pc' = "idle" /\ handle' = TRUE
    /\ files' = Opened(files)
    /\ UNCHANGED <<at, buffer, salvage, history, faults>>

\* The bytes _truncate_trailing_partial writes: a valid last line gets its
\* newline, any other is cut off.
Repaired(f) ==
    [f EXCEPT !.lines = IF f.tail.whole THEN Append(@, f.tail.rec) ELSE @,
              !.tail = NoTail]

\* _truncate_trailing_partial up to the truncation write_bytes begins with.
RepairBegins ==
    /\ pc = "down" /\ files[0].tail.rec # 0
    /\ pc' = "repairing"
    /\ salvage' = Repaired(files[0])
    /\ files' = [files EXCEPT ![0] = Empty]
    /\ UNCHANGED <<at, handle, buffer, history, faults>>

\* write_bytes completes, and __init__ opens the file.
RepairEnds ==
    /\ pc = "repairing"
    /\ pc' = "idle" /\ handle' = TRUE
    /\ files' = [files EXCEPT ![0] = salvage]
    /\ salvage' = Empty
    /\ UNCHANGED <<at, buffer, history, faults>>

\* __init__ raises: the runtime continues without persistence.
StartUnavailable ==
    /\ pc = "down" /\ Fault
    /\ pc' = "noop"
    /\ UNCHANGED <<at, handle, files, buffer, salvage, history>>

\* write up to the flush.  _require opens a closed handle as it finds the file.
WriteBegins ==
    /\ pc = "idle" /\ issued < MaxRecords
    /\ pc' = "writing"
    /\ issued' = issued + 1
    /\ handle' = TRUE
    /\ files' = IF handle THEN files ELSE Opened(files)
    /\ buffer' = Append(buffer, issued + 1)
    /\ UNCHANGED <<at, salvage, acked, wiped, interrupted, faults>>

\* The flush and the size test: the file is left as it is, or rotated.
FlushReturns ==
    /\ pc = "writing"
    /\ files' = [files EXCEPT ![0] = Append_(@, buffer)]
    /\ buffer' = <<>>
    /\ IF st_size(files'[0]) >= MaxLines
       THEN pc' = "rotating" /\ at' = BackupCount /\ handle' = FALSE /\ UNCHANGED acked
       ELSE pc' = "idle" /\ acked' = acked \cup {issued} /\ UNCHANGED <<at, handle>>
    /\ UNCHANGED <<salvage, issued, wiped, interrupted, faults>>

\* The flush raises.  Python's writer keeps what it could not write and tries it
\* again with the next flush.
FlushRaises ==
    /\ pc = "writing" /\ Fault
    /\ \E outcome \in Interrupted(files[0], buffer) :
        /\ files' = [files EXCEPT ![0] = outcome[1]]
        /\ buffer' = outcome[2]
    /\ pc' = "idle"
    /\ UNCHANGED <<at, handle, salvage, history>>

-----------------------------------------------------------------------------
(* Rotation *)

\* Faulty variant: the oldest backup is not removed and nothing is shifted.
OverwritesNewest(i) ==
    IF i = 0 THEN [files EXCEPT ![1] = files[0], ![0] = Absent] ELSE files

\* _rotate at file i: the oldest backup is removed, any other file moves up.
Moved(i) ==
    IF i = BackupCount THEN [files EXCEPT ![i] = Absent]
    ELSE IF files[i].exists THEN [files EXCEPT ![i + 1] = files[i], ![i] = Absent]
    ELSE files

RotateStep ==
    /\ pc = "rotating" /\ at >= 0
    /\ files' = Moved(at)
    /\ at' = at - 1
    /\ UNCHANGED <<pc, handle, buffer, salvage, history, faults>>

\* _rotate opens the new file, and write returns.
RotateEnds ==
    /\ pc = "rotating" /\ at = -1
    /\ pc' = "idle" /\ handle' = TRUE
    /\ files' = Opened(files)
    /\ acked' = acked \cup {issued}
    /\ UNCHANGED <<at, buffer, salvage, issued, wiped, interrupted, faults>>

Cost == IF pc = "rotating" /\ at >= 0 THEN 1 ELSE 0

\* A file operation of the rotation raises: _handle stays None.  When the first one,
\* closing the handle, raises, _handle is a closed file that no write gets past.
RotateRaises ==
    /\ pc = "rotating" /\ Fault
    /\ \/ pc' = "idle"
       \/ pc' = "noop" /\ at = BackupCount
    /\ at' = -1
    /\ interrupted' = interrupted + Cost
    /\ UNCHANGED <<handle, files, buffer, salvage, issued, acked, wiped>>

-----------------------------------------------------------------------------
(* The end of a process *)

\* close: the handle writes what it still holds.
close ==
    /\ pc = "idle"
    /\ files' = IF buffer = <<>> THEN files
                ELSE [files EXCEPT ![0] = Append_(@, buffer)]
    /\ pc' = "down" /\ handle' = FALSE /\ buffer' = <<>>
    /\ UNCHANGED <<at, salvage, history, faults>>

\* The process is killed, or the last flush raises in close.  Of a write in
\* progress any part may have reached the file.
Crash ==
    /\ pc \notin {"down", "repairing"} /\ Fault
    /\ \/ files' = files
       \/ /\ buffer # <<>>
          /\ \/ files' = [files EXCEPT ![0] = Append_(@, buffer)]
             \/ \E outcome \in Interrupted(files[0], buffer) :
                    files' = [files EXCEPT ![0] = outcome[1]]
    /\ pc' = "down" /\ at' = -1 /\ handle' = FALSE
    /\ buffer' = <<>>
    /\ interrupted' = interrupted + Cost
    /\ UNCHANGED <<salvage, issued, acked, wiped>>

First(f, k, tail) == [f EXCEPT !.lines = SubSeq(@, 1, k), !.tail = tail]

\* The beginnings of f: its first lines, and nothing, a part, or all but the
\* newline of the next one.
Beginnings(f) ==
    {First(f, k, NoTail) : k \in 0..Len(f.lines)}
    \cup {First(f, k, [rec |-> f.lines[k + 1], whole |-> w]) :
              k \in 0..Len(f.lines) - 1, w \in BOOLEAN}

\* The process is killed inside write_bytes of the repair.
RepairCrashes ==
    /\ pc = "repairing" /\ Fault
    /\ \E f \in Beginnings(salvage) : files' = [files EXCEPT ![0] = f]
    /\ pc' = "down" /\ salvage' = Empty
    /\ wiped' = wiped \cup {salvage.lines[j] : j \in DOMAIN salvage.lines}
    /\ UNCHANGED <<at, handle, buffer, issued, acked, interrupted>>

Next ==
    \/ OpenClean \/ RepairBegins \/ RepairEnds \/ StartUnavailable
    \/ WriteBegins \/ FlushReturns \/ FlushRaises
    \/ RotateStep \/ RotateEnds \/ RotateRaises
    \/ close \/ Crash \/ RepairCrashes

Spec == Init /\ [][Next]_vars

-----------------------------------------------------------------------------
(* Properties *)

TypeOK ==
    /\ pc \in {"down", "noop", "repairing", "idle", "writing", "rotating"}
    /\ at \in -1..BackupCount
    /\ handle \in BOOLEAN
    /\ \A i \in Indices :
        /\ files[i].lines \in Seq(0..MaxRecords)
        /\ files[i].tail.rec \in 0..MaxRecords
    /\ buffer \in Seq(1..MaxRecords)
    /\ issued \in 0..MaxRecords
    /\ acked \subseteq 1..MaxRecords /\ wiped \subseteq 1..MaxRecords

\* The files as a reader would find them once the repair has written its bytes
\* back.
Settled == IF pc = "repairing" THEN [files EXCEPT ![0] = salvage] ELSE files

Log == INSTANCE TelemetryLog WITH
            log <- load(Settled),
            up  <- pc \notin {"down", "repairing"}

\* The reader's view implements the log: whole records, in the order they were
\* written, none twice, through flush failures, rotation, crashes in any step
\* and repair.
ReaderSeesLog == Log!Spec

\* No crash or failing operation ever leaves a complete line that is not a
\* record: the fragment of an interrupted write is completed or cut off before
\* anything is appended to it.
NeverMalformed == malformed_complete_lines(files) = 0

\* A record whose write returned is still read back, unless a crash during the
\* repair destroyed the file, or backup_count files of newer records have been
\* rotated since; an interrupted rotation costs at most one file of history.
AckedKept ==
    LET kept == load(Settled)
        found == {kept[j] : j \in DOMAIN kept}
        newer(r) == {q \in found \cup wiped : q > r}
    IN  \A r \in acked \ (wiped \cup found) :
            Cardinality(newer(r)) >= (BackupCount - interrupted) * MaxLines
=============================================================================
