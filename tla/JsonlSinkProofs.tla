--------------------------- MODULE JsonlSinkProofs ---------------------------
(***************************************************************************)
(* Proofs about JsonlSink for every backup_count and max_bytes, and any    *)
(* number of records, crashes and raised errors.                           *)
(*                                                                         *)
(* Two bytes of different records meet in one line only if something is    *)
(* appended to the fragment of another record.  The invariant says where a *)
(* fragment can be: at the end of the current file, and there, while the   *)
(* sink is open, only of the record that the handle writes next.           *)
(*                                                                         *)
(* On it rests what the reader finds.  LogInv adds that the records on     *)
(* their way (lines, fragment, buffer) are in the order of write and that  *)
(* a rotation moves a file only into a free place, so that every step is a *)
(* step of TelemetryLog.  KeptInv adds that the records that are missing   *)
(* are older than all that are found, and counts the places without a      *)
(* backup: one per interrupted rotation, and one for a rotation under way. *)
(***************************************************************************)
EXTENDS JsonlSink, FiniteSetTheorems, FunctionTheorems, SequenceTheorems,
        WellFoundedInduction, TLAPS

\* The records, and the files that hold them.
Record == Nat \ {0}
File == [exists : BOOLEAN, lines : Seq(Record), tail : [rec : Nat, whole : BOOLEAN]]

\* The shape of the state.
Types ==
    /\ pc \in {"down", "noop", "repairing", "idle", "writing", "rotating"}
    /\ at \in Int /\ at <= BackupCount
    /\ files \in [Indices -> File]
    /\ buffer \in Seq(Record)
    /\ salvage \in File
    /\ issued \in Nat

\* Only the current file ends with a fragment, and the repair leaves none.
WholeBackups ==
    /\ \A i \in Indices \ {0} : files[i].tail.rec = 0
    /\ salvage.tail.rec = 0

\* The handle holds records while the sink is open and not rotating.
BufferHeld ==
    /\ pc \notin {"idle", "writing"} => buffer = <<>>
    /\ pc = "writing" => buffer # <<>>

\* A fragment at the end of the open file is of the record that is written next.
NextCompletes ==
    /\ pc \in {"idle", "writing"} /\ files[0].tail.rec # 0 =>
            buffer # <<>> /\ files[0].tail.rec = buffer[1]
    /\ pc = "rotating" => files[0].tail.rec = 0

\* The inductive invariant.
SinkInv == Types /\ WholeBackups /\ BufferHeld /\ NextCompletes

-----------------------------------------------------------------------------
(* Files *)

\* A missing file, and an empty one.
LEMMA EmptyIsFile ==
  /\ Empty \in File /\ Empty.tail.rec = 0 /\ Empty.lines = <<>>
  /\ Absent \in File /\ Absent.tail.rec = 0
<1>1. NoTail \in [rec : Nat, whole : BOOLEAN] /\ NoTail.rec = 0
  BY DEF NoTail
<1>2. Empty \in File /\ Empty.tail.rec = 0 /\ Empty.lines = <<>>
  BY <1>1 DEF Empty, File
<1> QED
  BY <1>2 DEF Absent, File

\* Appending records to a file whose fragment is of the first of them.
LEMMA AppendCompletes ==
  ASSUME NEW f \in File, NEW recs \in Seq(Record), recs # <<>>, f.tail.rec \in {0, recs[1]}
  PROVE  Append_(f, recs) \in File /\ Append_(f, recs).tail.rec = 0
<1>1. NoTail \in [rec : Nat, whole : BOOLEAN] /\ NoTail.rec = 0
  BY DEF NoTail
<1>2. Head(recs) = recs[1]
  OBVIOUS
<1>3. Append_(f, recs) = [f EXCEPT !.lines = @ \o recs, !.tail = NoTail]
  BY <1>2 DEF Append_
<1>4. f.lines \o recs \in Seq(Record)
  BY DEF File
<1> QED
  BY <1>1, <1>3, <1>4 DEF File

\* The records that are left after the first k.
LEMMA RecordsLeft ==
  ASSUME NEW recs \in Seq(Record), NEW k \in 0..Len(recs) - 1
  PROVE  /\ SubSeq(recs, k + 1, Len(recs)) \in Seq(Record)
         /\ SubSeq(recs, k + 1, Len(recs)) # <<>>
         /\ SubSeq(recs, k + 1, Len(recs))[1] = recs[k + 1]
         /\ recs[k + 1] \in Record
<1>1. Len(recs) \in Nat /\ k \in Nat /\ k + 1 \in 1..Len(recs)
  OBVIOUS
<1>2. SubSeq(recs, k + 1, Len(recs)) \in Seq(Record)
  BY <1>1
<1>3. Len(SubSeq(recs, k + 1, Len(recs))) = Len(recs) - k /\ Len(recs) - k >= 1
  BY <1>1
<1>4. SubSeq(recs, k + 1, Len(recs))[1] = recs[k + 1]
  BY <1>1, <1>3
<1>5. recs[k + 1] \in Record
  BY <1>1
<1>6. SubSeq(recs, k + 1, Len(recs)) # <<>>
  <2> DEFINE left == SubSeq(recs, k + 1, Len(recs))
  <2>1. Len(left) >= 1
    BY <1>1, <1>3
  <2> HIDE DEF left
  <2>2. left # <<>>
    BY <2>1
  <2> QED
    BY <2>2 DEF left
<1> QED
  BY <1>2, <1>4, <1>5, <1>6, Zenon

\* What an interrupted write leaves: a file in which only the next of the records that
\* are left may have begun.
LEMMA InterruptedLeaves ==
  ASSUME NEW f \in File, NEW recs \in Seq(Record), recs # <<>>, f.tail.rec \in {0, recs[1]},
         NEW outcome \in Interrupted(f, recs)
  PROVE  /\ outcome[1] \in File /\ outcome[2] \in Seq(Record) /\ outcome[2] # <<>>
         /\ outcome[1].tail.rec \in {0, outcome[2][1]}
<1>1. PICK k \in 0..Len(recs) - 1, cut \in {"none", "partial", "whole"} :
            outcome = <<Torn(f, recs, k, cut), SubSeq(recs, k + 1, Len(recs))>>
  BY DEF Interrupted
<1> DEFINE base == IF k = 0 THEN f ELSE Append_(f, SubSeq(recs, 1, k))
           left == SubSeq(recs, k + 1, Len(recs))
           tail == [rec |-> recs[k + 1], whole |-> cut = "whole" \/ base.tail.whole]
<1>2. left \in Seq(Record) /\ left # <<>> /\ left[1] = recs[k + 1] /\ recs[k + 1] \in Record
  BY RecordsLeft
<1>3. base \in File /\ base.tail.rec \in {0, recs[k + 1]}
  <2>1. CASE k = 0
    BY <2>1
  <2>2. CASE k # 0
    <3>1. SubSeq(recs, 1, k) \in Seq(Record) /\ SubSeq(recs, 1, k) # <<>>
          /\ SubSeq(recs, 1, k)[1] = recs[1]
      BY <2>2
    <3> QED
      BY <2>2, <3>1, AppendCompletes
  <2> QED
    BY <2>1, <2>2
<1>4. Torn(f, recs, k, cut) = IF cut = "none" THEN base ELSE [base EXCEPT !.tail = tail]
  BY DEF Torn
<1> HIDE DEF base, left
<1>5. tail \in [rec : Nat, whole : BOOLEAN] /\ tail.rec = recs[k + 1]
  <2>1. (cut = "whole" \/ base.tail.whole) \in BOOLEAN
    BY Zenon
  <2> QED
    BY <1>2, <2>1 DEF Record
<1> HIDE DEF tail
<1>6. [base EXCEPT !.tail = tail] \in File /\ [base EXCEPT !.tail = tail].tail = tail
  BY <1>3, <1>5 DEF File
<1> QED
  BY <1>1, <1>2, <1>3, <1>4, <1>5, <1>6 DEF left

-----------------------------------------------------------------------------
(* The invariant *)

\* A file that the sink may hold open.
Continues(f, recs) == f.tail.rec # 0 => recs # <<>> /\ f.tail.rec = recs[1]

\* Before the first start there is no file.
LEMMA SinkInit == Init => SinkInv
<1> SUFFICES ASSUME Init
             PROVE  SinkInv
  OBVIOUS
<1>1. \A i \in Indices : files[i] = Absent
  BY DEF Init
<1>2. Types
  BY <1>1, EmptyIsFile, SinkAssumption DEF Init, Types
<1>3. WholeBackups /\ BufferHeld /\ NextCompletes
  BY <1>1, EmptyIsFile DEF Init, WholeBackups, BufferHeld, NextCompletes
<1> QED
  BY <1>2, <1>3 DEF SinkInv

\* A step that changes no file but the current one keeps the invariant, if what becomes
\* of that one fits the place the sink comes to.
LEMMA CurrentChanges ==
  ASSUME SinkInv, NEW f \in File, files' = [files EXCEPT ![0] = f],
         pc' \in {"down", "noop", "repairing", "idle", "writing", "rotating"},
         at' \in Int, at' <= BackupCount, issued' \in Nat,
         buffer' \in Seq(Record), salvage' \in File, salvage'.tail.rec = 0,
         pc' \notin {"idle", "writing"} => buffer' = <<>>,
         pc' = "writing" => buffer' # <<>>,
         pc' \in {"idle", "writing"} => Continues(f, buffer'),
         pc' = "rotating" => f.tail.rec = 0
  PROVE  SinkInv'
<1>1. files \in [Indices -> File] /\ 0 \in Indices
  BY SinkAssumption DEF SinkInv, Types, Indices
<1>2. files' \in [Indices -> File] /\ files'[0] = f
      /\ \A i \in Indices \ {0} : files'[i] = files[i]
  BY <1>1
<1>3. Types'
  BY <1>2 DEF Types
<1>4. WholeBackups'
  BY <1>2 DEF SinkInv, WholeBackups
<1>5. BufferHeld' /\ NextCompletes'
  BY <1>2 DEF BufferHeld, NextCompletes, Continues
<1> QED
  BY <1>3, <1>4, <1>5 DEF SinkInv

\* The current file as it is.
LEMMA CurrentFile ==
  ASSUME SinkInv
  PROVE  /\ 0 \in Indices /\ files[0] \in File /\ files = [files EXCEPT ![0] = files[0]]
         /\ pc \in {"idle", "writing"} => Continues(files[0], buffer)
<1>1. files \in [Indices -> File] /\ 0 \in Indices
  BY SinkAssumption DEF SinkInv, Types, Indices
<1> QED
  BY <1>1 DEF SinkInv, NextCompletes, Continues

\* Opening creates the file when it is missing, and otherwise leaves it alone.
LEMMA OpenedFile ==
  ASSUME SinkInv
  PROVE  LET f == IF files[0].exists THEN files[0] ELSE Empty
         IN  Opened(files) = [files EXCEPT ![0] = f] /\ f \in File
             /\ f.tail.rec \in {0, files[0].tail.rec}
  BY CurrentFile, EmptyIsFile DEF Opened

\* The repair writes whole records.
LEMMA RepairedFile ==
  ASSUME NEW f \in File, f.tail.rec # 0
  PROVE  Repaired(f) \in File /\ Repaired(f).tail.rec = 0
<1>1. NoTail \in [rec : Nat, whole : BOOLEAN] /\ NoTail.rec = 0
  BY DEF NoTail
<1> DEFINE lines == IF f.tail.whole THEN Append(f.lines, f.tail.rec) ELSE f.lines
<1>2. lines \in Seq(Record)
  BY DEF File, Record
<1>3. Repaired(f) = [f EXCEPT !.lines = lines, !.tail = NoTail]
  BY DEF Repaired, File
<1> HIDE DEF lines
<1> QED
  BY <1>1, <1>2, <1>3 DEF File

\* A beginning of a file without a fragment: its first lines, and a fragment of the next.
LEMMA BeginningOf ==
  ASSUME NEW s \in File, NEW f \in Beginnings(s)
  PROVE  /\ f \in File /\ f.exists = s.exists /\ (f.tail.whole => f.tail.rec # 0)
         /\ \E k \in 0..Len(s.lines) :
                /\ f.lines = SubSeq(s.lines, 1, k)
                /\ \/ f.tail = NoTail
                   \/ k < Len(s.lines) /\ f.tail.rec = s.lines[k + 1]
<1>1. /\ s.lines \in Seq(Record) /\ s.exists \in BOOLEAN /\ Len(s.lines) \in Nat
      /\ s = [exists |-> s.exists, lines |-> s.lines, tail |-> s.tail]
  BY DEF File
<1>2. NoTail \in [rec : Nat, whole : BOOLEAN] /\ NoTail.rec = 0 /\ ~NoTail.whole
  BY DEF NoTail
<1>3. \A k \in 0..Len(s.lines) : SubSeq(s.lines, 1, k) \in Seq(Record)
  BY <1>1
<1>4. CASE \E k \in 0..Len(s.lines) : f = First(s, k, NoTail)
  <2>1. PICK k \in 0..Len(s.lines) : f = First(s, k, NoTail)
    BY <1>4
  <2> DEFINE x == SubSeq(s.lines, 1, k)
  <2>2. x \in Seq(Record) /\ f = [s EXCEPT !.lines = x, !.tail = NoTail]
    BY <1>3, <2>1 DEF First
  <2> HIDE DEF x
  <2>3. f = [exists |-> s.exists, lines |-> x, tail |-> NoTail]
    BY <1>1, <2>2
  <2>4. f \in File /\ f.exists = s.exists /\ f.lines = x /\ f.tail = NoTail
    BY <1>1, <1>2, <2>2, <2>3 DEF File
  <2> QED
    BY <1>2, <2>4 DEF x
<1>5. CASE \E k \in 0..Len(s.lines) - 1, w \in BOOLEAN :
              f = First(s, k, [rec |-> s.lines[k + 1], whole |-> w])
  <2>1. PICK k \in 0..Len(s.lines) - 1, w \in BOOLEAN :
              f = First(s, k, [rec |-> s.lines[k + 1], whole |-> w])
    BY <1>5
  <2> DEFINE x == SubSeq(s.lines, 1, k)
             r == s.lines[k + 1]
             y == [rec |-> r, whole |-> w]
  <2>2. k \in 0..Len(s.lines) /\ k < Len(s.lines) /\ k + 1 \in 1..Len(s.lines)
    BY <1>1
  <2>3. r \in Record /\ x \in Seq(Record) /\ f = [s EXCEPT !.lines = x, !.tail = y]
    BY <1>1, <1>3, <2>1, <2>2 DEF First
  <2>4. r \in Nat /\ r # 0
    BY <2>3 DEF Record
  <2> HIDE DEF x, r
  <2>5. y \in [rec : Nat, whole : BOOLEAN] /\ y.rec = r
    BY <2>4
  <2> HIDE DEF y
  <2>6. f = [exists |-> s.exists, lines |-> x, tail |-> y]
    BY <1>1, <2>3
  <2>7. f \in File /\ f.exists = s.exists /\ f.lines = x /\ f.tail.rec = r
    BY <1>1, <2>3, <2>5, <2>6 DEF File
  <2> QED
    BY <2>2, <2>4, <2>7 DEF x, r
<1>6. \/ \E k \in 0..Len(s.lines) : f = First(s, k, NoTail)
      \/ \E k \in 0..Len(s.lines) - 1, w \in BOOLEAN :
              f = First(s, k, [rec |-> s.lines[k + 1], whole |-> w])
  BY DEF Beginnings
<1> QED
  BY <1>4, <1>5, <1>6

\* A rotation moves only whole files.
LEMMA RotateStepKeeps ==
  ASSUME SinkInv, RotateStep
  PROVE  SinkInv'
<1>1. files \in [Indices -> File] /\ at \in Indices /\ pc = "rotating"
      /\ BackupCount \in Nat \ {0}
  BY SinkAssumption DEF SinkInv, Types, Indices, RotateStep
<1>2. \A i \in Indices : files[i].tail.rec = 0
  BY <1>1 DEF SinkInv, WholeBackups, NextCompletes
<1>3. files' = Moved(at) /\ at' = at - 1
      /\ UNCHANGED <<pc, handle, buffer, salvage, history, faults>>
  BY DEF RotateStep
<1>4. files' \in [Indices -> File] /\ \A i \in Indices : files'[i].tail.rec = 0
  <2>1. CASE at = BackupCount
    BY <1>1, <1>2, <1>3, <2>1, EmptyIsFile DEF Moved
  <2>2. CASE at # BackupCount /\ files[at].exists
    <3>1. at + 1 \in Indices
      BY <1>1, <2>2 DEF Indices
    <3>2. files' = [files EXCEPT ![at + 1] = files[at], ![at] = Absent]
      BY <1>3, <2>2 DEF Moved
    <3> QED
      BY <1>1, <1>2, <3>1, <3>2, EmptyIsFile
  <2>3. CASE at # BackupCount /\ ~files[at].exists
    BY <1>1, <1>2, <1>3, <2>3 DEF Moved
  <2> QED
    BY <2>1, <2>2, <2>3
<1>5. Types'
  BY <1>1, <1>3, <1>4 DEF SinkInv, Types, history
<1>6. WholeBackups' /\ BufferHeld'
  BY <1>1, <1>3, <1>4 DEF SinkInv, WholeBackups, BufferHeld
<1>7. NextCompletes'
  BY <1>1, <1>3, <1>4, SinkAssumption DEF NextCompletes, Indices
<1> QED
  BY <1>5, <1>6, <1>7 DEF SinkInv

\* Every step of the sink, every failure and every crash keeps the invariant.
LEMMA SinkStep == SinkInv /\ [Next]_vars => SinkInv'
<1> SUFFICES ASSUME SinkInv, [Next]_vars
             PROVE  SinkInv'
  OBVIOUS
<1>1. /\ at \in Int /\ at <= BackupCount /\ issued \in Nat /\ buffer \in Seq(Record)
      /\ salvage \in File /\ salvage.tail.rec = 0 /\ -1 <= BackupCount /\ BackupCount \in Int
  BY SinkAssumption DEF SinkInv, Types, WholeBackups
<1>2. /\ pc \notin {"idle", "writing"} => buffer = <<>>
      /\ pc = "writing" => buffer # <<>>
  BY DEF SinkInv, BufferHeld
<1>3. CASE OpenClean
  BY <1>1, <1>2, <1>3, OpenedFile, CurrentChanges DEF OpenClean, history, Continues
<1>4. CASE RepairBegins
  BY <1>1, <1>2, <1>4, CurrentFile, RepairedFile, EmptyIsFile, CurrentChanges
     DEF RepairBegins, history
<1>5. CASE RepairEnds
  BY <1>1, <1>2, <1>5, EmptyIsFile, CurrentChanges DEF RepairEnds, history, Continues
<1>6. CASE StartUnavailable
  BY <1>1, <1>2, <1>6, CurrentFile, CurrentChanges DEF StartUnavailable, history
<1>7. CASE WriteBegins
  <2> DEFINE f == IF handle THEN files[0] ELSE IF files[0].exists THEN files[0] ELSE Empty
  <2>1. files' = [files EXCEPT ![0] = f] /\ f \in File /\ f.tail.rec \in {0, files[0].tail.rec}
    BY <1>7, CurrentFile, OpenedFile DEF WriteBegins
  <2>2. Continues(files[0], buffer)
    BY <1>7, CurrentFile DEF WriteBegins
  <2>3. issued' = issued + 1 /\ buffer' = Append(buffer, issued + 1) /\ issued + 1 \in Record
        /\ pc' = "writing" /\ UNCHANGED <<at, salvage>>
    BY <1>1, <1>7 DEF WriteBegins, Record
  <2> HIDE DEF f
  <2>4. buffer' \in Seq(Record) /\ buffer' # <<>> /\ (buffer # <<>> => buffer'[1] = buffer[1])
    BY <1>1, <2>3
  <2>5. Continues(f, buffer')
    BY <2>1, <2>2, <2>4 DEF Continues
  <2>6. issued' \in Nat
    BY <1>1, <2>3
  <2> QED
    BY <1>1, <2>1, <2>3, <2>4, <2>5, <2>6, CurrentChanges
<1>8. CASE FlushReturns
  <2> DEFINE f == Append_(files[0], buffer)
  <2>1. pc = "writing" /\ files' = [files EXCEPT ![0] = f] /\ buffer' = <<>>
        /\ UNCHANGED <<salvage, issued>>
        /\ (\/ (pc' = "rotating" /\ at' = BackupCount)
            \/ (pc' = "idle" /\ at' = at))
    BY <1>8 DEF FlushReturns
  <2>2. f \in File /\ f.tail.rec = 0
    BY <1>1, <1>2, <2>1, CurrentFile, AppendCompletes DEF Continues
  <2> HIDE DEF f
  <2>3. at' \in Int /\ at' <= BackupCount /\ buffer' \in Seq(Record)
    BY <1>1, <2>1
  <2> QED
    BY <1>1, <2>1, <2>2, <2>3, CurrentChanges DEF Continues
<1>9. CASE FlushRaises
  <2>1. PICK outcome \in Interrupted(files[0], buffer) :
            files' = [files EXCEPT ![0] = outcome[1]] /\ buffer' = outcome[2]
    BY <1>9 DEF FlushRaises
  <2>2. pc = "writing" /\ pc' = "idle" /\ UNCHANGED <<at, handle, salvage, history>>
    BY <1>9 DEF FlushRaises
  <2>3. /\ outcome[1] \in File /\ outcome[2] \in Seq(Record) /\ outcome[2] # <<>>
        /\ outcome[1].tail.rec \in {0, outcome[2][1]}
    BY <1>1, <1>2, <2>1, <2>2, CurrentFile, InterruptedLeaves DEF Continues
  <2> QED
    BY <1>1, <2>1, <2>2, <2>3, CurrentChanges DEF Continues, history
<1>10. CASE RotateStep
  BY <1>10, RotateStepKeeps
<1>11. CASE RotateEnds
  <2>1. files[0].tail.rec = 0
    BY <1>11 DEF RotateEnds, SinkInv, NextCompletes
  <2> QED
    BY <1>1, <1>2, <1>11, <2>1, OpenedFile, CurrentChanges DEF RotateEnds, Continues
<1>12. CASE RotateRaises
  <2>1. files[0].tail.rec = 0
    BY <1>12 DEF RotateRaises, SinkInv, NextCompletes
  <2> QED
    BY <1>1, <1>2, <1>12, <2>1, CurrentFile, CurrentChanges DEF RotateRaises, Continues
<1>13. CASE close
  <2> DEFINE f == IF buffer = <<>> THEN files[0] ELSE Append_(files[0], buffer)
  <2>1. pc = "idle" /\ files' = [files EXCEPT ![0] = f] /\ pc' = "down" /\ buffer' = <<>>
        /\ UNCHANGED <<at, salvage, history, faults>>
    BY <1>13, CurrentFile DEF close
  <2>2. f \in File
    BY <1>1, <2>1, CurrentFile, AppendCompletes DEF Continues
  <2> HIDE DEF f
  <2>3. /\ at' \in Int /\ at' <= BackupCount /\ issued' \in Nat /\ buffer' \in Seq(Record)
        /\ salvage' \in File /\ salvage'.tail.rec = 0
    BY <1>1, <2>1 DEF history
  <2> QED
    BY <2>1, <2>2, <2>3, CurrentChanges
<1>14. CASE Crash
  <2>1. pc' = "down" /\ at' = -1 /\ buffer' = <<>> /\ UNCHANGED <<salvage, issued, acked>>
    BY <1>14 DEF Crash
  <2>2. ASSUME NEW f \in File, files' = [files EXCEPT ![0] = f]
        PROVE  SinkInv'
    <3>1. /\ at' \in Int /\ at' <= BackupCount /\ issued' \in Nat /\ buffer' \in Seq(Record)
          /\ salvage' \in File /\ salvage'.tail.rec = 0
      BY <1>1, <2>1, EmptyIsFile
    <3> QED
      BY <2>1, <2>2, <3>1, CurrentChanges
  <2>3. CASE files' = files
    BY <2>2, <2>3, CurrentFile
  <2>4. buffer # <<>> => Continues(files[0], buffer)
    BY <1>2, CurrentFile
  <2>5. CASE buffer # <<>> /\ files' = [files EXCEPT ![0] = Append_(@, buffer)]
    BY <1>1, <2>2, <2>4, <2>5, CurrentFile, AppendCompletes DEF Continues
  <2>6. CASE buffer # <<>> /\ \E outcome \in Interrupted(files[0], buffer) :
                                    files' = [files EXCEPT ![0] = outcome[1]]
    <3>1. PICK outcome \in Interrupted(files[0], buffer) : files' = [files EXCEPT ![0] = outcome[1]]
      BY <2>6
    <3>2. outcome[1] \in File
      BY <1>1, <2>4, <2>6, CurrentFile, InterruptedLeaves DEF Continues
    <3> QED
      BY <2>2, <3>1, <3>2
  <2> QED
    BY <1>14, <2>3, <2>5, <2>6 DEF Crash
<1>15. CASE RepairCrashes
  <2>1. PICK f \in Beginnings(salvage) : files' = [files EXCEPT ![0] = f]
    BY <1>15 DEF RepairCrashes
  <2>2. f \in File
    BY <1>1, <2>1, BeginningOf
  <2>3. pc = "repairing" /\ pc' = "down" /\ salvage' = Empty /\ UNCHANGED <<at, buffer, issued>>
    BY <1>15 DEF RepairCrashes
  <2>4. buffer = <<>>
    BY <2>3 DEF SinkInv, BufferHeld
  <2>5. /\ at' \in Int /\ at' <= BackupCount /\ issued' \in Nat /\ buffer' \in Seq(Record)
        /\ salvage' \in File /\ salvage'.tail.rec = 0
    BY <1>1, <2>3, EmptyIsFile
  <2> QED
    BY <2>1, <2>2, <2>3, <2>4, <2>5, CurrentChanges
<1>16. CASE UNCHANGED vars
  BY <1>16 DEF vars, history, SinkInv, Types, WholeBackups, BufferHeld, NextCompletes
<1> QED
  BY <1>3, <1>4, <1>5, <1>6, <1>7, <1>8, <1>9, <1>10, <1>11, <1>12, <1>13, <1>14, <1>15, <1>16
     DEF Next

\* Whatever fails and wherever the process is killed, no file ever holds a complete line
\* that is not a record (write, _rotate, _truncate_trailing_partial, close).
THEOREM LinesAreRecords == Spec => []NeverMalformed
<1>1. SinkInv => NeverMalformed
  <2> SUFFICES ASSUME SinkInv
               PROVE  malformed_complete_lines(files) = 0
    BY DEF NeverMalformed
  <2> DEFINE bad == {p \in Indices \X (1..MaxRecords) :
                        p[2] \in DOMAIN files[p[1]].lines /\ files[p[1]].lines[p[2]] = Malformed}
  <2>1. \A i \in Indices : \A j \in DOMAIN files[i].lines : files[i].lines[j] # 0
    BY DEF SinkInv, Types, File, Record
  <2>2. bad = {}
    BY <2>1 DEF Malformed
  <2> HIDE DEF bad
  <2>3. malformed_complete_lines(files) = Cardinality(bad)
    BY DEF malformed_complete_lines, bad
  <2> QED
    BY <2>2, <2>3, FS_EmptySet
<1> QED
  BY <1>1, SinkInit, SinkStep, PTL DEF Spec

-----------------------------------------------------------------------------
(* Counting, and joining sequences *)

\* Every set of naturals that is not empty has a least element.
LEMMA LeastNatural ==
  ASSUME NEW T, T \subseteq Nat, T # {}
  PROVE  \E x \in T : \A y \in T : x <= y
<1> DEFINE R == {p \in Nat \X Nat : p[1] < p[2]}
<1>1. OpToRel(<, Nat) = R
  BY DEF OpToRel
<1>2. IsWellFoundedOn(R, Nat)
  BY <1>1, NatLessThanWellFounded
<1>3. \A x, y \in Nat : <<y, x>> \in R <=> y < x
  OBVIOUS
<1> HIDE DEF R
<1>4. PICK x \in T : \A y \in T : ~(<<y, x>> \in R)
  BY <1>2, WFMin
<1>5. x \in Nat /\ \A y \in T : y \in Nat /\ ~(y < x)
  BY <1>3, <1>4
<1>6. \A y \in T : x <= y
  BY <1>5
<1> QED
  BY <1>6

\* Induction, over a set of naturals.
LEMMA Counting ==
  ASSUME NEW S, 0 \in S, \A n \in Nat : n \in S => n + 1 \in S
  PROVE  \A n \in Nat : n \in S
<1> DEFINE T == Nat \ S
<1> SUFFICES ASSUME T # {}
             PROVE  FALSE
  OBVIOUS
<1>1. T \subseteq Nat
  OBVIOUS
<1>2. PICK x \in T : \A y \in T : x <= y
  <2> HIDE DEF T
  <2> QED
    BY <1>1, LeastNatural
<1>3. x \in Nat /\ x # 0 /\ x \notin S
  OBVIOUS
<1>4. x - 1 \in Nat /\ x - 1 \in S /\ (x - 1) + 1 = x
  BY <1>2, <1>3
<1> QED
  BY <1>3, <1>4

\* The empty sequence.
Nothing == <<>>

\* It adds nothing at either end.
LEMMA NothingAdds ==
  ASSUME NEW E
  PROVE  /\ Nothing \in Seq(E) /\ Len(Nothing) = 0
         /\ \A s \in Seq(E) : s \o Nothing = s /\ Nothing \o s = s
  BY EmptySeq, ConcatEmptySeq DEF Nothing

\* R[i] is the first i of the sequences in g, one after the other.
Joins(R, g, n) == R = [i \in 0..n |-> IF i = 0 THEN Nothing ELSE R[i - 1] \o g[i]]

\* Such a function exists.
LEMMA JoinExists ==
  ASSUME NEW n \in Nat, NEW g
  PROVE  \E R : Joins(R, g, n)
<1> DEFINE S == {k \in Nat : \E R : Joins(R, g, k)}
<1>1. 0 \in S
  <2> DEFINE R == [i \in 0..0 |-> Nothing]
  <2>1. Joins(R, g, 0)
    BY DEF Joins
  <2> QED
    BY <2>1
<1>2. ASSUME NEW k \in Nat, k \in S
      PROVE  k + 1 \in S
  <2>1. PICK R : Joins(R, g, k)
    BY <1>2
  <2> DEFINE Q == [i \in 0..k + 1 |-> IF i = k + 1 THEN R[k] \o g[k + 1] ELSE R[i]]
  <2>2. \A i \in 0..k : R[i] = IF i = 0 THEN Nothing ELSE R[i - 1] \o g[i]
    BY <2>1 DEF Joins
  <2>3. \A i \in 0..k + 1 : Q[i] = IF i = 0 THEN Nothing ELSE Q[i - 1] \o g[i]
    <3> SUFFICES ASSUME NEW i \in 0..k + 1
                 PROVE  Q[i] = IF i = 0 THEN Nothing ELSE Q[i - 1] \o g[i]
      OBVIOUS
    <3>1. CASE i = k + 1
      <4>1. i - 1 = k /\ k \in 0..k + 1 /\ k # k + 1 /\ i # 0
        BY <3>1
      <4> QED
        BY <3>1, <4>1
    <3>2. CASE i # k + 1
      <4>1. i \in 0..k /\ (i # 0 => i - 1 \in 0..k + 1 /\ i - 1 # k + 1)
        BY <3>2
      <4> QED
        BY <2>2, <3>2, <4>1
    <3> QED
      BY <3>1, <3>2
  <2>4. Q = [i \in 0..k + 1 |-> Q[i]]
    OBVIOUS
  <2> HIDE DEF Q
  <2>5. Joins(Q, g, k + 1)
    BY <2>3, <2>4 DEF Joins
  <2> QED
    BY <2>5
<1> HIDE DEF S
<1>3. n \in S
  BY <1>1, <1>2, Counting
<1> QED
  BY <1>3 DEF S

\* It begins with nothing.
LEMMA JoinStarts ==
  ASSUME NEW n \in Nat, NEW g, NEW R, Joins(R, g, n)
  PROVE  R[0] = Nothing
<1>1. \A i \in 0..n : R[i] = IF i = 0 THEN Nothing ELSE R[i - 1] \o g[i]
  BY DEF Joins
<1>2. 0 \in 0..n
  OBVIOUS
<1> QED
  BY <1>1, <1>2

\* Each part of it is the one before, continued with the next sequence.
Successive(R, g, n) == \A i \in Nat : i < n => R[i + 1] = R[i] \o g[i + 1]

\* It continues with one sequence after the other.
LEMMA JoinContinues ==
  ASSUME NEW n \in Nat, NEW g, NEW R, Joins(R, g, n)
  PROVE  Successive(R, g, n)
<1> SUFFICES ASSUME NEW i \in Nat, i < n
             PROVE  R[i + 1] = R[i] \o g[i + 1]
  BY DEF Successive
<1>1. \A k \in 0..n : R[k] = IF k = 0 THEN Nothing ELSE R[k - 1] \o g[k]
  BY DEF Joins
<1>2. i + 1 \in 0..n /\ i + 1 # 0 /\ (i + 1) - 1 = i
  OBVIOUS
<1> QED
  BY <1>1, <1>2

\* g holds n sequences.
Parts(g, n, E) == \A i \in Nat : i < n => g[i + 1] \in Seq(E)

\* g and h hold the same sequences after the first m.
SameAfter(g, h, m, n) == \A i \in Nat : m <= i /\ i < n => g[i + 1] = h[i + 1]

\* Sequences join to sequences.
LEMMA JoinSeq ==
  ASSUME NEW E, NEW n \in Nat, NEW g, NEW R, Parts(g, n, E), Joins(R, g, n)
  PROVE  \A i \in Nat : i <= n => R[i] \in Seq(E)
<1>1. Successive(R, g, n)
  BY JoinContinues, Zenon
<1> DEFINE S == {k \in Nat : k <= n => R[k] \in Seq(E)}
<1>2. 0 \in S
  <2>1. R[0] \in Seq(E)
    <3>1. R[0] = Nothing
      BY JoinStarts, Zenon
    <3> QED
      BY <3>1, NothingAdds
  <2> QED
    BY <2>1
<1>3. ASSUME NEW k \in Nat, k \in S
      PROVE  k + 1 \in S
  <2> SUFFICES ASSUME k + 1 <= n
               PROVE  R[k + 1] \in Seq(E)
    OBVIOUS
  <2>1. k < n /\ k <= n
    OBVIOUS
  <2>2. R[k] \in Seq(E) /\ g[k + 1] \in Seq(E)
    BY <1>3, <2>1 DEF Parts
  <2>3. R[k + 1] = R[k] \o g[k + 1]
    BY <1>1, <2>1, Zenon DEF Successive
  <2>4. R[k] \o g[k + 1] \in Seq(E)
    BY <2>2, ConcatProperties
  <2> QED
    BY <2>3, <2>4
<1> HIDE DEF S
<1>4. \A k \in Nat : k \in S
  BY <1>2, <1>3, Counting
<1> QED
  BY <1>4, Zenon DEF S

\* Two joins that agree after the first m sequences agree for as long as the sequences do.
LEMMA JoinsAgree ==
  ASSUME NEW n \in Nat, NEW g, NEW R, NEW h, NEW Q, NEW m \in Nat,
         Joins(R, g, n), Joins(Q, h, n), R[m] = Q[m], SameAfter(g, h, m, n)
  PROVE  \A i \in Nat : m <= i /\ i <= n => R[i] = Q[i]
<1>1. Successive(R, g, n) /\ Successive(Q, h, n)
  BY JoinContinues, Zenon
<1> DEFINE S == {k \in Nat : m + k <= n => R[m + k] = Q[m + k]}
<1>2. 0 \in S
  OBVIOUS
<1>3. ASSUME NEW k \in Nat, k \in S
      PROVE  k + 1 \in S
  <2> DEFINE i == m + k
  <2> SUFFICES ASSUME i + 1 <= n
               PROVE  R[i + 1] = Q[i + 1]
    OBVIOUS
  <2>1. i \in Nat /\ m <= i /\ i < n /\ R[i] = Q[i]
    BY <1>3
  <2> HIDE DEF i
  <2>2. R[i + 1] = R[i] \o g[i + 1]
    BY <1>1, <2>1, Zenon DEF Successive
  <2>3. Q[i + 1] = Q[i] \o h[i + 1]
    BY <1>1, <2>1, Zenon DEF Successive
  <2>4. g[i + 1] = h[i + 1]
    BY <2>1, Zenon DEF SameAfter
  <2> QED
    BY <2>1, <2>2, <2>3, <2>4, Zenon
<1> HIDE DEF S
<1>4. \A k \in Nat : k \in S
  BY <1>2, <1>3, Counting
<1>5. ASSUME NEW i \in Nat, m <= i, i <= n
      PROVE  R[i] = Q[i]
  <2>1. i - m \in Nat /\ m + (i - m) = i /\ i - m \in S
    BY <1>4, <1>5
  <2> QED
    BY <1>5, <2>1 DEF S
<1> QED
  BY <1>5

\* x is y continued with z.
IsConcat(x, y, z) == x = y \o z

\* R joins the sequences of g, Q those of h, and h is g without its first one.
Forgets(R, g, Q, h, n, E) ==
    /\ Parts(g, n, E) /\ Joins(R, g, n) /\ Parts(h, n, E) /\ Joins(Q, h, n)
    /\ h[1] = Nothing /\ SameAfter(g, h, 1, n)

\* A first sequence that is forgotten is missing at the beginning.
LEMMA JoinForgets ==
  ASSUME NEW E, NEW n \in Nat, NEW g, NEW R, NEW h, NEW Q, n >= 1, Forgets(R, g, Q, h, n, E)
  PROVE  IsConcat(R[n], g[1], Q[n])
<1>1. /\ Parts(g, n, E) /\ Joins(R, g, n) /\ Parts(h, n, E) /\ Joins(Q, h, n)
      /\ h[1] = Nothing /\ SameAfter(g, h, 1, n)
  BY DEF Forgets
<1> DEFINE a == g[1]
<1>2. a = g[1]
  OBVIOUS
<1> HIDE DEF a
<1> SUFFICES R[n] = a \o Q[n]
  BY Zenon DEF a, IsConcat
<1>3. Successive(R, g, n) /\ Successive(Q, h, n)
  BY <1>1, JoinContinues, Zenon
<1> DEFINE S == {k \in Nat : k + 1 <= n => R[k + 1] = a \o Q[k + 1]}
<1>4. a \in Seq(E)
  <2>1. 0 \in Nat /\ 0 < n /\ 0 + 1 = 1
    OBVIOUS
  <2>2. g[0 + 1] \in Seq(E)
    BY <1>1, <2>1, Zenon DEF Parts
  <2> QED
    BY <1>2, <2>1, <2>2, Zenon
<1>5. 0 \in S
  <2>1. 0 \in Nat /\ 0 < n /\ 0 + 1 = 1
    OBVIOUS
  <2>2. R[0 + 1] = R[0] \o g[0 + 1] /\ R[0] = Nothing
    BY <1>1, <2>1, JoinStarts, JoinContinues, Zenon DEF Successive
  <2>3. Q[0 + 1] = Q[0] \o h[0 + 1] /\ Q[0] = Nothing
    BY <1>1, <2>1, JoinStarts, JoinContinues, Zenon DEF Successive
  <2>4. R[1] = Nothing \o a /\ Q[1] = Nothing \o Nothing
    BY <1>2, <1>1, <2>1, <2>2, <2>3, Zenon
  <2>5. R[1] = a \o Q[1]
    BY <1>4, <2>4, NothingAdds, Zenon
  <2> QED
    BY <2>1, <2>5, Zenon
<1>6. ASSUME NEW k \in Nat, k \in S
      PROVE  k + 1 \in S
  <2> DEFINE i == k + 1
  <2>1. i \in Nat /\ 1 <= i
    OBVIOUS
  <2>2. i <= n => R[i] = a \o Q[i]
    BY <1>6, Zenon
  <2> HIDE DEF i
  <2> SUFFICES ASSUME i + 1 <= n
               PROVE  R[i + 1] = a \o Q[i + 1]
    BY <2>1, Zenon DEF i
  <2>3. i < n /\ i <= n
    BY <2>1
  <2>4. R[i + 1] = R[i] \o g[i + 1]
    BY <1>3, <2>1, <2>3, Zenon DEF Successive
  <2>5. Q[i + 1] = Q[i] \o h[i + 1]
    BY <1>3, <2>1, <2>3, Zenon DEF Successive
  <2>6. g[i + 1] = h[i + 1]
    BY <1>1, <2>1, <2>3, Zenon DEF SameAfter
  <2>7. Q[i] \in Seq(E) /\ g[i + 1] \in Seq(E)
    BY <1>1, <2>1, <2>3, JoinSeq, Zenon DEF Parts
  <2>8. (a \o Q[i]) \o g[i + 1] = a \o (Q[i] \o g[i + 1])
    <3>1. \A s, t, u \in Seq(E) : (s \o t) \o u = s \o (t \o u)
      BY ConcatAssociative, SMTT(30)
    <3> QED
      BY <1>4, <2>7, <3>1, Zenon
  <2> QED
    BY <2>2, <2>5, <2>3, <2>4, <2>6, <2>8, Zenon
<1> HIDE DEF S
<1>7. n - 1 \in Nat /\ (n - 1) + 1 = n /\ n <= n
  OBVIOUS
<1>8. n - 1 \in S
  BY <1>5, <1>6, <1>7, Counting, Zenon
<1>9. (n - 1) + 1 <= n => R[(n - 1) + 1] = a \o Q[(n - 1) + 1]
  BY <1>8, Zenon DEF S
<1> QED
  BY <1>7, <1>9, Zenon

\* The elements of a join are elements of what is joined.
LEMMA JoinElements ==
  ASSUME NEW E, NEW n \in Nat, NEW g, NEW R, NEW T, Parts(g, n, E), Joins(R, g, n),
         \A i \in Nat : i < n => \A j \in 1..Len(g[i + 1]) : g[i + 1][j] \in T
  PROVE  R[n] \in Seq(T)
<1>1. ASSUME NEW i \in Nat, i < n
      PROVE  g[i + 1] \in Seq(T)
  <2>1. g[i + 1] \in Seq(E) /\ \A j \in 1..Len(g[i + 1]) : g[i + 1][j] \in T
    BY <1>1 DEF Parts
  <2>2. g[i + 1] \in [1..Len(g[i + 1]) -> T] /\ Len(g[i + 1]) \in Nat
    BY <2>1, LenProperties
  <2> QED
    BY <2>2, SeqDef
<1>2. Parts(g, n, T)
  BY <1>1 DEF Parts
<1> QED
  BY <1>2, JoinSeq

-----------------------------------------------------------------------------
(* What the reader finds in a file, and in the files *)

\* The records of a file: its lines, and what follows them if it is a record.
content(f) == f.lines \o (IF f.tail.whole THEN <<f.tail.rec>> ELSE <<>>)

\* A file whose fragment is not counted as a record before it has begun.
Sound(f) == f \in File /\ (f.tail.whole => f.tail.rec # 0)

\* The content of a file is a sequence of records.
LEMMA ContentIsSeq ==
  ASSUME NEW f, Sound(f)
  PROVE  content(f) \in Seq(Record)
<1>1. f.lines \in Seq(Record)
  BY DEF Sound, File
<1>2. CASE f.tail.whole
  <2>1. f.tail.rec \in Record
    BY <1>2 DEF Sound, File, Record
  <2>2. <<f.tail.rec>> \in Seq(Record)
    BY <2>1
  <2>3. content(f) = f.lines \o <<f.tail.rec>>
    BY <1>2 DEF content
  <2> QED
    BY <1>1, <2>2, <2>3, ConcatProperties
<1>3. CASE ~f.tail.whole
  <2>1. content(f) = f.lines \o Nothing
    BY <1>3 DEF content, Nothing
  <2> QED
    BY <1>1, <2>1, NothingAdds
<1> QED
  BY <1>2, <1>3

\* The function by which read_jsonl collects the lines of a file.
KeptLines(f) ==
    CHOOSE K : K = [n \in 0..Len(f.lines) |->
        IF n = 0 THEN <<>>
        ELSE K[n - 1] \o (IF f.lines[n] = Malformed THEN <<>> ELSE <<f.lines[n]>>)]

\* A file without a malformed line loses none of its lines to read_jsonl.
LEMMA KeptLinesAre ==
  ASSUME NEW f, f \in File
  PROVE  KeptLines(f)[Len(f.lines)] = f.lines
<1> DEFINE n == Len(f.lines)
           g == [k \in 1..n |-> IF f.lines[k] = Malformed THEN <<>> ELSE <<f.lines[k]>>]
           Body(K) == [k \in 0..n |-> IF k = 0 THEN <<>>
                        ELSE K[k - 1] \o (IF f.lines[k] = Malformed THEN <<>> ELSE <<f.lines[k]>>)]
           K == KeptLines(f)
<1>1. f.lines \in Seq(Record) /\ n \in Nat
  BY DEF File
<1>2. \A R : Joins(R, g, n) <=> R = Body(R)
  <2> SUFFICES ASSUME NEW R
               PROVE  [k \in 0..n |-> IF k = 0 THEN Nothing ELSE R[k - 1] \o g[k]] = Body(R)
    BY DEF Joins
  <2>1. \A k \in 0..n : k # 0 => k \in 1..n
    BY <1>1
  <2> QED
    BY <2>1 DEF Nothing
<1>3. \E R : R = Body(R)
  <2>1. \E R : Joins(R, g, n)
    <3> HIDE DEF g, n
    <3> QED
      BY <1>1, JoinExists
  <2> QED
    BY <1>2, <2>1
<1>4. K = CHOOSE R : R = Body(R)
  BY DEF KeptLines
<1>5. K = Body(K)
  <2> HIDE DEF Body, K
  <2> QED
    BY <1>3, <1>4
<1>6. Joins(K, g, n)
  BY <1>2, <1>5
<1>7. \A k \in Nat : k < n => g[k + 1] = <<f.lines[k + 1]>>
  <2> SUFFICES ASSUME NEW k \in Nat, k < n
               PROVE  g[k + 1] = <<f.lines[k + 1]>>
    OBVIOUS
  <2>1. k + 1 \in 1..n /\ f.lines[k + 1] \in Record
    BY <1>1
  <2>2. f.lines[k + 1] # Malformed
    BY <2>1 DEF Record, Malformed
  <2> QED
    BY <2>1, <2>2
<1> DEFINE S == {k \in Nat : k <= n => K[k] = SubSeq(f.lines, 1, k)}
<1> HIDE DEF g, K, n
<1>8. 0 \in S
  <2>1. K[0] = Nothing
    BY <1>1, <1>6, JoinStarts
  <2>2. SubSeq(f.lines, 1, 0) = <<>>
    BY SubSeqEmpty
  <2> QED
    BY <2>1, <2>2 DEF Nothing
<1>9. ASSUME NEW k \in Nat, k \in S
      PROVE  k + 1 \in S
  <2> SUFFICES ASSUME k + 1 <= n
               PROVE  K[k + 1] = SubSeq(f.lines, 1, k + 1)
    OBVIOUS
  <2>1. k < n /\ k <= n /\ k + 1 \in 1..n /\ (k + 1) - 1 = k
    BY <1>1
  <2>2. Successive(K, g, n)
    BY <1>1, <1>6, JoinContinues
  <2>3. K[k + 1] = K[k] \o g[k + 1]
    BY <2>1, <2>2, Zenon DEF Successive
  <2>4. K[k + 1] = SubSeq(f.lines, 1, k) \o <<f.lines[k + 1]>>
    BY <1>7, <1>9, <2>1, <2>3, Zenon
  <2>5. SubSeq(f.lines, 1, k + 1) = SubSeq(f.lines, 1, (k + 1) - 1) \o <<f.lines[k + 1]>>
    <3>1. 1 \in 1..Len(f.lines) /\ k + 1 \in 1..Len(f.lines)
      BY <1>1, <2>1 DEF n
    <3> QED
      BY <1>1, <3>1, SubSeqRecursiveSecond
  <2> QED
    BY <2>1, <2>4, <2>5
<1> HIDE DEF S
<1>10. n \in S
  BY <1>1, <1>8, <1>9, Counting
<1>11. K[n] = SubSeq(f.lines, 1, n)
  BY <1>1, <1>10 DEF S
<1> QED
  BY <1>1, <1>11, SubSeqFull DEF n, K

\* So read_jsonl returns the content of the file.
LEMMA ReadsContent ==
  ASSUME NEW f, f \in File
  PROVE  read_jsonl(f) = content(f)
<1>1. read_jsonl(f) = KeptLines(f)[Len(f.lines)] \o (IF f.tail.whole THEN <<f.tail.rec>> ELSE <<>>)
  BY Zenon DEF read_jsonl, KeptLines
<1> QED
  BY <1>1, KeptLinesAre DEF content

\* The files, none of them with a fragment counted too early.
FileSet == [Indices -> {f \in File : Sound(f)}]
\* Their contents in the order in which rotated_paths lists them.
Contents(fs) == [i \in 1..BackupCount + 1 |-> content(fs[BackupCount + 1 - i])]
\* The function by which load collects them.
Reads(fs) ==
    CHOOSE R : R = [i \in 0..BackupCount + 1 |->
        IF i = 0 THEN <<>> ELSE R[i - 1] \o read_jsonl(fs[BackupCount + 1 - i])]

\* The reader joins the contents of the files, oldest first.
LEMMA LoadJoins ==
  ASSUME NEW fs \in FileSet
  PROVE  /\ Joins(Reads(fs), Contents(fs), BackupCount + 1)
         /\ Parts(Contents(fs), BackupCount + 1, Record)
         /\ load(fs) = Reads(fs)[BackupCount + 1]
<1> DEFINE n == BackupCount + 1
           Body(R) == [i \in 0..n |-> IF i = 0 THEN <<>>
                                      ELSE R[i - 1] \o read_jsonl(fs[BackupCount + 1 - i])]
           R0 == Reads(fs)
           g == Contents(fs)
<1>1. n \in Nat /\ \A i \in 1..n : BackupCount + 1 - i \in Indices
  BY SinkAssumption DEF Indices
<1>2. \A i \in 1..n : Sound(fs[BackupCount + 1 - i]) /\ fs[BackupCount + 1 - i] \in File
  BY <1>1 DEF FileSet
<1>3. \A i \in 1..n : g[i] = content(fs[BackupCount + 1 - i])
      /\ read_jsonl(fs[BackupCount + 1 - i]) = content(fs[BackupCount + 1 - i])
  <2>1. \A i \in 1..n : g[i] = content(fs[BackupCount + 1 - i])
    BY DEF Contents
  <2>2. \A i \in 1..n : read_jsonl(fs[BackupCount + 1 - i]) = content(fs[BackupCount + 1 - i])
    BY <1>2, ReadsContent, Zenon
  <2> QED
    BY <2>1, <2>2, Zenon
<1>4. \A R : Joins(R, g, n) <=> R = Body(R)
  <2> SUFFICES ASSUME NEW R
               PROVE  [k \in 0..n |-> IF k = 0 THEN Nothing ELSE R[k - 1] \o g[k]] = Body(R)
    BY DEF Joins
  <2>1. \A k \in 0..n : k # 0 => k \in 1..n
    BY <1>1
  <2>2. \A k \in 0..n : k # 0 => g[k] = read_jsonl(fs[BackupCount + 1 - k])
    BY <1>3, <2>1
  <2> HIDE DEF g
  <2> QED
    BY <2>2 DEF Nothing
<1>5. \E R : R = Body(R)
  <2>1. \E R : Joins(R, g, n)
    <3> HIDE DEF g, n
    <3> QED
      BY <1>1, JoinExists
  <2> QED
    BY <1>4, <2>1
<1>6. R0 = CHOOSE R : R = Body(R)
  BY Zenon DEF Reads
<1>7. R0 = Body(R0)
  <2> HIDE DEF Body, R0
  <2> QED
    BY <1>5, <1>6
<1>8. Joins(R0, g, n)
  BY <1>4, <1>7
<1>9. Parts(g, n, Record)
  <2> SUFFICES ASSUME NEW i \in Nat, i < n
               PROVE  g[i + 1] \in Seq(Record)
    BY DEF Parts
  <2>1. i + 1 \in 1..n
    BY <1>1
  <2>2. g[i + 1] = content(fs[BackupCount + 1 - (i + 1)]) /\ Sound(fs[BackupCount + 1 - (i + 1)])
    BY <1>2, <1>3, <2>1
  <2> QED
    BY <2>2, ContentIsSeq
<1>10. load(fs) = R0[n]
  BY Zenon DEF load, Reads
<1> QED
  BY <1>8, <1>9, <1>10

\* What the reader finds in the backups.
Older(fs) == Reads(fs)[BackupCount]

\* The content of a file, by the order in which the reader comes to it.
LEMMA ContentsAt ==
  ASSUME NEW fs, NEW k \in Nat, k < BackupCount + 1
  PROVE  Contents(fs)[k + 1] = content(fs[BackupCount - k])
<1>1. k + 1 \in 1..BackupCount + 1 /\ BackupCount + 1 - (k + 1) = BackupCount - k
  BY SinkAssumption
<1>2. Contents(fs)[k + 1] = content(fs[BackupCount + 1 - (k + 1)])
  BY <1>1 DEF Contents
<1> QED
  BY <1>1, <1>2

\* The reader comes to the current file last.
LEMMA LoadSplits ==
  ASSUME NEW fs \in FileSet
  PROVE  /\ Older(fs) \in Seq(Record) /\ load(fs) \in Seq(Record)
         /\ load(fs) = Older(fs) \o content(fs[0])
<1> DEFINE R == Reads(fs)
           g == Contents(fs)
           n == BackupCount + 1
<1>1. Joins(R, g, n) /\ Parts(g, n, Record) /\ load(fs) = R[BackupCount + 1]
  BY LoadJoins
<1>2. BackupCount \in Nat /\ BackupCount < n /\ n \in Nat /\ BackupCount <= n /\ n <= n
      /\ BackupCount - BackupCount = 0
  BY SinkAssumption
<1>3. g[BackupCount + 1] = content(fs[0])
  BY <1>2, ContentsAt
<1>4. Successive(R, g, n)
  <2> HIDE DEF R, g, n
  <2> QED
    BY <1>1, <1>2, JoinContinues
<1>5. R[BackupCount + 1] = R[BackupCount] \o g[BackupCount + 1]
  <2> HIDE DEF R, g, n
  <2> QED
    BY <1>2, <1>4, Zenon DEF Successive
<1>6. \A i \in Nat : i <= n => R[i] \in Seq(Record)
  <2> HIDE DEF R, g, n
  <2> QED
    BY <1>1, <1>2, JoinSeq
<1>7. R[BackupCount] \in Seq(Record) /\ R[n] \in Seq(Record)
  <2> HIDE DEF R, n
  <2> QED
    BY <1>2, <1>6, Zenon
<1> QED
  BY <1>1, <1>3, <1>5, <1>7, Zenon DEF Older

\* Files with the same backups.
LEMMA OlderSame ==
  ASSUME NEW fs \in FileSet, NEW gs \in FileSet,
         \A i \in Indices \ {0} : content(fs[i]) = content(gs[i])
  PROVE  Older(fs) = Older(gs)
<1> DEFINE n == BackupCount
           g == Contents(fs)
           h == Contents(gs)
           R == Reads(fs)
           Q == Reads(gs)
<1>1. n \in Nat /\ n + 1 \in Nat
  BY SinkAssumption
<1>2. ASSUME NEW k \in Nat, k < n
      PROVE  g[k + 1] = h[k + 1]
  <2>1. k < n + 1 /\ n - k \in Indices \ {0}
    BY <1>1, <1>2 DEF Indices
  <2> QED
    BY <2>1, ContentsAt
<1>3. Joins(R, g, n + 1) /\ Joins(Q, h, n + 1)
  BY LoadJoins
<1>4. Successive(R, g, n + 1) /\ R[0] = Nothing
  <2> HIDE DEF R, Q, g, h, n
  <2> QED
    BY <1>1, <1>3, JoinContinues, JoinStarts
<1>5. Successive(Q, h, n + 1) /\ Q[0] = Nothing
  <2> HIDE DEF R, Q, g, h, n
  <2> QED
    BY <1>1, <1>3, JoinContinues, JoinStarts
<1> DEFINE S == {k \in Nat : k <= n => R[k] = Q[k]}
<1> HIDE DEF R, Q, g, h, n
<1>6. 0 \in S
  BY <1>4, <1>5
<1>7. ASSUME NEW k \in Nat, k \in S
      PROVE  k + 1 \in S
  <2> SUFFICES ASSUME k + 1 <= n
               PROVE  R[k + 1] = Q[k + 1]
    OBVIOUS
  <2>1. k < n /\ k < n + 1 /\ k <= n
    BY <1>1
  <2>2. R[k + 1] = R[k] \o g[k + 1] /\ Q[k + 1] = Q[k] \o h[k + 1]
    BY <1>4, <1>5, <2>1, Zenon DEF Successive
  <2> QED
    BY <1>2, <1>7, <2>1, <2>2, Zenon
<1> HIDE DEF S
<1>8. n \in S
  BY <1>1, <1>6, <1>7, Counting
<1>9. R[n] = Q[n]
  BY <1>1, <1>8 DEF S
<1> QED
  BY <1>9 DEF Older, R, Q, n

\* The oldest backup removed.
LEMMA LoadForgets ==
  ASSUME NEW fs \in FileSet, NEW gs \in FileSet, content(gs[BackupCount]) = Nothing,
         \A i \in Indices \ {BackupCount} : content(fs[i]) = content(gs[i])
  PROVE  load(fs) = content(fs[BackupCount]) \o load(gs)
<1> DEFINE n == BackupCount + 1
           g == Contents(fs)
           h == Contents(gs)
           R == Reads(fs)
           Q == Reads(gs)
           a == content(fs[BackupCount])
<1>1. n \in Nat /\ n >= 1
  BY SinkAssumption
<1>2. SameAfter(g, h, 1, n)
  <2> SUFFICES ASSUME NEW k \in Nat, 1 <= k, k < n
               PROVE  g[k + 1] = h[k + 1]
    BY DEF SameAfter
  <2>1. BackupCount - k \in Indices \ {BackupCount}
    BY SinkAssumption DEF Indices
  <2> QED
    BY <2>1, ContentsAt
<1>3. a = g[1] /\ h[1] = Nothing
  <2>1. 0 \in Nat /\ 0 < n /\ 0 + 1 = 1 /\ BackupCount - 0 = BackupCount
    BY SinkAssumption
  <2>2. g[0 + 1] = content(fs[BackupCount - 0]) /\ h[0 + 1] = content(gs[BackupCount - 0])
    BY <2>1, ContentsAt
  <2> QED
    BY <2>1, <2>2
<1>4. /\ Joins(R, g, n) /\ Parts(g, n, Record) /\ load(fs) = R[n]
      /\ Joins(Q, h, n) /\ Parts(h, n, Record) /\ load(gs) = Q[n]
  BY LoadJoins
<1>5. IsConcat(R[n], g[1], Q[n])
  <2>1. Forgets(R, g, Q, h, n, Record)
    BY <1>2, <1>3, <1>4 DEF Forgets
  <2> HIDE DEF R, Q, g, h, n, a
  <2> QED
    BY <1>1, <2>1, JoinForgets
<1> QED
  BY <1>3, <1>4, <1>5, Zenon DEF IsConcat

\* A file moved up into an empty place.
LEMMA LoadMoves ==
  ASSUME NEW fs \in FileSet, NEW gs \in FileSet, NEW p \in Nat, p < BackupCount,
         content(fs[p + 1]) = Nothing, content(gs[p + 1]) = content(fs[p]),
         content(gs[p]) = Nothing,
         \A i \in Indices \ {p, p + 1} : content(fs[i]) = content(gs[i])
  PROVE  load(fs) = load(gs)
<1> DEFINE n == BackupCount + 1
           m == BackupCount - (p + 1)
           g == Contents(fs)
           h == Contents(gs)
           R == Reads(fs)
           Q == Reads(gs)
<1>1. /\ n \in Nat /\ m \in Nat /\ m < n /\ m + 1 \in Nat /\ m + 1 < n /\ (m + 1) + 1 \in Nat
      /\ (m + 1) + 1 <= n /\ n <= n /\ m <= m /\ m <= n /\ 0 <= m /\ (m + 1) + 1 <= n
      /\ BackupCount - m = p + 1 /\ BackupCount - (m + 1) = p
  BY SinkAssumption
<1>2. ASSUME NEW k \in Nat, k < n, k # m, k # m + 1
      PROVE  g[k + 1] = h[k + 1]
  <2>1. BackupCount - k \in Indices \ {p, p + 1}
    BY <1>2, SinkAssumption DEF Indices
  <2> QED
    BY <1>2, <2>1, ContentsAt
<1>3. /\ g[m + 1] = Nothing /\ h[(m + 1) + 1] = Nothing /\ h[m + 1] = g[(m + 1) + 1]
  <2>1. g[m + 1] = content(fs[p + 1]) /\ h[m + 1] = content(gs[p + 1])
    <3> HIDE DEF g, h
    <3> QED
      BY <1>1, ContentsAt DEF g, h
  <2>2. g[(m + 1) + 1] = content(fs[p]) /\ h[(m + 1) + 1] = content(gs[p])
    <3>1. m + 1 \in Nat /\ m + 1 < n /\ BackupCount - (m + 1) = p
      BY <1>1
    <3> QED
      BY <3>1, ContentsAt
  <2> QED
    BY <2>1, <2>2 DEF Nothing
<1>4. /\ Joins(R, g, n) /\ Parts(g, n, Record) /\ load(fs) = R[n]
      /\ Joins(Q, h, n) /\ Parts(h, n, Record) /\ load(gs) = Q[n]
  BY LoadJoins
<1> HIDE DEF R, Q, g, h, n, m
<1>5. Successive(R, g, n) /\ Successive(Q, h, n) /\ R[0] = Nothing /\ Q[0] = Nothing
  BY <1>1, <1>4, JoinContinues, JoinStarts, Zenon
<1>6. R[m] = Q[m]
  <2> DEFINE S == {k \in Nat : k <= m => R[k] = Q[k]}
  <2>1. 0 \in S
    BY <1>5
  <2>2. ASSUME NEW k \in Nat, k \in S
        PROVE  k + 1 \in S
    <3> SUFFICES ASSUME k + 1 <= m
                 PROVE  R[k + 1] = Q[k + 1]
      OBVIOUS
    <3>1. k < n /\ k # m /\ k # m + 1 /\ k <= m
      BY <1>1
    <3>2. R[k + 1] = R[k] \o g[k + 1] /\ Q[k + 1] = Q[k] \o h[k + 1]
      BY <1>5, <3>1, Zenon DEF Successive
    <3> QED
      BY <1>2, <2>2, <3>1, <3>2, Zenon
  <2> HIDE DEF S
  <2>3. m \in S
    BY <1>1, <2>1, <2>2, Counting
  <2> QED
    BY <1>1, <2>3 DEF S
<1>7. R[(m + 1) + 1] = Q[(m + 1) + 1]
  <2>1. R[m + 1] = R[m] \o Nothing /\ Q[m + 1] = Q[m] \o g[(m + 1) + 1]
    BY <1>1, <1>3, <1>5, Zenon DEF Successive
  <2>2. R[(m + 1) + 1] = R[m + 1] \o g[(m + 1) + 1] /\ Q[(m + 1) + 1] = Q[m + 1] \o Nothing
    BY <1>1, <1>3, <1>5, Zenon DEF Successive
  <2>3. R[m] \in Seq(Record) /\ Q[m + 1] \in Seq(Record)
    <3>1. \A i \in Nat : i <= n => R[i] \in Seq(Record)
      BY <1>1, <1>4, JoinSeq
    <3>2. \A i \in Nat : i <= n => Q[i] \in Seq(Record)
      BY <1>1, <1>4, JoinSeq
    <3>3. m + 1 \in Nat /\ m + 1 <= n
      BY <1>1
    <3> QED
      BY <1>1, <3>1, <3>2, <3>3, Zenon
  <2>4. R[m] \o Nothing = R[m] /\ Q[m + 1] \o Nothing = Q[m + 1]
    BY <2>3, NothingAdds
  <2> QED
    BY <1>6, <2>1, <2>2, <2>4, Zenon
<1>8. SameAfter(g, h, (m + 1) + 1, n)
  <2> SUFFICES ASSUME NEW k \in Nat, (m + 1) + 1 <= k, k < n
               PROVE  g[k + 1] = h[k + 1]
    BY DEF SameAfter
  <2>1. k # m /\ k # m + 1
    BY <1>1
  <2> QED
    BY <1>2, <2>1, Zenon
<1>9. R[n] = Q[n]
  <2> DEFINE q == (m + 1) + 1
  <2>1. q \in Nat /\ q <= n /\ R[q] = Q[q] /\ SameAfter(g, h, q, n)
    BY <1>1, <1>7, <1>8
  <2> HIDE DEF q
  <2>2. \A i \in Nat : q <= i /\ i <= n => R[i] = Q[i]
    BY <1>1, <1>4, <2>1, JoinsAgree
  <2> QED
    BY <1>1, <2>1, <2>2
<1> QED
  BY <1>4, <1>9

\* The reader finds what is in the files.
LEMMA LoadElements ==
  ASSUME NEW fs \in FileSet, NEW T,
         \A i \in Indices : \A j \in 1..Len(content(fs[i])) : content(fs[i])[j] \in T
  PROVE  load(fs) \in Seq(T)
<1> DEFINE n == BackupCount + 1
           g == Contents(fs)
           R == Reads(fs)
<1>1. n \in Nat
  BY SinkAssumption
<1>2. Joins(R, g, n) /\ Parts(g, n, Record) /\ load(fs) = R[n]
  BY LoadJoins
<1>3. ASSUME NEW k \in Nat, k < n
      PROVE  \A j \in 1..Len(g[k + 1]) : g[k + 1][j] \in T
  <2>1. BackupCount - k \in Indices
    BY <1>3, SinkAssumption DEF Indices
  <2>2. g[k + 1] = content(fs[BackupCount - k])
    BY <1>3, ContentsAt
  <2> QED
    BY <2>1, <2>2
<1> HIDE DEF R, g, n
<1>4. R[n] \in Seq(T)
  BY <1>1, <1>2, <1>3, JoinElements
<1> QED
  BY <1>2, <1>4

-----------------------------------------------------------------------------
(* Steps of the log *)

\* Nothing changes.
LEMMA SameExtends ==
  ASSUME NEW l \in Seq(Record)
  PROVE  Log!Extends(l, l)
<1>1. Len(l) \in Nat /\ SubSeq(l, 1, Len(l)) = l
  BY SubSeqFull
<1>2. \A i \in 1..Len(l) - 1 : ~(i >= Len(l))
  BY <1>1
<1> QED
  BY <1>1, <1>2 DEF Log!Extends

\* Newer records arrive at the end, some of them earlier than others.
LEMMA GrowsExtends ==
  ASSUME NEW A \in Seq(Record), NEW recs \in Seq(Record), NEW p \in Nat, NEW q \in Nat,
         p <= q, q <= Len(recs),
         \A j \in 1..Len(A), k \in 1..Len(recs) : A[j] < recs[k],
         \A k, m \in 1..Len(recs) : k < m => recs[k] < recs[m]
  PROVE  Log!Extends(A \o SubSeq(recs, 1, p), A \o SubSeq(recs, 1, q))
<1> DEFINE x == SubSeq(recs, 1, p)
           y == SubSeq(recs, 1, q)
           l == A \o x
           s == A \o y
           a == Len(A)
<1>1. a \in Nat /\ Len(recs) \in Nat
  OBVIOUS
<1>2. /\ x \in Seq(Record) /\ Len(x) = p /\ \A i \in 1..p : x[i] = recs[i]
      /\ y \in Seq(Record) /\ Len(y) = q /\ \A i \in 1..q : y[i] = recs[i]
  BY <1>1
<1> HIDE DEF x, y
<1>3. /\ l \in Seq(Record) /\ Len(l) = a + p
      /\ \A i \in 1..a + p : l[i] = IF i <= a THEN A[i] ELSE x[i - a]
  BY <1>2, ConcatProperties
<1>4. /\ s \in Seq(Record) /\ Len(s) = a + q
      /\ \A i \in 1..a + q : s[i] = IF i <= a THEN A[i] ELSE y[i - a]
  BY <1>2, ConcatProperties
<1> HIDE DEF l, s
<1>5. \A i \in 1..a + p : l[i] = s[i]
  <2> SUFFICES ASSUME NEW i \in 1..a + p
               PROVE  l[i] = s[i]
    OBVIOUS
  <2>1. i \in 1..a + q
    BY <1>1
  <2>2. ~(i <= a) => i - a \in 1..p /\ i - a \in 1..q
    BY <1>1
  <2> QED
    BY <1>2, <1>3, <1>4, <2>1, <2>2
<1>6. SubSeq(s, 1, a + p) = l
  <2> DEFINE t == SubSeq(s, 1, a + p)
  <2>1. \A i \in 1..a + p : s[i] \in Record
    BY <1>1, <1>4
  <2>2. t \in Seq(Record) /\ Len(t) = a + p /\ \A i \in 1..a + p : t[i] = s[i]
    BY <1>1, <1>4
  <2> HIDE DEF t
  <2>3. t = l
    BY <1>1, <1>3, <1>5, <2>2, SeqEqual
  <2> QED
    BY <2>3 DEF t
<1>7. \A i \in 1..(a + q) - 1 : i >= a + p => s[i] < s[i + 1]
  <2> SUFFICES ASSUME NEW i \in 1..(a + q) - 1, i >= a + p
               PROVE  s[i] < s[i + 1]
    OBVIOUS
  <2>1. i + 1 \in 1..a + q /\ ~(i + 1 <= a) /\ (i + 1) - a \in 1..q
        /\ (i + 1) - a \in 1..Len(recs)
    BY <1>1
  <2>2. s[i + 1] = recs[(i + 1) - a]
    BY <1>2, <1>4, <2>1
  <2>3. CASE i <= a
    <3>1. i \in 1..a /\ s[i] = A[i]
      BY <1>1, <1>4, <2>3
    <3> QED
      BY <2>1, <2>2, <3>1
  <2>4. CASE ~(i <= a)
    <3>1. i \in 1..a + q /\ i - a \in 1..q /\ i - a \in 1..Len(recs) /\ i - a < (i + 1) - a
      BY <1>1, <2>4
    <3>2. s[i] = recs[i - a]
      BY <1>2, <1>4, <2>4, <3>1
    <3> QED
      BY <2>1, <2>2, <3>1, <3>2
  <2> QED
    BY <2>3, <2>4
<1>8. Log!Extends(l, s)
  BY <1>1, <1>3, <1>4, <1>6, <1>7 DEF Log!Extends
<1> QED
  BY <1>8 DEF l, s, x, y

\* What follows the records that were forgotten.
LEMMA SuffixForgets ==
  ASSUME NEW a \in Seq(Record), NEW b \in Seq(Record)
  PROVE  b \in Log!Suffixes(a \o b)
<1> DEFINE l == a \o b
           t == SubSeq(l, Len(a) + 1, Len(l))
<1>1. /\ l \in Seq(Record) /\ Len(l) = Len(a) + Len(b) /\ Len(a) \in Nat /\ Len(b) \in Nat
      /\ \A i \in 1..Len(a) + Len(b) : l[i] = IF i <= Len(a) THEN a[i] ELSE b[i - Len(a)]
  BY ConcatProperties
<1> HIDE DEF l
<1>2. t \in Seq(Record) /\ Len(t) = Len(b) /\ \A i \in 1..Len(b) : t[i] = l[Len(a) + i]
  <2>1. \A i \in Len(a) + 1..Len(l) : l[i] \in Record
    BY <1>1
  <2>2. Len(t) = Len(b)
    BY <1>1
  <2>3. \A i \in 1..Len(b) : Len(a) + 1 + i - 1 = Len(a) + i /\ i \in 1..Len(l) - (Len(a) + 1) + 1
    BY <1>1
  <2>4. \A i \in 1..Len(l) - (Len(a) + 1) + 1 : t[i] = l[Len(a) + 1 + i - 1]
    BY <1>1, <2>1, SubSeqProperties
  <2>5. t \in Seq(Record)
    BY <1>1, <2>1, SubSeqProperties
  <2> QED
    BY <2>2, <2>3, <2>4, <2>5
<1>3. \A i \in 1..Len(b) : t[i] = b[i]
  <2> SUFFICES ASSUME NEW i \in 1..Len(b)
               PROVE  l[Len(a) + i] = b[i]
    BY <1>2
  <2>1. Len(a) + i \in 1..Len(a) + Len(b) /\ ~(Len(a) + i <= Len(a)) /\ (Len(a) + i) - Len(a) = i
    BY <1>1
  <2> QED
    BY <1>1, <2>1
<1>4. Len(a) + 1 \in 1..Len(l) + 1
  BY <1>1
<1>5. t \in Log!Suffixes(l)
  BY <1>4 DEF Log!Suffixes
<1> HIDE DEF t
<1>6. t = b
  BY <1>2, <1>3, SeqEqual
<1> QED
  BY <1>5, <1>6 DEF l

\* What is left when records at the end are lost.
LEMMA PrefixLoses ==
  ASSUME NEW a \in Seq(Record), NEW b \in Seq(Record), NEW k \in 0..Len(b)
  PROVE  a \o SubSeq(b, 1, k) \in Log!Prefixes(a \o b)
<1> DEFINE l == a \o b
           n == Len(a) + k
           t == SubSeq(l, 1, n)
           c == SubSeq(b, 1, k)
           u == a \o c
<1>1. /\ l \in Seq(Record) /\ Len(l) = Len(a) + Len(b) /\ Len(a) \in Nat /\ Len(b) \in Nat
      /\ \A i \in 1..Len(a) + Len(b) : l[i] = IF i <= Len(a) THEN a[i] ELSE b[i - Len(a)]
  BY ConcatProperties
<1>2. c \in Seq(Record) /\ Len(c) = k /\ k \in Nat /\ \A i \in 1..k : c[i] = b[i]
  BY <1>1
<1> HIDE DEF l, c
<1>3. /\ u \in Seq(Record) /\ Len(u) = Len(a) + Len(c)
      /\ \A i \in 1..Len(a) + Len(c) : u[i] = IF i <= Len(a) THEN a[i] ELSE c[i - Len(a)]
  BY <1>2, ConcatProperties
<1>4. n \in 0..Len(l) /\ n \in Nat /\ Len(a) + Len(c) = n /\ Len(u) = n
  BY <1>1, <1>2, <1>3
<1>5. t \in Seq(Record) /\ Len(t) = n /\ \A i \in 1..n : t[i] = l[i]
  BY <1>1, <1>4
<1> HIDE DEF u
<1>6. \A i \in 1..n : t[i] = u[i]
  <2> SUFFICES ASSUME NEW i \in 1..n
               PROVE  l[i] = u[i]
    BY <1>5
  <2>1. i \in 1..Len(a) + Len(b) /\ (~(i <= Len(a)) => i - Len(a) \in 1..k)
    BY <1>1, <1>2
  <2> QED
    BY <1>1, <1>2, <1>3, <2>1
<1>7. t \in Log!Prefixes(l)
  BY <1>4 DEF Log!Prefixes
<1> HIDE DEF t, n
<1>8. t = u
  BY <1>3, <1>4, <1>5, <1>6, SeqEqual
<1> QED
  BY <1>7, <1>8 DEF l, u, c

-----------------------------------------------------------------------------
(* A file that is being written *)

\* How many of the records being written the reader sees already.
Begun(f) == IF f.tail.whole THEN 1 ELSE 0

\* recs can be appended to f.
Fits(f, recs) == Sound(f) /\ recs \in Seq(Record) /\ Len(recs) >= 1 /\ f.tail.rec \in {0, recs[1]}

\* h is f when some more of recs have reached it.
Reached(f, recs, h) ==
    \E q \in Nat : Begun(f) <= q /\ q <= Len(recs) /\ content(h) = f.lines \o SubSeq(recs, 1, q)

\* A file with a given end.
LEMMA ContentEnds ==
  ASSUME NEW f, f.lines \in Seq(Record)
  PROVE  /\ ~f.tail.whole => content(f) = f.lines
         /\ f.tail.whole => content(f) = f.lines \o <<f.tail.rec>>
<1>1. CASE f.tail.whole
  BY <1>1 DEF content
<1>2. CASE ~f.tail.whole
  <2>1. content(f) = f.lines \o Nothing
    BY <1>2 DEF content, Nothing
  <2> QED
    BY <1>2, <2>1, NothingAdds
<1> QED
  BY <1>1, <1>2

\* One more record.
LEMMA FirstRecords ==
  ASSUME NEW s \in Seq(Record), NEW recs \in Seq(Record)
  PROVE  /\ s \o SubSeq(recs, 1, 0) = s
         /\ \A k \in Nat : k < Len(recs) =>
                (s \o SubSeq(recs, 1, k)) \o <<recs[k + 1]>> = s \o SubSeq(recs, 1, k + 1)
         /\ SubSeq(recs, 1, Len(recs)) = recs
<1>1. SubSeq(recs, 1, 0) = Nothing
  BY SubSeqEmpty DEF Nothing
<1>2. s \o SubSeq(recs, 1, 0) = s
  BY <1>1, NothingAdds
<1>3. ASSUME NEW k \in Nat, k < Len(recs)
      PROVE  (s \o SubSeq(recs, 1, k)) \o <<recs[k + 1]>> = s \o SubSeq(recs, 1, k + 1)
  <2>1. Len(recs) \in Nat /\ k + 1 \in 1..Len(recs) /\ 1 \in 1..Len(recs) /\ (k + 1) - 1 = k
    BY <1>3
  <2>2. SubSeq(recs, 1, k + 1) = SubSeq(recs, 1, (k + 1) - 1) \o <<recs[k + 1]>>
    BY <2>1, SubSeqRecursiveSecond
  <2>3. SubSeq(recs, 1, k) \in Seq(Record) /\ <<recs[k + 1]>> \in Seq(Record)
    BY <1>3, <2>1
  <2> DEFINE x == SubSeq(recs, 1, k)
             y == <<recs[k + 1]>>
  <2>4. SubSeq(recs, 1, k + 1) = x \o y /\ x \in Seq(Record) /\ y \in Seq(Record)
    BY <2>1, <2>2, <2>3
  <2> HIDE DEF x, y
  <2>5. (s \o x) \o y = s \o (x \o y)
    <3>1. \A t, u, v \in Seq(Record) : (t \o u) \o v = t \o (u \o v)
      BY ConcatAssociative, SMTT(30)
    <3> QED
      BY <2>4, <3>1, Zenon
  <2> QED
    BY <2>4, <2>5, Zenon DEF x, y
<1>4. SubSeq(recs, 1, Len(recs)) = recs
  BY SubSeqFull
<1> QED
  BY <1>2, <1>3, <1>4, Zenon

\* What the reader sees of a file that is being written.
LEMMA ContentBegun ==
  ASSUME NEW f, NEW recs, Fits(f, recs)
  PROVE  content(f) = f.lines \o SubSeq(recs, 1, Begun(f)) /\ Begun(f) \in 0..1
<1>1. f.lines \in Seq(Record) /\ recs \in Seq(Record) /\ 0 < Len(recs) /\ 0 \in Nat
  BY DEF Fits, Sound, File
<1>2. CASE f.tail.whole
  <2>1. f.tail.rec = recs[1] /\ Begun(f) = 1
    BY <1>2 DEF Fits, Sound, Begun
  <2>2. content(f) = f.lines \o <<recs[1]>>
    BY <1>1, <1>2, <2>1, ContentEnds
  <2>3. (f.lines \o SubSeq(recs, 1, 0)) \o <<recs[0 + 1]>> = f.lines \o SubSeq(recs, 1, 0 + 1)
        /\ f.lines \o SubSeq(recs, 1, 0) = f.lines
    BY <1>1, FirstRecords
  <2>4. 0 + 1 = 1
    OBVIOUS
  <2> QED
    BY <2>1, <2>2, <2>3, <2>4
<1>3. CASE ~f.tail.whole
  <2>1. Begun(f) = 0
    BY <1>3 DEF Begun
  <2>2. content(f) = f.lines
    BY <1>1, <1>3, ContentEnds
  <2>3. f.lines \o SubSeq(recs, 1, 0) = f.lines
    BY <1>1, FirstRecords
  <2> QED
    BY <2>1, <2>2, <2>3
<1> QED
  BY <1>2, <1>3

\* A write that gets through.
LEMMA AppendReaches ==
  ASSUME NEW f, NEW recs, Fits(f, recs)
  PROVE  /\ Sound(Append_(f, recs)) /\ Append_(f, recs).tail = NoTail
         /\ Append_(f, recs).lines = f.lines \o recs /\ Append_(f, recs).exists = f.exists
         /\ content(Append_(f, recs)) = f.lines \o recs
         /\ Reached(f, recs, Append_(f, recs))
<1> DEFINE h == Append_(f, recs)
<1>1. f \in File /\ f.lines \in Seq(Record) /\ recs \in Seq(Record) /\ recs # <<>>
      /\ Len(recs) \in Nat
  BY DEF Fits, Sound, File
<1>2. h = [f EXCEPT !.lines = @ \o recs, !.tail = NoTail]
  <2>1. Head(recs) = recs[1]
    BY <1>1
  <2> QED
    BY <2>1 DEF Append_, Fits
<1>3. h \in File /\ h.tail.rec = 0
  BY <1>1, AppendCompletes DEF Fits
<1>4. h.tail = NoTail /\ h.lines = f.lines \o recs /\ h.exists = f.exists
  BY <1>1, <1>2 DEF File
<1> HIDE DEF h
<1>5. ~h.tail.whole
  BY <1>4 DEF NoTail
<1>6. content(h) = f.lines \o recs
  BY <1>3, <1>4, <1>5, ContentEnds DEF File
<1>7. Sound(h)
  BY <1>3, <1>5 DEF Sound
<1>8. Reached(f, recs, h)
  <2>1. SubSeq(recs, 1, Len(recs)) = recs
    BY <1>1, FirstRecords
  <2>2. Begun(f) <= Len(recs)
    BY <1>1 DEF Begun, Fits
  <2>3. content(h) = f.lines \o SubSeq(recs, 1, Len(recs))
    BY <1>6, <2>1, Zenon
  <2>4. Len(recs) <= Len(recs)
    BY <1>1
  <2> QED
    BY <1>1, <2>2, <2>3, <2>4, Zenon DEF Reached
<1> QED
  BY <1>4, <1>6, <1>7, <1>8 DEF h

\* h is f with k of recs written to the end, and perhaps the next one begun.
TornAt(h, f, recs, k) ==
    /\ Sound(h) /\ h.exists = f.exists /\ h.lines = f.lines \o SubSeq(recs, 1, k)
    /\ h.tail.rec \in {0, recs[k + 1]}

\* A write that is interrupted.
LEMMA TornReaches ==
  ASSUME NEW f, NEW recs, NEW k \in 0..Len(recs) - 1, NEW cut \in {"none", "partial", "whole"},
         Fits(f, recs)
  PROVE  TornAt(Torn(f, recs, k, cut), f, recs, k) /\ Reached(f, recs, Torn(f, recs, k, cut))
<1> DEFINE x == SubSeq(recs, 1, k)
           base == IF k = 0 THEN f ELSE Append_(f, x)
           tail == [rec |-> recs[k + 1], whole |-> cut = "whole" \/ base.tail.whole]
           h == Torn(f, recs, k, cut)
<1>1. f \in File /\ f.lines \in Seq(Record) /\ recs \in Seq(Record) /\ Len(recs) \in Nat
  BY DEF Fits, Sound, File
<1>2. k \in Nat /\ k < Len(recs) /\ k + 1 \in 1..Len(recs) /\ recs[k + 1] \in Record
  BY <1>1
<1>3. /\ Sound(base) /\ base.lines = f.lines \o x /\ base.exists = f.exists
      /\ base.tail.rec \in {0, recs[k + 1]} /\ (k # 0 => ~base.tail.whole)
  <2>1. CASE k = 0
    <3>1. f.lines \o SubSeq(recs, 1, 0) = f.lines
      BY <1>1, FirstRecords
    <3> QED
      BY <2>1, <3>1 DEF Fits
  <2>2. CASE k # 0
    <3>1. x \in Seq(Record) /\ Len(x) >= 1 /\ x[1] = recs[1]
      BY <1>1, <1>2, <2>2
    <3> HIDE DEF x
    <3>2. Fits(f, x)
      BY <3>1 DEF Fits
    <3> QED
      BY <2>2, <3>2, AppendReaches DEF NoTail
  <2> QED
    BY <2>1, <2>2
<1>4. h = IF cut = "none" THEN base ELSE [base EXCEPT !.tail = tail]
  BY DEF Torn
<1> HIDE DEF base
<1>5. tail \in [rec : Nat, whole : BOOLEAN] /\ tail.rec = recs[k + 1] /\ recs[k + 1] # 0
      /\ (tail.whole <=> cut = "whole" \/ base.tail.whole)
  <2>1. (cut = "whole" \/ base.tail.whole) \in BOOLEAN
    BY Zenon
  <2> QED
    BY <1>2, <2>1 DEF Record
<1> HIDE DEF tail, h
<1>6. /\ Sound(h) /\ h.lines = f.lines \o x /\ h.exists = f.exists
      /\ h.tail.rec \in {0, recs[k + 1]}
      /\ (base.tail.whole => h.tail.whole)
  <2>1. CASE cut = "none"
    BY <1>3, <1>4, <2>1
  <2>2. CASE cut # "none"
    <3>1. h = [base EXCEPT !.tail = tail] /\ base \in File
      BY <1>3, <1>4, <2>2 DEF Sound
    <3>2. h \in File /\ h.tail = tail /\ h.lines = base.lines /\ h.exists = base.exists
      BY <1>5, <3>1 DEF File
    <3> QED
      BY <1>3, <1>5, <3>2 DEF Sound
  <2> QED
    BY <2>1, <2>2
<1>7. Reached(f, recs, h)
  <2>1. h.lines \in Seq(Record)
    BY <1>6 DEF Sound, File
  <2>2. CASE h.tail.whole
    <3>1. h.tail.rec = recs[k + 1]
      BY <1>6, <2>2 DEF Sound
    <3>2. content(h) = (f.lines \o x) \o <<recs[k + 1]>>
      BY <1>6, <2>1, <2>2, <3>1, ContentEnds
    <3>3. (f.lines \o x) \o <<recs[k + 1]>> = f.lines \o SubSeq(recs, 1, k + 1)
      BY <1>1, <1>2, FirstRecords
    <3>4. k + 1 \in Nat /\ Begun(f) <= k + 1 /\ k + 1 <= Len(recs)
      BY <1>2 DEF Begun
    <3>5. content(h) = f.lines \o SubSeq(recs, 1, k + 1)
      BY <3>2, <3>3, Zenon
    <3> QED
      BY <3>4, <3>5, Zenon DEF Reached
  <2>3. CASE ~h.tail.whole
    <3>1. content(h) = f.lines \o x
      BY <1>6, <2>1, <2>3, ContentEnds
    <3>2. Begun(f) <= k /\ k <= Len(recs)
      <4>1. CASE k = 0
        <5>1. base = f
          BY <4>1 DEF base
        <5>2. ~f.tail.whole
          BY <1>6, <2>3, <5>1
        <5> QED
          BY <1>2, <5>2 DEF Begun
      <4>2. CASE k # 0
        BY <1>2, <4>2 DEF Begun
      <4> QED
        BY <4>1, <4>2
    <3> QED
      BY <1>2, <3>1, <3>2, Zenon DEF Reached, x
  <2> QED
    BY <2>2, <2>3
<1> QED
  BY <1>6, <1>7, Zenon DEF h, x, TornAt

-----------------------------------------------------------------------------
(* The order of the records, as an invariant *)

\* A missing file is empty, a fragment counts as a record only once it has begun, and
\* during the repair the records are in the bytes about to be written back.
Shapes ==
    /\ \A i \in Indices : Sound(files[i])
    /\ \A i \in Indices : ~files[i].exists => files[i] = Absent
    /\ Sound(salvage) /\ salvage.exists
    /\ pc = "repairing" => files[0] = Empty
    /\ pc # "repairing" => salvage = Empty

\* All lines of f are older than r.
LinesBelow(f, r) == \A j \in 1..Len(f.lines) : f.lines[j] < r

\* Records are newer the later they are on their way: written lines, the fragment at the
\* end, the records the handle holds.
Fresh ==
    /\ \A i \in Indices : LinesBelow(files[i], issued + 1)
    /\ LinesBelow(salvage, issued + 1)
    /\ \A k \in 1..Len(buffer) : buffer[k] <= issued
    /\ \A k, m \in 1..Len(buffer) : k < m => buffer[k] < buffer[m]
    /\ \A k \in 1..Len(buffer), i \in Indices : LinesBelow(files[i], buffer[k])
    /\ files[0].tail.rec # 0 =>
            files[0].tail.rec <= issued
            /\ \A i \in Indices : LinesBelow(files[i], files[0].tail.rec)

\* In a rotation the place a file moves to is free.
Vacated == pc = "rotating" /\ at >= 0 /\ at < BackupCount => ~files[at + 1].exists

\* The handle is open on a file that is there.
Present ==
    /\ handle \in BOOLEAN
    /\ handle \/ buffer # <<>> => files[0].exists
    /\ pc = "rotating" => ~handle /\ (at >= 0 => files[0].exists)

\* The inductive invariant of the order.
LogInv == SinkInv /\ Shapes /\ Fresh /\ Vacated /\ Present

\* Missing and empty files.
LEMMA EmptyIsSound ==
  /\ Sound(Empty) /\ Sound(Absent) /\ Empty.lines = <<>> /\ Absent.lines = <<>>
  /\ Len(Empty.lines) = 0 /\ Len(Absent.lines) = 0
  /\ content(Empty) = Nothing /\ content(Absent) = Nothing
  /\ Empty.tail = NoTail /\ Absent.tail = NoTail /\ ~Absent.exists /\ Empty.exists
<1>1. Empty \in File /\ Absent \in File /\ ~NoTail.whole /\ NoTail.rec = 0
  BY EmptyIsFile DEF NoTail
<1>2. Empty.lines = <<>> /\ Empty.tail = NoTail /\ Empty.exists
  BY DEF Empty
<1>3. Absent.lines = <<>> /\ Absent.tail = NoTail /\ ~Absent.exists
  BY DEF Absent, Empty
<1>4. Sound(Empty) /\ Sound(Absent)
  BY <1>1, <1>2, <1>3 DEF Sound
<1>5. content(Empty) = <<>> /\ content(Absent) = <<>>
  <2>1. Empty.lines \in Seq(Record) /\ Absent.lines \in Seq(Record)
    BY <1>1 DEF File
  <2> QED
    BY <1>1, <1>2, <1>3, <2>1, ContentEnds
<1>6. Len(Empty.lines) = 0 /\ Len(Absent.lines) = 0
  BY <1>2, <1>3
<1> QED
  BY <1>2, <1>3, <1>4, <1>5, <1>6 DEF Nothing

\* A step that changes no file but the current one, and does not rotate.
LEMMA LogCurrent ==
  ASSUME LogInv, SinkInv', NEW f, Sound(f), files' = [files EXCEPT ![0] = f],
         f.exists \/ f = Absent, Sound(salvage'), salvage'.exists, handle' \in BOOLEAN,
         handle' \/ buffer' # <<>> => f.exists,
         pc' = "rotating" => ~handle' /\ (at' >= 0 => f.exists),
         pc' = "repairing" => f = Empty, pc' # "repairing" => salvage' = Empty,
         ~(pc' = "rotating" /\ at' >= 0 /\ at' < BackupCount),
         issued' \in Nat, issued <= issued',
         LinesBelow(f, issued' + 1), LinesBelow(salvage', issued' + 1),
         \A k \in 1..Len(buffer') : buffer'[k] <= issued',
         \A k, m \in 1..Len(buffer') : k < m => buffer'[k] < buffer'[m],
         \A k \in 1..Len(buffer') : LinesBelow(f, buffer'[k]),
         \A k \in 1..Len(buffer') :
            (\E m \in 1..Len(buffer) : buffer'[k] = buffer[m]) \/ buffer'[k] = issued + 1,
         f.tail.rec # 0 => f.tail.rec <= issued' /\ LinesBelow(f, f.tail.rec),
         f.tail.rec # 0 => f.tail.rec = files[0].tail.rec
                            \/ (\E m \in 1..Len(buffer) : f.tail.rec = buffer[m])
                            \/ (\A i \in Indices \ {0} : LinesBelow(files[i], f.tail.rec))
  PROVE  LogInv'
<1>1. files \in [Indices -> File] /\ 0 \in Indices /\ issued \in Nat
  BY SinkAssumption DEF LogInv, SinkInv, Types, Indices
<1>2. files'[0] = f /\ \A i \in Indices \ {0} : files'[i] = files[i]
  BY <1>1
<1>3. Shapes'
  BY <1>2 DEF LogInv, Shapes
<1>4. Vacated' /\ Present'
  BY <1>2 DEF Vacated, Present
<1>5. \A i \in Indices \ {0} : files[i] \in File /\ LinesBelow(files[i], issued + 1)
  BY <1>1 DEF LogInv, Fresh
<1>6. \A i \in Indices \ {0} : LinesBelow(files[i], issued' + 1)
  <2> SUFFICES ASSUME NEW i \in Indices \ {0}, NEW j \in 1..Len(files[i].lines)
               PROVE  files[i].lines[j] < issued' + 1
    BY DEF LinesBelow
  <2>1. files[i].lines[j] < issued + 1 /\ files[i].lines[j] \in Nat
    BY <1>5 DEF LinesBelow, File, Record
  <2> QED
    BY <1>1, <2>1
<1>7. \A k \in 1..Len(buffer'), i \in Indices \ {0} : LinesBelow(files[i], buffer'[k])
  <2> SUFFICES ASSUME NEW k \in 1..Len(buffer'), NEW i \in Indices \ {0}
               PROVE  LinesBelow(files[i], buffer'[k])
    OBVIOUS
  <2>1. CASE buffer'[k] = issued + 1
    BY <1>5, <2>1
  <2>2. CASE \E m \in 1..Len(buffer) : buffer'[k] = buffer[m]
    BY <2>2 DEF LogInv, Fresh
  <2> QED
    BY <2>1, <2>2
<1>8. f.tail.rec # 0 => \A i \in Indices \ {0} : LinesBelow(files[i], f.tail.rec)
  <2>1. CASE f.tail.rec # 0 /\ f.tail.rec = files[0].tail.rec
    BY <2>1 DEF LogInv, Fresh
  <2>2. CASE f.tail.rec # 0 /\ \E m \in 1..Len(buffer) : f.tail.rec = buffer[m]
    BY <2>2 DEF LogInv, Fresh
  <2>3. CASE \A i \in Indices \ {0} : LinesBelow(files[i], f.tail.rec)
    BY <2>3
  <2> QED
    BY <2>1, <2>2, <2>3
<1>9. Fresh'
  <2>1. \A i \in Indices : LinesBelow(files'[i], issued' + 1)
    BY <1>2, <1>6
  <2>2. \A k \in 1..Len(buffer'), i \in Indices : LinesBelow(files'[i], buffer'[k])
    BY <1>2, <1>7
  <2>3. f.tail.rec # 0 => \A i \in Indices : LinesBelow(files'[i], f.tail.rec)
    BY <1>2, <1>8
  <2> QED
    BY <1>2, <2>1, <2>2, <2>3 DEF Fresh, LinesBelow
<1> QED
  BY <1>3, <1>4, <1>9 DEF LogInv

-----------------------------------------------------------------------------
(* The invariant, action by action *)

\* Before the first start.
LEMMA LogInit == Init => LogInv
<1> SUFFICES ASSUME Init
             PROVE  LogInv
  OBVIOUS
<1>1. SinkInv
  BY SinkInit
<1>2. 0 \in Indices /\ \A i \in Indices : files[i] = Absent
  BY SinkAssumption DEF Init, Indices
<1>3. pc = "down" /\ salvage = Empty /\ issued = 0 /\ buffer = <<>> /\ Len(buffer) = 0
  BY DEF Init
<1>4. Shapes
  BY <1>2, <1>3, EmptyIsSound DEF Shapes
<1>5. \A r : LinesBelow(Absent, r) /\ LinesBelow(Empty, r)
  BY EmptyIsSound DEF LinesBelow
<1>6. files[0].tail.rec = 0
  BY <1>2, EmptyIsSound DEF NoTail
<1>7. Fresh
  BY <1>2, <1>3, <1>5, <1>6 DEF Fresh
<1>8. Vacated /\ Present
  BY <1>3 DEF Vacated, Present, Init
<1> QED
  BY <1>1, <1>4, <1>7, <1>8 DEF LogInv

\* The current file as the invariant has it.
LEMMA LogFacts ==
  ASSUME LogInv
  PROVE  /\ 0 \in Indices /\ files \in [Indices -> File] /\ issued \in Nat
         /\ buffer \in Seq(Record)
         /\ Sound(files[0]) /\ files[0] \in File /\ (files[0].exists \/ files[0] = Absent)
         /\ Sound(salvage) /\ salvage.exists
         /\ (pc # "repairing" => salvage = Empty) /\ (pc = "repairing" => files[0] = Empty)
         /\ LinesBelow(files[0], issued + 1) /\ LinesBelow(salvage, issued + 1)
         /\ (files[0].tail.rec # 0 =>
                 files[0].tail.rec <= issued /\ LinesBelow(files[0], files[0].tail.rec))
         /\ \A k \in 1..Len(buffer) : buffer[k] <= issued
         /\ \A k, m \in 1..Len(buffer) : k < m => buffer[k] < buffer[m]
         /\ \A k \in 1..Len(buffer) : LinesBelow(files[0], buffer[k])
<1>1. 0 \in Indices /\ files \in [Indices -> File] /\ issued \in Nat /\ buffer \in Seq(Record)
  BY SinkAssumption DEF LogInv, SinkInv, Types, Indices
<1>2. /\ Sound(files[0]) /\ (files[0].exists \/ files[0] = Absent) /\ Sound(salvage)
      /\ salvage.exists
      /\ (pc # "repairing" => salvage = Empty) /\ (pc = "repairing" => files[0] = Empty)
  BY <1>1 DEF LogInv, Shapes
<1>3. /\ LinesBelow(files[0], issued + 1) /\ LinesBelow(salvage, issued + 1)
      /\ (files[0].tail.rec # 0 =>
              files[0].tail.rec <= issued /\ LinesBelow(files[0], files[0].tail.rec))
      /\ \A k \in 1..Len(buffer) : LinesBelow(files[0], buffer[k])
  BY <1>1 DEF LogInv, Fresh
<1>4. /\ \A k \in 1..Len(buffer) : buffer[k] <= issued
      /\ \A k, m \in 1..Len(buffer) : k < m => buffer[k] < buffer[m]
  BY DEF LogInv, Fresh
<1> QED
  BY <1>1, <1>2, <1>3, <1>4

\* A step that leaves every file as it is, creates the current one or takes it away from nothing.
LEMMA LogLeaves ==
  ASSUME LogInv, SinkInv', NEW f, files' = [files EXCEPT ![0] = f],
         f = files[0] \/ (f = Empty /\ ~files[0].exists),
         pc # "repairing", pc' # "repairing",
         ~(pc' = "rotating" /\ at' >= 0 /\ at' < BackupCount),
         buffer' = buffer \/ buffer' = <<>>, UNCHANGED <<issued, salvage>>,
         handle' \in BOOLEAN, handle' => handle \/ f.exists, pc' = "rotating" => pc = "rotating"
         /\ UNCHANGED <<at, handle>>
  PROVE  LogInv'
<1>1. \A r : LinesBelow(Empty, r)
  BY EmptyIsSound DEF LinesBelow
<1>2. /\ Sound(f) /\ (f.exists \/ f = Absent) /\ LinesBelow(f, issued + 1)
      /\ (f.tail.rec # 0 =>
              f.tail.rec = files[0].tail.rec /\ f.tail.rec <= issued /\ LinesBelow(f, f.tail.rec))
      /\ \A k \in 1..Len(buffer) : LinesBelow(f, buffer[k])
  BY <1>1, LogFacts, EmptyIsSound DEF NoTail
<1>3. \A k \in 1..Len(buffer') : k \in 1..Len(buffer) /\ buffer'[k] = buffer[k]
  BY LogFacts
<1>4. /\ \A k \in 1..Len(buffer') : buffer'[k] <= issued'
      /\ \A k, m \in 1..Len(buffer') : k < m => buffer'[k] < buffer'[m]
      /\ \A k \in 1..Len(buffer') : LinesBelow(f, buffer'[k])
      /\ \A k \in 1..Len(buffer') : \E m \in 1..Len(buffer) : buffer'[k] = buffer[m]
  BY <1>2, <1>3, LogFacts
<1>5. /\ handle' \/ buffer' # <<>> => f.exists
      /\ pc' = "rotating" => ~handle' /\ (at' >= 0 => f.exists)
  BY EmptyIsSound DEF LogInv, Present
<1>6. /\ Sound(salvage') /\ salvage'.exists /\ salvage' = Empty /\ issued' \in Nat
      /\ issued <= issued'
      /\ LinesBelow(f, issued' + 1) /\ LinesBelow(salvage', issued' + 1)
  BY <1>1, <1>2, LogFacts
<1> QED
  BY <1>2, <1>4, <1>6, <1>5, LogCurrent

\* Lines before the records that follow them.
LEMMA BelowConcat ==
  ASSUME NEW f, NEW h, NEW s, f.lines \in Seq(Record), s \in Seq(Record), h.lines = f.lines \o s,
         NEW r, LinesBelow(f, r), \A k \in 1..Len(s) : s[k] < r
  PROVE  LinesBelow(h, r)
<1> SUFFICES ASSUME NEW j \in 1..Len(h.lines)
             PROVE  h.lines[j] < r
  BY DEF LinesBelow
<1> DEFINE l == f.lines
<1>1. l \in Seq(Record) /\ Len(l) \in Nat /\ Len(s) \in Nat /\ Len(l \o s) = Len(l) + Len(s)
  BY ConcatProperties
<1>2. j \in 1..Len(l) + Len(s)
  BY <1>1
<1>3. h.lines[j] = IF j <= Len(l) THEN l[j] ELSE s[j - Len(l)]
  BY <1>1, <1>2, ConcatProperties
<1>4. (j <= Len(l) => j \in 1..Len(l)) /\ (~(j <= Len(l)) => j - Len(l) \in 1..Len(s))
  BY <1>1, <1>2
<1> QED
  BY <1>3, <1>4 DEF LinesBelow

\* A record below all of a set of records.
LEMMA Newer ==
  ASSUME LogInv, NEW k \in 1..Len(buffer)
  PROVE  buffer[k] \in Record /\ buffer[k] < issued + 1 /\ buffer[k] # 0
<1>1. buffer \in Seq(Record) /\ buffer[k] <= issued /\ issued \in Nat
  BY LogFacts
<1> QED
  BY <1>1 DEF Record

\* The buffer reaches the end of the current file, and the handle holds nothing more.
LEMMA LogAppends ==
  ASSUME LogInv, SinkInv', pc # "repairing", pc' # "repairing", Fits(files[0], buffer),
         files' = [files EXCEPT ![0] = Append_(@, buffer)],
         ~(pc' = "rotating" /\ at' >= 0 /\ at' < BackupCount),
         buffer' = <<>>, issued' = issued, salvage' = Empty,
         handle' \in BOOLEAN, pc' = "rotating" => ~handle'
  PROVE  LogInv'
<1> DEFINE f == files[0]
           h == Append_(f, buffer)
<1>1. Sound(h) /\ h.tail = NoTail /\ h.lines = f.lines \o buffer /\ h.exists = f.exists
  BY AppendReaches
<1>2. f.exists /\ f.lines \in Seq(Record) /\ buffer \in Seq(Record)
  BY DEF LogInv, Present, Fits, Sound, File
<1>3. files' = [files EXCEPT ![0] = h]
  BY LogFacts
<1>4. LinesBelow(h, issued + 1)
  <2>1. LinesBelow(f, issued + 1) /\ \A k \in 1..Len(buffer) : buffer[k] < issued + 1
    BY LogFacts, Newer
  <2> HIDE DEF h, f
  <2> QED
    BY <1>1, <1>2, <2>1, BelowConcat
<1> HIDE DEF h, f
<1>5. h.tail.rec = 0
  BY <1>1 DEF NoTail
<1>6. \A r : LinesBelow(Empty, r)
  BY EmptyIsSound DEF LinesBelow
<1>7. /\ Sound(salvage') /\ salvage'.exists /\ issued' \in Nat /\ issued <= issued'
      /\ Len(buffer') = 0
      /\ LinesBelow(h, issued' + 1) /\ LinesBelow(salvage', issued' + 1)
  BY <1>4, <1>6, LogFacts, EmptyIsSound
<1>8. 1..Len(buffer') = {}
  BY <1>7
<1> QED
  BY <1>1, <1>2, <1>3, <1>7, <1>8, <1>5, LogCurrent

\* The buffer reaches the file in part; the handle keeps the rest, or is gone.
LEMMA LogTears ==
  ASSUME LogInv, SinkInv', pc # "repairing", pc' # "repairing", pc' # "rotating",
         Fits(files[0], buffer),
         NEW k \in 0..Len(buffer) - 1, NEW cut \in {"none", "partial", "whole"},
         files' = [files EXCEPT ![0] = Torn(files[0], buffer, k, cut)],
         buffer' = SubSeq(buffer, k + 1, Len(buffer)) \/ buffer' = <<>>,
         issued' = issued, salvage' = Empty, handle' \in BOOLEAN
  PROVE  LogInv'
<1> DEFINE f == files[0]
           h == Torn(f, buffer, k, cut)
           x == SubSeq(buffer, 1, k)
<1>1. /\ Sound(h) /\ h.exists = f.exists /\ h.lines = f.lines \o x
      /\ h.tail.rec \in {0, buffer[k + 1]}
  <2>1. TornAt(h, f, buffer, k)
    BY TornReaches
  <2> QED
    BY <2>1, Zenon DEF TornAt
<1>2. f.exists /\ f.lines \in Seq(Record) /\ buffer \in Seq(Record) /\ issued \in Nat
  BY LogFacts DEF LogInv, Present, Fits, Sound, File
<1>3. /\ Len(buffer) \in Nat /\ k \in Nat /\ k + 1 \in 1..Len(buffer) /\ x \in Seq(Record)
      /\ Len(x) = k
      /\ \A m \in 1..k : x[m] = buffer[m] /\ m \in 1..Len(buffer)
  BY <1>2
<1> HIDE DEF h, f, x
<1>4. ASSUME NEW n \in 1..Len(buffer), n > k
      PROVE  LinesBelow(h, buffer[n])
  <2>1. LinesBelow(f, buffer[n])
    BY LogFacts DEF f
  <2>2. \A m \in 1..Len(x) : x[m] < buffer[n]
    <3> SUFFICES ASSUME NEW m \in 1..Len(x)
                 PROVE  x[m] < buffer[n]
      OBVIOUS
    <3>1. m \in 1..k /\ m < n /\ m \in 1..Len(buffer) /\ x[m] = buffer[m]
      BY <1>3, <1>4
    <3> QED
      BY <3>1, LogFacts
  <2> QED
    BY <1>1, <1>2, <1>3, <2>1, <2>2, BelowConcat
<1>5. LinesBelow(h, issued + 1)
  <2>1. LinesBelow(f, issued + 1)
    BY LogFacts DEF f
  <2>2. \A m \in 1..Len(x) : x[m] < issued + 1
    BY <1>3, Newer
  <2> QED
    BY <1>1, <1>2, <1>3, <2>1, <2>2, BelowConcat
<1>6. \A m \in 1..Len(buffer') : m + k \in 1..Len(buffer) /\ m + k > k
      /\ buffer'[m] = buffer[m + k]
  <2>1. CASE buffer' = <<>>
    BY <2>1
  <2>2. CASE buffer' = SubSeq(buffer, k + 1, Len(buffer))
    <3>1. Len(buffer') = Len(buffer) - k
      BY <1>2, <1>3, <2>2
    <3>2. \A m \in 1..Len(buffer) - k : buffer'[m] = buffer[m + k]
      BY <1>2, <1>3, <2>2
    <3> QED
      BY <1>3, <3>1, <3>2
  <2> QED
    BY <2>1, <2>2
<1>7. /\ \A m \in 1..Len(buffer') : buffer'[m] <= issued'
      /\ \A m \in 1..Len(buffer') : LinesBelow(h, buffer'[m])
      /\ \A m \in 1..Len(buffer') : \E n \in 1..Len(buffer) : buffer'[m] = buffer[n]
  BY <1>4, <1>6, LogFacts
<1>8. \A m, n \in 1..Len(buffer') : m < n => buffer'[m] < buffer'[n]
  <2> SUFFICES ASSUME NEW m \in 1..Len(buffer'), NEW n \in 1..Len(buffer'), m < n
               PROVE  buffer'[m] < buffer'[n]
    OBVIOUS
  <2>1. m + k \in 1..Len(buffer) /\ n + k \in 1..Len(buffer) /\ m + k < n + k
    BY <1>3, <1>6
  <2> QED
    BY <1>6, <2>1, LogFacts
<1>9. h.tail.rec # 0 => /\ h.tail.rec <= issued' /\ LinesBelow(h, h.tail.rec)
                        /\ \E n \in 1..Len(buffer) : h.tail.rec = buffer[n]
  <2>1. LinesBelow(h, buffer[k + 1]) /\ buffer[k + 1] <= issued'
    BY <1>3, <1>4, LogFacts
  <2> QED
    BY <1>1, <1>3, <2>1
<1>10. /\ Sound(salvage') /\ salvage'.exists /\ issued' \in Nat /\ issued <= issued'
       /\ LinesBelow(h, issued' + 1) /\ LinesBelow(salvage', issued' + 1) /\ h.exists
       /\ files' = [files EXCEPT ![0] = h]
  BY <1>1, <1>2, <1>5, EmptyIsSound DEF LinesBelow, h, f
<1> QED
  BY <1>1, <1>7, <1>8, <1>9, <1>10, LogCurrent

\* A rotation moves the lines of files, and no others.
LEMMA LogRotates ==
  ASSUME LogInv, SinkInv', RotateStep
  PROVE  LogInv'
<1>1. /\ files \in [Indices -> File] /\ at \in Indices /\ pc = "rotating" /\ pc' = "rotating"
      /\ 0 \in Indices
      /\ BackupCount \in Nat \ {0} /\ BackupCount \in Indices /\ at \in Int
  BY SinkAssumption DEF LogInv, SinkInv, Types, Indices, RotateStep
<1>2. /\ files' = Moved(at) /\ at' = at - 1 /\ issued' = issued /\ buffer' = buffer
      /\ salvage' = salvage
      /\ handle' = handle
  BY DEF RotateStep, history
<1>3. buffer = <<>> /\ Len(buffer) = 0 /\ ~handle /\ handle \in BOOLEAN
  BY <1>1 DEF LogInv, SinkInv, BufferHeld, Present
<1>4. files' \in [Indices -> File] /\ \A i \in Indices : files'[i].tail.rec = 0
  BY <1>1 DEF SinkInv, Types, WholeBackups, NextCompletes
<1>5. /\ \A i \in Indices : files'[i] = Absent \/ (\E m \in Indices : files'[i] = files[m])
      /\ (at < BackupCount \/ at = BackupCount) /\ ~files'[at].exists
      /\ at # 0 => files'[0] = files[0]
  <2>1. CASE at = BackupCount
    <3>1. files' = [files EXCEPT ![at] = Absent]
      BY <1>2, <2>1 DEF Moved
    <3>2. files'[at] = Absent /\ \A i \in Indices \ {at} : files'[i] = files[i]
      BY <1>1, <3>1
    <3> QED
      BY <1>1, <2>1, <3>2, EmptyIsSound
  <2>2. CASE at # BackupCount /\ files[at].exists
    <3>1. at + 1 \in Indices /\ at + 1 # 0 /\ at # at + 1 /\ at < BackupCount
      BY <1>1, <2>2 DEF Indices
    <3>2. files' = [files EXCEPT ![at + 1] = files[at], ![at] = Absent]
      BY <1>2, <2>2 DEF Moved
    <3>3. files'[at] = Absent /\ files'[at + 1] = files[at]
          /\ \A i \in Indices \ {at, at + 1} : files'[i] = files[i]
      BY <1>1, <3>1, <3>2
    <3> QED
      BY <1>1, <3>1, <3>3, EmptyIsSound
  <2>3. CASE at # BackupCount /\ ~files[at].exists
    <3>1. files' = files /\ at < BackupCount
      BY <1>1, <1>2, <2>3 DEF Moved, Indices
    <3> QED
      BY <2>3, <3>1
  <2> QED
    BY <2>1, <2>2, <2>3
<1>6. \A i \in Indices : Sound(files[i]) /\ (~files[i].exists => files[i] = Absent)
      /\ LinesBelow(files[i], issued + 1)
  BY DEF LogInv, Shapes, Fresh
<1>7. LinesBelow(Absent, issued + 1)
  BY EmptyIsSound DEF LinesBelow
<1>8. Shapes'
  BY <1>1, <1>2, <1>5, <1>6, EmptyIsSound DEF LogInv, Shapes
<1>9. Fresh'
  <2>1. \A i \in Indices : LinesBelow(files'[i], issued + 1)
    BY <1>5, <1>6, <1>7
  <2>2. LinesBelow(salvage, issued + 1)
    BY DEF LogInv, Fresh
  <2>3. \A k \in 1..Len(buffer) : FALSE
    BY <1>3
  <2> QED
    BY <1>1, <1>2, <1>4, <2>1, <2>2, <2>3 DEF Fresh
<1>10. Vacated'
  <2>1. at' + 1 = at
    BY <1>1, <1>2
  <2> QED
    BY <1>5, <2>1 DEF Vacated
<1>11. Present'
  <2>1. at' >= 0 => at # 0 /\ at >= 0
    BY <1>1, <1>2 DEF Indices
  <2>2. at >= 0 => files[0].exists
    BY <1>1 DEF LogInv, Present
  <2> QED
    BY <1>2, <1>3, <1>5, <2>1, <2>2 DEF Present
<1> QED
  BY <1>8, <1>9, <1>10, <1>11 DEF LogInv

\* The bytes the repair is about to write are the records of the file.
LEMMA RepairedContent ==
  ASSUME NEW f, Sound(f), f.tail.rec # 0, f.exists
  PROVE  /\ Sound(Repaired(f)) /\ Repaired(f).exists /\ Repaired(f).tail = NoTail
         /\ content(Repaired(f)) = content(f) /\ Repaired(f).lines = content(f)
<1> DEFINE h == Repaired(f)
<1>1. f \in File /\ f.lines \in Seq(Record) /\ f.tail.rec \in Record
  BY DEF Sound, File, Record
<1>2. h \in File /\ h.tail.rec = 0
  BY <1>1, RepairedFile
<1>3. h = [f EXCEPT !.lines = IF f.tail.whole THEN Append(f.lines, f.tail.rec) ELSE f.lines,
                    !.tail = NoTail]
  BY <1>1 DEF Repaired, File
<1>4. h.exists = f.exists /\ h.tail = NoTail
      /\ h.lines = IF f.tail.whole THEN Append(f.lines, f.tail.rec) ELSE f.lines
  BY <1>1, <1>3 DEF File
<1> HIDE DEF h
<1>5. ~h.tail.whole /\ Sound(h)
  BY <1>2, <1>4 DEF Sound, NoTail
<1>6. content(h) = h.lines
  BY <1>2, <1>5, ContentEnds DEF File
<1>7. h.lines = content(f)
  <2>1. CASE f.tail.whole
    <3>1. Append(f.lines, f.tail.rec) = f.lines \o <<f.tail.rec>>
      BY <1>1, AppendIsConcat
    <3>2. content(f) = f.lines \o <<f.tail.rec>>
      BY <1>1, <2>1, ContentEnds
    <3> QED
      BY <1>4, <2>1, <3>1, <3>2
  <2>2. CASE ~f.tail.whole
    BY <1>1, <1>4, <2>2, ContentEnds
  <2> QED
    BY <2>1, <2>2
<1> QED
  BY <1>4, <1>5, <1>6, <1>7 DEF h

\* The repair sets the records aside.
LEMMA LogRepairBegins ==
  ASSUME LogInv, SinkInv', RepairBegins
  PROVE  LogInv'
<1> DEFINE f == files[0]
<1>1. /\ pc = "down" /\ f.tail.rec # 0 /\ pc' = "repairing" /\ salvage' = Repaired(f)
      /\ files' = [files EXCEPT ![0] = Empty] /\ issued' = issued /\ buffer' = buffer
      /\ handle' = handle
  BY DEF RepairBegins, history
<1>2. Sound(f) /\ f.exists /\ f.lines \in Seq(Record) /\ f.tail.rec \in Record /\ issued \in Nat
  BY <1>1, LogFacts, EmptyIsSound DEF NoTail, Sound, File, Record
<1>3. buffer = <<>> /\ Len(buffer) = 0 /\ handle \in BOOLEAN
  BY <1>1 DEF LogInv, SinkInv, BufferHeld, Present
<1>4. Sound(salvage') /\ salvage'.exists /\ salvage'.lines = content(f)
  BY <1>1, <1>2, RepairedContent
<1>5. LinesBelow(salvage', issued + 1)
  <2>1. LinesBelow(f, issued + 1) /\ f.tail.rec < issued + 1
    BY <1>1, <1>2, LogFacts DEF Record
  <2>2. CASE f.tail.whole
    <3> DEFINE s == <<f.tail.rec>>
    <3>1. s \in Seq(Record) /\ \A k \in 1..Len(s) : s[k] < issued + 1
      BY <1>2, <2>1
    <3>2. content(f) = f.lines \o s
      BY <1>2, <2>2, ContentEnds
    <3> HIDE DEF s, f
    <3> QED
      BY <1>2, <1>4, <2>1, <3>1, <3>2, BelowConcat
  <2>3. CASE ~f.tail.whole
    <3>1. content(f) = f.lines
      BY <1>2, <2>3, ContentEnds
    <3> QED
      BY <1>4, <2>1, <3>1 DEF LinesBelow
  <2> QED
    BY <2>2, <2>3
<1>6. LinesBelow(Empty, issued + 1) /\ Sound(Empty) /\ Empty.exists /\ Empty.tail.rec = 0
  BY EmptyIsSound DEF LinesBelow, NoTail
<1>7. \A k \in 1..Len(buffer') : FALSE
  BY <1>1, <1>3
<1> DEFINE g == Empty
<1>8. /\ Sound(g) /\ files' = [files EXCEPT ![0] = g] /\ g.exists /\ g = Empty /\ g.tail.rec = 0
      /\ handle' \in BOOLEAN /\ pc' # "rotating" /\ pc' = "repairing"
      /\ LinesBelow(g, issued' + 1)
      /\ issued' \in Nat /\ issued <= issued' /\ LinesBelow(salvage', issued' + 1)
  BY <1>1, <1>2, <1>3, <1>5, <1>6
<1> HIDE DEF g, f
<1> QED
  BY <1>4, <1>7, <1>8, LogCurrent

\* A record is handed to the handle.
LEMMA LogWriteBegins ==
  ASSUME LogInv, SinkInv', WriteBegins
  PROVE  LogInv'
<1> DEFINE f == IF handle THEN files[0] ELSE IF files[0].exists THEN files[0] ELSE Empty
<1>1. /\ pc = "idle" /\ pc' = "writing" /\ issued' = issued + 1 /\ handle' = TRUE
      /\ buffer' = Append(buffer, issued + 1) /\ UNCHANGED <<at, salvage>>
  BY DEF WriteBegins
<1>2. files' = [files EXCEPT ![0] = f]
  <2>1. CASE handle
    BY <2>1, LogFacts DEF WriteBegins
  <2>2. CASE ~handle
    BY <2>2, LogFacts DEF WriteBegins, Opened
  <2> QED
    BY <2>1, <2>2
<1>3. f = files[0] \/ (f = Empty /\ ~files[0].exists)
  OBVIOUS
<1>4. f.exists
  BY EmptyIsSound DEF LogInv, Present
<1> HIDE DEF f
<1>5. \A r : LinesBelow(Empty, r)
  BY EmptyIsSound DEF LinesBelow
<1>6. /\ Sound(f) /\ LinesBelow(f, issued + 1)
      /\ (f.tail.rec # 0 =>
              f.tail.rec = files[0].tail.rec /\ f.tail.rec <= issued /\ LinesBelow(f, f.tail.rec))
      /\ \A k \in 1..Len(buffer) : LinesBelow(f, buffer[k])
  BY <1>3, <1>5, LogFacts, EmptyIsSound DEF NoTail
<1>7. issued \in Nat /\ buffer \in Seq(Record) /\ issued + 1 \in Record /\ Len(buffer) \in Nat
  BY LogFacts DEF Record
<1>8. /\ Len(buffer') = Len(buffer) + 1 /\ buffer'[Len(buffer) + 1] = issued + 1
      /\ \A k \in 1..Len(buffer) : buffer'[k] = buffer[k]
  BY <1>1, <1>7, AppendProperties
<1>9. \A k \in 1..Len(buffer') : k \in 1..Len(buffer) \/ k = Len(buffer) + 1
  BY <1>7, <1>8
<1>10. \A k \in 1..Len(buffer) : buffer[k] \in Nat /\ buffer[k] <= issued
  BY <1>7, LogFacts DEF Record
<1>11. /\ \A k \in 1..Len(buffer') : buffer'[k] <= issued'
       /\ \A k \in 1..Len(buffer') : LinesBelow(f, buffer'[k])
       /\ \A k \in 1..Len(buffer') :
               (\E m \in 1..Len(buffer) : buffer'[k] = buffer[m]) \/ buffer'[k] = issued + 1
  BY <1>1, <1>6, <1>7, <1>8, <1>9, <1>10
<1>12. \A k, m \in 1..Len(buffer') : k < m => buffer'[k] < buffer'[m]
  <2> SUFFICES ASSUME NEW k \in 1..Len(buffer'), NEW m \in 1..Len(buffer'), k < m
               PROVE  buffer'[k] < buffer'[m]
    OBVIOUS
  <2>1. k \in 1..Len(buffer)
    BY <1>7, <1>8
  <2>2. CASE m \in 1..Len(buffer)
    BY <1>8, <2>1, <2>2, LogFacts
  <2>3. CASE m = Len(buffer) + 1
    BY <1>7, <1>8, <1>10, <2>1, <2>3
  <2> QED
    BY <1>9, <2>2, <2>3
<1>13. /\ Sound(salvage') /\ salvage'.exists /\ salvage' = Empty /\ issued' \in Nat
       /\ issued <= issued'
       /\ LinesBelow(salvage', issued' + 1)
  BY <1>1, <1>5, <1>7, LogFacts
<1>14. LinesBelow(f, issued' + 1) /\ (f.tail.rec # 0 => f.tail.rec <= issued')
  <2>1. f \in File
    BY <1>6 DEF Sound
  <2>2. \A j \in 1..Len(f.lines) : f.lines[j] < issued + 1 /\ f.lines[j] \in Nat
    BY <1>6, <2>1 DEF LinesBelow, File, Record
  <2>3. f.tail.rec \in Nat
    BY <2>1 DEF File
  <2> QED
    BY <1>1, <1>6, <1>7, <2>2, <2>3 DEF LinesBelow
<1> QED
  BY <1>1, <1>2, <1>3, <1>4, <1>6, <1>11, <1>12, <1>13, <1>14, LogCurrent

\* What the handle holds continues the current file.
LEMMA BufferFits ==
  ASSUME LogInv, buffer # <<>>
  PROVE  pc \in {"idle", "writing"} /\ Fits(files[0], buffer) /\ salvage = Empty
<1>1. pc \in {"idle", "writing"}
  BY DEF LogInv, SinkInv, BufferHeld
<1>2. Sound(files[0]) /\ buffer \in Seq(Record) /\ salvage = Empty
  BY <1>1, LogFacts
<1>3. Len(buffer) >= 1
  BY <1>2
<1>4. files[0].tail.rec \in {0, buffer[1]}
  BY <1>1 DEF LogInv, SinkInv, NextCompletes
<1> QED
  BY <1>1, <1>2, <1>3, <1>4 DEF Fits

\* The repair writes the records back.
LEMMA LogRepairEnds ==
  ASSUME LogInv, SinkInv', RepairEnds
  PROVE  LogInv'
<1> DEFINE g == salvage
<1>1. /\ pc = "repairing" /\ pc' = "idle" /\ handle' = TRUE /\ files' = [files EXCEPT ![0] = g]
      /\ salvage' = Empty /\ issued' = issued /\ buffer' = buffer
  BY DEF RepairEnds, history
<1>2. buffer = <<>> /\ Len(buffer) = 0 /\ g.tail.rec = 0
  BY <1>1 DEF LogInv, SinkInv, BufferHeld, WholeBackups
<1>3. /\ Sound(g) /\ g.exists /\ LinesBelow(g, issued' + 1) /\ issued' \in Nat
      /\ issued <= issued'
  BY <1>1, LogFacts
<1>4. Sound(salvage') /\ salvage'.exists /\ salvage' = Empty /\ LinesBelow(salvage', issued' + 1)
  BY <1>1, EmptyIsSound DEF LinesBelow
<1>5. \A k \in 1..Len(buffer') : FALSE
  BY <1>1, <1>2
<1>6. /\ files' = [files EXCEPT ![0] = g] /\ handle' \in BOOLEAN /\ pc' # "rotating"
      /\ pc' # "repairing"
      /\ g.tail.rec = 0
  BY <1>1, <1>2
<1> HIDE DEF g
<1> QED
  BY <1>3, <1>4, <1>5, <1>6, LogCurrent

\* A crash with nothing on its way to the file.
LEMMA LogStops ==
  ASSUME LogInv, SinkInv', files' = files, pc' = "down", handle' = FALSE, buffer' = <<>>,
         salvage' = Empty, issued' = issued
  PROVE  LogInv'
<1> DEFINE g == files[0]
<1>1. /\ Sound(g) /\ (g.exists \/ g = Absent) /\ LinesBelow(g, issued' + 1) /\ issued' \in Nat
      /\ issued <= issued'
      /\ (g.tail.rec # 0 =>
              g.tail.rec <= issued' /\ LinesBelow(g, g.tail.rec)
              /\ g.tail.rec = files[0].tail.rec)
      /\ files' = [files EXCEPT ![0] = g]
  BY LogFacts
<1>2. Sound(salvage') /\ salvage'.exists /\ salvage' = Empty /\ LinesBelow(salvage', issued' + 1)
  BY EmptyIsSound DEF LinesBelow
<1>3. \A k \in 1..Len(buffer') : FALSE
  OBVIOUS
<1>4. handle' \in BOOLEAN /\ pc' # "rotating" /\ pc' # "repairing" /\ ~(handle' \/ buffer' # <<>>)
  OBVIOUS
<1> HIDE DEF g
<1> QED
  BY <1>1, <1>2, <1>3, <1>4, LogCurrent

\* Every step of the sink keeps the order of the records; for a crash in the repair,
\* see LogRepairCrashes.
LEMMA LogStepHere == LogInv /\ [Next]_vars /\ ~RepairCrashes => LogInv'
<1> SUFFICES ASSUME LogInv, [Next]_vars, ~RepairCrashes
             PROVE  LogInv'
  OBVIOUS
<1>1. SinkInv'
  BY SinkStep DEF LogInv
<1>2. /\ 0 \in Indices /\ files \in [Indices -> File] /\ files = [files EXCEPT ![0] = files[0]]
      /\ handle \in BOOLEAN /\ salvage \in File
  BY LogFacts DEF LogInv, Present, Sound
<1> DEFINE o == IF files[0].exists THEN files[0] ELSE Empty
<1>3. /\ Opened(files) = [files EXCEPT ![0] = o] /\ o.exists
      /\ (o = files[0] \/ (o = Empty /\ ~files[0].exists))
  BY <1>2, EmptyIsSound DEF Opened
<1>4. CASE OpenClean
  <2>1. /\ files' = [files EXCEPT ![0] = o] /\ pc # "repairing" /\ pc' # "repairing"
        /\ pc' # "rotating"
        /\ buffer' = buffer /\ UNCHANGED <<issued, salvage>> /\ handle' \in BOOLEAN
    BY <1>3, <1>4 DEF OpenClean, history
  <2> HIDE DEF o
  <2> QED
    BY <1>1, <1>3, <2>1, LogLeaves
<1>5. CASE RepairBegins
  BY <1>1, <1>5, LogRepairBegins
<1>6. CASE RepairEnds
  BY <1>1, <1>6, LogRepairEnds
<1>7. CASE StartUnavailable
  <2> DEFINE g == files[0]
  <2>1. /\ files' = [files EXCEPT ![0] = g] /\ pc # "repairing" /\ pc' # "repairing"
        /\ pc' # "rotating"
        /\ buffer' = buffer /\ UNCHANGED <<issued, salvage>> /\ handle' \in BOOLEAN
        /\ handle' = handle
        /\ g = files[0]
    BY <1>2, <1>7 DEF StartUnavailable, history
  <2> HIDE DEF g
  <2> QED
    BY <1>1, <2>1, LogLeaves
<1>8. CASE WriteBegins
  BY <1>1, <1>8, LogWriteBegins
<1>9. CASE FlushReturns
  <2>1. pc = "writing" /\ buffer # <<>> /\ Fits(files[0], buffer) /\ salvage = Empty
    BY <1>9, BufferFits DEF FlushReturns, LogInv, SinkInv, BufferHeld
  <2>2. /\ files' = [files EXCEPT ![0] = Append_(@, buffer)] /\ buffer' = <<>> /\ issued' = issued
        /\ salvage' = Empty /\ pc # "repairing" /\ pc' # "repairing" /\ handle' \in BOOLEAN
        /\ (pc' = "rotating" => ~handle' /\ ~(at' < BackupCount))
    BY <1>2, <1>9, <2>1, SinkAssumption DEF FlushReturns
  <2> QED
    BY <1>1, <2>1, <2>2, LogAppends
<1>10. CASE FlushRaises
  <2>1. pc = "writing" /\ buffer # <<>> /\ Fits(files[0], buffer) /\ salvage = Empty
    BY <1>10, BufferFits DEF FlushRaises, LogInv, SinkInv, BufferHeld
  <2>2. PICK outcome \in Interrupted(files[0], buffer) :
            files' = [files EXCEPT ![0] = outcome[1]] /\ buffer' = outcome[2]
    BY <1>10 DEF FlushRaises
  <2>3. PICK k \in 0..Len(buffer) - 1, cut \in {"none", "partial", "whole"} :
            outcome = <<Torn(files[0], buffer, k, cut), SubSeq(buffer, k + 1, Len(buffer))>>
    BY <2>2 DEF Interrupted
  <2>4. files' = [files EXCEPT ![0] = Torn(files[0], buffer, k, cut)]
        /\ buffer' = SubSeq(buffer, k + 1, Len(buffer))
    BY <2>2, <2>3
  <2>5. /\ pc' # "repairing" /\ pc' # "rotating" /\ pc # "repairing" /\ issued' = issued
        /\ salvage' = Empty
        /\ handle' \in BOOLEAN
    BY <1>2, <1>10, <2>1 DEF FlushRaises, history
  <2> QED
    BY <1>1, <2>1, <2>4, <2>5, LogTears
<1>11. CASE RotateStep
  BY <1>1, <1>11, LogRotates
<1>12. CASE RotateEnds
  <2>1. /\ files' = [files EXCEPT ![0] = o] /\ pc # "repairing" /\ pc' # "repairing"
        /\ pc' # "rotating"
        /\ buffer' = buffer /\ UNCHANGED <<issued, salvage>> /\ handle' \in BOOLEAN
    BY <1>3, <1>12 DEF RotateEnds
  <2> HIDE DEF o
  <2> QED
    BY <1>1, <1>3, <2>1, LogLeaves
<1>13. CASE RotateRaises
  <2> DEFINE g == files[0]
  <2>1. /\ files' = [files EXCEPT ![0] = g] /\ pc # "repairing" /\ pc' # "repairing"
        /\ pc' # "rotating"
        /\ buffer' = buffer /\ UNCHANGED <<issued, salvage>> /\ handle' \in BOOLEAN
        /\ handle' = handle
        /\ g = files[0]
    BY <1>2, <1>13 DEF RotateRaises
  <2> HIDE DEF g
  <2> QED
    BY <1>1, <2>1, LogLeaves
<1>14. CASE close
  <2>1. /\ pc = "idle" /\ pc' = "down" /\ handle' = FALSE /\ buffer' = <<>> /\ salvage' = salvage
        /\ issued' = issued /\ salvage = Empty
    BY <1>14, LogFacts DEF close, history
  <2>2. CASE buffer = <<>>
    BY <1>1, <1>14, <2>1, <2>2, LogStops DEF close
  <2>3. CASE buffer # <<>>
    <3>1. Fits(files[0], buffer) /\ files' = [files EXCEPT ![0] = Append_(@, buffer)]
      BY <1>14, <2>3, BufferFits DEF close
    <3>2. pc # "repairing" /\ pc' # "repairing" /\ pc' # "rotating" /\ salvage' = Empty
          /\ handle' \in BOOLEAN
      BY <2>1
    <3> QED
      BY <1>1, <2>1, <3>1, <3>2, LogAppends
  <2> QED
    BY <2>2, <2>3
<1>15. CASE Crash
  <2>1. /\ pc # "repairing" /\ pc' = "down" /\ handle' = FALSE /\ buffer' = <<>>
        /\ salvage' = Empty /\ issued' = issued
        /\ pc' # "repairing" /\ pc' # "rotating" /\ handle' \in BOOLEAN
    BY <1>15, LogFacts DEF Crash
  <2>2. CASE files' = files
    BY <1>1, <2>1, <2>2, LogStops
  <2>3. buffer # <<>> => Fits(files[0], buffer) /\ pc # "repairing"
    BY BufferFits
  <2>4. CASE buffer # <<>> /\ files' = [files EXCEPT ![0] = Append_(@, buffer)]
    BY <1>1, <2>1, <2>3, <2>4, LogAppends
  <2>5. CASE buffer # <<>> /\ \E outcome \in Interrupted(files[0], buffer) :
                                    files' = [files EXCEPT ![0] = outcome[1]]
    <3>1. PICK outcome \in Interrupted(files[0], buffer) : files' = [files EXCEPT ![0] = outcome[1]]
      BY <2>5
    <3>2. PICK k \in 0..Len(buffer) - 1, cut \in {"none", "partial", "whole"} :
              outcome = <<Torn(files[0], buffer, k, cut), SubSeq(buffer, k + 1, Len(buffer))>>
      BY <3>1 DEF Interrupted
    <3>3. files' = [files EXCEPT ![0] = Torn(files[0], buffer, k, cut)]
      BY <3>1, <3>2
    <3> QED
      BY <1>1, <2>1, <2>3, <2>5, <3>3, LogTears
  <2> QED
    BY <1>15, <2>2, <2>4, <2>5 DEF Crash
<1>16. CASE UNCHANGED vars
  <2>1. UNCHANGED <<files, salvage, pc, issued, buffer, at, handle>>
    BY <1>16 DEF vars, history
  <2>2. Shapes' /\ Vacated' /\ Present'
    BY <2>1 DEF LogInv, Shapes, Vacated, Present
  <2>3. Fresh'
    BY <2>1 DEF LogInv, Fresh
  <2> QED
    BY <1>1, <2>2, <2>3 DEF LogInv
<1> QED
  BY <1>4, <1>5, <1>6, <1>7, <1>8, <1>9, <1>10, <1>11, <1>12, <1>13, <1>14, <1>15, <1>16 DEF Next

-----------------------------------------------------------------------------
(* The reader's view of a step *)

\* The current file with all that follows its last newline cut off.
Whole(f) == [f EXCEPT !.tail = NoTail]

\* It holds the lines of the file.
LEMMA WholeContent ==
  ASSUME NEW f, Sound(f)
  PROVE  Sound(Whole(f)) /\ content(Whole(f)) = f.lines /\ Whole(f).lines = f.lines
<1> DEFINE h == Whole(f)
<1>1. f \in File /\ f.lines \in Seq(Record)
  BY DEF Sound, File
<1>2. NoTail \in [rec : Nat, whole : BOOLEAN] /\ ~NoTail.whole
  BY DEF NoTail
<1>3. h \in File /\ h.lines = f.lines /\ h.tail = NoTail
  BY <1>1, <1>2 DEF Whole, File
<1> HIDE DEF h
<1>4. Sound(h) /\ content(h) = h.lines
  BY <1>1, <1>2, <1>3, ContentEnds DEF Sound
<1> QED
  BY <1>3, <1>4 DEF h

\* Records on their way to the current file are newer than all the lines there are, and
\* reach the reader in their order.
LEMMA LoadExtends ==
  ASSUME NEW fs \in FileSet, NEW gs \in FileSet, NEW recs,
         Fits(fs[0], recs), Reached(fs[0], recs, gs[0]),
         \A i \in Indices \ {0} : gs[i] = fs[i] /\ ~fs[i].tail.whole,
         \A k \in 1..Len(recs), i \in Indices : LinesBelow(fs[i], recs[k]),
         \A k, m \in 1..Len(recs) : k < m => recs[k] < recs[m]
  PROVE  Log!Extends(load(fs), load(gs))
<1> DEFINE f == fs[0]
           ws == [fs EXCEPT ![0] = Whole(f)]
           A == load(ws)
           p == Begun(f)
<1>1. 0 \in Indices /\ \A i \in Indices : Sound(fs[i]) /\ fs[i] \in File
      /\ fs[i].lines \in Seq(Record)
  BY SinkAssumption DEF Indices, FileSet, Sound, File
<1>2. Sound(Whole(f)) /\ content(Whole(f)) = f.lines /\ Whole(f) \in File
  BY <1>1, WholeContent DEF Sound
<1>3. ws \in FileSet /\ ws[0] = Whole(f) /\ \A i \in Indices \ {0} : ws[i] = fs[i]
  BY <1>1, <1>2 DEF FileSet
<1>4. recs \in Seq(Record) /\ Len(recs) \in Nat
  BY DEF Fits
<1>5. content(f) = f.lines \o SubSeq(recs, 1, p) /\ p \in Nat /\ p <= Len(recs)
  <2>1. content(f) = f.lines \o SubSeq(recs, 1, p) /\ p \in 0..1
    BY ContentBegun
  <2>2. Len(recs) >= 1
    BY DEF Fits
  <2> QED
    BY <1>4, <2>1, <2>2
<1>6. PICK q \in Nat : p <= q /\ q <= Len(recs) /\ content(gs[0]) = f.lines \o SubSeq(recs, 1, q)
  BY DEF Reached
<1>7. Older(fs) = Older(ws) /\ Older(gs) = Older(ws)
  <2> HIDE DEF ws
  <2> QED
    BY <1>3, OlderSame
<1> HIDE DEF ws, p
<1>8. A = Older(ws) \o f.lines /\ Older(ws) \in Seq(Record) /\ A \in Seq(Record)
      /\ f.lines \in Seq(Record)
  BY <1>1, <1>2, <1>3, LoadSplits
<1>9. ASSUME NEW n \in Nat, n <= Len(recs)
      PROVE  Older(ws) \o (f.lines \o SubSeq(recs, 1, n)) = A \o SubSeq(recs, 1, n)
  <2> DEFINE x == Older(ws)
             y == f.lines
             z == SubSeq(recs, 1, n)
  <2>1. x \in Seq(Record) /\ y \in Seq(Record) /\ z \in Seq(Record) /\ A = x \o y
    BY <1>4, <1>8, <1>9
  <2> HIDE DEF x, y, z, A
  <2>2. (x \o y) \o z = x \o (y \o z)
    BY <2>1, ConcatAssociative, SMTT(30)
  <2> QED
    BY <2>1, <2>2, Zenon DEF x, y, z
<1>10. load(fs) = A \o SubSeq(recs, 1, p)
  <2>1. load(fs) = Older(fs) \o content(f)
    BY LoadSplits
  <2> HIDE DEF A, f
  <2>2. load(fs) = Older(ws) \o (f.lines \o SubSeq(recs, 1, p))
    BY <1>5, <1>7, <2>1, Zenon
  <2> QED
    BY <1>5, <1>9, <2>2, Zenon
<1>11. load(gs) = A \o SubSeq(recs, 1, q)
  <2>1. load(gs) = Older(gs) \o content(gs[0])
    BY LoadSplits
  <2> HIDE DEF A, f
  <2>2. load(gs) = Older(ws) \o (f.lines \o SubSeq(recs, 1, q))
    BY <1>6, <1>7, <2>1, Zenon
  <2> QED
    BY <1>6, <1>9, <2>2, Zenon
<1>12. \A j \in 1..Len(A), k \in 1..Len(recs) : A[j] < recs[k]
  <2> DEFINE T == {r \in Record : \A k \in 1..Len(recs) : r < recs[k]}
  <2>1. ASSUME NEW i \in Indices
        PROVE  content(ws[i]) = fs[i].lines
    <3>1. CASE i = 0
      BY <1>2, <1>3, <3>1
    <3>2. CASE i # 0
      BY <1>1, <1>3, <3>2, ContentEnds
    <3> QED
      BY <3>1, <3>2
  <2>2. \A i \in Indices : \A j \in 1..Len(content(ws[i])) : content(ws[i])[j] \in T
    <3> SUFFICES ASSUME NEW i \in Indices, NEW j \in 1..Len(fs[i].lines)
                 PROVE  fs[i].lines[j] \in T
      BY <2>1
    <3>1. fs[i].lines[j] \in Record
      BY <1>1
    <3>2. \A k \in 1..Len(recs) : fs[i].lines[j] < recs[k]
      BY DEF LinesBelow
    <3> QED
      BY <3>1, <3>2
  <2> HIDE DEF T
  <2>3. A \in Seq(T)
    BY <1>3, <2>2, LoadElements
  <2>4. \A j \in 1..Len(A) : A[j] \in T
    <3> HIDE DEF A
    <3> QED
      BY <2>3
  <2> QED
    BY <2>4 DEF T
<1> HIDE DEF A, f
<1>13. Log!Extends(A \o SubSeq(recs, 1, p), A \o SubSeq(recs, 1, q))
  BY <1>4, <1>5, <1>6, <1>8, <1>12, GrowsExtends
<1> QED
  BY <1>10, <1>11, <1>13, Zenon

\* Files that hold the same records.
LEMMA LoadSame ==
  ASSUME NEW fs \in FileSet, NEW gs \in FileSet,
         \A i \in Indices : content(gs[i]) = content(fs[i])
  PROVE  load(gs) = load(fs)
<1>1. 0 \in Indices
  BY SinkAssumption DEF Indices
<1>2. Older(fs) = Older(gs)
  BY OlderSame
<1>3. load(fs) = Older(fs) \o content(fs[0])
  BY LoadSplits
<1>4. load(gs) = Older(gs) \o content(gs[0])
  BY LoadSplits
<1> QED
  BY <1>1, <1>2, <1>3, <1>4, Zenon

\* The files as a reader finds them.
LEMMA SettledFiles ==
  ASSUME LogInv
  PROVE  /\ Settled \in FileSet /\ 0 \in Indices
         /\ Settled[0] = (IF pc = "repairing" THEN salvage ELSE files[0])
         /\ \A i \in Indices \ {0} : Settled[i] = files[i]
<1>1. /\ 0 \in Indices /\ files \in [Indices -> File] /\ \A i \in Indices : Sound(files[i])
      /\ Sound(salvage) /\ salvage \in File
  BY LogFacts DEF LogInv, Shapes, Sound
<1>2. files \in FileSet
  BY <1>1 DEF FileSet
<1> QED
  BY <1>1, <1>2 DEF Settled, FileSet

\* The same after a step.
LEMMA SettledAfter ==
  ASSUME LogInv'
  PROVE  /\ Settled' \in FileSet
         /\ Settled'[0] = (IF pc' = "repairing" THEN salvage' ELSE files'[0])
         /\ \A i \in Indices \ {0} : Settled'[i] = files'[i]
<1>1. 0 \in Indices /\ files' \in [Indices -> File] /\ Sound(salvage')
      /\ \A i \in Indices : Sound(files'[i])
  BY SinkAssumption DEF LogInv, Shapes, SinkInv, Types, Indices
<1>2. files' \in FileSet /\ salvage' \in File
  BY <1>1 DEF FileSet, Sound
<1> QED
  BY <1>1, <1>2 DEF Settled, FileSet

\* A step after which every file holds the records it held.
LEMMA LogStays ==
  ASSUME LogInv, LogInv', \A i \in Indices \ {0} : files'[i] = files[i],
         content(Settled'[0]) = content(Settled[0])
  PROVE  load(Settled') = load(Settled)
<1> DEFINE fs == Settled
           gs == Settled'
<1>1. fs \in FileSet /\ gs \in FileSet /\ 0 \in Indices /\ content(gs[0]) = content(fs[0])
  BY SettledFiles, SettledAfter
<1>2. \A i \in Indices \ {0} : gs[i] = fs[i]
  BY SettledFiles, SettledAfter
<1> HIDE DEF fs, gs
<1>3. \A i \in Indices : content(gs[i]) = content(fs[i])
  BY <1>1, <1>2
<1>4. load(gs) = load(fs)
  BY <1>1, <1>3, LoadSame
<1> QED
  BY <1>4 DEF fs, gs

\* A file created by opening it holds what the missing one held.
LEMMA LogOpened ==
  ASSUME LogInv, LogInv', files' = Opened(files), pc # "repairing", pc' # "repairing"
  PROVE  load(Settled') = load(Settled)
<1>1. 0 \in Indices /\ files \in [Indices -> File] /\ (files[0].exists \/ files[0] = Absent)
  BY LogFacts
<1>2. \A i \in Indices \ {0} : files'[i] = files[i]
  BY <1>1 DEF Opened
<1>3. files'[0] = IF files[0].exists THEN files[0] ELSE Empty
  BY <1>1 DEF Opened
<1>4. content(files'[0]) = content(files[0])
  BY <1>1, <1>3, EmptyIsSound
<1>5. Settled[0] = files[0] /\ Settled'[0] = files'[0]
  BY SettledFiles, SettledAfter
<1> QED
  BY <1>2, <1>4, <1>5, LogStays

\* A step that changes no file.
LEMMA LogUnchanged ==
  ASSUME LogInv, LogInv', files' = files, pc # "repairing", pc' # "repairing"
  PROVE  load(Settled') = load(Settled)
<1>1. Settled[0] = files[0] /\ Settled'[0] = files'[0]
  BY SettledFiles, SettledAfter
<1> QED
  BY <1>1, LogStays

\* The repair, while its bytes are kept.
LEMMA LogRepaired ==
  ASSUME LogInv, LogInv', RepairBegins \/ RepairEnds
  PROVE  load(Settled') = load(Settled)
<1>1. 0 \in Indices /\ files \in [Indices -> File] /\ (files[0].exists \/ files[0] = Absent)
      /\ Sound(files[0])
  BY LogFacts
<1>2. CASE RepairBegins
  <2>1. /\ pc # "repairing" /\ pc' = "repairing" /\ files[0].tail.rec # 0
        /\ salvage' = Repaired(files[0])
        /\ files' = [files EXCEPT ![0] = Empty]
    BY <1>2 DEF RepairBegins
  <2>2. files[0].exists
    BY <1>1, <2>1, EmptyIsSound DEF NoTail
  <2>3. content(salvage') = content(files[0])
    BY <1>1, <2>1, <2>2, RepairedContent
  <2>4. Settled[0] = files[0] /\ Settled'[0] = salvage'
    BY <2>1, SettledFiles, SettledAfter
  <2>5. \A i \in Indices \ {0} : files'[i] = files[i]
    BY <1>1, <2>1
  <2> QED
    BY <2>3, <2>4, <2>5, LogStays
<1>3. CASE RepairEnds
  <2>1. pc = "repairing" /\ pc' = "idle" /\ files' = [files EXCEPT ![0] = salvage]
    BY <1>3 DEF RepairEnds
  <2>2. Settled[0] = salvage /\ Settled'[0] = files'[0] /\ files'[0] = salvage
    BY <1>1, <2>1, SettledFiles, SettledAfter
  <2>3. \A i \in Indices \ {0} : files'[i] = files[i]
    BY <1>1, <2>1
  <2> QED
    BY <2>2, <2>3, LogStays
<1> QED
  BY <1>2, <1>3

\* What the repair has written back so far are the first of the records it set aside.
LEMMA BeginningHolds ==
  ASSUME NEW s, Sound(s), s.tail.rec = 0, NEW f \in Beginnings(s)
  PROVE  /\ Sound(f) /\ content(s) = s.lines /\ s.lines \in Seq(Record)
         /\ \E k \in 0..Len(s.lines) : content(f) = SubSeq(s.lines, 1, k)
<1>1. s \in File /\ s.lines \in Seq(Record) /\ ~s.tail.whole /\ Len(s.lines) \in Nat
  BY DEF Sound, File
<1>2. content(s) = s.lines
  BY <1>1, ContentEnds
<1>3. f \in File /\ Sound(f) /\ f.lines \in Seq(Record)
  BY <1>1, BeginningOf DEF Sound, File
<1>4. PICK k \in 0..Len(s.lines) :
          /\ f.lines = SubSeq(s.lines, 1, k)
          /\ \/ f.tail = NoTail
             \/ k < Len(s.lines) /\ f.tail.rec = s.lines[k + 1]
  BY <1>1, BeginningOf
<1>5. CASE ~f.tail.whole
  <2>1. content(f) = SubSeq(s.lines, 1, k)
    BY <1>3, <1>4, <1>5, ContentEnds
  <2> QED
    BY <1>1, <1>2, <1>3, <2>1
<1>6. CASE f.tail.whole
  <2>1. k < Len(s.lines) /\ f.tail.rec = s.lines[k + 1]
    BY <1>4, <1>6 DEF NoTail
  <2>2. content(f) = SubSeq(s.lines, 1, k) \o <<s.lines[k + 1]>>
    BY <1>3, <1>4, <1>6, <2>1, ContentEnds
  <2>3. k + 1 \in 1..Len(s.lines) /\ (k + 1) - 1 = k /\ k + 1 \in 0..Len(s.lines)
        /\ 1 \in 1..Len(s.lines)
    BY <1>1, <2>1
  <2>4. SubSeq(s.lines, 1, k + 1) = SubSeq(s.lines, 1, (k + 1) - 1) \o <<s.lines[k + 1]>>
    BY <1>1, <2>3, SubSeqRecursiveSecond
  <2>5. content(f) = SubSeq(s.lines, 1, k + 1)
    BY <2>2, <2>3, <2>4
  <2> QED
    BY <1>1, <1>2, <1>3, <2>3, <2>5
<1> QED
  BY <1>5, <1>6

\* A crash in the repair: of the records of the current file the last are gone.
LEMMA LogLoses ==
  ASSUME LogInv, LogInv', RepairCrashes
  PROVE  load(Settled') \in Log!Prefixes(load(Settled))
<1> DEFINE fs == Settled
           gs == Settled'
<1>1. /\ fs \in FileSet /\ gs \in FileSet /\ 0 \in Indices /\ fs[0] = salvage
      /\ \E f \in Beginnings(salvage) : gs[0] = f
      /\ \A i \in Indices \ {0} : gs[i] = fs[i]
  BY SettledFiles, SettledAfter, LogFacts DEF RepairCrashes
<1>2. Sound(salvage) /\ salvage.tail.rec = 0
  BY LogFacts DEF LogInv, SinkInv, WholeBackups
<1> HIDE DEF fs, gs
<1>3. Older(gs) = Older(fs)
  BY <1>1, OlderSame
<1> DEFINE a == Older(fs)
           b == content(fs[0])
<1>4. PICK k \in 0..Len(b) : content(gs[0]) = SubSeq(b, 1, k)
  BY <1>1, <1>2, BeginningHolds
<1>5. a \in Seq(Record) /\ b \in Seq(Record)
  BY <1>1, LoadSplits, ContentIsSeq DEF FileSet
<1>6. load(fs) = a \o b /\ load(gs) = Older(gs) \o content(gs[0])
  BY <1>1, LoadSplits
<1> HIDE DEF a, b
<1>7. load(gs) = a \o SubSeq(b, 1, k)
  BY <1>3, <1>4, <1>6, Zenon DEF a
<1>8. a \o SubSeq(b, 1, k) \in Log!Prefixes(a \o b)
  BY <1>4, <1>5, PrefixLoses
<1>9. load(gs) \in Log!Prefixes(load(fs))
  BY <1>6, <1>7, <1>8, Zenon
<1> QED
  BY <1>9 DEF fs, gs

\* Records reach the current file.
LEMMA LogGrows ==
  ASSUME LogInv, LogInv', buffer # <<>>, pc' # "repairing",
         NEW h, files' = [files EXCEPT ![0] = h], Reached(files[0], buffer, h)
  PROVE  Log!Extends(load(Settled), load(Settled'))
<1> DEFINE fs == Settled
           gs == Settled'
<1>1. pc # "repairing" /\ Fits(files[0], buffer) /\ 0 \in Indices /\ files \in [Indices -> File]
  BY BufferFits, LogFacts
<1>2. fs \in FileSet /\ gs \in FileSet /\ fs[0] = files[0] /\ gs[0] = h
  BY <1>1, SettledFiles, SettledAfter
<1>3. \A i \in Indices : fs[i] = files[i]
  BY <1>2, SettledFiles
<1>4. \A i \in Indices \ {0} : gs[i] = fs[i]
  BY <1>1, SettledFiles, SettledAfter
<1>5. \A i \in Indices \ {0} : ~files[i].tail.whole
  BY DEF LogInv, SinkInv, WholeBackups, Shapes, Sound
<1>6. /\ \A k \in 1..Len(buffer), i \in Indices : LinesBelow(files[i], buffer[k])
      /\ \A k, m \in 1..Len(buffer) : k < m => buffer[k] < buffer[m]
  BY DEF LogInv, Fresh
<1> HIDE DEF fs, gs
<1>7. \A i \in Indices \ {0} : gs[i] = fs[i] /\ ~fs[i].tail.whole
  BY <1>3, <1>4, <1>5
<1>8. \A k \in 1..Len(buffer), i \in Indices : LinesBelow(fs[i], buffer[k])
  BY <1>3, <1>6
<1>9. Fits(fs[0], buffer) /\ Reached(fs[0], buffer, gs[0])
  BY <1>1, <1>2
<1>10. Log!Extends(load(fs), load(gs))
  BY <1>2, <1>6, <1>7, <1>8, <1>9, LoadExtends
<1> QED
  BY <1>10 DEF fs, gs

\* A rotation forgets the oldest file, and otherwise moves files into free places.
LEMMA LogMoved ==
  ASSUME LogInv, LogInv', RotateStep
  PROVE  /\ at = BackupCount => IsConcat(load(Settled), content(files[BackupCount]), load(Settled'))
         /\ at # BackupCount => load(Settled') = load(Settled)
<1> DEFINE fs == files
           gs == files'
<1>1. /\ files \in [Indices -> File] /\ at \in Indices /\ pc = "rotating" /\ pc' = "rotating"
      /\ files' = Moved(at)
      /\ BackupCount \in Nat \ {0} /\ BackupCount \in Indices /\ at \in Nat
  BY SinkAssumption DEF LogInv, SinkInv, Types, Indices, RotateStep
<1>2. Settled = fs /\ Settled' = gs /\ fs \in FileSet /\ gs \in FileSet
  <2>1. Settled = files /\ Settled' = files'
    BY <1>1 DEF Settled
  <2> QED
    BY <2>1, SettledFiles, SettledAfter
<1>3. \A i \in Indices : ~files[i].exists => files[i] = Absent
  BY DEF LogInv, Shapes
<1>4. CASE at = BackupCount
  <2>1. gs = [files EXCEPT ![at] = Absent]
    BY <1>1, <1>4 DEF Moved
  <2>2. gs[BackupCount] = Absent /\ \A i \in Indices \ {BackupCount} : gs[i] = fs[i]
    BY <1>1, <1>4, <2>1
  <2> DEFINE a == content(fs[BackupCount])
             b == load(gs)
  <2>3. a \in Seq(Record) /\ b \in Seq(Record)
    BY <1>1, <1>2, ContentIsSeq, LoadSplits DEF FileSet
  <2> HIDE DEF fs, gs
  <2>4. content(gs[BackupCount]) = Nothing
        /\ \A i \in Indices \ {BackupCount} : content(fs[i]) = content(gs[i])
    BY <2>2, EmptyIsSound
  <2>5. load(fs) = a \o b
    BY <1>2, <2>4, LoadForgets
  <2>6. IsConcat(load(fs), content(fs[BackupCount]), load(gs))
    BY <2>5, Zenon DEF IsConcat
  <2> QED
    BY <1>2, <1>4, <2>6 DEF fs
<1>5. CASE at # BackupCount /\ files[at].exists
  <2>1. at < BackupCount /\ at + 1 \in Indices /\ at # at + 1
    BY <1>1, <1>5 DEF Indices
  <2>2. gs = [files EXCEPT ![at + 1] = files[at], ![at] = Absent]
    BY <1>1, <1>5 DEF Moved
  <2>3. gs[at] = Absent /\ gs[at + 1] = files[at]
        /\ \A i \in Indices \ {at, at + 1} : gs[i] = files[i]
    BY <1>1, <2>1, <2>2
  <2>4. fs[at + 1] = Absent
    BY <1>1, <1>3, <2>1 DEF LogInv, Vacated
  <2> HIDE DEF gs
  <2>5. /\ content(fs[at + 1]) = Nothing /\ content(gs[at + 1]) = content(fs[at])
        /\ content(gs[at]) = Nothing
        /\ \A i \in Indices \ {at, at + 1} : content(fs[i]) = content(gs[i])
    BY <2>3, <2>4, EmptyIsSound
  <2> HIDE DEF fs
  <2>6. load(fs) = load(gs)
    BY <1>1, <1>2, <2>1, <2>5, LoadMoves
  <2> QED
    BY <1>2, <1>5, <2>6
<1>6. CASE at # BackupCount /\ ~files[at].exists
  BY <1>1, <1>2, <1>6 DEF Moved
<1> QED
  BY <1>4, <1>5, <1>6

\* What a rotation forgets is at the beginning of the log.
LEMMA LogMoves ==
  ASSUME LogInv, LogInv', RotateStep
  PROVE  load(Settled') \in Log!Suffixes(load(Settled)) \/ load(Settled') = load(Settled)
<1>1. CASE at = BackupCount
  <2> DEFINE a == content(files[BackupCount])
             b == load(Settled')
             l == load(Settled)
  <2>1. BackupCount \in Indices
    BY SinkAssumption DEF Indices
  <2>2. a \in Seq(Record) /\ b \in Seq(Record)
    BY <2>1, SettledAfter, ContentIsSeq, LoadSplits DEF LogInv, Shapes
  <2>3. IsConcat(l, a, b)
    BY <1>1, LogMoved
  <2> HIDE DEF a, b, l
  <2>4. b \in Log!Suffixes(a \o b)
    BY <2>2, SuffixForgets
  <2>5. b \in Log!Suffixes(l)
    BY <2>3, <2>4, Zenon DEF IsConcat
  <2> QED
    BY <2>5 DEF b, l
<1>2. CASE at # BackupCount
  BY <1>2, LogMoved
<1> QED
  BY <1>1, <1>2

-----------------------------------------------------------------------------
(* The sink implements the log *)

\* Before the first start there is nothing to read.
LEMMA LogBegins == Init => Log!Init
<1> SUFFICES ASSUME Init
             PROVE  Log!Init
  OBVIOUS
<1>1. LogInv
  BY LogInit
<1>2. pc = "down" /\ \A i \in Indices : files[i] = Absent
  BY DEF Init
<1> DEFINE fs == Settled
<1>3. fs \in FileSet /\ \A i \in Indices : fs[i] = Absent
  BY <1>1, <1>2, SettledFiles
<1> HIDE DEF fs
<1>4. \A i \in Indices : \A j \in 1..Len(content(fs[i])) : content(fs[i])[j] \in {}
  <2> SUFFICES ASSUME NEW i \in Indices
               PROVE  Len(content(fs[i])) = 0
    OBVIOUS
  <2>1. content(fs[i]) = Nothing
    BY <1>3, EmptyIsSound
  <2> QED
    BY <2>1 DEF Nothing
<1>5. load(fs) \in Seq({})
  BY <1>3, <1>4, LoadElements
<1>6. load(fs) = <<>>
  <2> DEFINE l == load(fs)
  <2> HIDE DEF l
  <2>1. l \in Seq({})
    BY <1>5 DEF l
  <2>2. l = <<>>
    BY <2>1
  <2> QED
    BY <2>2 DEF l
<1>7. (pc \notin {"down", "repairing"}) = FALSE
  BY <1>2
<1> QED
  BY <1>6, <1>7 DEF Log!Init, fs

\* The reader's view of a step of the sink.
LEMMA LogImplements == LogInv /\ LogInv' /\ [Next]_vars => [Log!Next]_(Log!log_vars)
<1> SUFFICES ASSUME LogInv, LogInv', [Next]_vars
             PROVE  [Log!Next]_(Log!log_vars)
  OBVIOUS
<1> DEFINE l == load(Settled)
           m == load(Settled')
           up == pc \notin {"down", "repairing"}
           up2 == pc' \notin {"down", "repairing"}
<1>1. Settled \in FileSet /\ l \in Seq(Record) /\ Log!Extends(l, l)
  BY SettledFiles, LoadSplits, SameExtends
<1>2. CASE OpenClean
  <2>1. m = l /\ ~up /\ up2
    BY <1>2, LogOpened DEF OpenClean
  <2> QED
    BY <2>1 DEF Log!Next, Log!Open
<1>3. CASE RepairBegins
  <2>1. m = l /\ up = FALSE /\ up2 = FALSE
    BY <1>3, LogRepaired DEF RepairBegins
  <2> QED
    BY <2>1 DEF Log!log_vars
<1>4. CASE RepairEnds
  <2>1. m = l /\ ~up /\ up2
    BY <1>4, LogRepaired DEF RepairEnds
  <2> QED
    BY <2>1 DEF Log!Next, Log!Open
<1>5. CASE StartUnavailable
  <2>1. m = l /\ ~up /\ up2
    BY <1>5, LogUnchanged DEF StartUnavailable
  <2> QED
    BY <2>1 DEF Log!Next, Log!Open
<1>6. CASE WriteBegins
  <2>1. m = l /\ up /\ up2
    BY <1>6, LogOpened, LogUnchanged DEF WriteBegins
  <2> QED
    BY <1>1, <2>1 DEF Log!Next, Log!Grow
<1>7. CASE FlushReturns
  <2>1. up /\ up2 /\ pc' # "repairing" /\ buffer # <<>>
    BY <1>7 DEF FlushReturns, LogInv, SinkInv, BufferHeld
  <2>2. files' = [files EXCEPT ![0] = Append_(files[0], buffer)]
        /\ Reached(files[0], buffer, Append_(files[0], buffer))
    BY <1>7, <2>1, LogFacts, BufferFits, AppendReaches DEF FlushReturns
  <2>3. Log!Extends(l, m)
    BY <2>1, <2>2, LogGrows
  <2> QED
    BY <2>1, <2>3 DEF Log!Next, Log!Grow
<1>8. CASE FlushRaises
  <2>1. up /\ up2 /\ pc' # "repairing" /\ buffer # <<>> /\ Fits(files[0], buffer)
    BY <1>8, BufferFits DEF FlushRaises, LogInv, SinkInv, BufferHeld
  <2>2. PICK outcome \in Interrupted(files[0], buffer) : files' = [files EXCEPT ![0] = outcome[1]]
    BY <1>8 DEF FlushRaises
  <2>3. Reached(files[0], buffer, outcome[1])
    BY <2>1, <2>2, TornReaches DEF Interrupted
  <2>4. Log!Extends(l, m)
    BY <2>1, <2>2, <2>3, LogGrows
  <2> QED
    BY <2>1, <2>4 DEF Log!Next, Log!Grow
<1>9. CASE RotateStep
  <2>1. up /\ up2
    BY <1>9 DEF RotateStep
  <2>2. m \in Log!Suffixes(l) \/ m = l
    BY <1>9, LogMoves
  <2>3. Log!Extends(l, l)
    BY <1>1
  <2> QED
    BY <2>1, <2>2, <2>3 DEF Log!Next, Log!Forget, Log!Grow
<1>10. CASE RotateEnds
  <2>1. m = l /\ up /\ up2
    BY <1>10, LogOpened DEF RotateEnds
  <2> QED
    BY <1>1, <2>1 DEF Log!Next, Log!Grow
<1>11. CASE RotateRaises
  <2>1. m = l /\ up /\ up2
    BY <1>11, LogUnchanged DEF RotateRaises
  <2> QED
    BY <1>1, <2>1 DEF Log!Next, Log!Grow
<1>12. CASE close
  <2>1. up /\ ~up2 /\ pc # "repairing" /\ pc' # "repairing"
    BY <1>12 DEF close
  <2>2. CASE buffer = <<>>
    <3>1. m = l
      BY <1>12, <2>1, <2>2, LogUnchanged DEF close
    <3> QED
      BY <1>1, <2>1, <3>1 DEF Log!Next, Log!Stop
  <2>3. CASE buffer # <<>>
    <3>1. files' = [files EXCEPT ![0] = Append_(files[0], buffer)]
          /\ Reached(files[0], buffer, Append_(files[0], buffer))
      BY <1>12, <2>3, LogFacts, BufferFits, AppendReaches DEF close
    <3>2. Log!Extends(l, m)
      BY <2>1, <2>3, <3>1, LogGrows
    <3> QED
      BY <2>1, <3>2 DEF Log!Next, Log!Stop
  <2> QED
    BY <2>2, <2>3
<1>13. CASE Crash
  <2>1. up /\ ~up2 /\ pc # "repairing" /\ pc' = "down" /\ pc' # "repairing"
    BY <1>13 DEF Crash
  <2>2. Log!Extends(l, m)
    <3>1. CASE files' = files
      <4>1. m = l
        BY <2>1, <3>1, LogUnchanged
      <4> QED
        BY <1>1, <4>1
    <3>2. CASE buffer # <<>> /\ files' = [files EXCEPT ![0] = Append_(@, buffer)]
      <4>1. files' = [files EXCEPT ![0] = Append_(files[0], buffer)]
            /\ Reached(files[0], buffer, Append_(files[0], buffer))
        BY <3>2, LogFacts, BufferFits, AppendReaches
      <4> QED
        BY <2>1, <3>2, <4>1, LogGrows
    <3>3. CASE buffer # <<>> /\ \E outcome \in Interrupted(files[0], buffer) :
                                      files' = [files EXCEPT ![0] = outcome[1]]
      <4>1. PICK outcome \in Interrupted(files[0], buffer) : files' = [files EXCEPT ![0] = outcome[1]]
        BY <3>3
      <4>2. Reached(files[0], buffer, outcome[1])
        BY <3>3, <4>1, BufferFits, TornReaches DEF Interrupted
      <4> QED
        BY <2>1, <3>3, <4>1, <4>2, LogGrows
    <3> QED
      BY <1>13, <3>1, <3>2, <3>3 DEF Crash
  <2> QED
    BY <2>1, <2>2 DEF Log!Next, Log!Stop
<1>14. CASE RepairCrashes
  <2>1. ~up /\ ~up2
    BY <1>14 DEF RepairCrashes
  <2>2. m \in Log!Prefixes(l)
    BY <1>14, LogLoses
  <2> QED
    BY <2>1, <2>2 DEF Log!Next, Log!Lose
<1>15. CASE UNCHANGED vars
  <2>1. Settled' = Settled /\ pc' = pc
    BY <1>15 DEF vars, history, Settled
  <2> QED
    BY <2>1 DEF Log!log_vars
<1> QED
  BY <1>2, <1>3, <1>4, <1>5, <1>6, <1>7, <1>8, <1>9, <1>10, <1>11, <1>12, <1>13, <1>14, <1>15
     DEF Next

-----------------------------------------------------------------------------
(* The order of what the reader finds *)

\* Every record is older than the one after it.
Ordered(l) == \A i \in 1..Len(l) - 1 : l[i] < l[i + 1]

\* The steps of the log keep the order of its records.
LEMMA LogOrder ==
  ASSUME NEW l \in Seq(Record), NEW m \in Seq(Record), Ordered(l),
         Log!Extends(l, m) \/ m \in Log!Suffixes(l) \/ m \in Log!Prefixes(l)
  PROVE  Ordered(m)
<1>1. Len(l) \in Nat /\ Len(m) \in Nat
  OBVIOUS
<1> SUFFICES ASSUME NEW i \in 1..Len(m) - 1
             PROVE  m[i] < m[i + 1]
  BY DEF Ordered
<1>2. CASE Log!Extends(l, m)
  <2>1. Len(m) >= Len(l) /\ SubSeq(m, 1, Len(l)) = l /\ (i >= Len(l) => m[i] < m[i + 1])
    BY <1>2 DEF Log!Extends
  <2>2. CASE i < Len(l)
    <3> DEFINE t == SubSeq(m, 1, Len(l))
    <3>1. \A k \in 1..Len(l) : t[k] = m[k]
      BY <1>1, <2>1
    <3>2. t = l
      BY <2>1
    <3> HIDE DEF t
    <3>3. i \in 1..Len(l) /\ i + 1 \in 1..Len(l) /\ i \in 1..Len(l) - 1
      BY <1>1, <2>2
    <3> QED
      BY <3>1, <3>2, <3>3 DEF Ordered
  <2> QED
    BY <1>1, <2>1, <2>2
<1>3. CASE m \in Log!Suffixes(l)
  <2>1. PICK p \in 1..Len(l) + 1 : m = SubSeq(l, p, Len(l))
    BY <1>3 DEF Log!Suffixes
  <2> DEFINE t == SubSeq(l, p, Len(l))
  <2>2. Len(t) = Len(l) - p + 1 /\ \A k \in 1..Len(l) - p + 1 : t[k] = l[p + k - 1]
    BY <1>1
  <2>3. t = m
    BY <2>1
  <2> HIDE DEF t
  <2>4. i \in 1..Len(l) - p + 1 /\ i + 1 \in 1..Len(l) - p + 1 /\ p + i - 1 \in 1..Len(l) - 1
        /\ p + (i + 1) - 1 = (p + i - 1) + 1
    BY <1>1, <2>2, <2>3
  <2>5. m[i] = l[p + i - 1] /\ m[i + 1] = l[(p + i - 1) + 1]
    BY <2>2, <2>3, <2>4
  <2> QED
    BY <2>4, <2>5 DEF Ordered
<1>4. CASE m \in Log!Prefixes(l)
  <2>1. PICK p \in 0..Len(l) : m = SubSeq(l, 1, p)
    BY <1>4 DEF Log!Prefixes
  <2> DEFINE t == SubSeq(l, 1, p)
  <2>2. Len(t) = p /\ \A k \in 1..p : t[k] = l[k]
    BY <1>1
  <2>3. t = m
    BY <2>1
  <2> HIDE DEF t
  <2>4. i \in 1..p /\ i + 1 \in 1..p /\ i \in 1..Len(l) - 1
    BY <1>1, <2>2, <2>3
  <2> QED
    BY <2>2, <2>3, <2>4 DEF Ordered
<1> QED
  BY <1>2, <1>3, <1>4

\* Each record of an ordered log is older than all that follow.
LEMMA OrderedThroughout ==
  ASSUME NEW l \in Seq(Record), Ordered(l)
  PROVE  \A i, j \in 1..Len(l) : i < j => l[i] < l[j]
<1> SUFFICES ASSUME NEW i \in 1..Len(l)
             PROVE  \A j \in 1..Len(l) : i < j => l[i] < l[j]
  OBVIOUS
<1>1. Len(l) \in Nat /\ \A k \in 1..Len(l) : l[k] \in Nat
  BY DEF Record
<1> DEFINE S == {k \in Nat : i + 1 + k <= Len(l) => l[i] < l[i + 1 + k]}
<1>2. 0 \in S
  <2> SUFFICES ASSUME i + 1 + 0 <= Len(l)
               PROVE  l[i] < l[i + 1 + 0]
    OBVIOUS
  <2>1. i \in 1..Len(l) - 1 /\ i + 1 + 0 = i + 1
    BY <1>1
  <2> QED
    BY <2>1 DEF Ordered
<1>3. ASSUME NEW k \in Nat, k \in S
      PROVE  k + 1 \in S
  <2> DEFINE a == i + 1 + k
  <2> SUFFICES ASSUME a + 1 <= Len(l)
               PROVE  l[i] < l[a + 1]
    BY <1>1
  <2>1. a \in 1..Len(l) - 1 /\ a \in 1..Len(l) /\ a + 1 \in 1..Len(l) /\ a <= Len(l)
    BY <1>1
  <2>2. l[i] < l[a]
    BY <1>3, <2>1
  <2>3. l[a] < l[a + 1]
    BY <2>1 DEF Ordered
  <2> HIDE DEF a
  <2> QED
    BY <1>1, <2>1, <2>2, <2>3
<1> HIDE DEF S
<1>4. \A k \in Nat : k \in S
  BY <1>2, <1>3, Counting
<1>5. ASSUME NEW j \in 1..Len(l), i < j
      PROVE  l[i] < l[j]
  <2>1. j - (i + 1) \in Nat /\ i + 1 + (j - (i + 1)) = j
    BY <1>1, <1>5
  <2>2. j - (i + 1) \in S
    BY <1>4, <2>1
  <2> QED
    BY <1>1, <2>1, <2>2 DEF S
<1> QED
  BY <1>5

\* What the reader finds is in order.
LogOrdered == Ordered(load(Settled))

\* Before the first start, and through every step.
LEMMA LogOrderKept ==
  /\ Init => LogOrdered
  /\ LogInv /\ LogInv' /\ LogOrdered /\ [Next]_vars => LogOrdered'
<1>1. Init => LogOrdered
  <2> SUFFICES ASSUME Init
               PROVE  Ordered(load(Settled))
    BY DEF LogOrdered
  <2>1. load(Settled) = <<>>
    BY LogBegins DEF Log!Init
  <2> QED
    BY <2>1 DEF Ordered
<1>2. ASSUME LogInv, LogInv', LogOrdered, [Next]_vars
      PROVE  LogOrdered'
  <2> DEFINE l == load(Settled)
             m == load(Settled')
  <2>1. l \in Seq(Record) /\ m \in Seq(Record) /\ Ordered(l)
    BY <1>2, SettledFiles, SettledAfter, LoadSplits DEF LogOrdered
  <2>2. [Log!Next]_(Log!log_vars)
    BY <1>2, LogImplements
  <2>3. m = l \/ Log!Extends(l, m) \/ m \in Log!Suffixes(l) \/ m \in Log!Prefixes(l)
    BY <2>2 DEF Log!Next, Log!log_vars, Log!Open, Log!Grow, Log!Forget, Log!Stop, Log!Lose
  <2> HIDE DEF l, m
  <2>4. Ordered(m)
    BY <2>1, <2>3, LogOrder
  <2> QED
    BY <2>4 DEF LogOrdered, m
<1> QED
  BY <1>1, <1>2

-----------------------------------------------------------------------------
(* The records the reader finds *)

\* The records of a sequence.
Elems(s) == {s[j] : j \in 1..Len(s)}

\* The records of two sequences.
LEMMA ElemsConcat ==
  ASSUME NEW E, NEW s \in Seq(E), NEW t \in Seq(E)
  PROVE  Elems(s \o t) = Elems(s) \cup Elems(t)
<1> DEFINE u == s \o t
<1>1. /\ u \in Seq(E) /\ Len(u) = Len(s) + Len(t) /\ Len(s) \in Nat /\ Len(t) \in Nat
      /\ \A i \in 1..Len(s) + Len(t) : u[i] = IF i <= Len(s) THEN s[i] ELSE t[i - Len(s)]
  BY ConcatProperties
<1> HIDE DEF u
<1>2. ASSUME NEW j \in 1..Len(u)
      PROVE  u[j] \in Elems(s) \cup Elems(t)
  <2>1. CASE j <= Len(s)
    <3>1. j \in 1..Len(s) /\ u[j] = s[j]
      BY <1>1, <2>1
    <3> QED
      BY <3>1 DEF Elems
  <2>2. CASE ~(j <= Len(s))
    <3>1. j - Len(s) \in 1..Len(t) /\ u[j] = t[j - Len(s)]
      BY <1>1, <2>2
    <3> QED
      BY <3>1 DEF Elems
  <2> QED
    BY <2>1, <2>2
<1>3. ASSUME NEW j \in 1..Len(s)
      PROVE  s[j] \in Elems(u)
  <2>1. j \in 1..Len(u) /\ u[j] = s[j]
    BY <1>1
  <2> QED
    BY <2>1 DEF Elems
<1>4. ASSUME NEW j \in 1..Len(t)
      PROVE  t[j] \in Elems(u)
  <2>1. Len(s) + j \in 1..Len(u) /\ Len(s) + j \in 1..Len(s) + Len(t) /\ ~(Len(s) + j <= Len(s))
        /\ (Len(s) + j) - Len(s) = j
    BY <1>1
  <2>2. u[Len(s) + j] = t[j]
    BY <1>1, <2>1
  <2> QED
    BY <2>1, <2>2 DEF Elems
<1>5. Elems(u) \subseteq Elems(s) \cup Elems(t)
  BY <1>2 DEF Elems
<1>6. Elems(s) \subseteq Elems(u) /\ Elems(t) \subseteq Elems(u)
  BY <1>3, <1>4 DEF Elems
<1> QED
  BY <1>5, <1>6, Zenon DEF u

\* No records.
LEMMA ElemsNothing == Elems(Nothing) = {}
<1>1. Len(Nothing) = 0
  BY NothingAdds
<1> QED
  BY <1>1 DEF Elems

\* The records of the first n sequences.
AllOf(g, n) == UNION {Elems(g[i + 1]) : i \in 0..n - 1}

\* A join holds the records of what is joined.
LEMMA JoinHolds ==
  ASSUME NEW E, NEW n \in Nat, NEW g, NEW R, Parts(g, n, E), Joins(R, g, n)
  PROVE  Elems(R[n]) = AllOf(g, n)
<1> DEFINE U(k) == UNION {Elems(g[i + 1]) : i \in 0..k - 1}
           S == {k \in Nat : k <= n => Elems(R[k]) = U(k)}
<1>1. Successive(R, g, n) /\ R[0] = Nothing
  BY JoinContinues, JoinStarts, Zenon
<1>2. 0 \in S
  <2>1. U(0) = {}
    OBVIOUS
  <2>2. Elems(R[0]) = {}
    BY <1>1, ElemsNothing
  <2> HIDE DEF U
  <2> QED
    BY <2>1, <2>2
<1>3. ASSUME NEW k \in Nat, k \in S
      PROVE  k + 1 \in S
  <2> SUFFICES ASSUME k + 1 <= n
               PROVE  Elems(R[k + 1]) = U(k + 1)
    OBVIOUS
  <2>1. k < n /\ k <= n
    OBVIOUS
  <2>2. U(k + 1) = U(k) \cup Elems(g[k + 1])
    <3>1. \A i : i \in 0..(k + 1) - 1 <=> i \in 0..k - 1 \/ i = k
      OBVIOUS
    <3> QED
      BY <3>1, Zenon
  <2> HIDE DEF U
  <2>3. Elems(R[k]) = U(k)
    BY <1>3, <2>1, Zenon
  <2>4. R[k + 1] = R[k] \o g[k + 1]
    BY <1>1, <2>1, Zenon DEF Successive
  <2>5. R[k] \in Seq(E) /\ g[k + 1] \in Seq(E)
    <3>1. \A i \in Nat : i <= n => R[i] \in Seq(E)
      BY JoinSeq
    <3> QED
      BY <2>1, <3>1 DEF Parts
  <2>6. Elems(R[k] \o g[k + 1]) = Elems(R[k]) \cup Elems(g[k + 1])
    BY <2>5, ElemsConcat
  <2> QED
    BY <2>2, <2>3, <2>4, <2>6, Zenon
<1> HIDE DEF S
<1>4. n \in S
  BY <1>2, <1>3, Counting
<1>5. n <= n
  OBVIOUS
<1> QED
  BY <1>4, <1>5, Zenon DEF S, AllOf

\* The reader finds the records of all the files, and no others.
LEMMA LoadFinds ==
  ASSUME NEW fs \in FileSet
  PROVE  Elems(load(fs)) = UNION {Elems(content(fs[i])) : i \in Indices}
<1> DEFINE n == BackupCount + 1
           g == Contents(fs)
           R == Reads(fs)
<1>1. n \in Nat
  BY SinkAssumption
<1>2. Joins(R, g, n) /\ Parts(g, n, Record) /\ load(fs) = R[n]
  BY LoadJoins
<1>3. \A k \in 0..n - 1 : BackupCount - k \in Indices /\ g[k + 1] = content(fs[BackupCount - k])
  <2> SUFFICES ASSUME NEW k \in 0..n - 1
               PROVE  BackupCount - k \in Indices /\ g[k + 1] = content(fs[BackupCount - k])
    OBVIOUS
  <2>1. k \in Nat /\ k < BackupCount + 1 /\ BackupCount - k \in Indices
    BY SinkAssumption DEF Indices
  <2> QED
    BY <2>1, ContentsAt
<1>4. \A i \in Indices : BackupCount - i \in 0..n - 1 /\ BackupCount - (BackupCount - i) = i
  BY SinkAssumption DEF Indices
<1>5. Elems(R[n]) = AllOf(g, n)
  <2> HIDE DEF R, g, n
  <2> QED
    BY <1>1, <1>2, JoinHolds
<1> HIDE DEF g, R, n
<1>6. ASSUME NEW i \in Indices
      PROVE  \E k \in 0..n - 1 : Elems(g[k + 1]) = Elems(content(fs[i]))
  <2>1. BackupCount - i \in 0..n - 1 /\ g[(BackupCount - i) + 1] = content(fs[i])
    BY <1>3, <1>4
  <2> QED
    BY <2>1
<1>7. AllOf(g, n) = UNION {Elems(content(fs[i])) : i \in Indices}
  BY <1>3, <1>6, Zenon DEF AllOf
<1> QED
  BY <1>2, <1>5, <1>7

\* Records in order are all different.
LEMMA OrderedCount ==
  ASSUME NEW l \in Seq(Record), Ordered(l)
  PROVE  IsFiniteSet(Elems(l)) /\ Cardinality(Elems(l)) = Len(l)
<1>1. Len(l) \in Nat /\ \A i \in 1..Len(l) : l[i] \in Nat
  BY DEF Record
<1>2. \A i, j \in 1..Len(l) : i < j => l[i] < l[j]
  BY OrderedThroughout
<1> DEFINE D == 1..Len(l)
           f == [i \in D |-> l[i]]
<1>3. \A i, j \in D : i # j => l[i] # l[j]
  BY <1>1, <1>2
<1>4. f \in Bijection(D, Elems(l))
  <2>1. f \in [D -> Elems(l)] /\ \A i \in D : f[i] = l[i]
    BY DEF Elems
  <2>2. \A i, j \in D : f[i] = f[j] => i = j
    BY <1>3, <2>1
  <2>3. \A r \in Elems(l) : \E i \in D : f[i] = r
    BY <2>1 DEF Elems
  <2> HIDE DEF f, D
  <2> QED
    BY <2>1, <2>2, <2>3, Fun_IsBij
<1>5. ExistsBijection(D, Elems(l))
  BY <1>4 DEF ExistsBijection
<1>6. IsFiniteSet(D) /\ Cardinality(D) = Len(l)
  BY <1>1, FS_Interval
<1> HIDE DEF D
<1> QED
  BY <1>5, <1>6, FS_Bijection

-----------------------------------------------------------------------------
(* A crash in the repair *)

\* The reader finds the backups before the current file.
LEMMA OlderFinds ==
  ASSUME NEW fs \in FileSet, NEW i \in Indices \ {0}
  PROVE  Elems(content(fs[i])) \subseteq Elems(Older(fs))
<1> DEFINE gs == [fs EXCEPT ![0] = Empty]
<1>1. 0 \in Indices
  BY SinkAssumption DEF Indices
<1>2. gs \in FileSet /\ gs[0] = Empty /\ \A j \in Indices \ {0} : gs[j] = fs[j]
  BY <1>1, EmptyIsSound DEF FileSet, Sound
<1> HIDE DEF gs
<1>3. Older(gs) = Older(fs)
  BY <1>2, OlderSame
<1>4. load(gs) = Older(gs) \o Nothing /\ Older(gs) \in Seq(Record)
  BY <1>2, LoadSplits, EmptyIsSound
<1>5. load(gs) = Older(fs)
  BY <1>3, <1>4, NothingAdds
<1>6. Elems(load(gs)) = UNION {Elems(content(gs[j])) : j \in Indices}
  BY <1>2, LoadFinds
<1>7. Elems(content(gs[i])) \subseteq UNION {Elems(content(gs[j])) : j \in Indices}
  OBVIOUS
<1>8. gs[i] = fs[i]
  BY <1>2
<1> QED
  BY <1>5, <1>6, <1>7, <1>8

\* What the repair sets aside is in order, and newer than all that is in the backups.
LEMMA SalvageNewest ==
  ASSUME LogInv, LogOrdered, pc = "repairing"
  PROVE  \A k \in 1..Len(salvage.lines) :
             /\ \A j \in 1..Len(salvage.lines) : j < k => salvage.lines[j] < salvage.lines[k]
             /\ \A i \in Indices \ {0} : LinesBelow(files[i], salvage.lines[k])
<1> DEFINE l == load(Settled)
           a == Older(Settled)
           b == salvage.lines
<1>1. Sound(salvage) /\ salvage.tail.rec = 0 /\ salvage \in File /\ ~salvage.tail.whole
  BY LogFacts DEF LogInv, SinkInv, WholeBackups, Sound
<1>2. b \in Seq(Record) /\ content(salvage) = b
  BY <1>1, ContentEnds DEF File
<1>3. Settled \in FileSet /\ Settled[0] = salvage
  BY SettledFiles
<1>4. a \in Seq(Record) /\ l \in Seq(Record) /\ l = a \o b
  BY <1>2, <1>3, LoadSplits
<1>5. Ordered(l)
  BY DEF LogOrdered
<1>6. ASSUME NEW i \in Indices \ {0}
      PROVE  Elems(files[i].lines) \subseteq Elems(a)
  <2>1. Elems(content(files[i])) \subseteq Elems(a)
    BY <1>3, <1>6, SettledFiles, OlderFinds
  <2>2. Sound(files[i]) /\ files[i].tail.rec = 0
    BY <1>6 DEF LogInv, Shapes, SinkInv, WholeBackups
  <2>3. files[i].lines \in Seq(Record) /\ ~files[i].tail.whole
    BY <2>2 DEF Sound, File
  <2>4. content(files[i]) = files[i].lines
    BY <2>3, ContentEnds
  <2> QED
    BY <2>1, <2>4
<1>7. \A i \in Indices \ {0} : files[i].lines \in Seq(Record)
  BY DEF LogInv, Shapes, Sound, File
<1> HIDE DEF l, a, b
<1>8. /\ Len(l) = Len(a) + Len(b) /\ Len(a) \in Nat /\ Len(b) \in Nat
      /\ \A i \in 1..Len(a) + Len(b) : l[i] = IF i <= Len(a) THEN a[i] ELSE b[i - Len(a)]
  BY <1>2, <1>4, ConcatProperties
<1>9. \A i, j \in 1..Len(l) : i < j => l[i] < l[j]
  BY <1>4, <1>5, OrderedThroughout
<1>10. ASSUME NEW k \in 1..Len(b)
       PROVE  /\ \A j \in 1..Len(b) : j < k => b[j] < b[k]
              /\ \A i \in Indices \ {0} : LinesBelow(files[i], b[k])
  <2>1. Len(a) + k \in 1..Len(l) /\ l[Len(a) + k] = b[k]
    BY <1>8
  <2>2. ASSUME NEW j \in 1..Len(b), j < k
        PROVE  b[j] < b[k]
    <3>1. Len(a) + j \in 1..Len(l) /\ l[Len(a) + j] = b[j] /\ Len(a) + j < Len(a) + k
      BY <1>8, <2>2
    <3> QED
      BY <1>9, <2>1, <3>1
  <2>3. \A m \in 1..Len(a) : a[m] < b[k]
    <3> SUFFICES ASSUME NEW m \in 1..Len(a)
                 PROVE  a[m] < b[k]
      OBVIOUS
    <3>1. m \in 1..Len(l) /\ l[m] = a[m] /\ m < Len(a) + k
      BY <1>8
    <3> QED
      BY <1>9, <2>1, <3>1
  <2>4. ASSUME NEW i \in Indices \ {0}
        PROVE  LinesBelow(files[i], b[k])
    <3> SUFFICES ASSUME NEW j \in 1..Len(files[i].lines)
                 PROVE  files[i].lines[j] < b[k]
      BY DEF LinesBelow
    <3>1. files[i].lines[j] \in Elems(a)
      BY <1>6 DEF Elems
    <3>2. PICK m \in 1..Len(a) : files[i].lines[j] = a[m]
      BY <3>1 DEF Elems
    <3> QED
      BY <2>3, <3>2
  <2> QED
    BY <2>2, <2>4
<1> QED
  BY <1>10 DEF b

\* A step down with nothing in the handle.
LEMMA LogDown ==
  ASSUME LogInv, SinkInv', NEW f, Sound(f), f.exists, files' = [files EXCEPT ![0] = f],
         pc' = "down", handle' \in BOOLEAN, buffer' = <<>>, salvage' = Empty, issued' = issued,
         LinesBelow(f, issued + 1),
         f.tail.rec # 0 => f.tail.rec <= issued /\ LinesBelow(f, f.tail.rec),
         f.tail.rec # 0 => \A i \in Indices \ {0} : LinesBelow(files[i], f.tail.rec)
  PROVE  LogInv'
<1>1. Sound(salvage') /\ salvage'.exists /\ LinesBelow(salvage', issued' + 1)
  BY EmptyIsSound DEF LinesBelow
<1>2. \A k \in 1..Len(buffer') : FALSE
  OBVIOUS
<1>3. issued' \in Nat /\ issued <= issued' /\ LinesBelow(f, issued' + 1)
  BY LogFacts
<1>4. (f.tail.rec # 0 => f.tail.rec <= issued' /\ LinesBelow(f, f.tail.rec))
  OBVIOUS
<1>5. handle' \in BOOLEAN /\ pc' # "rotating" /\ pc' # "repairing"
  OBVIOUS
<1> QED
  BY <1>1, <1>2, <1>3, <1>4, <1>5, LogCurrent

\* A crash while the repair writes its bytes back.
LEMMA LogRepairCrashes ==
  ASSUME LogInv, LogOrdered, SinkInv', RepairCrashes
  PROVE  LogInv'
<1>1. PICK f \in Beginnings(salvage) : files' = [files EXCEPT ![0] = f]
  BY DEF RepairCrashes
<1>2. /\ pc = "repairing" /\ pc' = "down" /\ salvage' = Empty /\ UNCHANGED <<at, handle, buffer, issued>>
  BY DEF RepairCrashes
<1>3. /\ buffer = <<>> /\ Len(buffer) = 0 /\ handle \in BOOLEAN /\ issued \in Nat
      /\ Sound(salvage) /\ salvage \in File /\ salvage.exists /\ LinesBelow(salvage, issued + 1)
      /\ salvage.tail.rec = 0
  BY <1>2, LogFacts DEF LogInv, SinkInv, BufferHeld, Present, Sound, WholeBackups
<1> DEFINE b == salvage.lines
<1>4. /\ f \in File /\ f.exists /\ Sound(f)
      /\ \E k \in 0..Len(b) :
            /\ f.lines = SubSeq(b, 1, k)
            /\ f.tail = NoTail \/ (k < Len(b) /\ f.tail.rec = b[k + 1])
  BY <1>3, BeginningOf DEF Sound
<1>5. PICK k \in 0..Len(b) :
            /\ f.lines = SubSeq(b, 1, k)
            /\ f.tail = NoTail \/ (k < Len(b) /\ f.tail.rec = b[k + 1])
  BY <1>4
<1>6. b \in Seq(Record) /\ \A j \in 1..Len(b) : b[j] < issued + 1 /\ b[j] \in Nat
  BY <1>3 DEF LinesBelow, File, Record
<1>7. /\ \A m \in 1..Len(b), j \in 1..Len(b) : j < m => b[j] < b[m]
      /\ \A m \in 1..Len(b), i \in Indices \ {0} : LinesBelow(files[i], b[m])
  BY <1>2, SalvageNewest
<1> HIDE DEF b
<1>8. Len(f.lines) = k /\ \A j \in 1..k : f.lines[j] = b[j]
  BY <1>5, <1>6
<1>9. LinesBelow(f, issued + 1)
  BY <1>5, <1>6, <1>8 DEF LinesBelow
<1>10. ASSUME f.tail.rec # 0
       PROVE  /\ f.tail.rec <= issued /\ LinesBelow(f, f.tail.rec)
              /\ \A i \in Indices \ {0} : LinesBelow(files[i], f.tail.rec)
  <2>1. k < Len(b) /\ f.tail.rec = b[k + 1]
    BY <1>5, <1>10 DEF NoTail
  <2>2. k + 1 \in 1..Len(b)
    BY <1>6, <2>1
  <2>3. f.tail.rec <= issued
    BY <1>3, <1>6, <2>1, <2>2
  <2>4. \A j \in 1..k : j \in 1..Len(b) /\ j < k + 1
    BY <1>6, <2>1
  <2>5. LinesBelow(f, f.tail.rec)
    BY <1>7, <1>8, <2>1, <2>2, <2>4 DEF LinesBelow
  <2> QED
    BY <1>7, <2>1, <2>2, <2>3, <2>5
<1>11. handle' \in BOOLEAN /\ buffer' = <<>> /\ issued' = issued /\ pc' = "down" /\ salvage' = Empty
  BY <1>2, <1>3 DEF LogInv, Present
<1>12. f.tail.rec # 0 => \A i \in Indices \ {0} : LinesBelow(files[i], f.tail.rec)
  BY <1>10
<1>13. f.tail.rec # 0 => f.tail.rec <= issued /\ LinesBelow(f, f.tail.rec)
  BY <1>10
<1> QED
  BY <1>1, <1>4, <1>9, <1>11, <1>12, <1>13, LogDown

\* Every step of the sink.
LEMMA LogStep == LogInv /\ LogOrdered /\ [Next]_vars => LogInv'
<1> SUFFICES ASSUME LogInv, LogOrdered, [Next]_vars
             PROVE  LogInv'
  OBVIOUS
<1>1. CASE RepairCrashes
  <2>1. SinkInv'
    BY SinkStep DEF LogInv
  <2> QED
    BY <1>1, <2>1, LogRepairCrashes
<1> QED
  BY <1>1, LogStepHere

\* In every state the files are what the reader's view needs, and the view is in order.
LEMMA LogAlways == Spec => []LogInv /\ []LogOrdered
<1>1. Init => LogInv /\ LogOrdered
  BY LogInit, LogOrderKept
<1>2. LogInv /\ LogOrdered /\ [Next]_vars => (LogInv /\ LogOrdered)'
  BY LogStep, LogOrderKept
<1> QED
  BY <1>1, <1>2, PTL DEF Spec

\* Through flush failures, rotations, crashes in any step and repairs, what
\* TelemetryReader.load finds of the files JsonlSink leaves is a log: whole records
\* that arrive at the end in the order of write, go from the beginning when _rotate
\* unlinks the oldest file, and from the end only in a start that is interrupted in
\* _truncate_trailing_partial.
THEOREM SinkIsLog == Spec => ReaderSeesLog
<1>1. Spec => []LogInv
  BY LogAlways
<1>2. Spec => [][Log!Next]_(Log!log_vars)
  BY <1>1, LogImplements, PTL DEF Spec
<1> QED
  BY <1>2, LogBegins, PTL DEF Spec, ReaderSeesLog, Log!Spec

\* TelemetryReader.load never finds a record twice, or after a newer one, although
\* _rotate renames the files one by one and a failed flush is repeated by the next.
THEOREM ReaderFindsOrder == Spec => []LogOrdered
<1> QED
  BY LogAlways

-----------------------------------------------------------------------------
(* Full files *)

\* The files among the k oldest places that are full.
FullFiles(fs, k) == {i \in Indices : i > BackupCount - k /\ Len(content(fs[i])) >= MaxLines}

\* A full file more.
LEMMA OneMoreFull ==
  ASSUME NEW fs, NEW k \in Nat, k <= BackupCount
  PROVE  /\ IsFiniteSet(FullFiles(fs, k)) /\ IsFiniteSet(FullFiles(fs, k + 1))
         /\ Cardinality(FullFiles(fs, k)) \in Nat /\ Cardinality(FullFiles(fs, k + 1)) \in Nat
         /\ Cardinality(FullFiles(fs, k + 1)) <= Cardinality(FullFiles(fs, k)) + 1
         /\ ~(Len(content(fs[BackupCount - k])) >= MaxLines) => FullFiles(fs, k + 1) = FullFiles(fs, k)
<1> DEFINE F == FullFiles(fs, k)
           G == FullFiles(fs, k + 1)
           p == BackupCount - k
<1>1. IsFiniteSet(Indices)
  BY SinkAssumption, FS_Interval DEF Indices
<1>2. F \in SUBSET Indices /\ G \in SUBSET Indices
  BY DEF FullFiles
<1>3. \A i \in Indices : i > BackupCount - (k + 1) <=> i > BackupCount - k \/ i = p
  BY SinkAssumption DEF Indices
<1>4. F \subseteq G /\ G \subseteq F \cup {p}
  BY <1>3 DEF FullFiles
<1>5. ~(Len(content(fs[p])) >= MaxLines) => G = F
  BY <1>3, <1>4 DEF FullFiles
<1> HIDE DEF F, G
<1>6. IsFiniteSet(F) /\ IsFiniteSet(G)
  BY <1>1, <1>2, FS_Subset
<1>7. Cardinality(F) \in Nat /\ Cardinality(G) \in Nat
  BY <1>6, FS_CardinalityType
<1> HIDE DEF p
<1>8. IsFiniteSet(F \cup {p}) /\ Cardinality(F \cup {p}) <= Cardinality(F) + 1
  <2>1. /\ IsFiniteSet(F \cup {p})
        /\ Cardinality(F \cup {p}) = IF p \in F THEN Cardinality(F) ELSE Cardinality(F) + 1
    BY <1>6, FS_AddElement, Zenon
  <2> QED
    BY <1>7, <2>1
<1>9. G \in SUBSET (F \cup {p}) /\ Cardinality(F \cup {p}) \in Nat
  BY <1>4, <1>8, FS_CardinalityType
<1>10. Cardinality(G) <= Cardinality(F \cup {p})
  BY <1>8, <1>9, FS_Subset
<1>11. Cardinality(G) <= Cardinality(F) + 1
  BY <1>7, <1>8, <1>9, <1>10
<1> QED
  BY <1>5, <1>6, <1>7, <1>11 DEF F, G, p

\* One times more.
LEMMA TimesMore ==
  ASSUME NEW a \in Nat, NEW b \in Nat, NEW c \in Nat, NEW M \in Nat, NEW x \in Nat,
         a >= M * b, x >= M, c <= b + 1
  PROVE  a + x >= M * c
<1>1. M * (b + 1) = M * b + M /\ M * b \in Nat /\ M * c \in Nat
  OBVIOUS
<1>2. M * c <= M * (b + 1)
  <2>1. PICK d \in Nat : b + 1 = c + d
    <3>1. (b + 1) - c \in Nat /\ b + 1 = c + ((b + 1) - c)
      OBVIOUS
    <3> QED
      BY <3>1
  <2>2. M * (c + d) = M * c + M * d /\ M * d \in Nat
    OBVIOUS
  <2> QED
    BY <1>1, <2>1, <2>2
<1> QED
  BY <1>1, <1>2

\* Every full file adds its lines to what the reader finds.
LEMMA LoadLong ==
  ASSUME NEW fs \in FileSet
  PROVE  Len(load(fs)) >= MaxLines * Cardinality({i \in Indices : Len(content(fs[i])) >= MaxLines})
<1> DEFINE n == BackupCount + 1
           g == Contents(fs)
           R == Reads(fs)
           C(k) == Cardinality(FullFiles(fs, k))
           S == {k \in Nat : k <= n => Len(R[k]) >= MaxLines * C(k)}
<1>1. n \in Nat /\ MaxLines \in Nat
  BY SinkAssumption
<1>2. Joins(R, g, n) /\ Parts(g, n, Record) /\ load(fs) = R[n]
  BY LoadJoins
<1>3. \A k \in Nat : k < n => g[k + 1] = content(fs[BackupCount - k])
  BY ContentsAt
<1> HIDE DEF R, g
<1>4. Successive(R, g, n) /\ R[0] = Nothing
  <2> HIDE DEF n
  <2> QED
    BY <1>1, <1>2, JoinContinues, JoinStarts
<1>5. \A i \in Nat : i <= n => R[i] \in Seq(Record)
  <2> HIDE DEF n
  <2> QED
    BY <1>1, <1>2, JoinSeq
<1>6. 0 \in S
  <2>1. FullFiles(fs, 0) = {}
    BY SinkAssumption DEF FullFiles, Indices
  <2>2. C(0) = 0 /\ Len(R[0]) = 0
    BY <1>4, <2>1, FS_EmptySet, NothingAdds
  <2> HIDE DEF C
  <2>3. Len(R[0]) >= MaxLines * C(0)
    BY <1>1, <2>2
  <2> QED
    BY <2>3
<1>7. ASSUME NEW k \in Nat, k \in S
      PROVE  k + 1 \in S
  <2> SUFFICES ASSUME k + 1 <= n
               PROVE  Len(R[k + 1]) >= MaxLines * C(k + 1)
    OBVIOUS
  <2>1. k < n /\ k <= n /\ k <= BackupCount
    BY SinkAssumption
  <2>2. R[k + 1] = R[k] \o g[k + 1]
    BY <1>4, <2>1, Zenon DEF Successive
  <2>3. R[k] \in Seq(Record) /\ g[k + 1] \in Seq(Record)
    BY <1>2, <1>5, <2>1 DEF Parts
  <2> DEFINE a == Len(R[k])
             x == Len(g[k + 1])
  <2>4. a \in Nat /\ x \in Nat /\ Len(R[k] \o g[k + 1]) = a + x
    BY <2>3, ConcatProperties
  <2>5. Len(R[k + 1]) = a + x
    BY <2>2, <2>4
  <2>6. a >= MaxLines * C(k)
    BY <1>7, <2>1
  <2>7. /\ C(k) \in Nat /\ C(k + 1) \in Nat /\ C(k + 1) <= C(k) + 1
        /\ ~(x >= MaxLines) => FullFiles(fs, k + 1) = FullFiles(fs, k)
    BY <1>3, <2>1, OneMoreFull
  <2>8. CASE x >= MaxLines
    <3> DEFINE b == C(k)
               c == C(k + 1)
    <3>1. a \in Nat /\ b \in Nat /\ c \in Nat /\ MaxLines \in Nat /\ x \in Nat
      BY <1>1, <2>4, <2>7
    <3>2. a >= MaxLines * b /\ x >= MaxLines /\ c <= b + 1
      BY <2>6, <2>7, <2>8
    <3> HIDE DEF a, b, c, x
    <3>3. a + x >= MaxLines * c
      BY <3>1, <3>2, TimesMore
    <3> QED
      BY <2>5, <3>3 DEF c
  <2>9. CASE ~(x >= MaxLines)
    <3>1. C(k + 1) = C(k)
      BY <2>7, <2>9
    <3> HIDE DEF C, a, x
    <3>2. MaxLines * C(k) \in Int
      BY <1>1, <2>7
    <3> QED
      BY <2>4, <2>5, <2>6, <3>1, <3>2
  <2> QED
    BY <2>8, <2>9
<1> HIDE DEF S
<1>8. n \in S
  BY <1>1, <1>6, <1>7, Counting
<1>9. Len(R[n]) >= MaxLines * C(n)
  BY <1>1, <1>8 DEF S
<1>10. FullFiles(fs, n) = {i \in Indices : Len(content(fs[i])) >= MaxLines}
  BY SinkAssumption DEF FullFiles, Indices
<1> QED
  BY <1>2, <1>9, <1>10

-----------------------------------------------------------------------------
(* What is lost, as an invariant *)

\* The records a reader finds.
Found == Elems(load(Settled))

\* The acknowledged records that it does not find.
Lost == acked \ (wiped \cup Found)

\* A file that was rotated had reached max_bytes.
FullBackups ==
    /\ \A i \in Indices \ {0} : files[i].exists => Len(files[i].lines) >= MaxLines
    /\ pc = "rotating" /\ at >= 0 => Len(files[0].lines) >= MaxLines

\* The missing backups up to h.
Gaps(fs, h) == {i \in Indices \ {0} : i <= h /\ ~fs[i].exists}

\* A rotation in progress that has left a gap below h.
Opening(h) == IF pc = "rotating" /\ at >= 0 /\ at < h THEN 1 ELSE 0

\* Only an interrupted rotation leaves a gap below a backup, or below records that are gone.
GapsCounted ==
    \A h \in Indices \ {0} :
        files[h].exists \/ (h = BackupCount /\ Lost # {}) =>
            Cardinality(Gaps(files, h)) <= interrupted + Opening(h)

\* What is lost is older than what is found.
LostOlder == \A r \in Lost, q \in Found : r < q

\* A record is acknowledged only when everything before it has been written.
AckedPast == \A r \in acked : r \in Nat /\ r <= issued /\ \A k \in 1..Len(buffer) : r < buffer[k]

\* The record being written is the last in the handle, then in the file that is rotated.
IssuedIn ==
    /\ pc = "writing" => buffer[Len(buffer)] = issued
    /\ pc = "rotating" => issued \in Elems(files[IF at >= 0 THEN 0 ELSE 1].lines)

\* The inductive invariant.
KeptInv ==
    /\ LogInv /\ LogOrdered /\ FullBackups /\ GapsCounted /\ LostOlder /\ AckedPast /\ IssuedIn
    /\ interrupted \in Nat /\ IsFiniteSet(wiped)

\* The records of all the files but the current one.
Behind(fs) == UNION {Elems(content(fs[i])) : i \in Indices \ {0}}

\* What the reader finds, before a step and after it.
LEMMA FoundFiles ==
  ASSUME LogInv
  PROVE  /\ Found = Behind(files) \cup Elems(content(Settled[0]))
         /\ Settled[0] = IF pc = "repairing" THEN salvage ELSE files[0]
<1> DEFINE fs == Settled
<1>1. /\ fs \in FileSet /\ 0 \in Indices /\ \A i \in Indices \ {0} : fs[i] = files[i]
      /\ Settled[0] = IF pc = "repairing" THEN salvage ELSE files[0]
  BY SettledFiles
<1>2. Elems(load(fs)) = UNION {Elems(content(fs[i])) : i \in Indices}
  BY <1>1, LoadFinds
<1> HIDE DEF fs
<1>3. UNION {Elems(content(fs[i])) : i \in Indices} = Behind(files) \cup Elems(content(fs[0]))
  BY <1>1, Zenon DEF Behind
<1> QED
  BY <1>1, <1>2, <1>3 DEF Found, fs

\* The same after a step.
LEMMA FoundAfter ==
  ASSUME LogInv'
  PROVE  /\ Found' = Behind(files') \cup Elems(content(Settled'[0]))
         /\ Settled'[0] = IF pc' = "repairing" THEN salvage' ELSE files'[0]
<1> DEFINE fs == Settled'
<1>1. /\ fs \in FileSet /\ 0 \in Indices /\ \A i \in Indices \ {0} : fs[i] = files'[i]
      /\ Settled'[0] = IF pc' = "repairing" THEN salvage' ELSE files'[0]
  BY SettledAfter, SinkAssumption DEF Indices
<1>2. Elems(load(fs)) = UNION {Elems(content(fs[i])) : i \in Indices}
  BY <1>1, LoadFinds
<1>3. Found' = Elems(load(fs))
  BY DEF Found
<1> HIDE DEF fs
<1>4. UNION {Elems(content(fs[i])) : i \in Indices} = Behind(files') \cup Elems(content(fs[0]))
  BY <1>1, Zenon DEF Behind
<1> QED
  BY <1>1, <1>2, <1>3, <1>4 DEF fs

\* Files behind a current one that alone has changed.
LEMMA BehindSame ==
  ASSUME NEW fs, NEW gs, \A i \in Indices \ {0} : gs[i] = fs[i]
  PROVE  Behind(gs) = Behind(fs)
  BY Zenon DEF Behind

\* The first records of a sequence.
LEMMA ElemsFirst ==
  ASSUME NEW s \in Seq(Record), NEW p \in Nat, NEW q \in Nat, p <= q, q <= Len(s)
  PROVE  Elems(SubSeq(s, 1, p)) \subseteq Elems(SubSeq(s, 1, q))
         /\ Elems(SubSeq(s, 1, q)) \subseteq Elems(s)
<1> DEFINE x == SubSeq(s, 1, p)
           y == SubSeq(s, 1, q)
<1>1. Len(s) \in Nat /\ Len(x) = p /\ Len(y) = q
  OBVIOUS
<1>2. (\A i \in 1..p : x[i] = s[i]) /\ (\A i \in 1..q : y[i] = s[i])
  BY <1>1
<1> HIDE DEF x, y
<1>3. \A i \in 1..p : i \in 1..q /\ x[i] = y[i]
  BY <1>1, <1>2
<1>4. \A i \in 1..q : i \in 1..Len(s)
  BY <1>1
<1>5. Elems(x) \subseteq Elems(y) /\ Elems(y) \subseteq Elems(s)
  BY <1>1, <1>2, <1>3, <1>4 DEF Elems
<1> QED
  BY <1>5 DEF x, y

\* What a write adds to a file is what the handle held.
LEMMA ReachedElems ==
  ASSUME NEW f, NEW recs, NEW h, Fits(f, recs), Reached(f, recs, h)
  PROVE  Elems(content(f)) \subseteq Elems(content(h))
         /\ Elems(content(h)) \subseteq Elems(content(f)) \cup Elems(recs)
<1>1. f.lines \in Seq(Record) /\ recs \in Seq(Record) /\ Len(recs) \in Nat /\ Len(recs) >= 1
  BY DEF Fits, Sound, File
<1> DEFINE p == Begun(f)
<1>2. content(f) = f.lines \o SubSeq(recs, 1, p) /\ p \in 0..1
  BY ContentBegun
<1>3. PICK q \in Nat : p <= q /\ q <= Len(recs) /\ content(h) = f.lines \o SubSeq(recs, 1, q)
  BY DEF Reached
<1> HIDE DEF p
<1> DEFINE l == f.lines
           x == SubSeq(recs, 1, p)
           y == SubSeq(recs, 1, q)
<1>4. Elems(x) \subseteq Elems(y) /\ Elems(y) \subseteq Elems(recs)
  BY <1>1, <1>2, <1>3, ElemsFirst
<1>5. l \in Seq(Record) /\ x \in Seq(Record) /\ y \in Seq(Record)
  BY <1>1, <1>2, <1>3
<1>6. content(f) = l \o x /\ content(h) = l \o y
  BY <1>2, <1>3
<1> HIDE DEF l, x, y
<1>7. Elems(l \o x) = Elems(l) \cup Elems(x) /\ Elems(l \o y) = Elems(l) \cup Elems(y)
  BY <1>5, ElemsConcat
<1>8. Elems(content(f)) = Elems(l) \cup Elems(x) /\ Elems(content(h)) = Elems(l) \cup Elems(y)
  BY <1>6, <1>7, Zenon
<1> QED
  BY <1>4, <1>8, Zenon

-----------------------------------------------------------------------------
(* Counting the gaps a rotation leaves *)

\* The gaps can be counted.
LEMMA GapsFinite ==
  ASSUME NEW fs, NEW h
  PROVE  IsFiniteSet(Gaps(fs, h)) /\ Cardinality(Gaps(fs, h)) \in Nat
<1>1. IsFiniteSet(Indices) /\ Gaps(fs, h) \in SUBSET Indices
  BY SinkAssumption, FS_Interval DEF Indices, Gaps
<1>2. IsFiniteSet(Gaps(fs, h))
  BY <1>1, FS_Subset
<1> QED
  BY <1>2, FS_CardinalityType

\* Sets that differ by an element or two.
LEMMA CountMore ==
  ASSUME NEW S, NEW T, NEW p, IsFiniteSet(S), T \subseteq S \cup {p}
  PROVE  Cardinality(T) <= Cardinality(S) + 1
<1>1. Cardinality(S) \in Nat
  BY FS_CardinalityType
<1>2. /\ IsFiniteSet(S \cup {p})
      /\ Cardinality(S \cup {p}) = IF p \in S THEN Cardinality(S) ELSE Cardinality(S) + 1
  BY FS_AddElement, Zenon
<1> DEFINE U == S \cup {p}
<1>3. IsFiniteSet(U) /\ T \in SUBSET U /\ Cardinality(U) <= Cardinality(S) + 1
  BY <1>1, <1>2
<1> HIDE DEF U
<1>4. IsFiniteSet(T) /\ Cardinality(T) <= Cardinality(U)
  BY <1>3, FS_Subset
<1>5. Cardinality(T) \in Nat /\ Cardinality(U) \in Nat
  BY <1>3, <1>4, FS_CardinalityType
<1> QED
  BY <1>1, <1>3, <1>4, <1>5

\* One element fewer.
LEMMA CountLess ==
  ASSUME NEW S, NEW T, NEW p, IsFiniteSet(S), p \in S, T \subseteq S \ {p}
  PROVE  Cardinality(T) + 1 <= Cardinality(S)
<1> DEFINE U == S \ {p}
<1>1. IsFiniteSet(U) /\ Cardinality(U) = Cardinality(S) - 1
  BY FS_RemoveElement, Zenon
<1>2. T \in SUBSET U
  OBVIOUS
<1> HIDE DEF U
<1>3. IsFiniteSet(T) /\ Cardinality(T) <= Cardinality(U)
  BY <1>1, <1>2, FS_Subset
<1>4. Cardinality(T) \in Nat /\ Cardinality(U) \in Nat /\ Cardinality(S) \in Nat
  BY <1>1, <1>3, FS_CardinalityType
<1> QED
  BY <1>1, <1>3, <1>4

\* One element in the place of another.
LEMMA CountSwap ==
  ASSUME NEW S, NEW T, NEW p, NEW q, IsFiniteSet(S), p \in S, T \subseteq (S \ {p}) \cup {q}
  PROVE  Cardinality(T) <= Cardinality(S)
<1> DEFINE U == S \ {p}
<1>1. IsFiniteSet(U) /\ U \subseteq S \ {p} /\ T \subseteq U \cup {q}
  BY FS_RemoveElement, Zenon
<1> HIDE DEF U
<1>2. Cardinality(T) <= Cardinality(U) + 1
  BY <1>1, CountMore
<1>3. Cardinality(U) + 1 <= Cardinality(S)
  BY <1>1, CountLess
<1>4. IsFiniteSet(U \cup {q})
  BY <1>1, FS_AddElement, Zenon
<1>5. IsFiniteSet(T)
  <2> DEFINE V == U \cup {q}
  <2>1. IsFiniteSet(V) /\ T \in SUBSET V
    BY <1>1, <1>4
  <2> HIDE DEF V
  <2> QED
    BY <2>1, FS_Subset
<1>6. Cardinality(T) \in Nat /\ Cardinality(U) \in Nat /\ Cardinality(S) \in Nat
  BY <1>1, <1>5, FS_CardinalityType
<1> QED
  BY <1>2, <1>3, <1>6

\* A step that moves no backup, and takes from the reader only what it counts as wiped.
LEMMA KeptCurrent ==
  ASSUME KeptInv, LogInv', LogOrdered',
         \A i \in Indices \ {0} : files'[i] = files[i],
         pc' = "rotating" => at' = BackupCount /\ Len(files'[0].lines) >= MaxLines,
         \/ interrupted' = interrupted + Cost
         \/ interrupted' = interrupted /\ (pc = "rotating" => at < 0),
         wiped \subseteq wiped', IsFiniteSet(wiped'),
         Found \subseteq Found' \cup wiped', Found' \subseteq Found \cup Elems(buffer),
         acked' \subseteq acked \cup Found',
         AckedPast', IssuedIn'
  PROVE  KeptInv'
<1>1. LogInv /\ FullBackups /\ GapsCounted /\ LostOlder /\ AckedPast /\ interrupted \in Nat
  BY DEF KeptInv
<1>2. interrupted' \in Nat
  BY <1>1 DEF Cost
<1>3. Lost' \subseteq Lost
  BY DEF Lost
<1>4. FullBackups'
  BY <1>1 DEF FullBackups
<1>5. LostOlder'
  <2> SUFFICES ASSUME NEW r \in Lost', NEW q \in Found'
               PROVE  r < q
    BY DEF LostOlder
  <2>1. r \in Lost /\ r \in acked
    BY <1>3 DEF Lost
  <2>2. CASE q \in Found
    BY <1>1, <2>1, <2>2 DEF LostOlder
  <2>3. CASE q \in Elems(buffer)
    BY <1>1, <2>1, <2>3 DEF AckedPast, Elems
  <2> QED
    BY <2>2, <2>3
<1>6. GapsCounted'
  <2> SUFFICES ASSUME NEW h \in Indices \ {0}, files'[h].exists \/ (h = BackupCount /\ Lost' # {})
               PROVE  Cardinality(Gaps(files', h)) <= interrupted' + Opening(h)'
    BY DEF GapsCounted
  <2>1. Gaps(files', h) = Gaps(files, h)
    BY DEF Gaps
  <2>2. Cardinality(Gaps(files, h)) <= interrupted + Opening(h)
    BY <1>1, <1>3 DEF GapsCounted
  <2>3. IsFiniteSet(Gaps(files, h)) /\ Cardinality(Gaps(files, h)) \in Nat
    BY GapsFinite
  <2>4. interrupted + Opening(h) <= interrupted' /\ interrupted + Opening(h) \in Nat
    <3>1. at \in Int
      BY <1>1 DEF LogInv, SinkInv, Types
    <3> QED
      BY <1>1, <3>1 DEF Opening, Cost
  <2>5. Opening(h)' \in Nat
    BY DEF Opening
  <2>6. Cardinality(Gaps(files, h)) <= interrupted' + Opening(h)'
    BY <1>2, <2>2, <2>3, <2>4, <2>5
  <2> QED
    BY <2>1, <2>6
<1> QED
  BY <1>2, <1>4, <1>5, <1>6 DEF KeptInv

\* A step after which the reader finds the same.
LEMMA KeptQuiet ==
  ASSUME KeptInv, LogInv', LogOrdered', load(Settled') = load(Settled),
         \A i \in Indices \ {0} : files'[i] = files[i], pc' # "rotating", wiped' = wiped,
         \/ interrupted' = interrupted + Cost
         \/ interrupted' = interrupted /\ (pc = "rotating" => at < 0),
         acked' \subseteq acked \cup Found, AckedPast', IssuedIn'
  PROVE  KeptInv'
<1>1. Found' = Found
  BY DEF Found
<1>2. IsFiniteSet(wiped') /\ wiped \subseteq wiped'
  BY DEF KeptInv
<1> QED
  BY <1>1, <1>2, KeptCurrent

\* A step after which records of the handle have reached the current file.
LEMMA FoundGrows ==
  ASSUME LogInv, LogInv', buffer # <<>>, pc' # "repairing",
         NEW h, files' = [files EXCEPT ![0] = h], Reached(files[0], buffer, h)
  PROVE  /\ Found \subseteq Found' /\ Found' \subseteq Found \cup Elems(buffer)
         /\ \A i \in Indices \ {0} : files'[i] = files[i]
         /\ Elems(content(h)) \subseteq Found'
<1>1. pc # "repairing" /\ Fits(files[0], buffer) /\ 0 \in Indices /\ files \in [Indices -> File]
  BY BufferFits, LogFacts
<1>2. files'[0] = h /\ \A i \in Indices \ {0} : files'[i] = files[i]
  BY <1>1
<1>3. Behind(files') = Behind(files)
  BY <1>2, BehindSame
<1>4. Found = Behind(files) \cup Elems(content(files[0]))
  BY <1>1, FoundFiles
<1>5. Found' = Behind(files) \cup Elems(content(h))
  BY <1>2, <1>3, FoundAfter
<1>6. Elems(content(files[0])) \subseteq Elems(content(h))
      /\ Elems(content(h)) \subseteq Elems(content(files[0])) \cup Elems(buffer)
  BY <1>1, ReachedElems
<1> QED
  BY <1>2, <1>4, <1>5, <1>6, Zenon

\* Acknowledged records are older than what the handle still holds.
LEMMA PastEmpty ==
  ASSUME LogInv, AckedPast, buffer' = <<>>, issued' = issued, acked' \subseteq acked \cup {issued}
  PROVE  AckedPast'
<1>1. issued \in Nat /\ Len(buffer') = 0 /\ issued <= issued
  BY LogFacts
<1>2. \A k \in 1..Len(buffer') : FALSE
  BY <1>1
<1> QED
  BY <1>1, <1>2 DEF AckedPast

\* The last of the records that were written.
LEMMA LastWritten ==
  ASSUME KeptInv, pc = "writing"
  PROVE  issued \in Elems(Append_(files[0], buffer).lines)
<1>1. buffer # <<>> /\ buffer[Len(buffer)] = issued /\ Fits(files[0], buffer) /\ LogInv
  BY BufferFits DEF KeptInv, LogInv, SinkInv, BufferHeld, IssuedIn
<1>2. buffer \in Seq(Record) /\ Len(buffer) \in 1..Len(buffer) /\ files[0].lines \in Seq(Record)
  BY <1>1, LogFacts DEF Fits, Sound, File
<1>3. issued \in Elems(buffer)
  BY <1>1, <1>2 DEF Elems
<1>4. Append_(files[0], buffer).lines = files[0].lines \o buffer
  BY <1>1, AppendReaches
<1>5. Elems(files[0].lines \o buffer) = Elems(files[0].lines) \cup Elems(buffer)
  BY <1>2, ElemsConcat
<1> QED
  BY <1>3, <1>4, <1>5, Zenon

-----------------------------------------------------------------------------
(* A rotation and what is lost *)

\* What a rotation does to the files.
LEMMA RotatedFiles ==
  ASSUME LogInv, RotateStep
  PROVE  /\ at \in Nat /\ at <= BackupCount /\ pc = "rotating" /\ pc' = "rotating" /\ at' = at - 1
         /\ BackupCount \in Nat /\ BackupCount >= 1 /\ files[0].exists /\ buffer = <<>>
         /\ buffer' = buffer /\ UNCHANGED history
         /\ at = BackupCount =>
                files'[at] = Absent /\ \A i \in Indices \ {at} : files'[i] = files[i]
         /\ at # BackupCount /\ files[at].exists =>
                /\ at + 1 \in Indices /\ ~files[at + 1].exists /\ files'[at] = Absent
                /\ files'[at + 1] = files[at]
                /\ \A i \in Indices \ {at, at + 1} : files'[i] = files[i]
         /\ at # BackupCount /\ ~files[at].exists => at # 0 /\ files' = files
<1>1. /\ files \in [Indices -> File] /\ at \in Indices /\ pc = "rotating" /\ pc' = "rotating"
      /\ at >= 0
      /\ BackupCount \in Nat \ {0} /\ at \in Nat /\ at <= BackupCount /\ at' = at - 1
      /\ files' = Moved(at)
      /\ buffer' = buffer /\ UNCHANGED history
  BY SinkAssumption DEF LogInv, SinkInv, Types, Indices, RotateStep
<1>2. files[0].exists /\ buffer = <<>>
  BY <1>1 DEF LogInv, Present, SinkInv, BufferHeld
<1>3. CASE at = BackupCount
  <2>1. files' = [files EXCEPT ![at] = Absent]
    BY <1>1, <1>3 DEF Moved
  <2> QED
    BY <1>1, <1>2, <1>3, <2>1
<1>4. CASE at # BackupCount /\ files[at].exists
  <2>1. at + 1 \in Indices /\ at # at + 1 /\ at < BackupCount
    BY <1>1, <1>4 DEF Indices
  <2>2. files' = [files EXCEPT ![at + 1] = files[at], ![at] = Absent]
    BY <1>1, <1>4 DEF Moved
  <2>3. ~files[at + 1].exists
    BY <1>1, <2>1 DEF LogInv, Vacated
  <2>4. /\ files'[at] = Absent /\ files'[at + 1] = files[at]
        /\ \A i \in Indices \ {at, at + 1} : files'[i] = files[i]
    BY <1>1, <2>1, <2>2
  <2> QED
    BY <1>1, <1>2, <1>4, <2>1, <2>3, <2>4
<1>5. CASE at # BackupCount /\ ~files[at].exists
  BY <1>1, <1>2, <1>5 DEF Moved
<1> QED
  BY <1>3, <1>4, <1>5

\* What a rotation takes from the reader is older than what it leaves.
LEMMA RotatedFound ==
  ASSUME LogInv, LogInv', LogOrdered, RotateStep
  PROVE  /\ Found' \subseteq Found
         /\ \A r \in Found \ Found', q \in Found' : r < q
         /\ (at = BackupCount /\ files[BackupCount] # Absent) \/ Found' = Found
<1>1. BackupCount \in Indices
  BY SinkAssumption DEF Indices
<1> DEFINE a == content(files[BackupCount])
           b == load(Settled')
           l == load(Settled)
<1>2. a \in Seq(Record) /\ b \in Seq(Record) /\ l \in Seq(Record) /\ Ordered(l)
  BY <1>1, SettledFiles, SettledAfter, ContentIsSeq, LoadSplits DEF LogInv, Shapes, LogOrdered
<1>3. Found = Elems(l) /\ Found' = Elems(b)
  BY DEF Found
<1>4. CASE at # BackupCount
  <2>1. b = l
    BY <1>4, LogMoved
  <2> QED
    BY <1>3, <2>1
<1>5. CASE at = BackupCount
  <2>1. IsConcat(l, a, b)
    BY <1>5, LogMoved
  <2>2. files[BackupCount] = Absent => a = Nothing
    BY EmptyIsSound
  <2> HIDE DEF a, b, l
  <2>3. Elems(a \o b) = Elems(a) \cup Elems(b)
    BY <1>2, ElemsConcat
  <2>4. Elems(l) = Elems(a) \cup Elems(b)
    BY <2>1, <2>3, Zenon DEF IsConcat
  <2>5. Len(a) \in Nat /\ Len(b) \in Nat
    BY <1>2
  <2>6. /\ Len(a \o b) = Len(a) + Len(b)
        /\ \A i \in 1..Len(a) + Len(b) : (a \o b)[i] = IF i <= Len(a) THEN a[i] ELSE b[i - Len(a)]
    BY <1>2, ConcatProperties
  <2>7. /\ Len(l) = Len(a) + Len(b)
        /\ \A i \in 1..Len(a) + Len(b) : l[i] = IF i <= Len(a) THEN a[i] ELSE b[i - Len(a)]
    BY <2>1, <2>6, Zenon DEF IsConcat
  <2>8. ASSUME NEW i \in 1..Len(a), NEW j \in 1..Len(b)
        PROVE  a[i] < b[j]
    <3>1. /\ i \in 1..Len(a) + Len(b) /\ i <= Len(a) /\ Len(a) + j \in 1..Len(a) + Len(b)
          /\ ~(Len(a) + j <= Len(a))
          /\ (Len(a) + j) - Len(a) = j /\ i < Len(a) + j
      BY <2>5
    <3>2. l[i] = a[i] /\ l[Len(a) + j] = b[j]
      BY <2>7, <3>1
    <3>3. l[i] < l[Len(a) + j]
      BY <1>2, <2>7, <3>1, OrderedThroughout
    <3> QED
      BY <3>2, <3>3
  <2>9. \A r \in Elems(a), q \in Elems(b) : r < q
    BY <2>8 DEF Elems
  <2>10. a = Nothing => Elems(a) = {}
    BY ElemsNothing
  <2>11. files[BackupCount] = Absent => Elems(l) = Elems(b)
    BY <2>2, <2>4, <2>10
  <2> QED
    BY <1>3, <1>5, <2>4, <2>9, <2>11
<1> QED
  BY <1>4, <1>5

\* Every move of a rotation is paid for by the rotation in progress.
LEMMA RotatedGaps ==
  ASSUME KeptInv, LogInv', RotateStep
  PROVE  GapsCounted'
<1> SUFFICES ASSUME NEW h \in Indices \ {0}, files'[h].exists \/ (h = BackupCount /\ Lost' # {})
             PROVE  Cardinality(Gaps(files', h)) <= interrupted' + Opening(h)'
  BY DEF GapsCounted
<1>1. LogInv /\ LogOrdered /\ GapsCounted /\ interrupted \in Nat
  BY DEF KeptInv
<1>2. /\ at \in Nat /\ at <= BackupCount /\ pc = "rotating" /\ pc' = "rotating" /\ at' = at - 1
      /\ BackupCount \in Nat /\ BackupCount >= 1 /\ files[0].exists
      /\ interrupted' = interrupted /\ acked' = acked /\ wiped' = wiped
  BY <1>1, RotatedFiles DEF history
<1>3. h \in Nat /\ h >= 1 /\ h <= BackupCount /\ BackupCount \in Indices \ {0}
  BY <1>2 DEF Indices
<1>4. Opening(h)' = IF at >= 1 /\ at - 1 < h THEN 1 ELSE 0
  BY <1>2 DEF Opening
<1>5. \A k \in Indices \ {0} : Opening(k) = IF at < k THEN 1 ELSE 0
  BY <1>2 DEF Opening
<1>6. \A fs, k : IsFiniteSet(Gaps(fs, k)) /\ Cardinality(Gaps(fs, k)) \in Nat
  BY GapsFinite
<1>7. \A k \in Indices \ {0} : files[k].exists \/ (k = BackupCount /\ Lost # {}) =>
            Cardinality(Gaps(files, k)) <= interrupted + Opening(k)
  BY <1>1 DEF GapsCounted
<1>8. Found' = Found => Lost' = Lost
  BY <1>2 DEF Lost
<1>9. ~Absent.exists
  BY EmptyIsSound
<1>10. CASE at = BackupCount
  <2>1. files'[BackupCount] = Absent /\ \A i \in Indices \ {BackupCount} : files'[i] = files[i]
    BY <1>1, <1>10, RotatedFiles
  <2>2. CASE h # BackupCount
    <3>1. files[h].exists
      BY <2>1, <2>2
    <3>2. Gaps(files', h) = Gaps(files, h)
      <4>1. \A i \in Indices \ {0} : i <= h => files'[i] = files[i]
        BY <1>2, <1>3, <2>1, <2>2 DEF Indices
      <4> QED
        BY <4>1 DEF Gaps
    <3>3. Cardinality(Gaps(files, h)) <= interrupted
      BY <1>1, <1>3, <1>5, <1>6, <1>7, <1>10, <3>1
    <3> QED
      BY <1>1, <1>2, <1>4, <1>6, <3>2, <3>3
  <2>3. CASE h = BackupCount /\ files[BackupCount].exists
    <3>1. Cardinality(Gaps(files, h)) <= interrupted
      BY <1>1, <1>2, <1>3, <1>5, <1>6, <1>7, <1>10, <2>3
    <3>2. Gaps(files', h) \subseteq Gaps(files, h) \cup {h}
      BY <2>1, <2>3 DEF Gaps
    <3>3. Cardinality(Gaps(files', h)) <= Cardinality(Gaps(files, h)) + 1
      BY <1>6, <3>2, CountMore
    <3>4. Opening(h)' = 1
      BY <1>2, <1>4, <1>10, <2>3
    <3> QED
      BY <1>1, <1>2, <1>6, <3>1, <3>3, <3>4
  <2>4. CASE h = BackupCount /\ ~files[BackupCount].exists
    <3>1. files[BackupCount] = Absent
      BY <1>1, <1>3, <2>4 DEF LogInv, Shapes
    <3>2. Found' = Found
      BY <1>1, <3>1, RotatedFound
    <3>3. Lost # {}
      BY <1>8, <1>9, <2>1, <2>4, <3>2
    <3>4. Cardinality(Gaps(files, h)) <= interrupted
      BY <1>1, <1>2, <1>3, <1>5, <1>6, <1>7, <1>10, <2>4, <3>3
    <3>5. Gaps(files', h) = Gaps(files, h)
      BY <2>1, <3>1, <1>9 DEF Gaps
    <3> QED
      BY <1>1, <1>2, <1>4, <1>6, <3>4, <3>5
  <2> QED
    BY <2>2, <2>3, <2>4
<1>11. ASSUME at # BackupCount
       PROVE  Lost' = Lost
  BY <1>1, <1>8, <1>11, RotatedFound
<1>12. CASE at # BackupCount /\ files[at].exists
  <2>1. /\ at + 1 \in Indices /\ ~files[at + 1].exists /\ files'[at] = Absent
        /\ files'[at + 1] = files[at]
        /\ \A i \in Indices \ {at, at + 1} : files'[i] = files[i]
    BY <1>1, <1>12, RotatedFiles
  <2>2. at + 1 \in Indices \ {0}
    BY <1>2, <2>1
  <2>3. CASE h < at
    <3>1. files[h].exists
      BY <1>2, <1>3, <2>1, <2>3
    <3>2. Gaps(files', h) = Gaps(files, h)
      <4>1. \A i \in Indices \ {0} : i <= h => files'[i] = files[i]
        BY <1>2, <1>3, <2>1, <2>3 DEF Indices
      <4> QED
        BY <4>1 DEF Gaps
    <3>3. Cardinality(Gaps(files, h)) <= interrupted
      BY <1>1, <1>2, <1>3, <1>5, <1>6, <1>7, <2>3, <3>1
    <3> QED
      BY <1>1, <1>2, <1>4, <1>6, <3>2, <3>3
  <2>4. CASE h = at
    BY <1>9, <1>12, <2>1, <2>4
  <2>5. CASE at = 0
    <3>1. 1 \in Indices /\ ~files[1].exists /\ files'[1].exists
          /\ \A i \in Indices \ {0, 1} : files'[i] = files[i]
      BY <1>12, <2>1, <2>5
    <3>2. CASE h = 1
      <4>1. Gaps(files', h) = {}
        BY <3>1, <3>2 DEF Gaps, Indices
      <4>2. Cardinality(Gaps(files', h)) = 0
        BY <4>1, FS_EmptySet
      <4> QED
        BY <1>1, <1>2, <1>4, <4>2
    <3>3. CASE h # 1
      <4>1. files[h].exists \/ (h = BackupCount /\ Lost # {})
        BY <1>11, <1>12, <3>1, <3>3
      <4>2. Cardinality(Gaps(files, h)) <= interrupted + 1
        BY <1>1, <1>3, <1>5, <1>6, <1>7, <2>5, <4>1
      <4>3. 1 \in Gaps(files, h) /\ Gaps(files', h) \subseteq Gaps(files, h) \ {1}
        <5>1. 1 \in Indices \ {0} /\ 1 <= h
          BY <1>3, <3>1
        <5>2. \A i \in Indices \ {0} : ~files'[i].exists => i # 1 /\ ~files[i].exists
          BY <3>1
        <5> QED
          BY <3>1, <5>1, <5>2 DEF Gaps
      <4>4. Cardinality(Gaps(files', h)) + 1 <= Cardinality(Gaps(files, h))
        BY <1>6, <4>3, CountLess
      <4> QED
        BY <1>1, <1>2, <1>4, <1>6, <4>2, <4>4
    <3> QED
      BY <3>2, <3>3
  <2>6. CASE at # 0 /\ h = at + 1
    <3>1. at \in Indices \ {0}
      BY <1>2, <2>6 DEF Indices
    <3>2. Cardinality(Gaps(files, at)) <= interrupted
      BY <1>1, <1>2, <1>5, <1>6, <1>7, <1>12, <3>1
    <3>3. Gaps(files', h) \subseteq Gaps(files, at) \cup {at}
      <4> SUFFICES ASSUME NEW i \in Gaps(files', h), i # at
                   PROVE  i \in Gaps(files, at)
        OBVIOUS
      <4>1. i \in Indices \ {0} /\ i <= at + 1 /\ ~files'[i].exists
        BY <2>6 DEF Gaps
      <4>2. i # at + 1
        BY <1>12, <2>1, <4>1
      <4>3. i <= at /\ files'[i] = files[i]
        BY <1>2, <2>1, <4>1, <4>2 DEF Indices
      <4> QED
        BY <4>1, <4>3 DEF Gaps
    <3>4. Cardinality(Gaps(files', h)) <= Cardinality(Gaps(files, at)) + 1
      BY <1>6, <3>3, CountMore
    <3>5. Opening(h)' = 1
      BY <1>2, <1>4, <2>6
    <3> QED
      BY <1>1, <1>2, <1>6, <3>2, <3>4, <3>5
  <2>7. CASE at # 0 /\ h > at + 1
    <3>1. files'[h] = files[h] /\ h # at /\ h # at + 1
      BY <1>2, <1>3, <2>1, <2>7
    <3>2. files[h].exists \/ (h = BackupCount /\ Lost # {})
      BY <1>11, <1>12, <3>1
    <3>3. Cardinality(Gaps(files, h)) <= interrupted + 1
      BY <1>1, <1>2, <1>3, <1>5, <1>6, <1>7, <2>7, <3>2
    <3>4. at + 1 \in Gaps(files, h)
      BY <1>2, <1>3, <2>1, <2>2, <2>7 DEF Gaps
    <3>5. Gaps(files', h) \subseteq (Gaps(files, h) \ {at + 1}) \cup {at}
      BY <1>12, <2>1 DEF Gaps
    <3>6. Cardinality(Gaps(files', h)) <= Cardinality(Gaps(files, h))
      <4> DEFINE S == Gaps(files, h)
                 T == Gaps(files', h)
                 p == at + 1
      <4>1. IsFiniteSet(S) /\ p \in S /\ T \subseteq (S \ {p}) \cup {at}
        BY <1>6, <3>4, <3>5
      <4> HIDE DEF S, T, p
      <4>2. Cardinality(T) <= Cardinality(S)
        BY <4>1, CountSwap
      <4> QED
        BY <4>2 DEF S, T
    <3>7. Opening(h)' = 1
      BY <1>2, <1>3, <1>4, <2>7
    <3> QED
      BY <1>1, <1>2, <1>6, <3>3, <3>6, <3>7
  <2>8. h < at \/ h = at \/ at = 0 \/ (at # 0 /\ h = at + 1) \/ (at # 0 /\ h > at + 1)
    BY <1>2, <1>3
  <2> QED
    BY <2>3, <2>4, <2>5, <2>6, <2>7, <2>8
<1>13. CASE at # BackupCount /\ ~files[at].exists
  <2>1. at # 0 /\ files' = files
    BY <1>1, <1>13, RotatedFiles
  <2>2. files[h].exists \/ (h = BackupCount /\ Lost # {})
    BY <1>11, <1>13, <2>1
  <2>3. Cardinality(Gaps(files, h)) <= interrupted + Opening(h)
    BY <1>7, <2>2
  <2>4. Opening(h) <= Opening(h)' /\ Opening(h) \in Nat /\ Opening(h)' \in Nat
    BY <1>2, <1>3, <1>4, <1>5, <2>1
  <2> QED
    BY <1>1, <1>2, <1>6, <2>1, <2>3, <2>4
<1> QED
  BY <1>10, <1>12, <1>13

-----------------------------------------------------------------------------
(* The invariant through the other actions *)

\* A rotation keeps the invariant.
LEMMA KeptRotates ==
  ASSUME KeptInv, LogInv', LogOrdered', RotateStep
  PROVE  KeptInv'
<1>1. /\ LogInv /\ LogOrdered /\ FullBackups /\ LostOlder /\ AckedPast /\ IssuedIn
      /\ interrupted \in Nat /\ IsFiniteSet(wiped)
  BY DEF KeptInv
<1>2. /\ at \in Nat /\ at <= BackupCount /\ pc = "rotating" /\ pc' = "rotating" /\ at' = at - 1
      /\ BackupCount \in Nat /\ BackupCount >= 1 /\ files[0].exists /\ buffer' = buffer
      /\ interrupted' = interrupted /\ acked' = acked /\ wiped' = wiped /\ issued' = issued
  BY <1>1, RotatedFiles DEF history
<1>3. 0 \in Indices /\ 1 \in Indices /\ ~Absent.exists
  BY <1>2, EmptyIsSound DEF Indices
<1>4. /\ at # 0 => files'[0] = files[0]
      /\ at = 0 => files'[1] = files[0]
      /\ \A i \in Indices \ {0} : files'[i].exists =>
            files'[i] = files[i] \/ (\E k \in Indices : k = at /\ files'[i] = files[k] /\ files[k].exists)
  <2>1. CASE at = BackupCount
    <3>1. files'[at] = Absent /\ \A i \in Indices \ {at} : files'[i] = files[i]
      BY <1>1, <2>1, RotatedFiles
    <3> QED
      BY <1>2, <1>3, <2>1, <3>1
  <2>2. CASE at # BackupCount /\ files[at].exists
    <3>1. /\ at + 1 \in Indices /\ files'[at] = Absent /\ files'[at + 1] = files[at]
          /\ \A i \in Indices \ {at, at + 1} : files'[i] = files[i]
      BY <1>1, <2>2, RotatedFiles
    <3>2. at \in Indices /\ at + 1 # 0 /\ (at = 0 => at + 1 = 1)
      BY <1>2 DEF Indices
    <3> QED
      BY <1>3, <2>2, <3>1, <3>2
  <2>3. CASE at # BackupCount /\ ~files[at].exists
    <3>1. at # 0 /\ files' = files
      BY <1>1, <2>3, RotatedFiles
    <3> QED
      BY <3>1
  <2> QED
    BY <2>1, <2>2, <2>3
<1>5. FullBackups'
  <2>1. \A i \in Indices : files[i].exists => Len(files[i].lines) >= MaxLines \/ (i = 0 /\ ~(at >= 0))
    BY <1>1, <1>2 DEF FullBackups
  <2>2. at >= 0
    BY <1>2
  <2>3. \A i \in Indices \ {0} : files'[i].exists => Len(files'[i].lines) >= MaxLines
    BY <1>4, <2>1, <2>2
  <2>4. at' >= 0 => Len(files'[0].lines) >= MaxLines
    BY <1>2, <1>3, <1>4, <2>1, <2>2
  <2> QED
    BY <1>2, <2>3, <2>4 DEF FullBackups
<1>6. GapsCounted'
  BY <1>1, RotatedGaps
<1>7. LostOlder'
  <2> SUFFICES ASSUME NEW r \in Lost', NEW q \in Found'
               PROVE  r < q
    BY DEF LostOlder
  <2>1. Found' \subseteq Found /\ \A x \in Found \ Found' : x < q
    BY <1>1, RotatedFound
  <2>2. r \in acked /\ r \notin wiped /\ r \notin Found'
    BY <1>2 DEF Lost
  <2>3. CASE r \in Found
    BY <2>1, <2>2, <2>3
  <2>4. CASE r \notin Found
    BY <1>1, <2>1, <2>2, <2>4 DEF Lost, LostOlder
  <2> QED
    BY <2>3, <2>4
<1>8. AckedPast'
  BY <1>1, <1>2 DEF AckedPast
<1>9. IssuedIn'
  <2>1. issued \in Elems(files[0].lines)
    BY <1>1, <1>2 DEF IssuedIn
  <2>2. CASE at = 0
    BY <1>2, <1>4, <2>1, <2>2 DEF IssuedIn
  <2>3. CASE at # 0
    BY <1>2, <1>4, <2>1, <2>3 DEF IssuedIn
  <2> QED
    BY <2>2, <2>3
<1> QED
  BY <1>1, <1>2, <1>5, <1>6, <1>7, <1>8, <1>9 DEF KeptInv

\* Before the first start nothing is acknowledged.
LEMMA KeptInit == Init => KeptInv
<1> SUFFICES ASSUME Init
             PROVE  KeptInv
  OBVIOUS
<1>1. LogInv /\ LogOrdered
  BY LogInit, LogOrderKept
<1>2. pc = "down" /\ acked = {} /\ wiped = {} /\ interrupted = 0
      /\ \A i \in Indices : files[i] = Absent
  BY DEF Init
<1>3. FullBackups /\ AckedPast /\ IssuedIn
  BY <1>2, EmptyIsSound DEF FullBackups, AckedPast, IssuedIn
<1>4. Lost = {}
  BY <1>2 DEF Lost
<1>5. LostOlder /\ GapsCounted
  BY <1>2, <1>4, EmptyIsSound DEF LostOlder, GapsCounted
<1>6. interrupted \in Nat /\ IsFiniteSet(wiped)
  BY <1>2, FS_EmptySet
<1> QED
  BY <1>1, <1>3, <1>5, <1>6 DEF KeptInv

\* A step that acknowledges nothing and leaves the handle as it is.
LEMMA PastSame ==
  ASSUME AckedPast, UNCHANGED <<acked, issued, buffer>>
  PROVE  AckedPast'
  BY DEF AckedPast

\* A record is handed to the handle.
LEMMA PastWrites ==
  ASSUME LogInv, AckedPast, acked' = acked, issued' = issued + 1,
         buffer' = Append(buffer, issued + 1)
  PROVE  AckedPast' /\ buffer'[Len(buffer')] = issued'
<1>1. issued \in Nat /\ buffer \in Seq(Record) /\ Len(buffer) \in Nat /\ issued + 1 \in Record
  BY LogFacts DEF Record
<1>2. /\ Len(buffer') = Len(buffer) + 1 /\ buffer'[Len(buffer) + 1] = issued + 1
      /\ \A k \in 1..Len(buffer) : buffer'[k] = buffer[k]
  BY <1>1, AppendProperties
<1>3. ASSUME NEW r \in acked
      PROVE  r \in Nat /\ r <= issued' /\ \A k \in 1..Len(buffer') : r < buffer'[k]
  <2>1. r \in Nat /\ r <= issued /\ \A k \in 1..Len(buffer) : r < buffer[k]
    BY <1>3 DEF AckedPast
  <2>2. \A k \in 1..Len(buffer') : k \in 1..Len(buffer) \/ k = Len(buffer) + 1
    BY <1>1, <1>2
  <2>3. \A k \in 1..Len(buffer') : r < buffer'[k]
    BY <1>1, <1>2, <2>1, <2>2
  <2> QED
    BY <1>1, <2>1, <2>3
<1> QED
  BY <1>2, <1>3 DEF AckedPast

\* Some of the records leave the handle.
LEMMA PastTears ==
  ASSUME LogInv, AckedPast, UNCHANGED <<acked, issued>>,
         NEW k \in 0..Len(buffer) - 1, buffer' = SubSeq(buffer, k + 1, Len(buffer))
  PROVE  AckedPast'
<1>1. buffer \in Seq(Record) /\ Len(buffer) \in Nat
  BY LogFacts
<1>2. Len(buffer') = Len(buffer) - k /\ \A m \in 1..Len(buffer) - k : buffer'[m] = buffer[k + m]
  BY <1>1
<1>3. \A m \in 1..Len(buffer') : k + m \in 1..Len(buffer) /\ buffer'[m] = buffer[k + m]
  BY <1>1, <1>2
<1> QED
  BY <1>3 DEF AckedPast

\* A step that is neither a write nor a rotation.
LEMMA KeptAside ==
  ASSUME KeptInv, LogInv', LogOrdered',
         OpenClean \/ RepairBegins \/ RepairEnds \/ StartUnavailable
  PROVE  KeptInv'
<1>1. LogInv /\ AckedPast
  BY DEF KeptInv
<1>2. /\ files \in [Indices -> File] /\ 0 \in Indices
  BY <1>1, LogFacts
<1>3. /\ pc # "rotating" /\ pc' # "rotating" /\ pc' # "writing"
      /\ UNCHANGED <<acked, wiped, issued, buffer, interrupted>>
  BY DEF OpenClean, RepairBegins, RepairEnds, StartUnavailable, history
<1>4. \A i \in Indices \ {0} : files'[i] = files[i]
  BY <1>2 DEF OpenClean, RepairBegins, RepairEnds, StartUnavailable, Opened
<1>5. load(Settled') = load(Settled)
  <2>1. CASE OpenClean
    BY <1>1, <2>1, LogOpened DEF OpenClean
  <2>2. CASE StartUnavailable
    BY <1>1, <2>2, LogUnchanged DEF StartUnavailable
  <2>3. CASE RepairBegins \/ RepairEnds
    BY <1>1, <2>3, LogRepaired
  <2> QED
    BY <2>1, <2>2, <2>3
<1>6. AckedPast' /\ IssuedIn' /\ acked' \subseteq acked \cup Found
  BY <1>1, <1>3, PastSame DEF IssuedIn
<1> QED
  BY <1>3, <1>4, <1>5, <1>6, KeptQuiet

\* A write up to the flush.
LEMMA KeptWriteBegins ==
  ASSUME KeptInv, LogInv', LogOrdered', WriteBegins
  PROVE  KeptInv'
<1>1. LogInv /\ AckedPast
  BY DEF KeptInv
<1>2. files \in [Indices -> File] /\ 0 \in Indices
  BY <1>1, LogFacts
<1>3. /\ pc = "idle" /\ pc' = "writing" /\ UNCHANGED <<acked, wiped, interrupted>>
      /\ issued' = issued + 1 /\ buffer' = Append(buffer, issued + 1)
  BY DEF WriteBegins
<1>4. \A i \in Indices \ {0} : files'[i] = files[i]
  BY <1>2 DEF WriteBegins, Opened
<1>5. load(Settled') = load(Settled)
  BY <1>1, LogOpened, LogUnchanged DEF WriteBegins
<1>6. AckedPast' /\ buffer'[Len(buffer')] = issued'
  BY <1>1, <1>3, PastWrites
<1>7. IssuedIn' /\ acked' \subseteq acked \cup Found /\ pc' # "rotating" /\ pc # "rotating"
  BY <1>3, <1>6 DEF IssuedIn
<1> QED
  BY <1>3, <1>4, <1>5, <1>6, <1>7, KeptQuiet

\* A write that gets through, whether or not the file is rotated.
LEMMA KeptFlushReturns ==
  ASSUME KeptInv, LogInv', LogOrdered', FlushReturns
  PROVE  KeptInv'
<1> DEFINE h == Append_(files[0], buffer)
<1>1. LogInv /\ AckedPast /\ IsFiniteSet(wiped) /\ pc = "writing" /\ issued \in Elems(h.lines)
  BY LastWritten DEF KeptInv, FlushReturns
<1>2. buffer # <<>> /\ Fits(files[0], buffer)
  BY <1>1, BufferFits DEF LogInv, SinkInv, BufferHeld
<1>3. /\ Reached(files[0], buffer, h) /\ content(h) = h.lines /\ h.tail = NoTail
      /\ h.lines \in Seq(Record)
  <2>1. /\ Sound(h) /\ h.tail = NoTail /\ Reached(files[0], buffer, h)
        /\ h.lines = files[0].lines \o buffer /\ content(h) = files[0].lines \o buffer
    BY <1>2, AppendReaches, Zenon
  <2>2. content(h) = h.lines
    BY <2>1, Zenon
  <2> HIDE DEF h
  <2>3. h.lines \in Seq(Record)
    BY <2>1 DEF Sound, File
  <2> QED
    BY <2>1, <2>2, <2>3
<1>4. files \in [Indices -> File] /\ 0 \in Indices
  BY <1>1, LogFacts
<1>5. files' = [files EXCEPT ![0] = h] /\ files'[0] = h
  BY <1>4 DEF FlushReturns
<1>6. /\ buffer' = <<>> /\ UNCHANGED <<issued, wiped, interrupted>>
      /\ (pc' = "rotating" /\ at' = BackupCount /\ acked' = acked /\ st_size(files'[0]) >= MaxLines)
         \/ (pc' = "idle" /\ acked' = acked \cup {issued})
  BY DEF FlushReturns
<1>7. st_size(h) = Len(h.lines)
  BY <1>3 DEF st_size, NoTail
<1> HIDE DEF h
<1>8. /\ Found \subseteq Found' /\ Found' \subseteq Found \cup Elems(buffer)
      /\ Elems(content(h)) \subseteq Found'
      /\ \A i \in Indices \ {0} : files'[i] = files[i]
  BY <1>1, <1>2, <1>3, <1>5, <1>6, FoundGrows
<1>9. acked' \subseteq acked \cup Found'
  BY <1>1, <1>3, <1>6, <1>8
<1>10. pc' = "rotating" => at' = BackupCount /\ Len(files'[0].lines) >= MaxLines
  BY <1>5, <1>6, <1>7
<1>11. AckedPast'
  BY <1>1, <1>6, PastEmpty
<1>12. IssuedIn'
  BY <1>1, <1>5, <1>6, SinkAssumption DEF IssuedIn
<1>13. /\ wiped \subseteq wiped' /\ IsFiniteSet(wiped') /\ Found \subseteq Found' \cup wiped'
       /\ interrupted' = interrupted /\ pc # "rotating"
  BY <1>1, <1>6, <1>8
<1> QED
  BY <1>8, <1>9, <1>10, <1>11, <1>12, <1>13, KeptCurrent

\* A flush that raises.
LEMMA KeptFlushRaises ==
  ASSUME KeptInv, LogInv', LogOrdered', FlushRaises
  PROVE  KeptInv'
<1>1. LogInv /\ AckedPast /\ IsFiniteSet(wiped) /\ pc = "writing"
  BY DEF KeptInv, FlushRaises
<1>2. buffer # <<>> /\ Fits(files[0], buffer)
  BY <1>1, BufferFits DEF LogInv, SinkInv, BufferHeld
<1>3. PICK outcome \in Interrupted(files[0], buffer) :
            files' = [files EXCEPT ![0] = outcome[1]] /\ buffer' = outcome[2]
  BY DEF FlushRaises
<1>4. PICK k \in 0..Len(buffer) - 1, cut \in {"none", "partial", "whole"} :
            outcome = <<Torn(files[0], buffer, k, cut), SubSeq(buffer, k + 1, Len(buffer))>>
  BY DEF Interrupted
<1> DEFINE h == Torn(files[0], buffer, k, cut)
<1>5. files' = [files EXCEPT ![0] = h] /\ buffer' = SubSeq(buffer, k + 1, Len(buffer))
  BY <1>3, <1>4
<1>6. Reached(files[0], buffer, h)
  BY <1>2, TornReaches
<1>7. pc' = "idle" /\ UNCHANGED <<acked, issued, wiped, interrupted>>
  BY DEF FlushRaises, history
<1> HIDE DEF h
<1>8. /\ Found \subseteq Found' /\ Found' \subseteq Found \cup Elems(buffer)
      /\ \A i \in Indices \ {0} : files'[i] = files[i]
  BY <1>1, <1>2, <1>5, <1>6, <1>7, FoundGrows
<1>9. AckedPast' /\ IssuedIn'
  BY <1>1, <1>5, <1>7, PastTears DEF IssuedIn
<1>10. /\ wiped \subseteq wiped' /\ IsFiniteSet(wiped') /\ Found \subseteq Found' \cup wiped'
       /\ pc' # "rotating"
       /\ interrupted' = interrupted /\ pc # "rotating" /\ acked' \subseteq acked \cup Found'
  BY <1>1, <1>7, <1>8
<1> QED
  BY <1>8, <1>9, <1>10, KeptCurrent

\* The end of a rotation.
LEMMA KeptRotateEnds ==
  ASSUME KeptInv, LogInv', LogOrdered', RotateEnds \/ RotateRaises
  PROVE  KeptInv'
<1>1. LogInv /\ AckedPast /\ IssuedIn
  BY DEF KeptInv
<1>2. files \in [Indices -> File] /\ 0 \in Indices /\ 1 \in Indices
  BY <1>1, LogFacts, SinkAssumption DEF Indices
<1>3. /\ pc = "rotating" /\ pc' \in {"idle", "noop"} /\ buffer = <<>>
      /\ UNCHANGED <<issued, wiped, buffer>>
  BY <1>1 DEF RotateEnds, RotateRaises, LogInv, SinkInv, BufferHeld
<1>4. \A i \in Indices \ {0} : files'[i] = files[i]
  BY <1>2 DEF RotateEnds, RotateRaises, Opened
<1>5. load(Settled') = load(Settled)
  BY <1>1, LogOpened, LogUnchanged DEF RotateEnds, RotateRaises
<1>6. interrupted' = interrupted + Cost \/ (interrupted' = interrupted /\ at < 0)
  BY DEF RotateEnds, RotateRaises
<1>7. acked' \subseteq acked \cup {issued} /\ acked' \subseteq acked \cup Found
  <2>1. CASE RotateEnds
    <3>1. at = -1 /\ acked' = acked \cup {issued} /\ ~(at >= 0)
      BY <2>1 DEF RotateEnds
    <3>2. issued \in Elems(files[1].lines)
      BY <1>1, <1>3, <3>1 DEF IssuedIn
    <3>3. ~files[1].tail.whole /\ files[1].lines \in Seq(Record) /\ 1 \in Indices \ {0}
      BY <1>1, <1>2 DEF LogInv, SinkInv, WholeBackups, Shapes, Sound, File
    <3>4. content(files[1]) = files[1].lines
      BY <3>3, ContentEnds
    <3>5. issued \in Behind(files)
      <4>1. issued \in Elems(content(files[1]))
        BY <3>2, <3>4
      <4> QED
        BY <3>3, <4>1, Zenon DEF Behind
    <3>6. issued \in Found
      BY <1>1, <3>5, FoundFiles
    <3> QED
      BY <3>1, <3>6
  <2>2. CASE RotateRaises
    BY <2>2 DEF RotateRaises
  <2> QED
    BY <2>1, <2>2
<1>8. AckedPast' /\ IssuedIn'
  BY <1>1, <1>3, <1>7, PastEmpty DEF IssuedIn
<1>9. pc' # "rotating" /\ wiped' = wiped
  BY <1>3
<1> QED
  BY <1>4, <1>5, <1>6, <1>7, <1>8, <1>9, KeptQuiet

\* The bytes a crash in the repair destroys.
LEMMA SalvageFinite ==
  ASSUME LogInv
  PROVE  /\ {salvage.lines[j] : j \in DOMAIN salvage.lines} = Elems(salvage.lines)
         /\ IsFiniteSet(Elems(salvage.lines)) /\ content(salvage) = salvage.lines
<1>1. Sound(salvage) /\ issued \in Nat /\ LinesBelow(salvage, issued + 1) /\ salvage.tail.rec = 0
  BY LogFacts DEF LogInv, SinkInv, WholeBackups
<1>2. salvage.lines \in Seq(Record) /\ DOMAIN salvage.lines = 1..Len(salvage.lines)
      /\ ~salvage.tail.whole
  BY <1>1 DEF Sound, File
<1>3. {salvage.lines[j] : j \in DOMAIN salvage.lines} = Elems(salvage.lines)
  BY <1>2 DEF Elems
<1>4. content(salvage) = salvage.lines
  BY <1>2, ContentEnds
<1>5. \A j \in 1..Len(salvage.lines) : salvage.lines[j] \in Nat /\ salvage.lines[j] <= issued
  <2> SUFFICES ASSUME NEW j \in 1..Len(salvage.lines)
               PROVE  salvage.lines[j] \in Nat /\ salvage.lines[j] <= issued
    OBVIOUS
  <2>1. salvage.lines[j] \in Nat /\ salvage.lines[j] < issued + 1
    BY <1>1, <1>2 DEF LinesBelow, Record
  <2> QED
    BY <1>1, <2>1
<1>6. Elems(salvage.lines) \in SUBSET Nat /\ \A x \in Elems(salvage.lines) : x <= issued
  BY <1>5 DEF Elems
<1>7. IsFiniteSet(Elems(salvage.lines))
  BY <1>1, <1>6, FS_BoundedSetOfNaturals
<1> QED
  BY <1>3, <1>4, <1>7

\* The writer stops, and of the records in the handle some have reached the file.
LEMMA KeptStops ==
  ASSUME KeptInv, LogInv', LogOrdered', pc' = "down", buffer' = <<>>, UNCHANGED <<issued, acked>>,
         interrupted' = interrupted + Cost \/ (interrupted' = interrupted /\ pc # "rotating"),
         wiped \subseteq wiped', IsFiniteSet(wiped'),
         Found \subseteq Found' \cup wiped', Found' \subseteq Found \cup Elems(buffer),
         \A i \in Indices \ {0} : files'[i] = files[i]
  PROVE  KeptInv'
<1>1. LogInv /\ AckedPast
  BY DEF KeptInv
<1>2. AckedPast'
  BY <1>1, PastEmpty
<1>3. IssuedIn' /\ pc' # "rotating" /\ acked' \subseteq acked \cup Found'
  BY DEF IssuedIn
<1> QED
  BY <1>2, <1>3, KeptCurrent

\* The handle is closed.
LEMMA KeptClose ==
  ASSUME KeptInv, LogInv', LogOrdered', close
  PROVE  KeptInv'
<1>1. LogInv /\ IsFiniteSet(wiped) /\ files \in [Indices -> File] /\ 0 \in Indices
  BY LogFacts DEF KeptInv
<1>2. /\ pc = "idle" /\ pc' = "down" /\ buffer' = <<>>
      /\ UNCHANGED <<issued, acked, wiped, interrupted>>
  BY DEF close, history
<1>3. CASE buffer = <<>>
  <2>1. files' = files
    BY <1>3 DEF close
  <2>2. load(Settled') = load(Settled)
    BY <1>1, <1>2, <2>1, LogUnchanged
  <2>3. Found' = Found
    BY <2>2 DEF Found
  <2> QED
    BY <1>1, <1>2, <2>1, <2>3, KeptStops
<1>4. CASE buffer # <<>>
  <2> DEFINE h == Append_(files[0], buffer)
  <2>1. files' = [files EXCEPT ![0] = h] /\ Reached(files[0], buffer, h)
    BY <1>1, <1>4, BufferFits, AppendReaches DEF close
  <2> HIDE DEF h
  <2>2. /\ Found \subseteq Found' /\ Found' \subseteq Found \cup Elems(buffer)
        /\ \A i \in Indices \ {0} : files'[i] = files[i]
    BY <1>1, <1>2, <1>4, <2>1, FoundGrows
  <2> QED
    BY <1>1, <1>2, <2>2, KeptStops
<1> QED
  BY <1>3, <1>4

\* The process is killed.
LEMMA KeptCrash ==
  ASSUME KeptInv, LogInv', LogOrdered', Crash
  PROVE  KeptInv'
<1>1. LogInv /\ files \in [Indices -> File] /\ 0 \in Indices
  BY LogFacts DEF KeptInv
<1>2. /\ pc # "repairing" /\ pc' = "down" /\ buffer' = <<>> /\ UNCHANGED <<issued, acked, wiped>>
      /\ interrupted' = interrupted + Cost
  BY DEF Crash
<1>3. wiped \subseteq wiped' /\ IsFiniteSet(wiped')
  BY <1>2 DEF KeptInv
<1>4. ASSUME NEW h, buffer # <<>>, files' = [files EXCEPT ![0] = h], Reached(files[0], buffer, h)
      PROVE  KeptInv'
  <2>1. /\ Found \subseteq Found' /\ Found' \subseteq Found \cup Elems(buffer)
        /\ \A i \in Indices \ {0} : files'[i] = files[i]
    BY <1>1, <1>2, <1>4, FoundGrows
  <2> QED
    BY <1>2, <1>3, <2>1, KeptStops
<1>5. CASE files' = files
  <2>1. load(Settled') = load(Settled)
    BY <1>1, <1>2, <1>5, LogUnchanged
  <2>2. Found' = Found
    BY <2>1 DEF Found
  <2> QED
    BY <1>2, <1>3, <1>5, <2>2, KeptStops
<1>6. buffer # <<>> => Fits(files[0], buffer)
  BY <1>1, BufferFits
<1>7. CASE buffer # <<>> /\ files' = [files EXCEPT ![0] = Append_(@, buffer)]
  <2> DEFINE h == Append_(files[0], buffer)
  <2>1. files' = [files EXCEPT ![0] = h] /\ Reached(files[0], buffer, h)
    BY <1>1, <1>6, <1>7, AppendReaches
  <2> HIDE DEF h
  <2> QED
    BY <1>4, <1>7, <2>1
<1>8. CASE buffer # <<>> /\ \E outcome \in Interrupted(files[0], buffer) :
                                  files' = [files EXCEPT ![0] = outcome[1]]
  <2>1. PICK outcome \in Interrupted(files[0], buffer) : files' = [files EXCEPT ![0] = outcome[1]]
    BY <1>8
  <2>2. Reached(files[0], buffer, outcome[1])
    BY <1>6, <1>8, <2>1, TornReaches DEF Interrupted
  <2> QED
    BY <1>4, <1>8, <2>1, <2>2
<1> QED
  BY <1>5, <1>7, <1>8 DEF Crash

\* The process is killed in the repair.
LEMMA KeptRepairCrashes ==
  ASSUME KeptInv, LogInv', LogOrdered', RepairCrashes
  PROVE  KeptInv'
<1>1. LogInv /\ IsFiniteSet(wiped) /\ files \in [Indices -> File] /\ 0 \in Indices
  BY LogFacts DEF KeptInv
<1>2. /\ pc = "repairing" /\ pc' = "down" /\ buffer' = buffer /\ UNCHANGED <<issued, acked>>
      /\ interrupted' = interrupted /\ buffer = <<>>
      /\ wiped' = wiped \cup Elems(salvage.lines)
  BY <1>1, SalvageFinite DEF RepairCrashes, LogInv, SinkInv, BufferHeld
<1>3. wiped \subseteq wiped' /\ IsFiniteSet(wiped')
  BY <1>1, <1>2, SalvageFinite, FS_Union
<1>4. PICK f \in Beginnings(salvage) : files' = [files EXCEPT ![0] = f]
  BY DEF RepairCrashes
<1>5. \A i \in Indices \ {0} : files'[i] = files[i]
  BY <1>1, <1>4
<1>6. files'[0] = f
  BY <1>1, <1>4
<1>7. Sound(salvage) /\ salvage.tail.rec = 0
  BY <1>1, LogFacts DEF LogInv, SinkInv, WholeBackups
<1>8. /\ content(salvage) = salvage.lines /\ salvage.lines \in Seq(Record)
      /\ \E k \in 0..Len(salvage.lines) : content(f) = SubSeq(salvage.lines, 1, k)
  BY <1>4, <1>7, BeginningHolds
<1>9. Elems(content(f)) \subseteq Elems(salvage.lines)
  <2>1. PICK k \in 0..Len(salvage.lines) : content(f) = SubSeq(salvage.lines, 1, k)
    BY <1>8
  <2> DEFINE b == salvage.lines
  <2>2. b \in Seq(Record) /\ content(f) = SubSeq(b, 1, k) /\ k \in 0..Len(b)
    BY <1>8, <2>1
  <2> HIDE DEF b
  <2>3. Len(content(f)) = k /\ \A j \in 1..k : content(f)[j] = b[j] /\ j \in 1..Len(b)
    BY <2>2
  <2>4. Elems(content(f)) \subseteq Elems(b)
    BY <2>3 DEF Elems
  <2> QED
    BY <2>4 DEF b
<1>10. Found = Behind(files) \cup Elems(salvage.lines)
  BY <1>1, <1>2, <1>8, FoundFiles
<1>11. Found' = Behind(files') \cup Elems(content(f))
  BY <1>2, <1>6, FoundAfter
<1>12. Behind(files') = Behind(files)
  BY <1>5 DEF Behind
<1>13. Found \subseteq Found' \cup wiped' /\ Found' \subseteq Found
  BY <1>2, <1>9, <1>10, <1>11, <1>12
<1> QED
  BY <1>2, <1>3, <1>5, <1>13, KeptStops

\* Every step keeps the invariant.
LEMMA KeptStep == KeptInv /\ LogInv' /\ LogOrdered' /\ [Next]_vars => KeptInv'
<1> SUFFICES ASSUME KeptInv, LogInv', LogOrdered', [Next]_vars
             PROVE  KeptInv'
  OBVIOUS
<1>1. CASE OpenClean \/ RepairBegins \/ RepairEnds \/ StartUnavailable
  BY <1>1, KeptAside
<1>2. CASE WriteBegins
  BY <1>2, KeptWriteBegins
<1>3. CASE FlushReturns
  BY <1>3, KeptFlushReturns
<1>4. CASE FlushRaises
  BY <1>4, KeptFlushRaises
<1>5. CASE RotateStep
  BY <1>5, KeptRotates
<1>6. CASE RotateEnds \/ RotateRaises
  BY <1>6, KeptRotateEnds
<1>7. CASE close
  BY <1>7, KeptClose
<1>8. CASE Crash
  BY <1>8, KeptCrash
<1>9. CASE RepairCrashes
  BY <1>9, KeptRepairCrashes
<1>10. CASE UNCHANGED vars
  <2>1. UNCHANGED <<files, salvage, pc, issued, buffer, at, acked, wiped, interrupted>>
    BY <1>10 DEF vars, history
  <2>2. Settled' = Settled
    BY <2>1 DEF Settled
  <2>3. Found' = Found /\ Lost' = Lost
    BY <2>1, <2>2 DEF Found, Lost
  <2>4. GapsCounted'
    BY <2>1, <2>3 DEF KeptInv, GapsCounted, Opening
  <2> QED
    BY <2>1, <2>3, <2>4 DEF KeptInv, FullBackups, LostOlder, AckedPast, IssuedIn
<1> QED
  BY <1>1, <1>2, <1>3, <1>4, <1>5, <1>6, <1>7, <1>8, <1>9, <1>10 DEF Next

-----------------------------------------------------------------------------
(* Acknowledged records are kept *)

\* At least as many times.
LEMMA TimesAtLeast ==
  ASSUME NEW a \in Int, NEW c \in Nat, NEW M \in Nat, a <= c
  PROVE  a * M <= M * c
<1>1. PICK d \in Nat : c = a + d
  <2>1. c - a \in Nat /\ c = a + (c - a)
    OBVIOUS
  <2> QED
    BY <2>1
<1>2. M * (a + d) = M * a + M * d /\ M * d \in Nat /\ M * a = a * M /\ M * a \in Int
  OBVIOUS
<1> QED
  BY <1>1, <1>2

\* As long as records are missing, the files that are left are full but for one per
\* interrupted rotation.
LEMMA FilesLeft ==
  ASSUME KeptInv, Lost # {}
  PROVE  LET full == {i \in Indices : Len(content(Settled[i])) >= MaxLines}
         IN  IsFiniteSet(full) /\ Cardinality(full) \in Nat
         /\ BackupCount - interrupted <= Cardinality(full)
<1> DEFINE full == {i \in Indices : Len(content(Settled[i])) >= MaxLines}
           E == {i \in Indices \ {0} : files[i].exists}
           G == Gaps(files, BackupCount)
<1>1. LogInv /\ FullBackups /\ GapsCounted /\ interrupted \in Nat
  BY DEF KeptInv
<1>2. BackupCount \in Nat /\ BackupCount >= 1 /\ BackupCount \in Indices \ {0} /\ 0 \in Indices
  BY SinkAssumption DEF Indices
<1>3. IsFiniteSet(Indices)
  BY <1>2, FS_Interval DEF Indices
<1>4. full \in SUBSET Indices /\ E \in SUBSET Indices
  OBVIOUS
<1>5. \A i \in Indices \ {0} : Settled[i] = files[i] /\ content(files[i]) = files[i].lines
  <2> SUFFICES ASSUME NEW i \in Indices \ {0}
               PROVE  Settled[i] = files[i] /\ content(files[i]) = files[i].lines
    OBVIOUS
  <2>1. ~files[i].tail.whole /\ files[i].lines \in Seq(Record)
    BY <1>1 DEF LogInv, SinkInv, WholeBackups, Shapes, Sound, File
  <2> QED
    BY <1>1, <2>1, SettledFiles, ContentEnds
<1>6. E \subseteq full
  BY <1>1, <1>5 DEF FullBackups
<1>7. pc = "rotating" /\ at >= 0 => 0 \in full
  <2> SUFFICES ASSUME pc = "rotating", at >= 0
               PROVE  Len(content(Settled[0])) >= MaxLines
    BY <1>2
  <2>1. Settled[0] = files[0]
    BY <1>1, SettledFiles
  <2>2. files[0].tail.rec = 0 /\ Sound(files[0]) /\ files[0].lines \in Seq(Record)
    BY <1>1, LogFacts DEF LogInv, SinkInv, NextCompletes, Sound, File
  <2>3. content(files[0]) = files[0].lines
    BY <2>2, ContentEnds DEF Sound
  <2> QED
    BY <1>1, <2>1, <2>3 DEF FullBackups
<1>8. E \cup G = 1..BackupCount /\ E \cap G = {}
  BY <1>2 DEF Indices, Gaps
<1>9. 0 \notin E
  OBVIOUS
<1> HIDE DEF full, E, G
<1>10. IsFiniteSet(full) /\ IsFiniteSet(E) /\ Cardinality(full) \in Nat /\ Cardinality(E) \in Nat
  <2>1. IsFiniteSet(full) /\ IsFiniteSet(E)
    BY <1>3, <1>4, FS_Subset
  <2> QED
    BY <2>1, FS_CardinalityType
<1>11. IsFiniteSet(G) /\ Cardinality(G) \in Nat
  BY GapsFinite DEF G
<1>12. Cardinality(E) + Cardinality(G) = BackupCount
  <2>1. Cardinality(E \cup G) = Cardinality(E) + Cardinality(G) - Cardinality(E \cap G)
    BY <1>10, <1>11, FS_Union
  <2>2. Cardinality(E \cap G) = 0
    BY <1>8, FS_EmptySet
  <2>3. Cardinality(1..BackupCount) = BackupCount
    BY <1>2, FS_Interval
  <2>4. Cardinality(E \cup G) = BackupCount
    BY <1>8, <2>3, Zenon
  <2> DEFINE e == Cardinality(E)
             g == Cardinality(G)
             x == Cardinality(E \cap G)
  <2>5. BackupCount = e + g - x /\ x = 0 /\ e \in Nat /\ g \in Nat
    BY <1>10, <1>11, <2>1, <2>2, <2>4, Zenon
  <2> HIDE DEF e, g, x
  <2>6. e + g = BackupCount
    BY <1>2, <2>5
  <2> QED
    BY <2>6 DEF e, g
<1>13. Cardinality(G) <= interrupted + Opening(BackupCount)
  BY <1>1, <1>2 DEF GapsCounted, G
<1>14. CASE pc = "rotating" /\ at >= 0
  <2>1. Cardinality(E) + 1 <= Cardinality(full)
    <3>1. 0 \in full /\ E \subseteq full \ {0}
      BY <1>6, <1>7, <1>9, <1>14
    <3> QED
      BY <1>10, <3>1, CountLess
  <2>2. Opening(BackupCount) \in 0..1
    BY DEF Opening
  <2>3. BackupCount - interrupted <= Cardinality(full)
    BY <1>1, <1>2, <1>10, <1>11, <1>12, <1>13, <2>1, <2>2
  <2> QED
    BY <1>10, <2>3 DEF full
<1>15. CASE ~(pc = "rotating" /\ at >= 0)
  <2>1. Cardinality(E) <= Cardinality(full)
    BY <1>6, <1>10, FS_Subset
  <2>2. Opening(BackupCount) = 0
    BY <1>15 DEF Opening
  <2>3. BackupCount - interrupted <= Cardinality(full)
    BY <1>1, <1>2, <1>10, <1>11, <1>12, <1>13, <2>1, <2>2
  <2> QED
    BY <1>10, <2>3 DEF full
<1> QED
  BY <1>14, <1>15

\* The invariant gives the promise.
LEMMA KeptMeans == KeptInv => AckedKept
<1> SUFFICES ASSUME KeptInv
             PROVE  AckedKept
  OBVIOUS
<1> DEFINE kept == load(Settled)
           found == {kept[j] : j \in DOMAIN kept}
           newer(r) == {q \in found \cup wiped : q > r}
<1>1. LogInv /\ LogOrdered /\ LostOlder /\ interrupted \in Nat /\ IsFiniteSet(wiped)
  BY DEF KeptInv
<1>2. Settled \in FileSet /\ kept \in Seq(Record)
  BY <1>1, SettledFiles, LoadSplits
<1>3. found = Found
  <2> HIDE DEF kept
  <2>1. DOMAIN kept = 1..Len(kept)
    BY <1>2
  <2> QED
    BY <2>1 DEF Found, Elems, kept
<1>4. IsFiniteSet(Found) /\ Cardinality(Found) = Len(kept)
  BY <1>1, <1>2, OrderedCount DEF LogOrdered, Found
<1> HIDE DEF kept, found
<1>5. ASSUME NEW r \in acked \ (wiped \cup found)
      PROVE  Cardinality(newer(r)) >= (BackupCount - interrupted) * MaxLines
  <2>1. r \in Lost
    BY <1>3, <1>5 DEF Lost
  <2>2. \A q \in Found : r < q
    BY <1>1, <2>1 DEF LostOlder
  <2> DEFINE N == newer(r)
             F == Found
             W == Found \cup wiped
  <2>3. F \subseteq N /\ N \in SUBSET W
    <3>1. \A q \in Found : q > r
      BY <2>2
    <3> QED
      BY <1>3, <3>1
  <2>4. IsFiniteSet(W)
    BY <1>1, <1>4, FS_Union
  <2> DEFINE full == {i \in Indices : Len(content(Settled[i])) >= MaxLines}
  <2>5. IsFiniteSet(full) /\ Cardinality(full) \in Nat
        /\ BackupCount - interrupted <= Cardinality(full)
    BY <2>1, FilesLeft
  <2>6. Len(kept) >= MaxLines * Cardinality(full)
    BY <1>2, LoadLong DEF kept
  <2> HIDE DEF full, N, F, W
  <2>7. IsFiniteSet(N)
    BY <2>3, <2>4, FS_Subset
  <2>8. F \in SUBSET N /\ IsFiniteSet(F) /\ Cardinality(F) = Len(kept)
    BY <1>4, <2>3 DEF F
  <2>9. Cardinality(F) <= Cardinality(N)
    BY <2>7, <2>8, FS_Subset
  <2>10. Cardinality(F) \in Nat /\ Cardinality(N) \in Nat
    BY <2>7, <2>8, FS_CardinalityType
  <2> DEFINE a == BackupCount - interrupted
             c == Cardinality(full)
  <2>11. a \in Int /\ c \in Nat /\ MaxLines \in Nat /\ a <= c
    BY <1>1, <2>5, SinkAssumption
  <2> HIDE DEF a, c
  <2>12. a * MaxLines <= MaxLines * c
    BY <2>11, TimesAtLeast
  <2>13. a * MaxLines \in Int /\ MaxLines * c \in Int
    BY <2>11
  <2>14. Cardinality(N) >= a * MaxLines
    BY <2>6, <2>8, <2>9, <2>10, <2>12, <2>13 DEF c
  <2> QED
    BY <2>14 DEF N, a
<1>6. \A r \in acked \ (wiped \cup found) :
        Cardinality(newer(r)) >= (BackupCount - interrupted) * MaxLines
  BY <1>5
<1> QED
  BY <1>6 DEF AckedKept, found, kept

\* A record for which JsonlSink.write returned is read back, unless a crash in
\* _truncate_trailing_partial destroyed it, or as many newer records as backup_count
\* full files hold are there in its place; an interrupted _rotate costs one file.
THEOREM AckedRecordsKept == Spec => []AckedKept
<1>1. Spec => []LogInv
  BY LogAlways
<1>2. Spec => []LogOrdered
  BY LogAlways
<1>3. Spec => []KeptInv
  BY <1>1, <1>2, KeptInit, KeptStep, PTL DEF Spec
<1> QED
  BY <1>3, KeptMeans, PTL
=============================================================================
