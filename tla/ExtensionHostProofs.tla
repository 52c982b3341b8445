------------------------- MODULE ExtensionHostProofs -------------------------
(***************************************************************************)
(* Proofs about ExtensionHost for any number of concurrent calls, commands, *)
(* managers and retries.                                                   *)
(*                                                                         *)
(* As long as calls do not overlap, the one call that connects or disposes *)
(* knows where the manager is: the invariant says, for each place where    *)
(* such a call waits, which manager is the controller's, which is current, *)
(* and whose signals the feedback targets are.                             *)
(***************************************************************************)
EXTENDS ExtensionHost, TLAPS

Calls == Callers \cup {Loop}
Places == {"idle", "asked", "backoff", "draining", "flush", "closing", "disposed", "handshake",
           "state"}
Call == [op : {"none", "connect", "pause", "resume", "restart", "shutdown"}, pc : Places,
         m : Managers \cup {0}]
Manager == [child : {"none", "alive", "killed", "gone"}, connected : BOOLEAN, live : BOOLEAN,
            stopping : BOOLEAN]

TypeOK ==
    /\ manager \in Managers \cup {0} /\ current \in Managers \cup {0}
    /\ lastMarket \in Managers \cup {0} /\ presented \in Managers \cup {0}
    /\ commands \in Nat
    /\ mgr \in [Managers -> Manager]
    /\ calls \in [Calls -> Call]
    /\ \A c \in Calls : calls[c].pc \in {"asked", "closing", "handshake", "state"} =>
            calls[c].m \in Managers

\* A manager whose child runs has its client.
AliveConnected == \A m \in Managers : mgr[m].child = "alive" => mgr[m].connected

\* The manager and the generation that is current never name two managers.
OneGeneration == manager # 0 /\ current # 0 => manager = current

\* The reconnect loop connects, and runs at most once.
LoopFlag ==
    /\ ~At(Loop, "idle") => calls[Loop].op = "connect"
    /\ ~disposed /\ ~restartInFlight => At(Loop, "idle")

\* The editor calls start first.
StartedFirst == disposed => commands > 0

\* One call connects or disposes at a time.
OneBusy == \A c, d \in Calls : Busy(c) /\ Busy(d) => c = d

\* What holds where that call waits.
InFlush == \A c \in Calls : At(c, "flush") => current = 0 /\ presented = 0
InDispose ==
    \A c \in Calls : calls[c].pc \in {"closing", "disposed"} =>
        manager = 0 /\ current = 0 /\ presented = 0 /\ lastMarket = 0
InConnect ==
    \A c \in Calls : calls[c].pc \in {"handshake", "state"} =>
        /\ calls[c].op = "connect"
        /\ current = calls[c].m /\ (manager = current \/ ~mgr[current].connected)

\* A child that runs is the manager's, or a call is shutting it down.
Accounted ==
    \A m \in Managers : mgr[m].child = "alive" =>
        m = manager \/ \E c \in Calls : At(c, "closing") /\ calls[c].m = m

\* After shutdown nothing connects any more, and a child that runs is on its way out.
Disposing ==
    disposed =>
        /\ \A c \in Calls : At(c, "asked") => calls[c].op # "resume"
        /\ \A c \in Calls : Busy(c) => calls[c].op = "shutdown"
        /\ \A m \in Managers : mgr[m].child = "alive" =>
                \E c \in Calls : calls[c].pc \in {"draining", "flush", "closing"}

\* The feedback targets are signals of the manager's child.
TargetsOwn == manager # 0 => presented \in {0, manager} /\ lastMarket \in {0, manager}

\* The inductive invariant.
Apart ==
    OneBusy /\ InFlush /\ InDispose /\ InConnect /\ Accounted /\ Disposing /\ TargetsOwn
        /\ FeedbackReachesItsRun
HostInv ==
    /\ TypeOK /\ AliveConnected /\ OneGeneration /\ LoopFlag /\ StartedFirst
    /\ ~overlapped => Apart

-----------------------------------------------------------------------------
(* Managers *)

\* What cleanup and the end of a child leave of a manager.
LEMMA ManagerEnds ==
  ASSUME HostInv, NEW m \in Managers
  PROVE  /\ Cleaned(m) \in Manager /\ ~Cleaned(m).connected /\ Cleaned(m).child = mgr[m].child
         /\ Terminated(m) \in Manager /\ ~Terminated(m).connected
         /\ Terminated(m).child # "alive"
<1>1. mgr[m] \in Manager /\ (mgr[m].child = "alive" => mgr[m].connected)
  BY DEF HostInv, TypeOK, AliveConnected
<1>2. Cleaned(m) \in Manager /\ ~Cleaned(m).connected /\ Cleaned(m).child = mgr[m].child
  BY <1>1 DEF Cleaned, Manager
<1>3. Terminated(m) \in Manager /\ ~Terminated(m).connected
  BY <1>2 DEF Terminated, Manager
<1>4. Terminated(m).child # "alive"
  BY <1>1, <1>2 DEF Terminated, Manager
<1> QED
  BY <1>2, <1>3, <1>4

\* No manager gets its child or its client back.
Fades ==
    /\ mgr' \in [Managers -> Manager] /\ AliveConnected'
    /\ \A m \in Managers : /\ mgr'[m].child = "alive" => mgr[m].child = "alive"
                           /\ mgr'[m].connected => mgr[m].connected

\* Setting one manager to what cleanup leaves of it.
LEMMA EndFades ==
  ASSUME HostInv, NEW m \in Managers, NEW r, mgr' = [mgr EXCEPT ![m] = r],
         r = Terminated(m) \/ (r = Cleaned(m) /\ ~mgr[m].connected)
  PROVE  Fades /\ mgr'[m].child # "alive"
<1>1. mgr \in [Managers -> Manager] /\ AliveConnected
  BY DEF HostInv, TypeOK
<1>2. r \in Manager /\ ~r.connected /\ r.child # "alive"
  BY <1>1, ManagerEnds DEF AliveConnected
<1> QED
  BY <1>1, <1>2 DEF Fades, AliveConnected

-----------------------------------------------------------------------------
(* Calls *)

\* A call comes to a place where it neither connects nor disposes: everything stays
\* known, if the call leaves no child behind.
LEMMA ParkKeeps ==
  ASSUME HostInv, NEW c \in Calls, NEW r \in Call, calls' = [calls EXCEPT ![c] = r],
         r.pc \in {"idle", "asked", "backoff"},
         r.pc = "asked" => r.m \in Managers /\ (disposed => r.op # "resume"),
         manager' = manager, current' = current, disposed' = disposed, sent' = sent,
         overlapped' = overlapped, commands' \in Nat, commands' >= commands,
         presented' \in {0, presented}, lastMarket' \in {0, lastMarket},
         Fades,
         c # Loop /\ restartInFlight => restartInFlight',
         c = Loop => (r.pc # "idle" => r.op = "connect")
                     /\ (~disposed /\ ~restartInFlight' => r.pc = "idle"),
         ~overlapped /\ calls[c].pc \in {"draining", "flush", "closing"} =>
            \A m \in Managers : mgr'[m].child # "alive"
  PROVE  HostInv'
<1> USE DEF At
<1>1. TypeOK
  BY DEF HostInv
<1>2. calls'[c] = r /\ \A d \in Calls \ {c} : calls'[d] = calls[d]
  BY <1>1 DEF TypeOK
<1>3. TypeOK'
  BY <1>1, <1>2 DEF TypeOK, Fades
<1>4. AliveConnected' /\ OneGeneration' /\ StartedFirst'
  BY <1>1, <1>3 DEF HostInv, Fades, OneGeneration, StartedFirst, TypeOK
<1>5. LoopFlag'
  BY <1>2 DEF HostInv, LoopFlag, Calls
<1>6. ASSUME ~overlapped'
      PROVE  Apart'
  <2>1. ~overlapped /\ Apart
    BY <1>6 DEF HostInv
  <2>2. \A d \in Calls : Busy(d)' => Busy(d) /\ d # c /\ calls'[d] = calls[d]
    BY <1>2 DEF Busy
  <2>3. OneBusy'
    BY <2>1, <2>2 DEF Apart, OneBusy
  <2>4. InFlush' /\ InDispose'
    BY <1>2, <2>1 DEF Apart, InFlush, InDispose
  <2>5. InConnect'
    BY <1>1, <1>2, <2>1 DEF Apart, InConnect, Fades, TypeOK
  <2>6. Accounted'
    BY <1>2, <2>1 DEF Apart, Accounted, Fades
  <2>7. Disposing'
    BY <1>2, <2>1, <2>2 DEF Apart, Disposing, Fades
  <2>8. TargetsOwn' /\ FeedbackReachesItsRun'
    BY <2>1 DEF Apart, TargetsOwn, FeedbackReachesItsRun
  <2> QED
    BY <2>3, <2>4, <2>5, <2>6, <2>7, <2>8 DEF Apart
<1> QED
  BY <1>3, <1>4, <1>5, <1>6 DEF HostInv

\* A call begins to dispose of the manager.
LEMMA DisposeKeeps ==
  ASSUME HostInv, NEW c \in Calls, NEW op \in {"connect", "restart", "shutdown"},
         BeginDispose(c, op),
         manager' = manager, mgr' = mgr, lastMarket' = lastMarket, disposed' = disposed,
         sent' = sent, restartInFlight' = restartInFlight, commands' \in Nat, commands' >= commands,
         calls[c].pc \in {"idle", "asked", "backoff", "draining", "disposed"},
         ~overlapped /\ disposed => op = "shutdown",
         c = Loop => op = "connect" /\ ~At(Loop, "idle")
  PROVE  HostInv'
<1> USE DEF At
<1> DEFINE r == [op |-> op, pc |-> "flush", m |-> 0]
<1>1. TypeOK
  BY DEF HostInv
<1>2. calls'[c] = r /\ \A d \in Calls \ {c} : calls'[d] = calls[d]
  BY <1>1 DEF TypeOK, BeginDispose, Goto
<1>3. TypeOK'
  <2>1. calls' = [calls EXCEPT ![c] = r] /\ r \in Call /\ current' = 0 /\ presented' = 0
    BY DEF BeginDispose, Goto, Call, Places
  <2> QED
    BY <1>1, <1>2, <2>1 DEF TypeOK
<1>4. AliveConnected' /\ OneGeneration' /\ StartedFirst'
  BY <1>1 DEF HostInv, AliveConnected, OneGeneration, StartedFirst, TypeOK, BeginDispose
<1>5. LoopFlag'
  BY <1>2 DEF HostInv, LoopFlag, Calls
<1>6. ASSUME ~overlapped'
      PROVE  Apart'
  <2>1. ~overlapped /\ Apart /\ \A d \in Calls \ {c} : ~Busy(d)
    BY <1>1, <1>6 DEF HostInv, BeginDispose, Overlaps, TypeOK
  <2>2. \A d \in Calls : Busy(d)' => d = c
    BY <1>2, <2>1 DEF Busy
  <2>3. OneBusy'
    BY <2>2 DEF OneBusy
  <2>4. InFlush' /\ InDispose' /\ InConnect'
    BY <1>2, <2>1, <2>2 DEF BeginDispose, InFlush, InDispose, InConnect, Busy
  <2>5. Accounted'
    BY <1>2, <2>1 DEF Apart, Accounted, Busy
  <2>6. Disposing'
    BY <1>2, <2>1, <2>2 DEF Apart, Disposing
  <2>7. TargetsOwn' /\ FeedbackReachesItsRun'
    BY <2>1 DEF Apart, TargetsOwn, FeedbackReachesItsRun, BeginDispose
  <2> QED
    BY <2>3, <2>4, <2>5, <2>6, <2>7 DEF Apart
<1> QED
  BY <1>3, <1>4, <1>5, <1>6 DEF HostInv

-----------------------------------------------------------------------------
(* The steps of disposing and connecting *)

\* Nothing fades when no manager changes.
LEMMA Unfaded ==
  ASSUME HostInv, mgr' = mgr
  PROVE  Fades
  BY DEF HostInv, TypeOK, Fades, AliveConnected

\* A call that returns is idle.
LEMMA IdleIsCall == Idle \in Call /\ Idle.pc = "idle" /\ Idle.op = "none"
  BY DEF Idle, Call, Places

\* A command counts.
LEMMA CommandCounts ==
  ASSUME HostInv
  PROVE  /\ commands \in Nat /\ (commands' = commands + 1 => commands' \in Nat /\ commands' >= commands)
         /\ (commands' = commands => commands' \in Nat /\ commands' >= commands)
  BY DEF HostInv, TypeOK

\* The manager is handed over to the call that shuts it down.
LEMMA FlushedKeeps ==
  ASSUME HostInv, NEW c \in Calls, Flushed(c)
  PROVE  HostInv'
<1> USE DEF At
<1> DEFINE m == manager
           r == [op |-> calls[c].op, pc |-> IF connected THEN "closing" ELSE "disposed",
                 m |-> IF connected THEN manager ELSE 0]
<1>1. TypeOK /\ AliveConnected
  BY DEF HostInv
<1>2. /\ calls[c].pc = "flush" /\ calls' = [calls EXCEPT ![c] = r]
      /\ manager' = 0 /\ lastMarket' = 0
      /\ UNCHANGED <<controller, actual, current, presented, feedback, commands, overlapped>>
  BY DEF Flushed, Goto
<1>3. calls'[c] = r /\ \A d \in Calls \ {c} : calls'[d] = calls[d]
  BY <1>1, <1>2 DEF TypeOK
<1>4. /\ mgr' \in [Managers -> Manager]
      /\ \A k \in Managers : mgr'[k].child = mgr[k].child /\ mgr'[k].connected = mgr[k].connected
  <2>1. CASE connected
    <3>1. mgr' = [mgr EXCEPT ![manager].stopping = TRUE] /\ manager \in Managers
      BY <1>1, <2>1 DEF Flushed, connected, TypeOK
    <3>2. [mgr[manager] EXCEPT !.stopping = TRUE] \in Manager
          /\ [mgr[manager] EXCEPT !.stopping = TRUE].child = mgr[manager].child
          /\ [mgr[manager] EXCEPT !.stopping = TRUE].connected = mgr[manager].connected
      BY <1>1, <3>1 DEF TypeOK, Manager
    <3>3. \A k \in Managers : mgr'[k] = IF k = manager
                                        THEN [mgr[manager] EXCEPT !.stopping = TRUE] ELSE mgr[k]
      BY <1>1, <3>1 DEF TypeOK
    <3>4. mgr' \in [Managers -> Manager]
      BY <1>1, <3>1, <3>2 DEF TypeOK
    <3> QED
      BY <3>2, <3>3, <3>4
  <2>2. CASE ~connected
    BY <1>1, <2>2 DEF Flushed, TypeOK
  <2> QED
    BY <2>1, <2>2
<1>5. connected => manager \in Managers
  BY <1>1 DEF TypeOK, connected
<1>6. TypeOK'
  <2>1. r \in Call
    BY <1>1, <1>5 DEF TypeOK, Call, Places
  <2>2. calls' \in [Calls -> Call]
    BY <1>1, <1>2, <2>1 DEF TypeOK
  <2> QED
    BY <1>1, <1>2, <1>3, <1>4, <1>5, <2>2 DEF TypeOK, controller
<1>7. AliveConnected' /\ OneGeneration' /\ LoopFlag' /\ StartedFirst'
  <2>1. AliveConnected'
    BY <1>1, <1>4 DEF AliveConnected
  <2>2. OneGeneration' /\ StartedFirst'
    BY <1>2 DEF HostInv, OneGeneration, StartedFirst, controller
  <2>3. LoopFlag'
    BY <1>2, <1>3 DEF HostInv, LoopFlag, controller, Calls
  <2> QED
    BY <2>1, <2>2, <2>3
<1>8. ASSUME ~overlapped'
      PROVE  Apart'
  <2>1. ~overlapped /\ Apart
    BY <1>2, <1>8 DEF HostInv
  <2>2. \A d \in Calls : (Busy(d) => d = c) /\ (Busy(d)' => d = c) /\ Busy(c)
    BY <1>2, <1>3, <2>1 DEF Apart, OneBusy, Busy
  <2>3. OneBusy' /\ InFlush' /\ InConnect'
    BY <1>3, <2>2 DEF OneBusy, InFlush, InConnect, Busy
  <2>4. InDispose'
    BY <1>2, <2>1, <2>2 DEF Apart, InFlush, InDispose
  <2>5. \A k \in Managers : mgr[k].child = "alive" => k = manager /\ connected
    BY <1>1, <1>2, <2>1, <2>2 DEF Apart, Accounted, AliveConnected, connected, Busy, Managers
  <2>6. Accounted'
    BY <1>3, <1>4, <2>5 DEF Accounted
  <2>7. Disposing'
    <3> SUFFICES ASSUME disposed'
                 PROVE  /\ \A d \in Calls : calls'[d].pc = "asked" => calls'[d].op # "resume"
                        /\ \A d \in Calls : Busy(d)' => calls'[d].op = "shutdown"
                        /\ \A k \in Managers : mgr'[k].child = "alive" =>
                                \E d \in Calls : calls'[d].pc \in {"draining", "flush", "closing"}
      BY DEF Disposing
    <3>1. disposed /\ Disposing
      BY <1>2, <2>1 DEF controller, Apart
    <3>2. calls[c].op = "shutdown"
      BY <2>2, <3>1 DEF Disposing
    <3> QED
      BY <1>3, <1>4, <2>2, <2>5, <3>1, <3>2 DEF Disposing
  <2>8. TargetsOwn' /\ FeedbackReachesItsRun'
    BY <1>2, <2>1 DEF Apart, TargetsOwn, FeedbackReachesItsRun, feedback
  <2> QED
    BY <2>3, <2>4, <2>6, <2>7, <2>8 DEF Apart
<1> QED
  BY <1>6, <1>7, <1>8 DEF HostInv

\* A call that is shutting a manager down knows of the only child there may be.
LEMMA ClosingAlone ==
  ASSUME HostInv, ~overlapped, NEW c \in Calls, At(c, "closing"),
         Fades, mgr'[calls[c].m].child # "alive"
  PROVE  \A k \in Managers : mgr'[k].child # "alive"
<1>1. Apart /\ TypeOK
  BY DEF HostInv
<1>2. manager = 0 /\ \A d \in Calls : At(d, "closing") => d = c
  BY <1>1 DEF Apart, InDispose, OneBusy, Busy, At
<1>3. \A k \in Managers : mgr[k].child = "alive" => k = calls[c].m
  BY <1>1, <1>2 DEF Apart, Accounted, Managers
<1> QED
  BY <1>3 DEF Fades

\* The child has been told to end.
LEMMA ClosedKeeps ==
  ASSUME HostInv, NEW c \in Calls, Closed(c)
  PROVE  HostInv'
<1> USE DEF At
<1> DEFINE m == calls[c].m
           r == [op |-> calls[c].op, pc |-> "disposed", m |-> 0]
<1>1. TypeOK /\ calls[c].pc = "closing" /\ m \in Managers
  BY DEF HostInv, Closed, TypeOK
<1>2. /\ mgr' = [mgr EXCEPT ![m] = Terminated(m)] /\ calls' = [calls EXCEPT ![c] = r]
      /\ UNCHANGED <<controller, actual, manager, current, lastMarket, presented, feedback,
                     commands, overlapped>>
  BY DEF Closed, Goto
<1>3. calls'[c] = r /\ \A d \in Calls \ {c} : calls'[d] = calls[d]
  BY <1>1, <1>2 DEF TypeOK
<1>4. Fades /\ mgr'[m].child # "alive"
  BY <1>1, <1>2, EndFades
<1>5. TypeOK'
  <2>1. r \in Call
    BY <1>1 DEF TypeOK, Call, Places
  <2>2. calls' \in [Calls -> Call]
    BY <1>1, <1>2, <2>1 DEF TypeOK
  <2> QED
    BY <1>1, <1>2, <1>3, <1>4, <2>2 DEF TypeOK, Fades
<1>6. AliveConnected' /\ OneGeneration' /\ LoopFlag' /\ StartedFirst'
  <2>1. AliveConnected'
    BY <1>4 DEF Fades
  <2>2. OneGeneration' /\ StartedFirst'
    BY <1>2 DEF HostInv, OneGeneration, StartedFirst, controller
  <2>3. LoopFlag'
    BY <1>1, <1>2, <1>3 DEF HostInv, LoopFlag, controller, Calls
  <2> QED
    BY <2>1, <2>2, <2>3
<1>7. ASSUME ~overlapped'
      PROVE  Apart'
  <2>1. ~overlapped /\ Apart
    BY <1>2, <1>7 DEF HostInv
  <2>2. \A d \in Calls : (Busy(d) => d = c) /\ (Busy(d)' => d = c) /\ Busy(c)
    BY <1>1, <1>3, <2>1 DEF Apart, OneBusy, Busy
  <2>3. OneBusy' /\ InFlush' /\ InConnect'
    BY <1>3, <2>2 DEF OneBusy, InFlush, InConnect, Busy
  <2>4. InDispose'
    BY <1>1, <1>2, <1>3, <2>1, <2>2 DEF Apart, InDispose
  <2>5. \A k \in Managers : mgr'[k].child # "alive"
    BY <1>1, <1>4, <2>1, ClosingAlone
  <2>6. Accounted'
    BY <2>5 DEF Accounted
  <2>7. Disposing'
    BY <1>2, <1>3, <2>1, <2>2, <2>5 DEF Apart, Disposing, controller
  <2>8. TargetsOwn' /\ FeedbackReachesItsRun'
    BY <1>2, <2>1 DEF Apart, TargetsOwn, FeedbackReachesItsRun, feedback
  <2> QED
    BY <2>3, <2>4, <2>6, <2>7, <2>8 DEF Apart
<1> QED
  BY <1>5, <1>6, <1>7 DEF HostInv

\* A connecting call that throws returns, or the loop sleeps.
LEMMA ThrowKeeps ==
  ASSUME HostInv, NEW c \in Calls, ConnectThrows(c), Fades,
         UNCHANGED <<desired, disposed, manager, current, feedback, commands, overlapped>>,
         ~overlapped /\ calls[c].pc \in {"draining", "flush", "closing"} =>
            \A m \in Managers : mgr'[m].child # "alive"
  PROVE  HostInv'
<1>1. presented' = 0 /\ lastMarket' = 0 /\ sent' = sent /\ commands' \in Nat /\ commands' >= commands
  BY DEF ConnectThrows, failDisconnected, feedback, HostInv, TypeOK
<1>2. CASE c # Loop
  <2>1. calls' = [calls EXCEPT ![c] = Idle] /\ restartInFlight' = restartInFlight
    BY <1>2 DEF ConnectThrows, Returns
  <2> QED
    BY <1>1, <1>2, <2>1, IdleIsCall, ParkKeeps
<1>3. CASE c = Loop
  <2>1. CASE Returns(Loop)
    <3>1. calls' = [calls EXCEPT ![c] = Idle]
      BY <1>3, <2>1 DEF Returns
    <3> QED
      BY <1>1, <1>3, <3>1, IdleIsCall, ParkKeeps
  <2>2. CASE Goto(Loop, "connect", "backoff", 0) /\ restartInFlight' = TRUE
    <3> DEFINE r == [op |-> "connect", pc |-> "backoff", m |-> 0]
    <3>1. calls' = [calls EXCEPT ![c] = r] /\ r \in Call /\ r.pc = "backoff" /\ r.op = "connect"
          /\ restartInFlight'
      BY <1>3, <2>2 DEF Goto, Call, Places
    <3> HIDE DEF r
    <3> QED
      BY <1>1, <1>3, <3>1, ParkKeeps
  <2> QED
    BY <1>3, <2>1, <2>2 DEF ConnectThrows, NextAttempt
<1> QED
  BY <1>2, <1>3

\* The shutdown of a manager whose child is gone throws, and cleans up.
LEMMA CloseThrowsKeeps ==
  ASSUME HostInv, NEW c \in Calls, CloseThrows(c)
  PROVE  HostInv'
<1>1. calls[c].m \in Managers /\ calls[c].pc = "closing" /\ At(c, "closing")
  BY DEF HostInv, TypeOK, CloseThrows, At
<1>2. mgr' = [mgr EXCEPT ![calls[c].m] = Cleaned(calls[c].m)] /\ ~mgr[calls[c].m].connected
  BY DEF CloseThrows
<1>3. Fades /\ mgr'[calls[c].m].child # "alive"
  BY <1>1, <1>2, EndFades
<1>4. ~overlapped => \A k \in Managers : mgr'[k].child # "alive"
  BY <1>1, <1>3, ClosingAlone
<1>5. UNCHANGED <<desired, disposed, manager, current, feedback, commands, overlapped>>
  BY DEF CloseThrows
<1>6. CASE calls[c].op = "connect"
  BY <1>3, <1>4, <1>5, <1>6, ThrowKeeps DEF CloseThrows
<1>7. CASE calls[c].op # "connect"
  <2>1. /\ calls' = [calls EXCEPT ![c] = Idle]
        /\ UNCHANGED <<restartInFlight, retryCount, lastMarket, presented, actual>>
    BY <1>7 DEF CloseThrows, Returns
  <2>2. c # Loop
    BY <1>1, <1>7 DEF HostInv, LoopFlag, At
  <2>3. sent' = sent /\ commands' \in Nat /\ commands' >= commands
    BY <1>5 DEF feedback, HostInv, TypeOK
  <2> QED
    BY <1>3, <1>4, <1>5, <2>1, <2>2, <2>3, IdleIsCall, ParkKeeps
<1> QED
  BY <1>6, <1>7

\* A handshake that fails terminates the child it was for.
LEMMA HandshakeFailsKeeps ==
  ASSUME HostInv, NEW c \in Calls, HandshakeFails(c)
  PROVE  HostInv'
<1>1. calls[c].m \in Managers /\ calls[c].pc = "handshake"
  BY DEF HostInv, TypeOK, HandshakeFails, At
<1>2. mgr' = [mgr EXCEPT ![calls[c].m] = Terminated(calls[c].m)]
  BY DEF HandshakeFails, failStart
<1>3. Fades
  BY <1>1, <1>2, EndFades
<1> QED
  BY <1>1, <1>3, ThrowKeeps DEF HandshakeFails

\* A new manager: the call that spawns it is the only one that connects, and there is no
\* other child.
LEMMA SpawnedKeeps ==
  ASSUME HostInv, NEW c \in Calls, Spawned(c)
  PROVE  HostInv'
<1> USE DEF At
<1> DEFINE new == [child |-> "alive", connected |-> TRUE, live |-> FALSE, stopping |-> FALSE]
<1>1. TypeOK /\ calls[c].pc = "disposed" /\ calls[c].op = "connect"
  BY DEF HostInv, Spawned
<1>2. PICK m \in Managers : /\ mgr' = [mgr EXCEPT ![m] = new]
                            /\ manager' = m /\ current' = m
                            /\ calls' = [calls EXCEPT ![c] = [op |-> "connect", pc |-> "handshake",
                                                              m |-> m]]
  BY DEF Spawned, Goto
<1>3. UNCHANGED <<controller, lastMarket, presented, feedback, commands, overlapped>>
  BY DEF Spawned
<1>4. new \in Manager /\ new.child = "alive" /\ new.connected
  BY DEF Manager
<1> HIDE DEF new
<1>5. mgr' \in [Managers -> Manager] /\ mgr'[m] = new
      /\ \A k \in Managers \ {m} : mgr'[k] = mgr[k]
  BY <1>1, <1>2, <1>4 DEF TypeOK
<1> DEFINE r == [op |-> "connect", pc |-> "handshake", m |-> m]
<1>6. calls'[c] = r /\ \A d \in Calls \ {c} : calls'[d] = calls[d]
  BY <1>1, <1>2 DEF TypeOK
<1>7. TypeOK'
  <2>1. r \in Call
    BY DEF Call, Places
  <2>2. calls' \in [Calls -> Call]
    BY <1>1, <1>2, <2>1 DEF TypeOK
  <2> QED
    BY <1>1, <1>2, <1>3, <1>5, <1>6, <2>2 DEF TypeOK
<1>8. AliveConnected' /\ OneGeneration' /\ LoopFlag' /\ StartedFirst'
  <2>1. AliveConnected'
    BY <1>4, <1>5 DEF HostInv, AliveConnected
  <2>2. OneGeneration' /\ StartedFirst'
    BY <1>2, <1>3 DEF HostInv, OneGeneration, StartedFirst, controller
  <2>3. LoopFlag'
    BY <1>1, <1>3, <1>6 DEF HostInv, LoopFlag, controller, Calls
  <2> QED
    BY <2>1, <2>2, <2>3
<1>9. ASSUME ~overlapped'
      PROVE  Apart'
  <2>1. ~overlapped /\ Apart
    BY <1>3, <1>9 DEF HostInv
  <2>2. \A d \in Calls : (Busy(d) => d = c) /\ (Busy(d)' => d = c) /\ Busy(c)
    BY <1>1, <1>6, <2>1 DEF Apart, OneBusy, Busy
  <2>3. OneBusy' /\ InFlush' /\ InDispose'
    BY <1>6, <2>2 DEF OneBusy, InFlush, InDispose, Busy
  <2>4. InConnect'
    BY <1>2, <1>6, <2>2 DEF InConnect, Busy
  <2>5. manager = 0 /\ presented = 0 /\ lastMarket = 0
    BY <1>1, <2>1 DEF Apart, InDispose
  <2>6. \A k \in Managers : mgr[k].child # "alive"
    BY <1>1, <2>1, <2>2, <2>5 DEF Apart, Accounted, Busy, Managers
  <2>7. Accounted'
    BY <1>2, <1>5, <2>6 DEF Accounted
  <2>8. Disposing'
    BY <1>1, <1>3, <2>1, <2>2 DEF Apart, Disposing, controller
  <2>9. TargetsOwn' /\ FeedbackReachesItsRun'
    BY <1>3, <2>1, <2>5 DEF Apart, TargetsOwn, FeedbackReachesItsRun, feedback
  <2> QED
    BY <2>3, <2>4, <2>7, <2>8, <2>9 DEF Apart
<1> QED
  BY <1>7, <1>8, <1>9 DEF HostInv

\* The handshake is answered: the manager is live from now on.
LEMMA HandshakenKeeps ==
  ASSUME HostInv, NEW c \in Calls, Handshaken(c)
  PROVE  HostInv'
<1> USE DEF At
<1> DEFINE m == calls[c].m
           r == [op |-> "connect", pc |-> "state", m |-> m]
           live == [mgr[m] EXCEPT !.live = TRUE]
<1>1. TypeOK /\ calls[c].pc = "handshake" /\ m \in Managers
  BY DEF HostInv, Handshaken, TypeOK
<1>2. /\ mgr' = [mgr EXCEPT ![m] = live] /\ calls' = [calls EXCEPT ![c] = r]
      /\ UNCHANGED <<controller, actual, manager, current, lastMarket, presented, feedback,
                     commands, overlapped>>
  BY DEF Handshaken, Goto
<1>3. calls'[c] = r /\ \A d \in Calls \ {c} : calls'[d] = calls[d]
  BY <1>1, <1>2 DEF TypeOK
<1>4. live \in Manager /\ live.child = mgr[m].child /\ live.connected = mgr[m].connected
  <2>1. mgr[m] \in Manager
    BY <1>1 DEF TypeOK
  <2> HIDE DEF m
  <2> QED
    BY <2>1 DEF Manager
<1> HIDE DEF live
<1>5. /\ mgr' \in [Managers -> Manager]
      /\ \A k \in Managers : mgr'[k].child = mgr[k].child /\ mgr'[k].connected = mgr[k].connected
  BY <1>1, <1>2, <1>4 DEF TypeOK
<1>6. TypeOK'
  <2>1. r \in Call
    BY <1>1 DEF TypeOK, Call, Places
  <2>2. calls' \in [Calls -> Call]
    BY <1>1, <1>2, <2>1 DEF TypeOK
  <2> QED
    BY <1>1, <1>2, <1>3, <1>5, <2>2 DEF TypeOK
<1>7. AliveConnected' /\ OneGeneration' /\ LoopFlag' /\ StartedFirst'
  <2>1. AliveConnected'
    BY <1>5 DEF HostInv, AliveConnected
  <2>2. OneGeneration' /\ StartedFirst'
    BY <1>2 DEF HostInv, OneGeneration, StartedFirst, controller
  <2>3. LoopFlag'
    BY <1>1, <1>2, <1>3 DEF HostInv, LoopFlag, controller, Calls
  <2> QED
    BY <2>1, <2>2, <2>3
<1>8. ASSUME ~overlapped'
      PROVE  Apart'
  <2>1. ~overlapped /\ Apart
    BY <1>2, <1>8 DEF HostInv
  <2>2. \A d \in Calls : (Busy(d) => d = c) /\ (Busy(d)' => d = c) /\ Busy(c)
    BY <1>1, <1>3, <2>1 DEF Apart, OneBusy, Busy
  <2>3. OneBusy' /\ InFlush' /\ InDispose'
    BY <1>3, <2>2 DEF OneBusy, InFlush, InDispose, Busy
  <2>4. InConnect'
    BY <1>1, <1>2, <1>3, <1>5, <2>1, <2>2 DEF Apart, InConnect, Busy
  <2>5. Accounted'
    BY <1>1, <1>2, <1>3, <1>5, <2>1 DEF Apart, Accounted
  <2>6. Disposing'
    <3>1. ~disposed
      BY <1>1, <2>1, <2>2 DEF Apart, Disposing, InConnect
    <3> QED
      BY <1>2, <3>1 DEF Disposing, controller
  <2>7. TargetsOwn' /\ FeedbackReachesItsRun'
    BY <1>2, <2>1 DEF Apart, TargetsOwn, FeedbackReachesItsRun, feedback
  <2> QED
    BY <2>3, <2>4, <2>5, <2>6, <2>7 DEF Apart
<1> QED
  BY <1>6, <1>7, <1>8 DEF HostInv

\* The end of spawnAndStart: the state that is remembered is the manager's.
LEMMA StartedKeeps ==
  ASSUME HostInv, NEW c \in Calls, Started(c)
  PROVE  HostInv'
<1> USE DEF At
<1> DEFINE m == calls[c].m
<1>1. TypeOK /\ calls[c].pc = "state" /\ m \in Managers
  BY DEF HostInv, Started, TypeOK
<1>2. /\ calls' = [calls EXCEPT ![c] = Idle]
      /\ restartInFlight' = (restartInFlight /\ c # Loop)
      /\ (mgr[m].connected /\ lastMarket' = m) \/ lastMarket' = lastMarket
      /\ UNCHANGED <<desired, disposed, manager, current, presented, mgr, feedback, commands,
                     overlapped>>
  BY DEF Started, Returns
<1>3. calls'[c] = Idle /\ \A d \in Calls \ {c} : calls'[d] = calls[d]
  BY <1>1, <1>2 DEF TypeOK
<1>4. CASE lastMarket' = lastMarket
  <2>1. sent' = sent /\ commands' \in Nat /\ commands' >= commands /\ Fades
    <3>1. UNCHANGED <<mgr, feedback, commands>>
      BY DEF Started
    <3> QED
      BY <3>1, Unfaded, CommandCounts DEF feedback
  <2>2. c # Loop /\ restartInFlight => restartInFlight'
    BY <1>2, Zenon
  <2> QED
    BY <1>1, <1>2, <1>4, <2>1, <2>2, IdleIsCall, ParkKeeps
<1>5. CASE mgr[m].connected /\ lastMarket' = m
  <2>1. TypeOK'
    BY <1>1, <1>2, <1>3, <1>5, IdleIsCall DEF TypeOK
  <2>2. AliveConnected' /\ OneGeneration' /\ StartedFirst'
    BY <1>2 DEF HostInv, AliveConnected, OneGeneration, StartedFirst
  <2>3. LoopFlag'
    BY <1>2, <1>3, IdleIsCall DEF HostInv, LoopFlag, Calls
  <2>4. ASSUME ~overlapped'
        PROVE  Apart'
    <3>1. ~overlapped /\ Apart
      BY <1>2, <2>4 DEF HostInv
    <3>2. \A d \in Calls : (Busy(d) => d = c) /\ ~Busy(d)' /\ Busy(c)
      BY <1>1, <1>3, <3>1, IdleIsCall DEF Apart, OneBusy, Busy
    <3>3. OneBusy' /\ InFlush' /\ InDispose' /\ InConnect'
      BY <3>2 DEF OneBusy, InFlush, InDispose, InConnect, Busy
    <3>4. Accounted'
      BY <1>1, <1>2, <1>3, <3>1 DEF Apart, Accounted
    <3>5. Disposing'
      <4>1. ~disposed
        BY <1>1, <3>1, <3>2 DEF Apart, Disposing, InConnect
      <4> QED
        BY <1>2, <4>1 DEF Disposing
    <3>6. manager = m
      BY <1>1, <1>5, <3>1 DEF Apart, InConnect
    <3>7. TargetsOwn' /\ FeedbackReachesItsRun'
      BY <1>2, <1>5, <3>1, <3>6 DEF Apart, TargetsOwn, FeedbackReachesItsRun, feedback
    <3> QED
      BY <3>3, <3>4, <3>5, <3>7 DEF Apart
  <2> QED
    BY <2>1, <2>2, <2>3, <2>4 DEF HostInv
<1> QED
  BY <1>2, <1>4, <1>5

-----------------------------------------------------------------------------
(* The commands *)

\* A call that asks the manager's child waits for its answer.
LEMMA AskKeeps ==
  ASSUME HostInv, NEW c \in Callers, NEW op \in {"pause", "resume"}, connected, ~disposed,
         Goto(c, op, "asked", manager), commands' = commands + 1,
         UNCHANGED <<disposed, restartInFlight, manager, current, lastMarket, presented, mgr,
                     feedback, overlapped>>,
         At(c, "idle")
  PROVE  HostInv'
<1> DEFINE r == [op |-> op, pc |-> "asked", m |-> manager]
<1>1. manager \in Managers /\ c \in Calls /\ c # Loop /\ calls[c].pc = "idle"
  BY HostAssumption DEF HostInv, TypeOK, connected, Calls, At
<1>2. calls' = [calls EXCEPT ![c] = r] /\ r \in Call /\ r.pc = "asked" /\ r.m = manager
  BY <1>1 DEF Goto, Call, Places
<1>3. Fades /\ sent' = sent /\ commands' \in Nat /\ commands' >= commands
  BY Unfaded, CommandCounts DEF feedback
<1> HIDE DEF r
<1> QED
  BY <1>1, <1>2, <1>3, ParkKeeps

\* Start connects at once, or after it has disposed of the manager that is there.
LEMMA startKeeps ==
  ASSUME HostInv, NEW c \in Callers, start(c)
  PROVE  HostInv'
<1>1. c \in Calls /\ c # Loop /\ calls[c].pc = "idle" /\ ~disposed
      /\ commands' \in Nat /\ commands' >= commands
  BY HostAssumption, CommandCounts DEF start, Commanded, At, Calls, HostInv, StartedFirst
<1>2. UNCHANGED <<controller, manager, mgr, feedback>>
  BY DEF start
<1>3. CASE BeginDispose(c, "connect") /\ UNCHANGED <<lastMarket, actual>>
  BY <1>1, <1>2, <1>3, DisposeKeeps DEF controller, feedback
<1>4. CASE failDisconnected /\ UNCHANGED <<calls, current, overlapped>>
  <2>1. calls' = [calls EXCEPT ![c] = calls[c]] /\ calls[c] \in Call
    BY <1>1, <1>4 DEF HostInv, TypeOK
  <2>2. Fades /\ presented' = 0 /\ lastMarket' = 0
    BY <1>2, <1>4, Unfaded DEF failDisconnected
  <2> QED
    BY <1>1, <1>2, <1>4, <2>1, <2>2, ParkKeeps DEF controller, feedback
<1> QED
  BY <1>3, <1>4 DEF start

\* Pause sends its request, or has nothing to do.
LEMMA pauseKeeps ==
  ASSUME HostInv, NEW c \in Callers, pause(c)
  PROVE  HostInv'
<1>1. c \in Calls /\ c # Loop /\ calls[c].pc = "idle" /\ At(c, "idle") /\ ~disposed
      /\ commands' = commands + 1 /\ commands' \in Nat /\ commands' >= commands
  BY HostAssumption, CommandCounts DEF pause, Offered, Commanded, At, Calls
<1>2. UNCHANGED <<disposed, retryCount, restartInFlight, manager, current, lastMarket,
                  presented, mgr, feedback, overlapped>>
  BY DEF pause
<1>3. CASE UNCHANGED calls
  <2>1. calls' = [calls EXCEPT ![c] = calls[c]] /\ calls[c] \in Call
    BY <1>1, <1>3 DEF HostInv, TypeOK
  <2>2. Fades /\ sent' = sent
    BY <1>2, Unfaded DEF feedback
  <2> QED
    BY <1>1, <1>2, <2>1, <2>2, ParkKeeps
<1>4. CASE connected /\ Goto(c, "pause", "asked", manager)
  BY <1>1, <1>2, <1>4, AskKeeps
<1> QED
  BY <1>3, <1>4 DEF pause

\* Resume asks the daemon that is connected, or connects anew.
LEMMA resumeKeeps ==
  ASSUME HostInv, NEW c \in Callers, resume(c)
  PROVE  HostInv'
<1>1. c \in Calls /\ c # Loop /\ calls[c].pc = "idle" /\ At(c, "idle") /\ ~disposed
      /\ commands' = commands + 1 /\ commands' \in Nat /\ commands' >= commands
  BY HostAssumption, CommandCounts DEF resume, Offered, Commanded, At, Calls
<1>2. UNCHANGED <<disposed, restartInFlight, manager, mgr, feedback>>
  BY DEF resume
<1>3. CASE connected /\ Goto(c, "resume", "asked", manager)
           /\ UNCHANGED <<current, presented, overlapped, lastMarket, actual>>
  BY <1>1, <1>2, <1>3, AskKeeps
<1>4. CASE BeginDispose(c, "connect") /\ UNCHANGED <<lastMarket, actual>>
  BY <1>1, <1>2, <1>4, DisposeKeeps DEF feedback
<1>5. CASE failDisconnected /\ UNCHANGED <<calls, current, overlapped>>
  <2>1. calls' = [calls EXCEPT ![c] = calls[c]] /\ calls[c] \in Call
    BY <1>1, <1>5 DEF HostInv, TypeOK
  <2>2. Fades /\ presented' = 0 /\ lastMarket' = 0 /\ sent' = sent
    BY <1>2, <1>5, Unfaded DEF failDisconnected, feedback
  <2> QED
    BY <1>1, <1>2, <1>5, <2>1, <2>2, ParkKeeps
<1> QED
  BY <1>3, <1>4, <1>5 DEF resume

\* The answers to pause and resume.
LEMMA AcknowledgedKeeps ==
  ASSUME HostInv, NEW c \in Callers, Acknowledged(c)
  PROVE  HostInv'
<1>1. c \in Calls /\ c # Loop /\ calls[c].pc = "asked" /\ calls' = [calls EXCEPT ![c] = Idle]
      /\ UNCHANGED <<controller, manager, current, lastMarket, presented, mgr, feedback,
                     commands, overlapped>>
  BY HostAssumption DEF Acknowledged, At, Calls, Returns
<1>2. Fades /\ sent' = sent /\ commands' \in Nat /\ commands' >= commands
      /\ disposed' = disposed /\ restartInFlight' = restartInFlight
  BY <1>1, Unfaded, CommandCounts DEF feedback, controller
<1> QED
  BY <1>1, <1>2, IdleIsCall, ParkKeeps

\* A resume that waits for its answer is not disposed, unless calls overlapped.
LEMMA UnacknowledgedKeeps ==
  ASSUME HostInv, NEW c \in Callers, Unacknowledged(c)
  PROVE  HostInv'
<1>1. c \in Calls /\ c # Loop /\ calls[c].pc = "asked"
      /\ UNCHANGED <<controller, manager, mgr, feedback, commands>>
  BY HostAssumption DEF Unacknowledged, At, Calls
<1>2. Fades /\ sent' = sent /\ commands' \in Nat /\ commands' >= commands
      /\ disposed' = disposed /\ restartInFlight' = restartInFlight
  BY <1>1, Unfaded, CommandCounts DEF feedback, controller
<1>3. CASE Returns(c) /\ UNCHANGED <<actual, current, presented, lastMarket, overlapped>>
  BY <1>1, <1>2, <1>3, IdleIsCall, ParkKeeps DEF Returns
<1>4. CASE failDisconnected /\ Returns(c) /\ UNCHANGED <<current, overlapped>>
  BY <1>1, <1>2, <1>4, IdleIsCall, ParkKeeps DEF Returns, failDisconnected
<1>5. CASE calls[c].op = "resume" /\ BeginDispose(c, "connect") /\ UNCHANGED lastMarket
  <2>1. ~overlapped => ~disposed
    BY <1>1, <1>5 DEF HostInv, Apart, Disposing, At
  <2> QED
    BY <1>1, <1>2, <1>5, <2>1, DisposeKeeps
<1> QED
  BY <1>3, <1>4, <1>5 DEF Unacknowledged

\* RestartCore disposes of the manager first.
LEMMA restartCoreKeeps ==
  ASSUME HostInv, NEW c \in Callers, restartCore(c)
  PROVE  HostInv'
<1>1. c \in Calls /\ c # Loop /\ calls[c].pc = "idle" /\ ~disposed
      /\ commands' \in Nat /\ commands' >= commands
  BY HostAssumption, CommandCounts DEF restartCore, Offered, Commanded, At, Calls
<1>2. BeginDispose(c, "restart")
      /\ UNCHANGED <<desired, disposed, restartInFlight, actual, manager, lastMarket, mgr, feedback>>
  BY DEF restartCore
<1> QED
  BY <1>1, <1>2, DisposeKeeps DEF feedback

\* A restart goes on once the old manager is disposed of.
LEMMA RestartDisposedKeeps ==
  ASSUME HostInv, NEW c \in Callers, RestartDisposed(c)
  PROVE  HostInv'
<1>1. c \in Calls /\ c # Loop /\ calls[c].pc = "disposed" /\ calls[c].op = "restart"
      /\ UNCHANGED <<controller, manager, mgr, feedback, commands>>
  BY HostAssumption DEF RestartDisposed, At, Calls
<1>2. Fades /\ sent' = sent /\ commands' \in Nat /\ commands' >= commands
      /\ disposed' = disposed /\ restartInFlight' = restartInFlight
  BY <1>1, Unfaded, CommandCounts DEF feedback, controller
<1>3. CASE Returns(c) /\ UNCHANGED <<current, presented, lastMarket, overlapped>>
  BY <1>1, <1>2, <1>3, IdleIsCall, ParkKeeps DEF Returns
<1>4. CASE failDisconnected /\ Returns(c) /\ UNCHANGED <<current, overlapped>>
  BY <1>1, <1>2, <1>4, IdleIsCall, ParkKeeps DEF Returns, failDisconnected
<1>5. CASE BeginDispose(c, "connect") /\ UNCHANGED <<actual, lastMarket>>
  <2>1. ~overlapped => ~disposed
    BY <1>1 DEF HostInv, Apart, Disposing, Busy
  <2> QED
    BY <1>1, <1>2, <1>5, <2>1, DisposeKeeps
<1> QED
  BY <1>3, <1>4, <1>5 DEF RestartDisposed

\* The extension is shut down: from now on every call that is busy is a shutdown.
LEMMA shutdownKeeps ==
  ASSUME HostInv, NEW c \in Callers, shutdown(c)
  PROVE  HostInv'
<1> USE DEF At
<1> DEFINE r == [op |-> "shutdown", pc |-> "draining", m |-> 0]
<1>1. TypeOK /\ c \in Calls /\ c # Loop /\ calls[c].pc = "idle" /\ commands > 0
      /\ commands' \in Nat /\ commands' > 0
  BY HostAssumption DEF HostInv, TypeOK, Calls, shutdown, Commanded
<1>2. /\ calls' = [calls EXCEPT ![c] = r] /\ disposed' = TRUE
      /\ UNCHANGED <<desired, retryCount, actual, manager, current, lastMarket, presented, mgr,
                     feedback>>
  BY DEF shutdown, Goto
<1>3. calls'[c] = r /\ \A d \in Calls \ {c} : calls'[d] = calls[d]
  BY <1>1, <1>2 DEF TypeOK
<1>4. TypeOK'
  <2>1. r \in Call
    BY DEF Call, Places
  <2>2. calls' \in [Calls -> Call]
    BY <1>1, <1>2, <2>1 DEF TypeOK
  <2> QED
    BY <1>1, <1>2, <1>3, <2>2 DEF TypeOK
<1>5. AliveConnected' /\ OneGeneration' /\ StartedFirst'
  BY <1>1, <1>2 DEF HostInv, AliveConnected, OneGeneration, StartedFirst
<1>6. LoopFlag'
  BY <1>1, <1>2, <1>3 DEF HostInv, LoopFlag, Calls
<1>7. ASSUME ~overlapped'
      PROVE  Apart'
  <2>1. /\ ~overlapped /\ Apart /\ \A d \in Calls \ {c} : ~Busy(d)
        /\ \A d \in Callers : calls[d].pc = "asked" => calls[d].op # "resume"
    BY <1>1, <1>7 DEF HostInv, shutdown, Overlaps, TypeOK
  <2>2. \A d \in Calls : ~Busy(d) /\ (Busy(d)' => d = c)
    BY <1>1, <1>3, <2>1 DEF Busy
  <2>3. OneBusy' /\ InFlush' /\ InDispose' /\ InConnect'
    BY <1>3, <2>2 DEF OneBusy, InFlush, InDispose, InConnect, Busy
  <2>4. Accounted'
    BY <1>1, <1>2, <1>3, <2>1 DEF Apart, Accounted
  <2>5. Disposing'
    <3>1. \A d \in Calls : calls[d].pc = "asked" => calls[d].op # "resume"
      <4>1. calls[Loop].pc = "asked" => calls[Loop].op # "resume"
        BY DEF HostInv, LoopFlag
      <4> QED
        BY <2>1, <4>1 DEF Calls
    <3> QED
      BY <1>1, <1>3, <2>2, <3>1 DEF Disposing
  <2>6. TargetsOwn' /\ FeedbackReachesItsRun'
    BY <1>2, <2>1 DEF Apart, TargetsOwn, FeedbackReachesItsRun, feedback
  <2> QED
    BY <2>3, <2>4, <2>5, <2>6 DEF Apart
<1> QED
  BY <1>4, <1>5, <1>6, <1>7 DEF HostInv

\* A shutdown that finds nothing to dispose of leaves no child.
LEMMA ShutdownDrainedKeeps ==
  ASSUME HostInv, NEW c \in Callers, ShutdownDrained(c)
  PROVE  HostInv'
<1>1. c \in Calls /\ c # Loop /\ calls[c].pc = "draining"
      /\ UNCHANGED <<controller, manager, lastMarket, mgr, feedback, commands>>
  BY HostAssumption DEF ShutdownDrained, At, Calls
<1>2. Fades /\ sent' = sent /\ commands' \in Nat /\ commands' >= commands
      /\ disposed' = disposed /\ restartInFlight' = restartInFlight
  BY <1>1, Unfaded, CommandCounts DEF feedback, controller
<1>3. CASE manager = 0 /\ Returns(c) /\ UNCHANGED <<actual, current, presented, overlapped>>
  <2>1. ~overlapped => \A k \in Managers : mgr'[k].child # "alive"
    <3>1. ASSUME ~overlapped
          PROVE  \A k \in Managers : mgr[k].child # "alive"
      <4>1. Apart /\ \A d \in Calls : ~At(d, "closing")
        BY <1>1, <3>1 DEF HostInv, Apart, OneBusy, Busy, At
      <4> QED
        BY <1>3, <4>1 DEF Apart, Accounted, Managers
    <3> QED
      BY <1>1, <3>1
  <2> QED
    BY <1>1, <1>2, <1>3, <2>1, IdleIsCall, ParkKeeps DEF Returns
<1>4. CASE actual' = "STOPPING" /\ BeginDispose(c, "shutdown")
  BY <1>1, <1>2, <1>4, DisposeKeeps
<1> QED
  BY <1>3, <1>4 DEF ShutdownDrained

\* A shutdown is done once the manager is disposed of.
LEMMA ShutdownDisposedKeeps ==
  ASSUME HostInv, NEW c \in Callers, ShutdownDisposed(c)
  PROVE  HostInv'
<1>1. c \in Calls /\ c # Loop /\ calls[c].pc = "disposed" /\ calls' = [calls EXCEPT ![c] = Idle]
      /\ UNCHANGED <<controller, manager, current, lastMarket, presented, mgr, feedback,
                     commands, overlapped>>
  BY HostAssumption DEF ShutdownDisposed, At, Calls, Returns
<1>2. Fades /\ sent' = sent /\ commands' \in Nat /\ commands' >= commands
      /\ disposed' = disposed /\ restartInFlight' = restartInFlight
  BY <1>1, Unfaded, CommandCounts DEF feedback, controller
<1> QED
  BY <1>1, <1>2, IdleIsCall, ParkKeeps

\* After the delay the loop connects, if it still should.
LEMMA BackoffOverKeeps ==
  ASSUME HostInv, BackoffOver
  PROVE  HostInv'
<1>1. Loop \in Calls /\ calls[Loop].pc = "backoff"
      /\ UNCHANGED <<desired, disposed, retryCount, actual, manager, lastMarket, mgr, feedback,
                     commands>>
  BY DEF BackoffOver, At, Calls
<1>2. Fades /\ sent' = sent /\ commands' \in Nat /\ commands' >= commands
  BY <1>1, Unfaded, CommandCounts DEF feedback
<1>3. CASE Returns(Loop) /\ UNCHANGED <<current, presented, overlapped>>
  BY <1>1, <1>2, <1>3, IdleIsCall, ParkKeeps DEF Returns
<1>4. CASE ~disposed /\ BeginDispose(Loop, "connect") /\ UNCHANGED restartInFlight
  BY <1>1, <1>2, <1>4, DisposeKeeps DEF At
<1> QED
  BY <1>3, <1>4 DEF BackoffOver

-----------------------------------------------------------------------------
(* The child and the feedback *)

\* A child ends; the loss of the current one is reported, and the loop begins, unless it
\* runs already.
LEMMA ChildExitsKeeps ==
  ASSUME HostInv, NEW m \in Managers, ChildExits(m)
  PROVE  HostInv'
<1> USE DEF At
<1> DEFINE heard == mgr[m].connected /\ ~mgr[m].stopping
           lost == heard /\ mgr[m].live /\ m = current
           old == IF heard THEN Cleaned(m) ELSE mgr[m]
           gone == [old EXCEPT !.child = "gone"]
<1>1. TypeOK /\ mgr[m] \in Manager
  BY DEF HostInv, TypeOK
<1>2. mgr' = [mgr EXCEPT ![m] = gone]
      /\ UNCHANGED <<desired, disposed, current, lastMarket, feedback, commands, overlapped>>
  BY DEF ChildExits
<1>3. gone \in Manager /\ gone.child = "gone" /\ (gone.connected => mgr[m].connected /\ ~heard)
  <2>1. old \in Manager /\ (old.connected => mgr[m].connected /\ ~heard)
    BY <1>1, ManagerEnds
  <2> HIDE DEF old
  <2> QED
    BY <2>1 DEF Manager
<1> HIDE DEF gone, old
<1>4. mgr' \in [Managers -> Manager] /\ mgr'[m] = gone /\ \A k \in Managers \ {m} : mgr'[k] = mgr[k]
  BY <1>1, <1>2, <1>3 DEF TypeOK
<1>5. Fades
  BY <1>3, <1>4 DEF Fades, AliveConnected, HostInv
<1>6. sent' = sent /\ commands' \in Nat /\ commands' >= commands
  BY <1>2, CommandCounts DEF feedback
<1>7. CASE ~lost
  <2>1. UNCHANGED <<manager, presented, actual, calls, restartInFlight, retryCount>>
    BY <1>7 DEF ChildExits
  <2>2. TypeOK' /\ AliveConnected' /\ OneGeneration' /\ LoopFlag' /\ StartedFirst'
    BY <1>1, <1>2, <1>4, <1>5, <1>6, <2>1
       DEF HostInv, TypeOK, Fades, OneGeneration, LoopFlag, StartedFirst
  <2>3. ASSUME ~overlapped'
        PROVE  Apart'
    <3>1. ~overlapped /\ Apart
      BY <1>2, <2>3 DEF HostInv
    <3>2. OneBusy' /\ InFlush' /\ InDispose'
      BY <1>2, <2>1, <3>1 DEF Apart, OneBusy, InFlush, InDispose, Busy
    <3>3. InConnect'
      BY <1>1, <1>2, <1>5, <2>1, <3>1 DEF Apart, InConnect, Fades, TypeOK
    <3>4. Accounted'
      BY <1>2, <1>5, <2>1, <3>1 DEF Apart, Accounted, Fades
    <3>5. Disposing'
      BY <1>2, <1>5, <2>1, <3>1 DEF Apart, Disposing, Fades, Busy
    <3>6. TargetsOwn' /\ FeedbackReachesItsRun'
      BY <1>2, <1>6, <2>1, <3>1 DEF Apart, TargetsOwn, FeedbackReachesItsRun
    <3> QED
      BY <3>2, <3>3, <3>4, <3>5, <3>6 DEF Apart
  <2> QED
    BY <2>2, <2>3 DEF HostInv
<1>8. CASE lost
  <2>1. manager' = 0 /\ presented' = 0 /\ handleUnexpectedDisconnect
    BY <1>8 DEF ChildExits, handleUnexpectedDisconnect
  <2>2. \/ UNCHANGED <<calls, restartInFlight>>
        \/ /\ calls[Loop].pc = "idle" /\ ~disposed
           /\ \/ calls' = [calls EXCEPT ![Loop] = Idle]
              \/ /\ calls' = [calls EXCEPT ![Loop] = [op |-> "connect", pc |-> "backoff", m |-> 0]]
                 /\ restartInFlight' = TRUE
    BY <2>1 DEF handleUnexpectedDisconnect, NextAttempt, Returns, Goto, HostInv, LoopFlag
  <2>3. /\ calls' \in [Calls -> Call]
        /\ \A d \in Calls \ {Loop} : calls'[d] = calls[d]
        /\ \/ calls'[Loop] = calls[Loop] /\ UNCHANGED restartInFlight
           \/ /\ calls[Loop].pc = "idle" /\ calls'[Loop].pc = "idle"
           \/ /\ calls[Loop].pc = "idle" /\ calls'[Loop].pc = "backoff" /\ restartInFlight'
              /\ calls'[Loop].op = "connect"
    <3>1. [op |-> "connect", pc |-> "backoff", m |-> 0] \in Call
      BY DEF Call, Places
    <3>2. calls \in [Calls -> Call] /\ Loop \in Calls
      BY <1>1 DEF TypeOK, Calls
    <3>3. CASE UNCHANGED <<calls, restartInFlight>>
      BY <3>2, <3>3
    <3>4. CASE calls[Loop].pc = "idle" /\ calls' = [calls EXCEPT ![Loop] = Idle]
      BY <3>2, <3>4, IdleIsCall
    <3>5. CASE /\ calls[Loop].pc = "idle"
               /\ calls' = [calls EXCEPT ![Loop] = [op |-> "connect", pc |-> "backoff", m |-> 0]]
               /\ restartInFlight' = TRUE
      BY <3>1, <3>2, <3>5
    <3> QED
      BY <2>2, <3>3, <3>4, <3>5
  <2>4. TypeOK'
    BY <1>1, <1>2, <1>4, <1>6, <2>1, <2>3 DEF TypeOK
  <2>5. AliveConnected' /\ OneGeneration' /\ StartedFirst'
    BY <1>2, <1>5, <1>6, <2>1 DEF HostInv, Fades, OneGeneration, StartedFirst
  <2>6. LoopFlag'
    BY <1>2, <2>3 DEF HostInv, LoopFlag
  <2>7. ASSUME ~overlapped'
        PROVE  Apart'
    <3>1. ~overlapped /\ Apart
      BY <1>2, <2>7 DEF HostInv
    <3>2. \A d \in Calls : Busy(d)' => Busy(d) /\ calls'[d] = calls[d]
      BY <2>3 DEF Busy
    <3>3. OneBusy'
      BY <3>1, <3>2 DEF Apart, OneBusy
    <3>4. InFlush' /\ InDispose'
      BY <1>2, <2>1, <3>1, <3>2 DEF Apart, InFlush, InDispose, Busy
    <3>5. InConnect'
      <4>1. current = m /\ ~mgr'[m].connected
        BY <1>3, <1>4, <1>8
      <4> QED
        BY <1>2, <3>1, <3>2, <4>1 DEF Apart, InConnect, Busy
    <3>6. Accounted'
      <4> SUFFICES ASSUME NEW k \in Managers, mgr'[k].child = "alive"
                   PROVE  \E d \in Calls : calls'[d].pc = "closing" /\ calls'[d].m = k
        BY DEF Accounted
      <4>1. k # m /\ mgr[k].child = "alive"
        BY <1>3, <1>4
      <4>2. k # manager
        BY <1>8, <4>1 DEF HostInv, OneGeneration, Managers
      <4>3. PICK d \in Calls : calls[d].pc = "closing" /\ calls[d].m = k
        BY <3>1, <4>1, <4>2 DEF Apart, Accounted
      <4>4. calls'[d] = calls[d]
        BY <2>3, <4>3
      <4> QED
        BY <4>3, <4>4
    <3>7. Disposing'
      <4>1. CASE disposed
        BY <1>2, <1>5, <2>2, <3>1, <4>1 DEF Apart, Disposing, Fades, Busy
      <4>2. CASE ~disposed
        BY <1>2, <4>2 DEF Disposing
      <4> QED
        BY <4>1, <4>2
    <3>8. TargetsOwn' /\ FeedbackReachesItsRun'
      BY <1>2, <1>6, <2>1, <3>1 DEF Apart, TargetsOwn, FeedbackReachesItsRun
    <3> QED
      BY <3>3, <3>4, <3>5, <3>6, <3>7, <3>8 DEF Apart
  <2> QED
    BY <2>4, <2>5, <2>6, <2>7 DEF HostInv
<1> QED
  BY <1>7, <1>8

\* What a child says is remembered as the manager's.
LEMMA PushKeeps ==
  ASSUME HostInv, NEW m \in Managers, Push(m)
  PROVE  HostInv'
<1>1. /\ m = current /\ lastMarket' \in {m, lastMarket} /\ presented' \in {m, presented}
      /\ mgr[m].connected
      /\ UNCHANGED <<controller, actual, manager, current, mgr, calls, feedback, commands, overlapped>>
  BY DEF Push
<1>2. TypeOK'
  BY <1>1 DEF HostInv, TypeOK
<1>3. AliveConnected' /\ OneGeneration' /\ LoopFlag' /\ StartedFirst'
  BY <1>1 DEF HostInv, AliveConnected, OneGeneration, LoopFlag, StartedFirst, controller, At
<1>4. ASSUME ~overlapped'
      PROVE  Apart'
  <2>1. ~overlapped /\ Apart /\ m # 0
    BY <1>1, <1>4 DEF HostInv, Managers
  <2>2. OneBusy' /\ InConnect' /\ Accounted'
    BY <1>1, <2>1 DEF Apart, OneBusy, InConnect, Accounted, Busy, At
  <2>3. InFlush' /\ InDispose'
    BY <1>1, <2>1 DEF Apart, InFlush, InDispose, At
  <2>4. Disposing'
    BY <1>1, <2>1 DEF Apart, Disposing, Busy, At, controller
  <2>5. manager # 0 => manager = m
    BY <1>1, <2>1 DEF HostInv, OneGeneration
  <2>6. TargetsOwn' /\ FeedbackReachesItsRun'
    BY <1>1, <2>1, <2>5 DEF Apart, TargetsOwn, FeedbackReachesItsRun, feedback
  <2> QED
    BY <2>2, <2>3, <2>4, <2>6 DEF Apart
<1> QED
  BY <1>2, <1>3, <1>4 DEF HostInv

\* Only submitSignalFeedback sends, and only what is a target of the manager.
LEMMA FeedbackKeeps ==
  ASSUME HostInv, pickSignal \/ submitSignalFeedback
  PROVE  HostInv'
<1>1. UNCHANGED <<controller, actual, manager, current, lastMarket, presented, mgr, calls,
                  commands, overlapped>>
  BY DEF pickSignal, submitSignalFeedback
<1>2. TypeOK' /\ AliveConnected' /\ OneGeneration' /\ LoopFlag' /\ StartedFirst'
  BY <1>1 DEF HostInv, TypeOK, AliveConnected, OneGeneration, LoopFlag, StartedFirst, controller, At
<1>3. ASSUME ~overlapped'
      PROVE  Apart'
  <2>1. ~overlapped /\ Apart
    BY <1>1, <1>3 DEF HostInv
  <2>2. OneBusy' /\ InFlush' /\ InDispose' /\ InConnect' /\ Accounted' /\ Disposing' /\ TargetsOwn'
    BY <1>1, <2>1 DEF Apart, OneBusy, InFlush, InDispose, InConnect, Accounted, Disposing,
                      TargetsOwn, Busy, At, controller
  <2>3. FeedbackReachesItsRun'
    <3>1. sent' = sent \/ (sent' = <<picked, manager>> /\ picked # 0 /\ manager # 0
                           /\ picked \in {presented, lastMarket})
      BY DEF pickSignal, submitSignalFeedback, signalFeedbackTargets, connected
    <3>2. sent[1] = sent[2] /\ (manager # 0 => presented \in {0, manager} /\ lastMarket \in {0, manager})
      BY <2>1 DEF Apart, FeedbackReachesItsRun, TargetsOwn
    <3> QED
      BY <3>1, <3>2 DEF FeedbackReachesItsRun
  <2> QED
    BY <2>2, <2>3 DEF Apart
<1> QED
  BY <1>2, <1>3 DEF HostInv

-----------------------------------------------------------------------------
(* The invariant *)

\* Before the first command there is no manager and no call.
LEMMA HostInit == Init => HostInv
<1> SUFFICES ASSUME Init
             PROVE  HostInv
  OBVIOUS
<1>1. NoManager \in Manager /\ NoManager.child = "none"
  BY DEF NoManager, Manager
<1>2. mgr = [m \in Managers |-> NoManager] /\ calls = [c \in Calls |-> Idle]
  BY DEF Init, Calls
<1>3. \A m \in Managers : mgr[m] = NoManager
  BY <1>2
<1>4. Loop \in Calls /\ \A c \in Calls : calls[c] = Idle
  BY <1>2 DEF Calls
<1>5. TypeOK
  BY <1>1, <1>2, <1>4, IdleIsCall DEF Init, TypeOK
<1>6. AliveConnected /\ OneGeneration /\ LoopFlag /\ StartedFirst
  BY <1>1, <1>3, <1>4, IdleIsCall DEF Init, AliveConnected, OneGeneration, LoopFlag, StartedFirst, At
<1>7. \A c \in Calls : ~Busy(c)
  BY <1>4, IdleIsCall DEF Busy
<1>8. Apart
  BY <1>1, <1>3, <1>7 DEF Init, Apart, OneBusy, InFlush, InDispose, InConnect, Accounted,
                          Disposing, TargetsOwn, FeedbackReachesItsRun, Busy, At
<1> QED
  BY <1>5, <1>6, <1>8 DEF HostInv

\* Every step of every call, of a child and of the user keeps the invariant.
LEMMA HostStep == HostInv /\ [Next]_vars => HostInv'
<1> SUFFICES ASSUME HostInv, [Next]_vars
             PROVE  HostInv'
  OBVIOUS
<1>1. ASSUME NEW c \in Callers, Command(c)
      PROVE  HostInv'
  BY <1>1, startKeeps, pauseKeeps, resumeKeeps, restartCoreKeeps, shutdownKeeps DEF Command
<1>2. ASSUME NEW c \in Callers,
             \/ Acknowledged(c) \/ Unacknowledged(c) \/ RestartDisposed(c)
             \/ ShutdownDrained(c) \/ ShutdownDisposed(c)
      PROVE  HostInv'
  BY <1>2, AcknowledgedKeeps, UnacknowledgedKeeps, RestartDisposedKeeps, ShutdownDrainedKeeps,
     ShutdownDisposedKeeps
<1>3. ASSUME NEW c \in Calls, Continue(c)
      PROVE  HostInv'
  BY <1>3, FlushedKeeps, ClosedKeeps, CloseThrowsKeeps, SpawnedKeeps, HandshakenKeeps,
     HandshakeFailsKeeps, StartedKeeps DEF Continue
<1>4. ASSUME NEW m \in Managers, ChildExits(m) \/ Push(m)
      PROVE  HostInv'
  BY <1>4, ChildExitsKeeps, PushKeeps
<1>5. CASE BackoffOver \/ pickSignal \/ submitSignalFeedback
  BY <1>5, BackoffOverKeeps, FeedbackKeeps
<1>6. CASE UNCHANGED vars
  <2>1. UNCHANGED <<manager, current, lastMarket, presented, disposed, restartInFlight, overlapped,
                    commands, mgr, calls, sent>>
    BY <1>6 DEF vars
  <2>2. TypeOK' /\ AliveConnected' /\ OneGeneration' /\ LoopFlag' /\ StartedFirst'
    BY <2>1 DEF HostInv, TypeOK, AliveConnected, OneGeneration, LoopFlag, StartedFirst, At
  <2>3. ~overlapped => Apart'
    BY <2>1 DEF HostInv, Apart, OneBusy, InFlush, InDispose, InConnect, Accounted, Disposing,
                TargetsOwn, FeedbackReachesItsRun, Busy, At
  <2> QED
    BY <2>1, <2>2, <2>3 DEF HostInv
<1> QED
  BY <1>1, <1>2, <1>3, <1>4, <1>5, <1>6 DEF Next, Calls

\* The invariant holds throughout.
LEMMA HostInvariant == Spec => []HostInv
  BY HostInit, HostStep, PTL DEF Spec

\* No child is left behind, and none is there after shutdown, as long as calls did not
\* overlap: the call that connects or disposes is alone, and knows of every child
\* (spawnAndStart, disposeManager, failStart, shutdown).
THEOREM NoChildOrphaned == Spec => []NoOrphan
<1>1. HostInv => NoOrphan
  <2> SUFFICES ASSUME HostInv, ~overlapped
               PROVE  /\ \A m \in Managers : mgr[m].child = "alive" =>
                            m = manager \/ \E c \in DOMAIN calls : At(c, "closing") /\ calls[c].m = m
                      /\ \A m, n \in Managers :
                            mgr[m].child = "alive" /\ mgr[n].child = "alive" => m = n
                      /\ disposed /\ Quiet => \A m \in Managers : mgr[m].child # "alive"
    BY DEF NoOrphan
  <2>1. Apart /\ DOMAIN calls = Calls
    BY DEF HostInv, TypeOK
  <2>2. \A m \in Managers : mgr[m].child = "alive" =>
            m = manager \/ \E c \in Calls : At(c, "closing") /\ calls[c].m = m
    BY <2>1 DEF Apart, Accounted
  <2>3. \A c, d \in Calls : At(c, "closing") => manager = 0 /\ (At(d, "closing") => c = d)
    BY <2>1 DEF Apart, InDispose, OneBusy, Busy, At
  <2>4. \A m, n \in Managers : mgr[m].child = "alive" /\ mgr[n].child = "alive" => m = n
    BY <2>2, <2>3 DEF Managers
  <2>5. disposed /\ Quiet => \A m \in Managers : mgr[m].child # "alive"
    BY <2>1 DEF Apart, Disposing, Quiet, Calls
  <2> QED
    BY <2>1, <2>2, <2>4, <2>5
<1> QED
  BY <1>1, HostInvariant, PTL

\* Feedback is sent to the run its signal comes from, however many runs have come and gone
\* while the QuickPick was open (submitSignalFeedback, disposeManager, onAlert, onState).
THEOREM FeedbackIsDelivered == Spec => []FeedbackReachesItsRun
<1>1. HostInv => FeedbackReachesItsRun
  BY DEF HostInv, Apart, FeedbackReachesItsRun
<1> QED
  BY <1>1, HostInvariant, PTL
=============================================================================
