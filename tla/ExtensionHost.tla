---------------------------- MODULE ExtensionHost ----------------------------
(***************************************************************************)
(* The editor extension's side of the daemon: HostController               *)
(* (host/controller.ts) and the ProcessManager and IpcClient it uses       *)
(* (ipc/process.ts, ipc/client.ts).  The commands of the user and the      *)
(* reconnect loop are asynchronous calls on one controller: an action is   *)
(* what a call does between two awaits, and the calls interleave at every  *)
(* await.  A manager spawns one child, so its number also stands for the   *)
(* run_id of that child; the managers are numbered in the order of their   *)
(* creation.                                                               *)
(*                                                                         *)
(* managerGeneration changes whenever a manager is created or disposed of; *)
(* what its comparisons tell apart is which manager, if any, is the newest *)
(* and not disposed of: current.  The three requests of the handshake fail *)
(* in one way and are one await.  Texts, the watchlist, the badge and the  *)
(* alert hold are left out.                                                *)
(***************************************************************************)
EXTENDS Naturals

CONSTANTS
    Callers,      \* calls that may be in progress at a time, besides the reconnect loop
    MaxRetries,   \* maxRetries
    MaxCommands,  \* bound on commands
    MaxManagers   \* bound on managers

Loop == 0   \* the call of handleUnexpectedDisconnect

ASSUME HostAssumption ==
    /\ MaxRetries \in Nat /\ MaxCommands \in Nat /\ MaxManagers \in Nat
    /\ Loop \notin Callers

VARIABLES
    desired,         \* desiredInternal
    actual,          \* actualInternal
    disposed,        \* disposed
    manager,         \* the manager, 0 for undefined
    current,         \* the manager of managerGeneration, 0 when it is disposed of
    retryCount,      \* retryCount
    restartInFlight, \* restartInFlight
    lastMarket,      \* whose state lastMarket is, 0 for undefined
    presented,       \* whose signals presentedFeedbackTargets holds, 0 for none
    mgr,             \* the managers created so far: child, connected, live and stopping
    calls,           \* every call: its operation, where it waits, and for which manager
    picked,          \* the run of the signal chosen in the QuickPick, 0 for none
    sent,            \* the last user_feedback: the signal's run and the child's (history)
    commands,        \* number of commands given (history)
    overlapped       \* two calls were connecting or disposing at a time, or the extension
                     \* was shut down while a resume waited for its answer (history)

controller == <<desired, disposed, retryCount, restartInFlight>>
feedback == <<picked, sent>>
vars == <<desired, actual, disposed, manager, current, retryCount, restartInFlight,
          lastMarket, presented, mgr, calls, picked, sent, commands, overlapped>>

Managers == 1..MaxManagers
NoManager == [child |-> "none", connected |-> FALSE, live |-> FALSE, stopping |-> FALSE]
Idle == [op |-> "none", pc |-> "idle", m |-> 0]

Init ==
    /\ desired = "RUNNING" /\ actual = "STOPPED" /\ disposed = FALSE
    /\ manager = 0 /\ current = 0 /\ retryCount = 0 /\ restartInFlight = FALSE
    /\ lastMarket = 0 /\ presented = 0
    /\ mgr = [m \in Managers |-> NoManager]
    /\ calls = [c \in Callers \cup {Loop} |-> Idle]
    /\ picked = 0 /\ sent = <<0, 0>> /\ commands = 0 /\ overlapped = FALSE

connected == manager # 0 /\ mgr[manager].connected

At(c, pc) == calls[c].pc = pc
Goto(c, op, pc, m) == calls' = [calls EXCEPT ![c] = [op |-> op, pc |-> pc, m |-> m]]
Returns(c) == calls' = [calls EXCEPT ![c] = Idle]

\* c is connecting or disposing of a manager; Overlaps: another call is, too.
Busy(c) == calls[c].pc \in {"draining", "flush", "closing", "disposed", "handshake", "state"}
Overlaps(c) == overlapped \/ \E d \in DOMAIN calls \ {c} : Busy(d)
Quiet == \A c \in Callers \cup {Loop} : calls[c].pc = "idle"

-----------------------------------------------------------------------------
(* ProcessManager *)

\* cleanup after which no callback of the manager fires any more
Cleaned(m) == [mgr[m] EXCEPT !.connected = FALSE, !.live = FALSE, !.stopping = FALSE]

\* The child is told to end, unless cleanup has dropped it before.
Terminated(m) ==
    [Cleaned(m) EXCEPT !.child = IF mgr[m].connected /\ @ = "alive" THEN "killed" ELSE @]

\* Faulty variant: a failed start leaves its child behind.
FailStartLeavesChild(m) == Cleaned(m)

\* failStart
failStart(m) == Terminated(m)

-----------------------------------------------------------------------------
(* HostController: the parts of a call *)

\* disposeManager up to its first await.
BeginDispose(c, op) ==
    /\ current' = 0 /\ presented' = 0
    /\ Goto(c, op, "flush", 0)
    /\ overlapped' = Overlaps(c)

\* failDisconnected
failDisconnected ==
    lastMarket' = 0 /\ presented' = 0 /\ actual' = "DISCONNECTED"

\* The loop of handleUnexpectedDisconnect from the condition of its while to the
\* next await: it goes to sleep, or ends.
NextAttempt(retries) ==
    IF disposed \/ desired # "RUNNING" \/ retries >= MaxRetries
    THEN Returns(Loop) /\ restartInFlight' = FALSE /\ retryCount' = retries
    ELSE /\ Goto(Loop, "connect", "backoff", 0)
         /\ restartInFlight' = TRUE /\ retryCount' = retries + 1

\* A connecting call throws: a command catches it and returns, the loop goes on.
ConnectThrows(c) ==
    /\ failDisconnected
    /\ IF c = Loop THEN NextAttempt(retryCount)
       ELSE Returns(c) /\ UNCHANGED <<restartInFlight, retryCount>>

\* disposeManager after the presentation queue: shutdown of the manager, if it has
\* anything to shut down.
Flushed(c) ==
    /\ At(c, "flush")
    /\ lastMarket' = 0 /\ manager' = 0
    /\ IF connected
       THEN /\ mgr' = [mgr EXCEPT ![manager].stopping = TRUE]
            /\ Goto(c, calls[c].op, "closing", manager)
       ELSE /\ Goto(c, calls[c].op, "disposed", 0)
            /\ UNCHANGED mgr
    /\ UNCHANGED <<controller, actual, current, presented, feedback, commands, overlapped>>

\* shutdown of the manager ends: the child has gone, or has been told to.
Closed(c) ==
    /\ At(c, "closing")
    /\ LET m == calls[c].m
       IN  /\ mgr' = [mgr EXCEPT ![m] = Terminated(m)]
           /\ Goto(c, calls[c].op, "disposed", 0)
    /\ UNCHANGED <<controller, actual, manager, current, lastMarket, presented, feedback,
                   commands, overlapped>>

\* shutdown of the manager throws: failStart of another call has taken the child away
\* between the shutdown request and its answer.
CloseThrows(c) ==
    /\ At(c, "closing") /\ ~mgr[calls[c].m].connected
    /\ mgr' = [mgr EXCEPT ![calls[c].m] = Cleaned(calls[c].m)]
    /\ IF calls[c].op = "connect" THEN ConnectThrows(c)
       ELSE Returns(c) /\ UNCHANGED <<restartInFlight, retryCount, lastMarket, presented, actual>>
    /\ UNCHANGED <<desired, disposed, manager, current, feedback, commands, overlapped>>

\* spawnAndStart after disposeManager: a new manager, up to the await of its handshake.
Spawned(c) ==
    /\ At(c, "disposed") /\ calls[c].op = "connect"
    /\ \E m \in Managers :
        /\ mgr[m].child = "none" /\ \A n \in 1..(m - 1) : mgr[n].child # "none"
        /\ mgr' = [mgr EXCEPT ![m] = [child |-> "alive", connected |-> TRUE, live |-> FALSE,
                                      stopping |-> FALSE]]
        /\ manager' = m /\ current' = m
        /\ Goto(c, "connect", "handshake", m)
    /\ actual' = "STARTING"
    /\ UNCHANGED <<controller, lastMarket, presented, feedback, commands, overlapped>>

\* hello, set_watchlist and start have been answered: getState is asked.
Handshaken(c) ==
    /\ At(c, "handshake") /\ mgr[calls[c].m].connected /\ mgr[calls[c].m].child # "gone"
    /\ mgr' = [mgr EXCEPT ![calls[c].m].live = TRUE]
    /\ Goto(c, "connect", "state", calls[c].m)
    /\ UNCHANGED <<controller, actual, manager, current, lastMarket, presented, feedback,
                   commands, overlapped>>

\* A request of the handshake is refused, times out or loses its client.
HandshakeFails(c) ==
    /\ At(c, "handshake")
    /\ mgr' = [mgr EXCEPT ![calls[c].m] = failStart(calls[c].m)]
    /\ ConnectThrows(c)
    /\ UNCHANGED <<desired, disposed, manager, current, feedback, commands, overlapped>>

\* The end of spawnAndStart, with the answer to getState or without one.
Started(c) ==
    /\ At(c, "state")
    /\ \/ /\ mgr[calls[c].m].connected /\ mgr[calls[c].m].child # "gone"
          /\ lastMarket' = calls[c].m
       \/ UNCHANGED lastMarket
    /\ actual' = "RUNNING" /\ retryCount' = 0
    /\ Returns(c)
    /\ restartInFlight' = (restartInFlight /\ c # Loop)
    /\ UNCHANGED <<desired, disposed, manager, current, presented, mgr, feedback, commands,
                   overlapped>>

-----------------------------------------------------------------------------
(* HostController: the commands *)

\* The editor calls start first, and withdraws the commands with the extension; it
\* may call shutdown again.
Commanded(c) == At(c, "idle") /\ commands < MaxCommands /\ commands' = commands + 1
Offered(c) == Commanded(c) /\ commands > 0 /\ ~disposed

\* start, once at activation; the settings may be unusable (connectFromSettings).
start(c) ==
    /\ Commanded(c) /\ commands = 0
    /\ \/ BeginDispose(c, "connect") /\ UNCHANGED <<lastMarket, actual>>
       \/ failDisconnected /\ UNCHANGED <<calls, current, overlapped>>
    /\ UNCHANGED <<controller, manager, mgr, feedback>>

\* pause
pause(c) ==
    /\ Offered(c)
    /\ desired' = "PAUSED"
    /\ IF actual \in {"DISCONNECTED", "STOPPED"} THEN UNCHANGED <<actual, calls>>
       ELSE IF connected THEN Goto(c, "pause", "asked", manager) /\ UNCHANGED actual
       ELSE actual' = "DISCONNECTED" /\ UNCHANGED calls
    /\ UNCHANGED <<disposed, retryCount, restartInFlight, manager, current, lastMarket,
                   presented, mgr, feedback, overlapped>>

\* resume
resume(c) ==
    /\ Offered(c)
    /\ desired' = "RUNNING" /\ retryCount' = 0
    /\ \/ /\ actual = "PAUSED" /\ connected
          /\ Goto(c, "resume", "asked", manager)
          /\ UNCHANGED <<current, presented, overlapped, lastMarket, actual>>
       \/ /\ ~(actual = "PAUSED" /\ connected)
          /\ \/ BeginDispose(c, "connect") /\ UNCHANGED <<lastMarket, actual>>
             \/ failDisconnected /\ UNCHANGED <<calls, current, overlapped>>
    /\ UNCHANGED <<disposed, restartInFlight, manager, mgr, feedback>>

\* The answer to pause or resume, if the client is still there.
Acknowledged(c) ==
    /\ At(c, "asked") /\ mgr[calls[c].m].connected /\ mgr[calls[c].m].child # "gone"
    /\ actual' = IF calls[c].op = "pause" THEN "PAUSED" ELSE "RUNNING"
    /\ Returns(c)
    /\ UNCHANGED <<controller, manager, current, lastMarket, presented, mgr, feedback,
                   commands, overlapped>>

\* A refusal, a timeout or a closed client: pause gives up, resume connects anew.
Unacknowledged(c) ==
    /\ At(c, "asked")
    /\ \/ /\ calls[c].op = "pause"
          /\ Returns(c)
          /\ UNCHANGED <<actual, current, presented, lastMarket, overlapped>>
       \/ /\ calls[c].op = "resume"
          /\ \/ BeginDispose(c, "connect") /\ actual' = "DISCONNECTED" /\ UNCHANGED lastMarket
             \/ failDisconnected /\ Returns(c) /\ UNCHANGED <<current, overlapped>>
    /\ UNCHANGED <<controller, manager, mgr, feedback, commands>>

\* restartCore: it disposes of the manager, and connects unless the user has paused;
\* connecting disposes once more.
restartCore(c) ==
    /\ Offered(c)
    /\ retryCount' = 0
    /\ BeginDispose(c, "restart")
    /\ UNCHANGED <<desired, disposed, restartInFlight, actual, manager, lastMarket, mgr, feedback>>

RestartDisposed(c) ==
    /\ At(c, "disposed") /\ calls[c].op = "restart"
    /\ \/ /\ desired = "PAUSED" /\ actual' = "STOPPED"
          /\ Returns(c)
          /\ UNCHANGED <<current, presented, lastMarket, overlapped>>
       \/ /\ desired # "PAUSED"
          /\ \/ BeginDispose(c, "connect") /\ UNCHANGED <<actual, lastMarket>>
             \/ failDisconnected /\ Returns(c) /\ UNCHANGED <<current, overlapped>>
    /\ UNCHANGED <<controller, manager, mgr, feedback, commands>>

\* shutdown of the extension.  A resume that waits for its answer loses its client to it,
\* and connects anew without looking at disposed.
shutdown(c) ==
    /\ Commanded(c) /\ commands > 0
    /\ disposed' = TRUE /\ restartInFlight' = FALSE
    /\ Goto(c, "shutdown", "draining", 0)
    /\ overlapped' = (Overlaps(c) \/ \E d \in Callers : At(d, "asked") /\ calls[d].op = "resume")
    /\ UNCHANGED <<desired, retryCount, actual, manager, current, lastMarket, presented, mgr,
                   feedback>>

ShutdownDrained(c) ==
    /\ At(c, "draining")
    /\ IF actual = "STOPPED" /\ manager = 0
       THEN Returns(c) /\ UNCHANGED <<actual, current, presented, overlapped>>
       ELSE actual' = "STOPPING" /\ BeginDispose(c, "shutdown")
    /\ UNCHANGED <<controller, manager, lastMarket, mgr, feedback, commands>>

ShutdownDisposed(c) ==
    /\ At(c, "disposed") /\ calls[c].op = "shutdown"
    /\ actual' = "STOPPED"
    /\ Returns(c)
    /\ UNCHANGED <<controller, manager, current, lastMarket, presented, mgr, feedback, commands,
                   overlapped>>

\* The delay of the reconnect loop is over.
BackoffOver ==
    /\ At(Loop, "backoff")
    /\ IF disposed \/ desired # "RUNNING"
       THEN /\ Returns(Loop) /\ restartInFlight' = FALSE
            /\ UNCHANGED <<current, presented, overlapped>>
       ELSE BeginDispose(Loop, "connect") /\ UNCHANGED restartInFlight
    /\ UNCHANGED <<desired, disposed, retryCount, actual, manager, lastMarket, mgr, feedback,
                   commands>>

-----------------------------------------------------------------------------
(* What the child does *)

\* onDisconnected of the current manager: handleUnexpectedDisconnect up to its first await.
handleUnexpectedDisconnect ==
    /\ manager' = 0 /\ presented' = 0 /\ actual' = "DISCONNECTED"
    /\ IF disposed \/ desired # "RUNNING" \/ restartInFlight
       THEN UNCHANGED <<calls, restartInFlight, retryCount>>
       ELSE NextAttempt(retryCount)

\* The child ends.  The close of its stdout and an error event run the same handler; they
\* are taken for its end, since the daemon never closes its stdout and goes on.
\* A manager that is not stopping cleans up, and reports the loss of
\* a live child once; the report of a manager that has been replaced is dropped.
ChildExits(m) ==
    /\ mgr[m].child \in {"alive", "killed"}
    /\ LET heard == mgr[m].connected /\ ~mgr[m].stopping
       IN  /\ mgr' = [mgr EXCEPT ![m] = [(IF heard THEN Cleaned(m) ELSE @) EXCEPT !.child = "gone"]]
           /\ IF heard /\ mgr[m].live /\ m = current THEN handleUnexpectedDisconnect
              ELSE UNCHANGED <<manager, presented, actual, calls, restartInFlight, retryCount>>
    /\ UNCHANGED <<desired, disposed, current, lastMarket, feedback, commands, overlapped>>

\* An unsolicited state or alert of the child: onState, onAlert with enqueueAlert.
Push(m) ==
    /\ mgr[m].child = "alive" /\ mgr[m].connected /\ m = current
    /\ \/ lastMarket' = m /\ UNCHANGED presented
       \/ presented' = m /\ UNCHANGED lastMarket
    /\ UNCHANGED <<controller, actual, manager, current, mgr, calls, feedback, commands, overlapped>>

-----------------------------------------------------------------------------
(* Feedback *)

signalFeedbackTargets == {presented, lastMarket} \ {0}

\* The user chooses a signal in the QuickPick, and a label some time later.
pickSignal ==
    /\ picked = 0
    /\ picked' \in signalFeedbackTargets
    /\ UNCHANGED <<controller, actual, manager, current, lastMarket, presented, mgr, calls,
                   sent, commands, overlapped>>

\* Faulty variant: the target is not looked up again.
SubmitWithoutRecheck ==
    /\ picked # 0
    /\ picked' = 0
    /\ sent' = IF connected THEN <<picked, manager>> ELSE sent
    /\ UNCHANGED <<controller, actual, manager, current, lastMarket, presented, mgr, calls,
                   commands, overlapped>>

\* submitSignalFeedback
submitSignalFeedback ==
    /\ picked # 0
    /\ picked' = 0
    /\ sent' = IF connected /\ picked \in signalFeedbackTargets THEN <<picked, manager>> ELSE sent
    /\ UNCHANGED <<controller, actual, manager, current, lastMarket, presented, mgr, calls,
                   commands, overlapped>>

Command(c) == start(c) \/ pause(c) \/ resume(c) \/ restartCore(c) \/ shutdown(c)

Continue(c) ==
    \/ Flushed(c) \/ Closed(c) \/ CloseThrows(c) \/ Spawned(c) \/ Handshaken(c)
    \/ HandshakeFails(c) \/ Started(c)

Next ==
    \/ \E c \in Callers : \/ Command(c) \/ Acknowledged(c) \/ Unacknowledged(c)
                          \/ RestartDisposed(c) \/ ShutdownDrained(c) \/ ShutdownDisposed(c)
    \/ \E c \in Callers \cup {Loop} : Continue(c)
    \/ BackoffOver
    \/ \E m \in Managers : ChildExits(m) \/ Push(m)
    \/ pickSignal \/ submitSignalFeedback

Spec == Init /\ [][Next]_vars

-----------------------------------------------------------------------------
(* Properties *)

\* No child is left behind: as long as no two calls were connecting or disposing at the
\* same time, and no resume was waiting when the extension was shut down, every child
\* that has not been told to end is the manager's or is being shut down by a call, there
\* is at most one, and after shutdown has returned there is none (spawnAndStart,
\* disposeManager, failStart, shutdown of the manager).
NoOrphan ==
    ~overlapped =>
        /\ \A m \in Managers : mgr[m].child = "alive" =>
                m = manager \/ \E c \in DOMAIN calls : At(c, "closing") /\ calls[c].m = m
        /\ \A m, n \in Managers : mgr[m].child = "alive" /\ mgr[n].child = "alive" => m = n
        /\ disposed /\ Quiet => \A m \in Managers : mgr[m].child # "alive"

\* Feedback reaches the run its signal comes from: a signal picked before a crash, a
\* restart or a reconnect is never sent to the child of a later run, however long the
\* QuickPick stays open (submitSignalFeedback looks the target up again, disposing of a
\* manager forgets its targets, and the callbacks of an older generation are dropped).
FeedbackReachesItsRun == ~overlapped => sent[1] = sent[2]

\* A crash of the daemon is answered by reconnecting, or is shown: once no call is in
\* progress, an extension that is meant to run has a daemon or says it has none
\* (handleUnexpectedDisconnect).
CrashAnswered ==
    ~overlapped /\ Quiet /\ ~disposed /\ desired = "RUNNING" /\ commands > 0 =>
        connected \/ actual # "RUNNING"
=============================================================================
