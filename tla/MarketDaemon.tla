----------------------------- MODULE MarketDaemon -----------------------------
(***************************************************************************)
(* The stdio daemon (ipc/daemon.py): a task that reads commands from stdin *)
(* and a task that ticks the engine, sharing one asyncio lock, and the     *)
(* shutdown that ends both.  The engine is abstracted to the watchlist a   *)
(* tick works on; MarketEngine models the tick itself.                     *)
(*                                                                         *)
(* asyncio.Lock serves its waiters in order: lock is the sequence of tasks *)
(* that hold (the first) or wait for it.                                   *)
(***************************************************************************)
EXTENDS Integers, Sequences

CONSTANTS
    Watchlists,      \* watchlists a host may set
    NoWatchlist      \* no tick is using a watchlist

ASSUME DaemonAssumption == NoWatchlist \notin Watchlists

VARIABLES
    phase,         \* _phase
    lock,          \* _lock
    stdin,         \* _stdin_loop: "reading", "locking" or "returned"
    line,          \* the line that _stdin_loop has read
    ticker,        \* _tick_loop: where it is, or how it ended
    watch,         \* engine.watchlist
    tick_watch,    \* the watchlist the tick in progress started with
    stdout,        \* "open", or "broken" when the host closed it
    stopping,      \* how far the finally block of run has come
    intelligence,  \* "running" or "stopped"
    telemetry,     \* "open" or "closed"
    told,          \* the state of the daemon by its messages so far (history)
    frames,        \* parity of the tick messages written (history)
    replies        \* parity of the other messages written (history)

history == <<told, frames, replies>>
vars == <<phase, lock, stdin, line, ticker, watch, tick_watch, stdout, stopping,
          intelligence, telemetry, history>>

DaemonPhase == {"AWAITING_HELLO", "READY", "RUNNING", "PAUSED", "SHUTTING_DOWN"}

\* "other" is every command that changes nothing here: get_state,
\* host_interaction, user_feedback.  "rejected" is a line that decode_line or
\* _dispatch_line answers with an error, "blank" one that is not answered.
Commands == {"hello", "start", "pause", "resume", "other", "rejected", "blank",
             "shutdown", "eof"}
Lines == [type : Commands] \cup [type : {"set_watchlist"}, items : Watchlists]
NoLine == [type |-> "blank"]

\* _require_ready
Ready == phase # "AWAITING_HELLO"

\* Faulty variant: nobody waits for the lock.
LockIgnored(task) == TRUE

\* The task holds the lock.
HasLock(task) == Head(lock) = task

-----------------------------------------------------------------------------

Init ==
    /\ phase = "AWAITING_HELLO"
    /\ lock = <<>>
    /\ stdin = "reading" /\ line = NoLine
    /\ ticker = "sleeping"
    /\ watch \in Watchlists /\ tick_watch = NoWatchlist
    /\ stdout = "open"
    /\ stopping = "no"
    /\ intelligence = "running" /\ telemetry = "open"
    /\ told = "idle" /\ frames = 0 /\ replies = 0

\* The host closes its end of the daemon's stdout.
HostVanishes ==
    /\ stdout = "open"
    /\ stdout' = "broken"
    /\ UNCHANGED <<phase, lock, stdin, line, ticker, watch, tick_watch, stopping,
                   intelligence, telemetry, history>>

\* readline returns in its thread: the task asks for the lock.
ReadLine(l) ==
    /\ stdin = "reading"
    /\ stdin' = "locking"
    /\ line' = l
    /\ lock' = Append(lock, "stdin")
    /\ UNCHANGED <<phase, ticker, watch, tick_watch, stdout, stopping,
                   intelligence, telemetry, history>>

\* readline raises (bytes that are no text): the exception leaves _stdin_loop,
\* which does not hold the lock then, and run cancels the tick task, perhaps in
\* the middle of a tick.
ReadFails ==
    /\ stdin = "reading"
    /\ stdin' = "returned"
    /\ phase' = "SHUTTING_DOWN"
    /\ stopping' = "ticker"
    /\ UNCHANGED <<lock, line, ticker, watch, tick_watch, stdout, intelligence,
                   telemetry, history>>

\* The phase after the handler of line l.
handled_phase(l) ==
    CASE l.type \in {"shutdown", "eof"}                          -> "SHUTTING_DOWN"
      [] l.type = "hello" /\ ~Ready                              -> "READY"
      [] l.type = "start" /\ Ready /\ phase # "PAUSED"           -> "RUNNING"
      [] l.type = "pause" /\ phase \in {"RUNNING", "PAUSED"}     -> "PAUSED"
      [] l.type = "resume" /\ phase \in {"RUNNING", "PAUSED"}    -> "RUNNING"
      [] OTHER                                                   -> phase

\* What the answer to line l tells the host: errors and other answers tell it
\* nothing new.
ToldBy(l) ==
    CASE l.type \in {"shutdown", "eof"}                          -> "closed"
      [] l.type = "start" /\ Ready /\ phase # "PAUSED"           -> "running"
      [] l.type = "pause" /\ phase \in {"RUNNING", "PAUSED"}     -> "paused"
      [] l.type = "resume" /\ phase \in {"RUNNING", "PAUSED"}    -> "running"
      [] OTHER                                                   -> told

\* The answer of _dispatch_line is written and flushed, or the write raises.
reply(l) ==
    IF stdout = "open" /\ l.type # "blank"
    THEN replies' = 1 - replies /\ told' = ToldBy(l) /\ UNCHANGED frames
    ELSE UNCHANGED history

\* Faulty variant: the loop reads on after a shutdown, until the host closes stdin.
ReadsOnAfterShutdown == {"eof"}

\* The commands after which _stdin_loop returns.
LastCommands == {"shutdown", "eof"}

\* _stdin_loop has the lock: one command is handled, and the loop goes on, or
\* returns (shutdown, EOF), or is left by the exception of a failed write.  When
\* it ends, run cancels the tick task.
Dispatch ==
    LET fails == stdout = "broken" /\ line.type # "blank"
        ends == fails \/ line.type \in LastCommands
    IN  /\ stdin = "locking" /\ HasLock("stdin")
        /\ reply(line)
        /\ watch' = IF line.type = "set_watchlist" /\ Ready THEN line.items ELSE watch
        /\ phase' = IF ends THEN "SHUTTING_DOWN" ELSE handled_phase(line)
        /\ stdin' = IF ends THEN "returned" ELSE "reading"
        /\ stopping' = IF ends THEN "ticker" ELSE stopping
        /\ lock' = Tail(lock)
        /\ UNCHANGED <<line, ticker, tick_watch, stdout, intelligence, telemetry>>

-----------------------------------------------------------------------------
(* _tick_loop *)

\* The sleep ends.
TickLoopWakes ==
    /\ stopping = "no"
    /\ ticker = "sleeping"
    /\ ticker' = "locking"
    /\ lock' = Append(lock, "tick")
    /\ UNCHANGED <<phase, stdin, line, watch, tick_watch, stdout, stopping,
                   intelligence, telemetry, history>>

\* Faulty variant: the loop returns when the daemon is not running.
LoopEndsUnlessRunning ==
    /\ stopping = "no"
    /\ ticker = "locking" /\ HasLock("tick")
    /\ IF phase = "RUNNING"
       THEN ticker' = "ticking" /\ tick_watch' = watch /\ UNCHANGED lock
       ELSE ticker' = "cancelled" /\ lock' = Tail(lock) /\ UNCHANGED tick_watch
    /\ UNCHANGED <<phase, stdin, line, watch, stdout, stopping, intelligence,
                   telemetry, history>>

\* The task gets the lock: engine.tick starts if the daemon is running.
TickLoopLocks ==
    /\ stopping = "no"
    /\ ticker = "locking" /\ HasLock("tick")
    /\ IF phase = "RUNNING"
       THEN ticker' = "ticking" /\ tick_watch' = watch /\ UNCHANGED lock
       ELSE ticker' = "sleeping" /\ lock' = Tail(lock) /\ UNCHANGED tick_watch
    /\ UNCHANGED <<phase, stdin, line, watch, stdout, stopping, intelligence,
                   telemetry, history>>

\* Faulty variant: the lock is not released.
TickKeepsLock ==
    /\ stopping = "no"
    /\ ticker = "ticking" /\ stdout = "open"
    /\ ticker' = "sleeping"
    /\ frames' = 1 - frames
    /\ tick_watch' = NoWatchlist
    /\ UNCHANGED <<phase, lock, stdin, line, watch, stdout, stopping, intelligence,
                   telemetry, told, replies>>

\* engine.tick returns and _emit_tick writes its one or two messages, between
\* which nothing of the daemon runs.
TickReturns ==
    /\ stopping = "no"
    /\ ticker = "ticking" /\ stdout = "open"
    /\ ticker' = "sleeping"
    /\ frames' = 1 - frames
    /\ tick_watch' = NoWatchlist
    /\ lock' = Tail(lock)
    /\ UNCHANGED <<phase, stdin, line, watch, stdout, stopping, intelligence,
                   telemetry, told, replies>>

\* engine.tick, the mapping or encoding of its result, or a write raises: the
\* exception ends the task, after the first of the two messages or before it.
TickRaises ==
    /\ stopping = "no"
    /\ ticker = "ticking"
    /\ ticker' = "failed"
    /\ \/ UNCHANGED frames
       \/ stdout = "open" /\ frames' = 1 - frames
    /\ tick_watch' = NoWatchlist
    /\ lock' = Tail(lock)
    /\ UNCHANGED <<phase, stdin, line, watch, stdout, stopping, intelligence,
                   telemetry, told, replies>>

-----------------------------------------------------------------------------
(* The finally block of run *)

\* Faulty variant: the cancellation does not reach a task waiting for the lock.
AwaitsSleepingTicker ==
    /\ stopping = "ticker"
    /\ ticker = "sleeping"
    /\ ticker' = "cancelled"
    /\ stopping' = "intelligence"
    /\ UNCHANGED <<phase, lock, stdin, line, watch, tick_watch, stdout, intelligence,
                   telemetry, history>>

\* The cancelled task ends, out of its tick if one is in progress, and gives up
\* the lock or its place in the queue; one that had failed raises its exception
\* into run, which leaves the block.
TickerAwaited ==
    /\ stopping = "ticker"
    /\ ticker' = IF ticker = "failed" THEN "failed" ELSE "cancelled"
    /\ lock' = <<>>
    /\ tick_watch' = NoWatchlist
    /\ stopping' = IF ticker = "failed" THEN "exited" ELSE "intelligence"
    /\ UNCHANGED <<phase, stdin, line, watch, stdout, intelligence, telemetry,
                   history>>

\* Faulty variant: the telemetry is not closed.
CleanUpLeavesTelemetry ==
    /\ stopping = "intelligence"
    /\ stopping' = "exited"
    /\ intelligence' = "stopped"
    /\ UNCHANGED <<phase, lock, stdin, line, ticker, watch, tick_watch, stdout,
                   telemetry, history>>

\* intelligence.shutdown returns (IntelligenceCoordinator: ShutdownTerminates)
\* and the telemetry is closed.
CleanUp ==
    /\ stopping = "intelligence"
    /\ stopping' = "exited"
    /\ intelligence' = "stopped"
    /\ telemetry' = "closed"
    /\ UNCHANGED <<phase, lock, stdin, line, ticker, watch, tick_watch, stdout,
                   history>>

Next ==
    \/ HostVanishes
    \/ \E l \in Lines : ReadLine(l)
    \/ ReadFails \/ Dispatch
    \/ TickLoopWakes \/ TickLoopLocks \/ TickReturns \/ TickRaises
    \/ TickerAwaited \/ CleanUp

Spec == Init /\ [][Next]_vars

\* The event loop runs every task that can run, sleeps end, and a tick returns or
\* raises because the provider's fetch is bounded by a timeout.  The host owes
\* nothing.
FairSpec ==
    /\ Spec
    /\ WF_vars(Dispatch) /\ WF_vars(TickLoopWakes) /\ WF_vars(TickLoopLocks)
    /\ WF_vars(TickReturns \/ TickRaises) /\ WF_vars(TickerAwaited) /\ WF_vars(CleanUp)

-----------------------------------------------------------------------------
(* Properties *)

TypeOK ==
    /\ phase \in DaemonPhase
    /\ lock \in Seq({"stdin", "tick"}) /\ Len(lock) <= 2
    /\ stdin \in {"reading", "locking", "returned"}
    /\ line \in Lines
    /\ ticker \in {"sleeping", "locking", "ticking", "failed", "cancelled"}
    /\ watch \in Watchlists
    /\ tick_watch \in Watchlists \cup {NoWatchlist}
    /\ stdout \in {"open", "broken"}
    /\ stopping \in {"no", "ticker", "intelligence", "exited"}
    /\ intelligence \in {"running", "stopped"}
    /\ telemetry \in {"open", "closed"}
    /\ told \in {"idle", "running", "paused", "closed"}
    /\ frames \in 0..1 /\ replies \in 0..1

\* A watchlist replace is never visible mid-tick (docstring of MarketDaemon).
WatchlistStableInTick == ticker = "ticking" => tick_watch = watch

\* On the output stream, tick messages come only while the host has last been
\* told that the daemon runs: none follows the ack of a pause or precedes the
\* ack of a start.
FramesOnlyWhileRunning == [][frames' # frames => told = "running"]_vars

\* The shutdown acknowledgement is the last message the daemon writes.
ShutdownAckIsLast ==
    [][told = "closed" => frames' = frames /\ replies' = replies]_vars

\* When the daemon exits, by shutdown, EOF or an exception of its command loop,
\* the intelligence workers are stopped and the telemetry is closed, unless the
\* tick task had died of an exception before: then the clean-up is skipped.
CleanExit ==
    stopping = "exited" =>
        (intelligence = "stopped" /\ telemetry = "closed" <=> ticker # "failed")

\* Ticking never starves the host: a command that was read is handled.
CommandsServed == stdin = "locking" ~> stdin # "locking"

\* Once shutdown has begun, the daemon exits.
ShutdownExits == phase = "SHUTTING_DOWN" ~> stopping = "exited"

\* While the daemon runs, one tick message follows another until the tick task
\* dies of an exception (a failed write is one).
KeepsTicking ==
    \A n \in 0..1 :
        (phase = "RUNNING" /\ frames = n) ~>
            (phase # "RUNNING" \/ frames # n \/ ticker = "failed")
=============================================================================
