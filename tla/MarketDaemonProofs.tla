-------------------------- MODULE MarketDaemonProofs --------------------------
(***************************************************************************)
(* Proofs about MarketDaemon for every set of watchlists.  DaemonInv is    *)
(* the inductive invariant: the lock really excludes a command while a     *)
(* tick runs, and what the host was told agrees with the phase.            *)
(***************************************************************************)
EXTENDS MarketDaemon, TLAPS

Tasks == {"stdin", "tick"}

\* Task t holds the lock or waits for it.
InQueue(q, t) == Len(q) >= 1 /\ (q[1] = t \/ (Len(q) = 2 /\ q[2] = t))

\* Each task is in the queue of the lock exactly while it asks for or holds it,
\* at most once, and a tick runs only at its head.
LockInv ==
    /\ lock \in Seq(Tasks) /\ Len(lock) <= 2
    /\ Len(lock) = 2 => lock[1] # lock[2]
    /\ stdin = "locking" <=> InQueue(lock, "stdin")
    /\ ticker \in {"locking", "ticking"} <=> InQueue(lock, "tick")
    /\ ticker = "ticking" => lock[1] = "tick"

\* A tick starts in the phase RUNNING, which the host has been told of, and
\* nothing tells it otherwise before the tick ends; the host is told of the end
\* only when the commands have ended.
PhaseInv ==
    /\ stopping = "no" <=> stdin # "returned"
    /\ ticker = "ticking" => told = "running"
    /\ phase = "RUNNING" => told = "running"
    /\ told = "closed" => stopping # "no"

\* The finally block cleans up only after it has awaited the tick task, and not
\* at all when that raises.
CleanUpInv ==
    /\ stopping \in {"no", "ticker"} =>
           intelligence = "running" /\ telemetry = "open"
    /\ stopping = "intelligence" => ticker = "cancelled"

DaemonInv ==
    TypeOK /\ LockInv /\ PhaseInv /\ WatchlistStableInTick /\ CleanUpInv /\ CleanExit

-----------------------------------------------------------------------------

\* The lengths a queue of two tasks can have.
LEMMA QueueLength == \A n \in Nat : n <= 2 => n = 0 \/ n = 1 \/ n = 2
OBVIOUS

\* A queue that one task has left is short.
LEMMA ShortQueue ==
    /\ \A n \in Nat : n <= 1 => n # 2 /\ n <= 2
    /\ \A n \in Nat : n = 1 => n >= 1
OBVIOUS

\* A task that is not in the queue joins it at the end.
LEMMA JoinQueue ==
    ASSUME NEW q \in Seq(Tasks), Len(q) <= 2, Len(q) = 2 => q[1] # q[2],
           NEW t \in Tasks, ~InQueue(q, t), NEW r, r = Append(q, t)
    PROVE  /\ r \in Seq(Tasks) /\ Len(r) <= 2
           /\ Len(r) = 2 => r[1] # r[2]
           /\ InQueue(r, t)
           /\ \A u \in Tasks : u # t => (InQueue(r, u) <=> InQueue(q, u))
           /\ Len(q) >= 1 => r[1] = q[1]
<1>1. /\ r \in Seq(Tasks) /\ Len(r) = Len(q) + 1
      /\ r[Len(q) + 1] = t
      /\ Len(q) >= 1 => r[1] = q[1]
  OBVIOUS
<1>2. Len(q) \in Nat
  OBVIOUS
<1>3. Len(q) = 2 => q[1] \in Tasks /\ q[2] \in Tasks
  OBVIOUS
<1>4. Len(q) # 2
  BY <1>3 DEF InQueue, Tasks
<1>5. CASE Len(q) = 0
  BY <1>1, <1>5 DEF InQueue
<1>6. CASE Len(q) = 1
  BY <1>1, <1>6 DEF InQueue
<1>7. Len(q) = 0 \/ Len(q) = 1
  BY <1>2, <1>4, QueueLength, Zenon
<1> QED BY <1>5, <1>6, <1>7

\* The task at the head leaves the queue.
LEMMA LeaveQueue ==
    ASSUME NEW q \in Seq(Tasks), Len(q) <= 2, Len(q) = 2 => q[1] # q[2], Len(q) >= 1,
           NEW r, r = Tail(q)
    PROVE  /\ r \in Seq(Tasks) /\ Len(r) <= 1
           /\ ~InQueue(r, q[1])
           /\ \A u \in Tasks : u # q[1] => (InQueue(r, u) <=> InQueue(q, u))
           /\ Head(q) = q[1]
<1>1. /\ r \in Seq(Tasks) /\ Len(r) = Len(q) - 1
      /\ Len(q) = 2 => r[1] = q[2]
      /\ Head(q) = q[1]
  OBVIOUS
<1>2. Len(q) \in Nat
  OBVIOUS
<1>3. CASE Len(q) = 1
  BY <1>1, <1>3 DEF InQueue
<1>4. CASE Len(q) = 2
  <2>1. Len(r) = 1 /\ r[1] = q[2] /\ q[1] # q[2]
    BY <1>1, <1>4
  <2>2. \A u \in Tasks : InQueue(r, u) <=> u = q[2]
    <3>1. Len(r) \in Nat /\ Len(r) <= 1
      BY <1>1, <2>1
    <3>2. Len(r) >= 1 /\ Len(r) # 2
      BY <2>1, <3>1, ShortQueue, Zenon
    <3> QED BY <2>1, <3>2, Zenon DEF InQueue
  <2>3. \A u : InQueue(q, u) <=> u = q[1] \/ u = q[2]
    BY <1>4 DEF InQueue
  <2> QED BY <1>1, <2>1, <2>2, <2>3
<1>5. Len(q) = 1 \/ Len(q) = 2
  <2>1. Len(q) # 0
    OBVIOUS
  <2> QED BY <2>1, <1>2, QueueLength, Zenon
<1> QED BY <1>3, <1>4, <1>5

\* The daemon starts in a state of the invariant.
LEMMA InitInv == Init => DaemonInv
<1> SUFFICES ASSUME Init PROVE DaemonInv
  OBVIOUS
<1> USE DEF Init
<1>1. TypeOK
  BY DEF TypeOK, DaemonPhase, Lines, Commands, NoLine
<1>2. LockInv
  BY DEF LockInv, InQueue, Tasks
<1>3. PhaseInv /\ WatchlistStableInTick /\ CleanUpInv /\ CleanExit
  BY DEF PhaseInv, WatchlistStableInTick, CleanUpInv, CleanExit
<1> QED BY <1>1, <1>2, <1>3 DEF DaemonInv

\* A line is read while anything else may go on.
LEMMA ReadLineInv ==
    ASSUME DaemonInv, NEW l \in Lines, ReadLine(l)
    PROVE  DaemonInv'
<1> USE DEF ReadLine
<1>1. LockInv'
  BY JoinQueue DEF DaemonInv, LockInv, InQueue, Tasks
<1>2. TypeOK'
  BY <1>1 DEF DaemonInv, TypeOK, LockInv, Tasks, history
<1>3. PhaseInv' /\ WatchlistStableInTick' /\ CleanUpInv' /\ CleanExit'
  BY DEF DaemonInv, PhaseInv, WatchlistStableInTick, CleanUpInv, CleanExit, history
<1> QED BY <1>1, <1>2, <1>3 DEF DaemonInv

\* The command loop is left without the lock, perhaps during a tick.
LEMMA ReadFailsInv ==
    ASSUME DaemonInv, ReadFails
    PROVE  DaemonInv'
<1> USE DEF ReadFails
<1>1. LockInv'
  BY DEF DaemonInv, LockInv
<1>2. TypeOK'
  BY DEF DaemonInv, TypeOK, DaemonPhase, history
<1>3. PhaseInv' /\ WatchlistStableInTick' /\ CleanUpInv' /\ CleanExit'
  BY DEF DaemonInv, PhaseInv, WatchlistStableInTick, CleanUpInv, CleanExit, history
<1> QED BY <1>1, <1>2, <1>3 DEF DaemonInv

\* While a command is handled, no tick is in progress.
LEMMA DispatchExcludesTick ==
    ASSUME DaemonInv, Dispatch
    PROVE  ticker # "ticking" /\ stdin = "locking" /\ stopping = "no"
<1>1. stdin = "locking" /\ Head(lock) = "stdin"
  BY DEF Dispatch, LastCommands, HasLock
<1>2. ticker # "ticking"
  BY <1>1, LeaveQueue DEF DaemonInv, LockInv, InQueue
<1> QED BY <1>1, <1>2 DEF DaemonInv, PhaseInv

\* A command is handled, or the loop ends.
LEMMA DispatchInv ==
    ASSUME DaemonInv, Dispatch
    PROVE  DaemonInv'
<1> DEFINE fails == stdout = "broken" /\ line.type # "blank"
           ends == fails \/ line.type \in {"shutdown", "eof"}
<1>1. /\ reply(line)
      /\ watch' = IF line.type = "set_watchlist" /\ Ready THEN line.items ELSE watch
      /\ phase' = IF ends THEN "SHUTTING_DOWN" ELSE handled_phase(line)
      /\ stdin' = IF ends THEN "returned" ELSE "reading"
      /\ stopping' = IF ends THEN "ticker" ELSE stopping
      /\ lock' = Tail(lock)
      /\ Head(lock) = "stdin"
      /\ UNCHANGED <<line, ticker, tick_watch, stdout, intelligence, telemetry>>
  BY DEF Dispatch, LastCommands, HasLock
<1>2. ticker # "ticking" /\ stdin = "locking" /\ stopping = "no"
  BY DispatchExcludesTick
<1>3. Len(lock) >= 1 /\ lock[1] = "stdin"
  BY <1>1, <1>2, LeaveQueue DEF DaemonInv, LockInv, InQueue
<1>4. /\ lock' \in Seq(Tasks) /\ Len(lock') <= 1
      /\ ~InQueue(lock', "stdin")
      /\ InQueue(lock', "tick") <=> InQueue(lock, "tick")
  <2>1. /\ lock \in Seq(Tasks) /\ Len(lock) <= 2
        /\ Len(lock) = 2 => lock[1] # lock[2]
        /\ lock' = Tail(lock)
    BY <1>1 DEF DaemonInv, LockInv
  <2>2. /\ lock' \in Seq(Tasks) /\ Len(lock') <= 1
        /\ ~InQueue(lock', lock[1])
        /\ \A u \in Tasks : u # lock[1] => (InQueue(lock', u) <=> InQueue(lock, u))
    BY <2>1, <1>3, LeaveQueue
  <2> QED BY <2>2, <1>3 DEF Tasks
<1>5. LockInv'
  <2>1. Len(lock') # 2 /\ Len(lock') <= 2
    BY <1>4
  <2>2. stdin' # "locking" /\ ticker' # "ticking"
    BY <1>1, <1>2
  <2>3. ticker' \in {"locking", "ticking"} <=> InQueue(lock', "tick")
    BY <1>1, <1>4 DEF DaemonInv, LockInv
  <2> QED BY <1>4, <2>1, <2>2, <2>3 DEF LockInv
<1>6. handled_phase(line) \in DaemonPhase
  BY DEF handled_phase, DaemonInv, TypeOK, DaemonPhase
<1>7. ToldBy(line) \in {"idle", "running", "paused", "closed"}
  BY DEF ToldBy, DaemonInv, TypeOK
<1>8. /\ told' \in {told, ToldBy(line)} /\ frames' = frames /\ replies' \in {replies, 1 - replies}
      /\ ~fails /\ line.type # "blank" => told' = ToldBy(line)
      /\ line.type = "blank" => told' = told
      /\ told' # told => ~fails
  BY <1>1 DEF reply, history, DaemonInv, TypeOK
<1>9. TypeOK'
  <2>1. watch' \in Watchlists
    <3>1. line.type = "set_watchlist" => line.items \in Watchlists
      BY DEF DaemonInv, TypeOK, Lines, Commands
    <3> QED BY <3>1, <1>1 DEF DaemonInv, TypeOK
  <2>2. phase' \in DaemonPhase
    BY <1>1, <1>6 DEF DaemonPhase
  <2>3. lock' \in Seq({"stdin", "tick"}) /\ Len(lock') <= 2
    BY <1>5 DEF LockInv, Tasks
  <2>4. /\ told' \in {"idle", "running", "paused", "closed"}
        /\ frames' \in 0..1 /\ replies' \in 0..1
    BY <1>7, <1>8 DEF DaemonInv, TypeOK
  <2> QED BY <1>1, <2>1, <2>2, <2>3, <2>4 DEF DaemonInv, TypeOK
<1>10. PhaseInv'
  <2>1. phase' = "RUNNING" => told' = "running"
    <3>1. CASE ends
      BY <3>1, <1>1
    <3>2. CASE ~ends
      BY <3>2, <1>1, <1>8 DEF handled_phase, ToldBy, DaemonInv, PhaseInv
    <3> QED BY <3>1, <3>2
  <2>2. told' = "closed" => stopping' # "no"
    <3>1. CASE ends
      BY <3>1, <1>1
    <3>2. CASE ~ends
      BY <3>2, <1>1, <1>2, <1>8 DEF ToldBy, DaemonInv, PhaseInv
    <3> QED BY <3>1, <3>2
  <2> QED BY <2>1, <2>2, <1>1, <1>2 DEF PhaseInv
<1>11. WatchlistStableInTick' /\ CleanUpInv' /\ CleanExit'
  BY <1>1, <1>2 DEF DaemonInv, WatchlistStableInTick, CleanUpInv, CleanExit
<1> QED BY <1>5, <1>9, <1>10, <1>11 DEF DaemonInv

\* The tick task asks for the lock.
LEMMA TickLoopWakesInv ==
    ASSUME DaemonInv, TickLoopWakes
    PROVE  DaemonInv'
<1> USE DEF TickLoopWakes
<1>1. LockInv'
  BY JoinQueue DEF DaemonInv, LockInv, InQueue, Tasks
<1>2. TypeOK'
  BY <1>1 DEF DaemonInv, TypeOK, LockInv, history
<1>3. PhaseInv' /\ WatchlistStableInTick' /\ CleanUpInv' /\ CleanExit'
  BY DEF DaemonInv, PhaseInv, WatchlistStableInTick, CleanUpInv, CleanExit, history
<1> QED BY <1>1, <1>2, <1>3 DEF DaemonInv

\* The tick task gets the lock, which a command does not hold then.
LEMMA TickLoopLocksInv ==
    ASSUME DaemonInv, TickLoopLocks
    PROVE  DaemonInv'
<1>1. Len(lock) >= 1 /\ lock[1] = "tick"
  BY LeaveQueue DEF TickLoopLocks, HasLock, DaemonInv, LockInv, InQueue
<1>2. LockInv'
  BY <1>1, LeaveQueue DEF TickLoopLocks, DaemonInv, LockInv, InQueue, Tasks
<1>3. TypeOK'
  BY <1>2 DEF TickLoopLocks, DaemonInv, TypeOK, LockInv, Tasks, history
<1>4. PhaseInv' /\ WatchlistStableInTick' /\ CleanUpInv' /\ CleanExit'
  BY DEF TickLoopLocks, DaemonInv, PhaseInv, WatchlistStableInTick, CleanUpInv,
         CleanExit, history
<1> QED BY <1>2, <1>3, <1>4 DEF DaemonInv

\* The tick returns or raises, and gives the lock to a waiting command.
LEMMA TickEndsInv ==
    ASSUME DaemonInv, TickReturns \/ TickRaises
    PROVE  DaemonInv'
<1>1. Len(lock) >= 1 /\ lock[1] = "tick"
  BY LeaveQueue DEF TickReturns, TickRaises, DaemonInv, LockInv, InQueue
<1>2. LockInv'
  <2>1. /\ lock \in Seq(Tasks) /\ Len(lock) <= 2
        /\ Len(lock) = 2 => lock[1] # lock[2]
        /\ lock' = Tail(lock)
    BY DEF TickReturns, TickRaises, DaemonInv, LockInv
  <2>2. /\ lock' \in Seq(Tasks) /\ Len(lock') <= 1
        /\ ~InQueue(lock', lock[1])
        /\ \A u \in Tasks : u # lock[1] => (InQueue(lock', u) <=> InQueue(lock, u))
    BY <2>1, <1>1, LeaveQueue
  <2>3. /\ ~InQueue(lock', "tick")
        /\ InQueue(lock', "stdin") <=> InQueue(lock, "stdin")
    BY <2>2, <1>1 DEF Tasks
  <2>4. Len(lock') # 2 /\ Len(lock') <= 2
    <3>1. Len(lock') \in Nat
      BY <2>2
    <3> QED BY <2>2, <3>1, ShortQueue, Zenon
  <2>5. stdin' = stdin /\ ticker' \notin {"locking", "ticking"}
    BY DEF TickReturns, TickRaises
  <2> QED BY <2>2, <2>3, <2>4, <2>5 DEF DaemonInv, LockInv
<1>3. TypeOK'
  BY <1>2 DEF TickReturns, TickRaises, DaemonInv, TypeOK, LockInv, Tasks
<1>4. PhaseInv' /\ WatchlistStableInTick' /\ CleanUpInv' /\ CleanExit'
  BY DEF TickReturns, TickRaises, DaemonInv, TypeOK, PhaseInv, WatchlistStableInTick, CleanUpInv,
         CleanExit
<1> QED BY <1>2, <1>3, <1>4 DEF DaemonInv

\* run has awaited the tick task.
LEMMA TickerAwaitedInv ==
    ASSUME DaemonInv, TickerAwaited
    PROVE  DaemonInv'
<1> USE DEF TickerAwaited
<1>1. stdin = "returned"
  BY DEF DaemonInv, PhaseInv, TypeOK
<1>2. LockInv'
  BY <1>1 DEF LockInv, InQueue
<1>3. TypeOK'
  BY <1>2 DEF DaemonInv, TypeOK, LockInv, Tasks, history
<1>4. PhaseInv' /\ WatchlistStableInTick' /\ CleanUpInv' /\ CleanExit'
  BY <1>1 DEF DaemonInv, PhaseInv, WatchlistStableInTick, CleanUpInv, CleanExit, history
<1> QED BY <1>2, <1>3, <1>4 DEF DaemonInv

\* Steps that touch neither the lock nor a task.
LEMMA OtherStepsInv ==
    ASSUME DaemonInv, HostVanishes \/ CleanUp
    PROVE  DaemonInv'
<1>1. LockInv'
  BY DEF HostVanishes, CleanUp, DaemonInv, LockInv
<1>2. TypeOK'
  BY DEF HostVanishes, CleanUp, DaemonInv, TypeOK, history
<1>3. PhaseInv' /\ WatchlistStableInTick' /\ CleanUpInv' /\ CleanExit'
  BY DEF HostVanishes, CleanUp, DaemonInv, PhaseInv, WatchlistStableInTick,
         CleanUpInv, CleanExit, history
<1> QED BY <1>1, <1>2, <1>3 DEF DaemonInv

\* Every step of the daemon preserves the invariant.
LEMMA NextInv == DaemonInv /\ [Next]_vars => DaemonInv'
<1> SUFFICES ASSUME DaemonInv, [Next]_vars PROVE DaemonInv'
  OBVIOUS
<1>1. CASE HostVanishes \/ CleanUp
  BY <1>1, OtherStepsInv
<1>2. CASE \E l \in Lines : ReadLine(l)
  BY <1>2, ReadLineInv
<1>3. CASE Dispatch
  BY <1>3, DispatchInv
<1>4. CASE TickLoopWakes
  BY <1>4, TickLoopWakesInv
<1>5. CASE TickLoopLocks
  BY <1>5, TickLoopLocksInv
<1>6. CASE TickReturns \/ TickRaises
  BY <1>6, TickEndsInv
<1>7. CASE TickerAwaited
  BY <1>7, TickerAwaitedInv
<1>8. CASE ReadFails
  BY <1>8, ReadFailsInv
<1>9. CASE UNCHANGED vars
  BY <1>9 DEF vars, history, DaemonInv, TypeOK, LockInv, PhaseInv, WatchlistStableInTick,
              CleanUpInv, CleanExit
<1> QED BY <1>1, <1>2, <1>3, <1>4, <1>5, <1>6, <1>7, <1>8, <1>9 DEF Next

\* The inductive invariant holds throughout.
THEOREM DaemonInvariant == Spec => []DaemonInv
<1>1. Init => DaemonInv
  BY InitInv
<1>2. DaemonInv /\ [Next]_vars => DaemonInv'
  BY NextInv
<1> QED BY <1>1, <1>2, PTL DEF Spec

-----------------------------------------------------------------------------

\* The tasks, the lock and the messages stay well-typed; the lock never has more
\* than one waiter.
THEOREM DaemonTypeCorrect == Spec => []TypeOK
<1>1. DaemonInv => TypeOK
  BY DEF DaemonInv
<1> QED BY <1>1, DaemonInvariant, PTL

\* engine.tick awaits the provider with the lock held, so set_watchlist never
\* changes the watchlist under it.
THEOREM TickKeepsItsWatchlist == Spec => []WatchlistStableInTick
<1>1. DaemonInv => WatchlistStableInTick
  BY DEF DaemonInv
<1> QED BY <1>1, DaemonInvariant, PTL

\* However run is left, it has stopped the intelligence and closed the telemetry
\* exactly when the tick task had not died of an exception.
THEOREM ExitIsClean == Spec => []CleanExit
<1>1. DaemonInv => CleanExit
  BY DEF DaemonInv
<1> QED BY <1>1, DaemonInvariant, PTL

\* _emit_tick writes only between the acks that start or resume the daemon and
\* those that pause or end it.
THEOREM FramesWhileRunning == Spec => FramesOnlyWhileRunning
<1>1. DaemonInv /\ [Next]_vars => [frames' # frames => told = "running"]_vars
  <2> SUFFICES ASSUME DaemonInv, Next, frames' # frames
               PROVE  told = "running"
    OBVIOUS
  <2>1. TickReturns \/ TickRaises
    BY DEF Next, HostVanishes, ReadLine, ReadFails, Dispatch, LastCommands, reply, TickLoopWakes, TickLoopLocks,
           TickerAwaited, CleanUp, history
  <2> QED BY <2>1 DEF TickReturns, TickRaises, DaemonInv, PhaseInv
<1> QED BY <1>1, DaemonInvariant, PTL DEF Spec, FramesOnlyWhileRunning

\* Nothing is written after the shutdown acknowledgement.
THEOREM NothingAfterShutdownAck == Spec => ShutdownAckIsLast
<1>1. DaemonInv /\ [Next]_vars =>
        [told = "closed" => frames' = frames /\ replies' = replies]_vars
  <2> SUFFICES ASSUME DaemonInv, Next, told = "closed"
               PROVE  frames' = frames /\ replies' = replies
    OBVIOUS
  <2>1. stopping # "no"
    BY DEF DaemonInv, PhaseInv
  <2>2. ~Dispatch
    BY <2>1, DispatchExcludesTick
  <2>3. ~TickReturns /\ ~TickRaises
    BY <2>1 DEF TickReturns, TickRaises
  <2> QED BY <2>2, <2>3 DEF Next, HostVanishes, ReadLine, ReadFails, TickLoopWakes, TickLoopLocks,
                            TickerAwaited, CleanUp, history
<1> QED BY <1>1, DaemonInvariant, PTL DEF Spec, ShutdownAckIsLast
=============================================================================
