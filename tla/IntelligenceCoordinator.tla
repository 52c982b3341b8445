------------------------ MODULE IntelligenceCoordinator ------------------------
(***************************************************************************)
(* The intelligence sidecar (intelligence/coordinator.py): observe_tick    *)
(* routes alert edges of live episodes into a bounded queue, worker tasks  *)
(* run one model call each, and results are attached to the episode unless *)
(* it was retired in between.                                              *)
(*                                                                         *)
(* Everything runs on one event loop, so an action is the code between two *)
(* awaits.  observe_tick has no await and is one action; a worker awaits   *)
(* queue.get and wait_for, so taking work and finishing a call are         *)
(* separate actions; shutdown awaits the cancelled workers.                *)
(*                                                                         *)
(* The maps _calls, _generation, _last_priority and _pending hold positive *)
(* values only, so an absent key is the value 0.                           *)
(***************************************************************************)
EXTENDS Integers, Sequences, FiniteSets, Functions

CONSTANTS
    Ids,           \* signal ids
    Workers,       \* worker tasks (concurrency)
    QueueSize,     \* asyncio.Queue maxsize
    MaxCalls,      \* EpisodeCallBudget.max_calls
    AllowRecall,   \* EpisodeCallBudget.allow_escalation_recall
    Priorities,    \* ranks of the priorities the router lets through
    Reactivation,  \* may an id that left the active set return to it?
    NoWorker,      \* no call registered
    MaxGeneration  \* bound on _generation

ASSUME CoordinatorAssumption ==
    /\ IsFiniteSet(Workers) /\ Workers # {} /\ NoWorker \notin Workers
    /\ QueueSize \in Nat \ {0}
    /\ MaxCalls \in Nat
    /\ AllowRecall \in BOOLEAN
    /\ Reactivation \in BOOLEAN
    /\ Priorities \subseteq 1..4
    /\ MaxGeneration \in Nat

VARIABLES
    phase,            \* "stopped" (_queue is None), "running", "closing" (_closed)
    queue,            \* _queue
    worker,           \* per worker: its state, work and whether the call is cancelled
    calls,            \* _calls
    generation,       \* _generation
    last_priority,    \* _last_priority
    pending,          \* _pending
    active_ids,       \* _active_ids
    in_flight_tasks,  \* _in_flight_tasks: id -> worker whose call is registered
    in_flight,        \* _in_flight
    registry,         \* AnnotationRegistry: status shown for the id
    model_calls,      \* provider calls issued per id in this run (history)
    departed          \* ids that have left the active set (history)

book == <<calls, generation, last_priority, pending>>
vars == <<phase, queue, worker, book, active_ids, in_flight_tasks, in_flight,
          registry, model_calls, departed>>

\* IntelligenceWork.  orphan is history: the episode was retired after the
\* work had been submitted.
Work == [id : Ids, generation : Nat, orphan : BOOLEAN]
Idle == [state |-> "idle"]
Gone == [state |-> "gone"]
Busy == [state : {"busy"}, work : Work, cancelled : BOOLEAN]

Status == {"none", "QUEUED", "RUNNING", "ENRICHED", "FALLBACK"}

BusyWorkers == {w \in Workers : worker[w].state = "busy"}

\* The history counter model_calls saturates above any budget.
CallCap == MaxCalls + 2

\* _work_is_live
work_is_live(k) ==
    k.id \in active_ids /\ k.generation = generation[k.id]

-----------------------------------------------------------------------------

Init ==
    /\ phase = "stopped"
    /\ queue = <<>>
    /\ worker = [w \in Workers |-> Gone]
    /\ calls = [i \in Ids |-> 0]
    /\ generation = [i \in Ids |-> 0]
    /\ last_priority = [i \in Ids |-> 0]
    /\ pending = [i \in Ids |-> 0]
    /\ active_ids = {}
    /\ in_flight_tasks = [i \in Ids |-> NoWorker]
    /\ in_flight = 0
    /\ registry = [i \in Ids |-> "none"]
    /\ model_calls = [i \in Ids |-> 0]
    /\ departed = {}

start ==
    /\ phase = "stopped"
    /\ phase' = "running"
    /\ worker' = [w \in Workers |-> Idle]
    /\ UNCHANGED <<queue, book, active_ids, in_flight_tasks, in_flight,
                   registry, model_calls, departed>>

\* Faulty variant: a recall looks at the priority alone, and an equal one is enough.
RecallUnbounded(i, priority) ==
    \/ calls[i] < MaxCalls
    \/ AllowRecall /\ last_priority[i] # 0 /\ priority >= last_priority[i]

\* budget_allows_call
budget_allows_call(i, priority) ==
    \/ calls[i] < MaxCalls
    \/ /\ AllowRecall
       /\ last_priority[i] # 0
       /\ calls[i] < MaxCalls + 1
       /\ priority > last_priority[i]

\* The rows of one tick that the router may let through, in the order of the
\* tick's results: ids are distinct, and each row passed need_intelligence's
\* checks of the alert edge, the feed, the features and the candidate rule.
Requests(candidates) ==
    UNION {{r \in [1..n -> candidates \X Priorities] :
                \A a, b \in 1..n : a # b => r[a][1] # r[b][1]} :
           n \in 0..Cardinality(candidates)}

\* Faulty variant: the entries are dropped although work is still pending.
ForgetsPending(i, current) == i \notin current

\* _retire_inactive invalidates id i and _maybe_forget drops its entries.
Forgets(i, current) == i \notin current /\ pending[i] = 0

\* _enqueue: how many works the queue still takes; none before start.
QueueRoom == IF phase = "running" THEN QueueSize - Len(queue) ELSE 0

\* Faulty variant: a retired episode's call is left to run.
NeverCancels(w, current) == FALSE

\* _invalidate cancels the registered call of an id that is not active.
Cancels(w, current) ==
    worker[w].work.id \notin current /\ in_flight_tasks[worker[w].work.id] = w

\* observe_tick with the given active ids and routed rows.  Inactive ids are
\* invalidated first; then each row is enqueued while the queue has room, a row
\* that finds it full is dropped.
ObserveTick(current, requests) ==
    LET n == IF Len(requests) <= QueueRoom THEN Len(requests) ELSE QueueRoom
        taken == {requests[j][1] : j \in 1..n}
        Row(i) == CHOOSE j \in 1..n : requests[j][1] = i
        Mark(k) == [k EXCEPT !.orphan = @ \/ k.id \notin current]
        submitted == [j \in 1..n |-> [id |-> requests[j][1],
                                      generation |-> generation[requests[j][1]] + 1,
                                      orphan |-> FALSE]]
    IN  /\ active_ids' = current
        /\ departed' = departed \cup (active_ids \ current)
        /\ queue' = [j \in DOMAIN queue |-> Mark(queue[j])] \o submitted
        /\ worker' = [w \in Workers |->
                        IF worker[w].state = "busy"
                        THEN [worker[w] EXCEPT
                                !.work = Mark(@),
                                !.cancelled = @ \/ Cancels(w, current)]
                        ELSE worker[w]]
        /\ generation' = [i \in Ids |->
                            IF Forgets(i, current) THEN 0
                            ELSE IF i \notin current \/ i \in taken
                            THEN generation[i] + 1 ELSE generation[i]]
        /\ calls' = [i \in Ids |-> IF Forgets(i, current) THEN 0
                                   ELSE IF i \in taken THEN calls[i] + 1 ELSE calls[i]]
        /\ last_priority' = [i \in Ids |->
                                IF Forgets(i, current) THEN 0
                                ELSE IF i \in taken THEN requests[Row(i)][2]
                                ELSE last_priority[i]]
        /\ pending' = [i \in Ids |-> IF i \in taken THEN pending[i] + 1 ELSE pending[i]]
        /\ registry' = [i \in Ids |-> IF i \notin current THEN "none"
                                      ELSE IF i \in taken THEN "QUEUED" ELSE registry[i]]
        /\ UNCHANGED <<phase, in_flight_tasks, in_flight, model_calls>>

observe_tick ==
    /\ phase \in {"stopped", "running"}
    /\ \A i \in Ids : generation[i] < MaxGeneration
    /\ \E current \in SUBSET Ids :
        /\ Reactivation \/ current \cap departed = {}
        /\ \E requests \in Requests(current) :
            /\ \A j \in DOMAIN requests :
                    budget_allows_call(requests[j][1], requests[j][2])
            /\ ObserveTick(current, requests)

-----------------------------------------------------------------------------
(* Workers *)

\* Faulty variant: the id is not forgotten when its last work ends.
ReleaseWithoutForget(i) ==
    /\ pending' = [pending EXCEPT ![i] = IF @ > 0 THEN @ - 1 ELSE 0]
    /\ UNCHANGED <<calls, generation, last_priority>>

\* _release_pending and _maybe_forget for the id of a finished work.
release_pending(i) ==
    LET left == IF pending[i] > 0 THEN pending[i] - 1 ELSE 0
        forget == i \notin active_ids /\ left = 0
    IN  /\ pending' = [pending EXCEPT ![i] = left]
        /\ calls' = IF forget THEN [calls EXCEPT ![i] = 0] ELSE calls
        /\ generation' = IF forget THEN [generation EXCEPT ![i] = 0] ELSE generation
        /\ last_priority' = IF forget THEN [last_priority EXCEPT ![i] = 0]
                            ELSE last_priority

\* The worker takes the next work and its episode is still live: the call is
\* created and registered.
StartCall(w) ==
    /\ phase = "running" /\ worker[w].state = "idle"
    /\ queue # <<>> /\ work_is_live(Head(queue))
    /\ queue' = Tail(queue)
    /\ worker' = [worker EXCEPT ![w] = [state |-> "busy", work |-> Head(queue),
                                        cancelled |-> FALSE]]
    /\ in_flight_tasks' = [in_flight_tasks EXCEPT ![Head(queue).id] = w]
    /\ in_flight' = in_flight + 1
    /\ registry' = [registry EXCEPT ![Head(queue).id] = "RUNNING"]
    /\ model_calls' = [model_calls EXCEPT ![Head(queue).id] =
                            IF @ < CallCap THEN @ + 1 ELSE @]
    /\ UNCHANGED <<phase, book, active_ids, departed>>

\* Faulty variant: discarded work stays pending.
DiscardKeepsPending(w) ==
    /\ phase = "running" /\ worker[w].state = "idle"
    /\ queue # <<>> /\ ~work_is_live(Head(queue))
    /\ queue' = Tail(queue)
    /\ UNCHANGED <<phase, worker, book, active_ids, in_flight_tasks, in_flight,
                   registry, model_calls, departed>>

\* The worker takes work whose episode was retired: the provider is not called.
DiscardStale(w) ==
    /\ phase = "running" /\ worker[w].state = "idle"
    /\ queue # <<>> /\ ~work_is_live(Head(queue))
    /\ queue' = Tail(queue)
    /\ release_pending(Head(queue).id)
    /\ UNCHANGED <<phase, worker, active_ids, in_flight_tasks, in_flight,
                   registry, model_calls, departed>>

\* Faulty variant: the in-flight count is never lowered.
FinishKeepsInFlight(w, next) ==
    /\ worker' = [worker EXCEPT ![w] = next]
    /\ in_flight_tasks' = [in_flight_tasks EXCEPT ![worker[w].work.id] = NoWorker]
    /\ release_pending(worker[w].work.id)
    /\ UNCHANGED <<phase, queue, active_ids, in_flight, model_calls, departed>>

\* The finally blocks of _execute and _run, leaving the worker in state next.
Finish(w, next) ==
    /\ worker' = [worker EXCEPT ![w] = next]
    /\ in_flight_tasks' = [in_flight_tasks EXCEPT ![worker[w].work.id] = NoWorker]
    /\ in_flight' = IF in_flight > 0 THEN in_flight - 1 ELSE 0
    /\ release_pending(worker[w].work.id)
    /\ UNCHANGED <<phase, queue, active_ids, model_calls, departed>>

\* Faulty variant: a failed call leaves the status as it was.
FailureNotStored(w, outcome) ==
    /\ phase = "running" /\ worker[w].state = "busy"
    /\ registry' = IF work_is_live(worker[w].work) /\ outcome = "ENRICHED"
                   THEN [registry EXCEPT ![worker[w].work.id] = outcome]
                   ELSE registry
    /\ Finish(w, Idle)

\* Faulty variant: an answer is stored without asking whether it is stale.
StoresStaleAnswer(w, outcome) ==
    /\ phase = "running" /\ worker[w].state = "busy"
    /\ registry' = [registry EXCEPT ![worker[w].work.id] = outcome]
    /\ Finish(w, Idle)

\* The call ends with a completion, or with an error or timeout: the result is
\* stored unless the work is stale.
CallReturns(w, outcome) ==
    /\ phase = "running" /\ worker[w].state = "busy"
    /\ registry' = IF work_is_live(worker[w].work)
                   THEN [registry EXCEPT ![worker[w].work.id] = outcome]
                   ELSE registry
    /\ Finish(w, Idle)

\* The cancellation requested by _invalidate reaches the worker.
CallCancelled(w) ==
    /\ phase = "running" /\ worker[w].state = "busy" /\ worker[w].cancelled
    /\ Finish(w, Idle)
    /\ UNCHANGED registry

-----------------------------------------------------------------------------
(* Shutdown *)

\* shutdown up to its first await: registered calls and all workers are
\* cancelled.
shutdown ==
    /\ phase = "running"
    /\ phase' = "closing"
    /\ worker' = [w \in Workers |->
                    IF /\ worker[w].state = "busy"
                       /\ in_flight_tasks[worker[w].work.id] = w
                    THEN [worker[w] EXCEPT !.cancelled = TRUE] ELSE worker[w]]
    /\ UNCHANGED <<queue, book, active_ids, in_flight_tasks, in_flight,
                   registry, model_calls, departed>>

\* Faulty variant: a call swallows the cancellation of its worker.
OnlyIdleWorkersExit(w) ==
    /\ phase = "closing" /\ worker[w].state = "idle"
    /\ worker' = [worker EXCEPT ![w] = Gone]
    /\ UNCHANGED <<phase, queue, book, active_ids, in_flight_tasks,
                   in_flight, registry, model_calls, departed>>

\* A cancelled worker unwinds, at queue.get or in the middle of a call.
WorkerExits(w) ==
    /\ phase = "closing"
    /\ \/ /\ worker[w].state = "idle"
          /\ worker' = [worker EXCEPT ![w] = Gone]
          /\ UNCHANGED <<phase, queue, book, active_ids, in_flight_tasks,
                         in_flight, model_calls, departed>>
       \/ worker[w].state = "busy" /\ Finish(w, Gone)
    /\ UNCHANGED registry

\* shutdown after the last worker has been awaited: the queue is dropped with
\* whatever it holds, and _reset_runtime_state_after_shutdown runs.
ShutdownCompletes ==
    /\ phase = "closing"
    /\ \A w \in Workers : worker[w].state = "gone"
    /\ phase' = "stopped"
    /\ queue' = <<>>
    /\ calls' = [i \in Ids |-> 0]
    /\ generation' = [i \in Ids |-> 0]
    /\ last_priority' = [i \in Ids |-> 0]
    /\ pending' = [i \in Ids |-> 0]
    /\ active_ids' = {}
    /\ in_flight_tasks' = [i \in Ids |-> NoWorker]
    /\ in_flight' = 0
    /\ registry' = [i \in Ids |-> "none"]
    /\ model_calls' = [i \in Ids |-> 0]
    /\ departed' = {}
    /\ UNCHANGED worker

WorkerStep(w) ==
    \/ StartCall(w) \/ DiscardStale(w)
    \/ CallReturns(w, "ENRICHED") \/ CallReturns(w, "FALLBACK") \/ CallCancelled(w)
    \/ WorkerExits(w)

Next ==
    \/ start \/ observe_tick \/ shutdown \/ ShutdownCompletes
    \/ \E w \in Workers : WorkerStep(w)

Spec == Init /\ [][Next]_vars

\* A worker that can move does: the loop schedules it, and wait_for bounds every
\* call by the timeout.
FairSpec == Spec /\ \A w \in Workers : WF_vars(WorkerStep(w))
                 /\ WF_vars(ShutdownCompletes)

-----------------------------------------------------------------------------
(* Properties *)

InWorkers == {worker[w].work : w \in BusyWorkers}

\* Number of submitted works of id i that are queued or being run.
Queued(i) == Cardinality({j \in DOMAIN queue : queue[j].id = i})
Running(i) == Cardinality({w \in BusyWorkers : worker[w].work.id = i})

TypeOK ==
    /\ phase \in {"stopped", "running", "closing"}
    /\ queue \in Seq(Work) /\ Len(queue) <= QueueSize
    /\ worker \in [Workers -> {Idle, Gone} \cup Busy]
    /\ calls \in [Ids -> Nat]
    /\ generation \in [Ids -> Nat]
    /\ last_priority \in [Ids -> {0} \cup Priorities]
    /\ pending \in [Ids -> Nat]
    /\ active_ids \subseteq Ids
    /\ in_flight_tasks \in [Ids -> Workers \cup {NoWorker}]
    /\ in_flight \in Nat
    /\ registry \in [Ids -> Status]
    /\ model_calls \in [Ids -> Nat]
    /\ departed \subseteq Ids

\* _pending counts exactly the outstanding works of an id, through submission,
\* discard, completion, cancellation and the unwinding of a shutdown, and
\* _in_flight exactly the calls being awaited.
OutstandingAccounted ==
    /\ \A i \in Ids : pending[i] = Queued(i) + Running(i)
    /\ in_flight = Cardinality(BusyWorkers)

\* Work submitted before its episode was retired never becomes valid again, even
\* when the id is active again and its generation counter was forgotten.
StaleWorkStaysStale ==
    \A k \in Range(queue) \cup InWorkers : k.orphan => ~work_is_live(k)

\* An id that is neither active nor pending has been forgotten altogether.
RetiredIdsForgotten ==
    \A i \in Ids :
        i \notin active_ids /\ pending[i] = 0 =>
            calls[i] = 0 /\ generation[i] = 0 /\ last_priority[i] = 0

\* The registry shows nothing for an id that is not active, and a status that
\* announces an answer has live work behind it: QUEUED work in the queue,
\* RUNNING work in a worker.
StatusHonest ==
    /\ \A i \in Ids : registry[i] # "none" => i \in active_ids
    /\ phase = "running" =>
        \A i \in Ids :
            /\ registry[i] = "QUEUED" =>
                \E k \in Range(queue) : k.id = i /\ work_is_live(k)
            /\ registry[i] = "RUNNING" =>
                \E k \in InWorkers : k.id = i /\ work_is_live(k)

\* One model call per episode, one more when an escalation may recall the model.
CallBudget == MaxCalls + (IF AllowRecall THEN 1 ELSE 0)

\* An episode that has stayed active since its first tick gets at most that many
\* model calls, however submissions, discards and failures interleave.
BudgetWhileActive == \A i \in Ids \ departed : model_calls[i] <= CallBudget

\* Retirement cancels the call registered last for the id, so of the calls its
\* budget allowed at least one is never left to occupy a worker for an answer
\* nobody can receive: none without recalls, at most the superseded one with.
RetiredCallsCancelled ==
    \A i \in Ids \ active_ids :
        LET running == {w \in BusyWorkers : worker[w].work.id = i}
        IN  Cardinality({w \in running : ~worker[w].cancelled}) < CallBudget

\* Every announced answer is settled: it is attached, or its episode retired.
AnswersSettle ==
    \A i \in Ids : registry[i] \in {"QUEUED", "RUNNING"}
                        ~> registry[i] \notin {"QUEUED", "RUNNING"}

\* A shutdown that has begun completes: every worker unwinds.
ShutdownTerminates == phase = "closing" ~> phase = "stopped"
=============================================================================
