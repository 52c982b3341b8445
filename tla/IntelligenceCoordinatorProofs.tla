--------------------- MODULE IntelligenceCoordinatorProofs ---------------------
(***************************************************************************)
(* Proofs about IntelligenceCoordinator for every number of signal ids and *)
(* workers, every queue size and call budget, and any number of ticks,     *)
(* calls and restarts.                                                     *)
(***************************************************************************)
EXTENDS IntelligenceCoordinator, FiniteSetTheorems, TLAPS

-----------------------------------------------------------------------------
(* Counting outstanding work *)

\* The positions of a queue q with work of id i, and the workers that run one, when
\* their states are p.
QueuedAt(q, i) == {j \in DOMAIN q : q[j].id = i}
BusyIn(p) == {w \in Workers : p[w].state = "busy"}
RunningOn(p, i) == {w \in BusyIn(p) : p[w].work.id = i}

\* These sets are finite, hence their sizes are numbers.
LEMMA CountsAreFinite ==
    ASSUME NEW q \in Seq(Work), NEW p, NEW i
    PROVE  /\ IsFiniteSet(QueuedAt(q, i)) /\ Cardinality(QueuedAt(q, i)) \in Nat
           /\ IsFiniteSet(BusyIn(p)) /\ Cardinality(BusyIn(p)) \in Nat
           /\ IsFiniteSet(RunningOn(p, i)) /\ Cardinality(RunningOn(p, i)) \in Nat
<1>1. QueuedAt(q, i) \subseteq 1..Len(q) /\ Len(q) \in Nat
  BY DEF QueuedAt
<1>2. IsFiniteSet(1..Len(q))
  BY <1>1, FS_Interval
<1>3. IsFiniteSet(QueuedAt(q, i))
  BY <1>1, <1>2, FS_Subset
<1>4. BusyIn(p) \subseteq Workers /\ RunningOn(p, i) \subseteq Workers
  BY DEF BusyIn, RunningOn
<1>5. IsFiniteSet(BusyIn(p)) /\ IsFiniteSet(RunningOn(p, i))
  BY <1>4, CoordinatorAssumption, FS_Subset
<1> QED BY <1>3, <1>5, FS_CardinalityType

\* A set is counted as empty exactly when it is.
LEMMA CountZero ==
    ASSUME NEW S, IsFiniteSet(S)
    PROVE  (Cardinality(S) = 0) <=> (S = {})
BY FS_EmptySet

\* Taking the head off the queue.
LEMMA TailCount ==
    ASSUME NEW q \in Seq(Work), q # <<>>, NEW i
    PROVE  Cardinality(QueuedAt(Tail(q), i)) =
               IF Head(q).id = i THEN Cardinality(QueuedAt(q, i)) - 1
               ELSE Cardinality(QueuedAt(q, i))
<1> DEFINE rest == QueuedAt(q, i) \ {1}
           tail == QueuedAt(Tail(q), i)
           f == [j \in rest |-> j - 1]
<1>1. /\ Len(q) \in Nat /\ Len(q) > 0 /\ DOMAIN q = 1..Len(q)
      /\ DOMAIN Tail(q) = 1..(Len(q) - 1) /\ Head(q) = q[1]
      /\ \A j \in 1..(Len(q) - 1) : Tail(q)[j] = q[j + 1]
  OBVIOUS
<1>2. f \in Bijection(rest, tail)
  <2>1. f \in [rest -> tail]
    BY <1>1 DEF QueuedAt
  <2>2. \A a, b \in rest : f[a] = f[b] => a = b
    BY <1>1 DEF QueuedAt
  <2>3. \A b \in tail : \E a \in rest : f[a] = b
    <3> SUFFICES ASSUME NEW b \in tail PROVE b + 1 \in rest /\ f[b + 1] = b
      OBVIOUS
    <3> QED BY <1>1 DEF QueuedAt
  <2> HIDE DEF f, rest, tail
  <2> QED BY <2>1, <2>2, <2>3 DEF Bijection, Injection, Surjection, IsInjective
<1>3. IsFiniteSet(QueuedAt(q, i))
  BY CountsAreFinite
<1>4. /\ IsFiniteSet(rest)
      /\ Cardinality(rest) = IF 1 \in QueuedAt(q, i) THEN Cardinality(QueuedAt(q, i)) - 1
                             ELSE Cardinality(QueuedAt(q, i))
  BY <1>3, FS_RemoveElement
<1>5. Cardinality(tail) = Cardinality(rest)
  BY <1>2, <1>4, FS_Bijection DEF ExistsBijection
<1>6. 1 \in QueuedAt(q, i) <=> Head(q).id = i
  BY <1>1 DEF QueuedAt
<1> QED BY <1>4, <1>5, <1>6

\* The parts of a concatenation.
LEMMA ConcatParts ==
    ASSUME NEW a \in Seq(Work), NEW b \in Seq(Work)
    PROVE  /\ a \o b \in Seq(Work) /\ Len(a \o b) = Len(a) + Len(b)
           /\ DOMAIN (a \o b) = 1..(Len(a) + Len(b))
           /\ \A j \in 1..Len(a) : (a \o b)[j] = a[j]
           /\ \A j \in 1..Len(b) : (a \o b)[Len(a) + j] = b[j]
           /\ \A j \in (Len(a) + 1)..(Len(a) + Len(b)) :
                    j - Len(a) \in 1..Len(b) /\ (a \o b)[j] = b[j - Len(a)]
OBVIOUS

\* Appending works with distinct ids to a queue whose works kept their ids.
LEMMA SubmitCount ==
    ASSUME NEW q \in Seq(Work), NEW m \in Seq(Work), NEW new \in Seq(Work), NEW i,
           Len(m) = Len(q), \A j \in 1..Len(q) : m[j].id = q[j].id,
           \A a, b \in 1..Len(new) : new[a].id = new[b].id => a = b
    PROVE  Cardinality(QueuedAt(m \o new, i)) =
               IF \E j \in 1..Len(new) : new[j].id = i THEN Cardinality(QueuedAt(q, i)) + 1
               ELSE Cardinality(QueuedAt(q, i))
<1>1. /\ Len(q) \in Nat /\ Len(new) \in Nat /\ DOMAIN q = 1..Len(q)
      /\ DOMAIN (m \o new) = 1..(Len(q) + Len(new))
      /\ \A j \in 1..Len(q) : (m \o new)[j] = m[j]
      /\ \A j \in 1..Len(new) : (m \o new)[Len(q) + j] = new[j]
      /\ \A j \in (Len(q) + 1)..(Len(q) + Len(new)) :
            j - Len(q) \in 1..Len(new) /\ (m \o new)[j] = new[j - Len(q)]
  <2>1. Len(q) \in Nat /\ Len(new) \in Nat /\ DOMAIN q = 1..Len(q)
    OBVIOUS
  <2>2. /\ DOMAIN (m \o new) = 1..(Len(q) + Len(new))
        /\ \A j \in 1..Len(q) : (m \o new)[j] = m[j]
    BY SMTT(30)
  <2>3. \A j \in (Len(q) + 1)..(Len(q) + Len(new)) :
            j - Len(q) \in 1..Len(new) /\ (m \o new)[j] = new[j - Len(q)]
    BY SMTT(30)
  <2>4. \A j \in 1..Len(new) : (m \o new)[Len(q) + j] = new[j]
    BY SMTT(30)
  <2> QED
    BY <2>1, <2>2, <2>3, <2>4
<1>2. IsFiniteSet(QueuedAt(q, i))
  BY CountsAreFinite
<1>3. CASE \E j \in 1..Len(new) : new[j].id = i
  <2>1. PICK j \in 1..Len(new) : new[j].id = i
    BY <1>3
  <2>2. QueuedAt(m \o new, i) = QueuedAt(q, i) \cup {Len(q) + j}
    <3>1. ASSUME NEW a \in QueuedAt(m \o new, i) PROVE a \in QueuedAt(q, i) \cup {Len(q) + j}
      <4>1. CASE a \in 1..Len(q)
        BY <1>1, <3>1, <4>1 DEF QueuedAt
      <4>2. CASE a \notin 1..Len(q)
        <5>1. a \in (Len(q) + 1)..(Len(q) + Len(new)) /\ (m \o new)[a].id = i
          BY <1>1, <3>1, <4>2 DEF QueuedAt
        <5>2. a - Len(q) = j
          <6>1. a - Len(q) \in 1..Len(new) /\ new[a - Len(q)].id = i
            BY <1>1, <5>1, Zenon
          <6> QED BY <2>1, <6>1
        <5>3. a = Len(q) + j
          BY <1>1, <5>1, <5>2
        <5> QED BY <5>3
      <4> QED BY <4>1, <4>2
    <3>2. ASSUME NEW a \in QueuedAt(q, i) \cup {Len(q) + j} PROVE a \in QueuedAt(m \o new, i)
      BY <1>1, <2>1, <3>2 DEF QueuedAt
    <3> QED BY <3>1, <3>2
  <2>3. Len(q) + j \notin QueuedAt(q, i)
    BY <1>1, <2>1 DEF QueuedAt
  <2> QED BY <1>2, <1>3, <2>2, <2>3, FS_AddElement
<1>4. CASE ~\E j \in 1..Len(new) : new[j].id = i
  <2>1. QueuedAt(m \o new, i) = QueuedAt(q, i)
    BY <1>1, <1>4 DEF QueuedAt
  <2> QED BY <1>4, <2>1
<1> QED BY <1>3, <1>4

\* Worker w takes a call of id k, and finishes it.
LEMMA BusyCount ==
    ASSUME NEW p, NEW r, NEW w \in Workers, NEW k, NEW i,
           p[w].state # "busy", r[w].state = "busy", r[w].work.id = k,
           \A v \in Workers \ {w} : p[v] = r[v]
    PROVE  /\ Cardinality(BusyIn(r)) = Cardinality(BusyIn(p)) + 1
           /\ Cardinality(RunningOn(r, i)) = Cardinality(RunningOn(p, i)) + (IF i = k THEN 1 ELSE 0)
<1>1. /\ BusyIn(r) = BusyIn(p) \cup {w} /\ w \notin BusyIn(p)
      /\ RunningOn(r, i) = IF i = k THEN RunningOn(p, i) \cup {w} ELSE RunningOn(p, i)
      /\ w \notin RunningOn(p, i)
  BY DEF BusyIn, RunningOn
<1>2. <<>> \in Seq(Work)
  OBVIOUS
<1>3. /\ IsFiniteSet(BusyIn(p)) /\ IsFiniteSet(RunningOn(p, i))
      /\ Cardinality(RunningOn(p, i)) \in Nat
  BY <1>2, CountsAreFinite
<1>4. Cardinality(BusyIn(r)) = Cardinality(BusyIn(p)) + 1
  BY <1>1, <1>3, FS_AddElement
<1>5. CASE i = k
  <2>1. Cardinality(RunningOn(p, i) \cup {w}) = Cardinality(RunningOn(p, i)) + 1
    BY <1>1, <1>3, FS_AddElement
  <2> QED BY <1>1, <1>4, <1>5, <2>1
<1>6. CASE i # k
  BY <1>1, <1>3, <1>4, <1>6
<1> QED BY <1>5, <1>6

-----------------------------------------------------------------------------
(* The inductive invariant *)

\* Before start and after a shutdown nothing is outstanding and nothing is shown.
QuietWhenStopped ==
    phase = "stopped" =>
        /\ queue = <<>>
        /\ \A w \in Workers : worker[w].state = "gone"
        /\ \A i \in Ids : registry[i] = "none"

\* No outstanding work is ahead of the generation counter of its id, and the counter has
\* moved on since the episode of an orphan was retired.
Behind(k) == /\ k.generation <= generation[k.id]
             /\ k.orphan => k.generation < generation[k.id]
GenerationsAhead ==
    /\ \A j \in DOMAIN queue : Behind(queue[j])
    /\ \A w \in BusyWorkers : Behind(worker[w].work)

\* Outside a shutdown only the calls of retired episodes are cancelled.
CancelledAreOrphans ==
    phase = "running" => \A w \in BusyWorkers : worker[w].cancelled => worker[w].work.orphan

\* Outstanding work was paid for, and an episode that never left the active set paid for
\* all its calls.
BudgetKept ==
    \A i \in Ids :
        /\ pending[i] <= calls[i] /\ calls[i] <= CallBudget
        /\ i \notin departed => /\ model_calls[i] + Queued(i) <= calls[i]
                                /\ i \notin active_ids => calls[i] = 0

\* A registered call is being run by the worker it is registered with.
RegisteredRun ==
    \A i \in Ids : in_flight_tasks[i] # NoWorker =>
        in_flight_tasks[i] \in BusyWorkers /\ worker[in_flight_tasks[i]].work.id = i

HasCall(i) == \E w \in BusyWorkers : worker[w].work.id = i
HasCancelledCall(i) == \E w \in BusyWorkers : worker[w].work.id = i /\ worker[w].cancelled

\* If an id has calls but none is registered, one of the calls it paid for has ended.
UnregisteredSpent ==
    \A i \in Ids : HasCall(i) /\ in_flight_tasks[i] = NoWorker => pending[i] < calls[i]

\* If a retired id has calls, one is cancelled or one of those it paid for has ended.
RetiredSpent ==
    \A i \in Ids \ active_ids : HasCall(i) => HasCancelledCall(i) \/ pending[i] < calls[i]

CoordinatorInv ==
    /\ TypeOK /\ QuietWhenStopped /\ OutstandingAccounted /\ RetiredIdsForgotten
    /\ GenerationsAhead /\ CancelledAreOrphans /\ StatusHonest
    /\ BudgetKept /\ RegisteredRun /\ UnregisteredSpent /\ RetiredSpent

\* An id with outstanding work has it counted.
AllPending ==
    /\ \A j \in DOMAIN queue : queue[j].id \in Ids /\ pending[queue[j].id] > 0
    /\ \A w \in BusyWorkers : worker[w].work.id \in Ids /\ pending[worker[w].work.id] > 0

\* What is queued or running is counted as pending.
LEMMA OutstandingPends == TypeOK /\ OutstandingAccounted => AllPending
<1> SUFFICES ASSUME TypeOK, OutstandingAccounted PROVE AllPending
  OBVIOUS
<1>1. \A i : Queued(i) = Cardinality(QueuedAt(queue, i)) /\ Running(i) = Cardinality(RunningOn(worker, i))
  BY DEF Queued, Running, QueuedAt, RunningOn, BusyIn, BusyWorkers
<1>2. queue \in Seq(Work)
  BY DEF TypeOK
<1>3. \A i \in Ids : QueuedAt(queue, i) # {} \/ RunningOn(worker, i) # {} => pending[i] > 0
  <2> SUFFICES ASSUME NEW i \in Ids, QueuedAt(queue, i) # {} \/ RunningOn(worker, i) # {}
               PROVE  pending[i] > 0
    OBVIOUS
  <2>1. /\ IsFiniteSet(QueuedAt(queue, i)) /\ IsFiniteSet(RunningOn(worker, i))
        /\ Cardinality(QueuedAt(queue, i)) \in Nat /\ Cardinality(RunningOn(worker, i)) \in Nat
    BY <1>2, CountsAreFinite
  <2>2. /\ QueuedAt(queue, i) # {} => Cardinality(QueuedAt(queue, i)) # 0
        /\ RunningOn(worker, i) # {} => Cardinality(RunningOn(worker, i)) # 0
    BY <2>1, CountZero
  <2>3. pending[i] = Cardinality(QueuedAt(queue, i)) + Cardinality(RunningOn(worker, i))
    BY <1>1 DEF OutstandingAccounted
  <2> QED BY <2>1, <2>2, <2>3
<1>4. \A j \in DOMAIN queue : queue[j].id \in Ids /\ QueuedAt(queue, queue[j].id) # {}
  <2>1. \A j \in DOMAIN queue : queue[j] \in Work
    BY <1>2
  <2> QED BY <2>1 DEF Work, QueuedAt
<1>5. \A w \in BusyWorkers : worker[w].work.id \in Ids /\ RunningOn(worker, worker[w].work.id) # {}
  <2>1. \A w \in BusyWorkers : worker[w] \in Busy
    BY DEF BusyWorkers, TypeOK, Idle, Gone
  <2> QED BY <2>1 DEF Busy, Work, RunningOn, BusyIn, BusyWorkers
<1> QED BY <1>3, <1>4, <1>5 DEF AllPending

\* The same after a step that keeps the counts.
LEMMA OutstandingPendsNext == TypeOK' /\ OutstandingAccounted' => AllPending'
BY OutstandingPends, PTL

-----------------------------------------------------------------------------
(* A tick *)

\* Work k after a tick with the active ids current.
Marked(k, current) == [k EXCEPT !.orphan = @ \/ k.id \notin current]

\* What a tick does when the ids in current are active and work of the ids in T finds
\* room in the queue.
Observed(current, T) ==
    /\ current \subseteq Ids /\ T \subseteq current
    /\ T # {} => phase = "running"
    /\ phase \in {"stopped", "running"}
    /\ active_ids' = current
    /\ departed' = departed \cup (active_ids \ current)
    /\ queue' \in Seq(Work) /\ Len(queue') <= QueueSize
    /\ \A j \in DOMAIN queue : j \in DOMAIN queue' /\ queue'[j] = Marked(queue[j], current)
    /\ \A j \in DOMAIN queue' \ DOMAIN queue :
            /\ queue'[j].id \in T /\ ~queue'[j].orphan
            /\ queue'[j].generation = generation[queue'[j].id] + 1
    /\ \A i \in T : \E j \in DOMAIN queue' \ DOMAIN queue : queue'[j].id = i
    /\ \A i : Cardinality(QueuedAt(queue', i)) = IF i \in T THEN Cardinality(QueuedAt(queue, i)) + 1
                                                 ELSE Cardinality(QueuedAt(queue, i))
    /\ worker' \in [Workers -> {Idle, Gone} \cup Busy]
    /\ \A w \in Workers : worker[w].state # "busy" => worker'[w] = worker[w]
    /\ \A w \in BusyWorkers :
            /\ worker'[w].state = "busy"
            /\ worker'[w].work = Marked(worker[w].work, current)
            /\ worker'[w].cancelled = (worker[w].cancelled \/ Cancels(w, current))
    /\ generation' = [i \in Ids |-> IF Forgets(i, current) THEN 0
                                    ELSE IF i \notin current \/ i \in T
                                    THEN generation[i] + 1 ELSE generation[i]]
    /\ calls' = [i \in Ids |-> IF Forgets(i, current) THEN 0
                               ELSE IF i \in T THEN calls[i] + 1 ELSE calls[i]]
    /\ last_priority' \in [Ids -> {0} \cup Priorities]
    /\ \A i \in Ids : Forgets(i, current) => last_priority'[i] = 0
    /\ pending' = [i \in Ids |-> IF i \in T THEN pending[i] + 1 ELSE pending[i]]
    /\ registry' = [i \in Ids |-> IF i \notin current THEN "none"
                                  ELSE IF i \in T THEN "QUEUED" ELSE registry[i]]
    /\ \A i \in T : calls[i] < CallBudget
    /\ UNCHANGED <<phase, in_flight_tasks, in_flight, model_calls>>

\* The work of a queue or a worker stays the same but for the orphan mark.
LEMMA MarkedWork ==
    ASSUME NEW k \in Work, NEW current
    PROVE  /\ Marked(k, current) \in Work
           /\ Marked(k, current).id = k.id /\ Marked(k, current).generation = k.generation
           /\ Marked(k, current).orphan = (k.orphan \/ k.id \notin current)
BY DEF Marked, Work

\* A worker that is busy runs a work.
LEMMA BusyType == ASSUME TypeOK, NEW w \in BusyWorkers PROVE worker[w] \in Busy
BY DEF BusyWorkers, TypeOK, Idle, Gone

\* observe_tick has these effects.
LEMMA ObserveEffects ==
    ASSUME TypeOK, QuietWhenStopped, observe_tick
    PROVE  \E current, T : Observed(current, T)
<1>1. PICK current \in SUBSET Ids :
        \E requests \in Requests(current) :
            /\ \A j \in DOMAIN requests : budget_allows_call(requests[j][1], requests[j][2])
            /\ ObserveTick(current, requests)
  BY DEF observe_tick
<1>2. PICK requests \in Requests(current) :
            /\ \A j \in DOMAIN requests : budget_allows_call(requests[j][1], requests[j][2])
            /\ ObserveTick(current, requests)
  BY <1>1
<1>3. PICK m \in Nat : /\ requests \in [1..m -> current \X Priorities]
                       /\ \A a, b \in 1..m : a # b => requests[a][1] # requests[b][1]
  BY DEF Requests
<1>4. requests \in Seq(current \X Priorities) /\ Len(requests) = m
  BY <1>3
<1>5. Len(queue) \in Nat /\ Len(queue) <= QueueSize /\ QueueSize \in Nat /\ QueueRoom \in Nat
  BY CoordinatorAssumption DEF TypeOK, QueueRoom
<1> DEFINE n == IF Len(requests) <= QueueRoom THEN Len(requests) ELSE QueueRoom
           T == {requests[j][1] : j \in 1..n}
           submitted == [j \in 1..n |-> [id |-> requests[j][1],
                                         generation |-> generation[requests[j][1]] + 1,
                                         orphan |-> FALSE]]
           marked == [j \in DOMAIN queue |-> Marked(queue[j], current)]
           Row(i) == CHOOSE j \in 1..n : requests[j][1] = i
<1>6. n \in Nat /\ n <= m /\ n <= QueueRoom
  BY <1>3, <1>4, <1>5
<1>7. \A j \in 1..n : /\ j \in 1..m /\ requests[j] \in current \X Priorities
                      /\ requests[j][1] \in current /\ requests[j][2] \in Priorities
  BY <1>3, <1>6
<1>8. /\ active_ids' = current
      /\ departed' = departed \cup (active_ids \ current)
      /\ queue' = marked \o submitted
      /\ worker' = [w \in Workers |->
                        IF worker[w].state = "busy"
                        THEN [worker[w] EXCEPT !.work = Marked(@, current),
                                               !.cancelled = @ \/ Cancels(w, current)]
                        ELSE worker[w]]
      /\ generation' = [i \in Ids |->
                            IF Forgets(i, current) THEN 0
                            ELSE IF i \notin current \/ i \in T
                            THEN generation[i] + 1 ELSE generation[i]]
      /\ calls' = [i \in Ids |-> IF Forgets(i, current) THEN 0
                                 ELSE IF i \in T THEN calls[i] + 1 ELSE calls[i]]
      /\ last_priority' = [i \in Ids |-> IF Forgets(i, current) THEN 0
                                         ELSE IF i \in T THEN requests[Row(i)][2]
                                         ELSE last_priority[i]]
      /\ pending' = [i \in Ids |-> IF i \in T THEN pending[i] + 1 ELSE pending[i]]
      /\ registry' = [i \in Ids |-> IF i \notin current THEN "none"
                                    ELSE IF i \in T THEN "QUEUED" ELSE registry[i]]
      /\ UNCHANGED <<phase, in_flight_tasks, in_flight, model_calls>>
  BY <1>2 DEF ObserveTick, Marked
<1> HIDE DEF n
<1>9. T \subseteq current /\ phase \in {"stopped", "running"}
  BY <1>7, <1>1 DEF observe_tick
<1>10. T # {} => phase = "running"
  BY <1>6 DEF QueueRoom
<1>11. /\ submitted \in Seq(Work) /\ Len(submitted) = n
       /\ \A j \in 1..n : /\ submitted[j].id = requests[j][1] /\ ~submitted[j].orphan
                          /\ submitted[j].generation = generation[requests[j][1]] + 1
  <2>1. \A j \in 1..n : submitted[j] \in Work
    <3> SUFFICES ASSUME NEW j \in 1..n PROVE submitted[j] \in Work
      OBVIOUS
    <3>1. requests[j][1] \in Ids /\ generation[requests[j][1]] \in Nat
      BY <1>7 DEF TypeOK
    <3> QED BY <3>1 DEF Work
  <2> QED BY <1>6, <2>1
<1>12. /\ marked \in Seq(Work) /\ Len(marked) = Len(queue)
       /\ \A j \in 1..Len(queue) : marked[j] = Marked(queue[j], current) /\ marked[j].id = queue[j].id
  <2>1. queue \in Seq(Work) /\ DOMAIN queue = 1..Len(queue) /\ \A j \in DOMAIN queue : queue[j] \in Work
    BY DEF TypeOK
  <2> QED BY <2>1, <1>5, MarkedWork
<1> HIDE DEF marked, submitted
<1>13. /\ queue' \in Seq(Work) /\ Len(queue') = Len(queue) + n
       /\ DOMAIN queue = 1..Len(queue) /\ DOMAIN queue' = 1..(Len(queue) + n)
       /\ \A j \in 1..Len(queue) : queue'[j] = Marked(queue[j], current)
       /\ \A j \in 1..n : queue'[Len(queue) + j] = submitted[j]
       /\ \A j \in (Len(queue) + 1)..(Len(queue) + n) :
            j - Len(queue) \in 1..n /\ queue'[j] = submitted[j - Len(queue)]
  <2> DEFINE q == marked \o submitted
  <2>1. /\ q \in Seq(Work) /\ Len(q) = Len(queue) + n /\ DOMAIN q = 1..(Len(queue) + n)
        /\ \A j \in 1..Len(queue) : q[j] = marked[j]
        /\ \A j \in 1..n : q[Len(queue) + j] = submitted[j]
        /\ \A j \in (Len(queue) + 1)..(Len(queue) + n) :
                j - Len(queue) \in 1..n /\ q[j] = submitted[j - Len(queue)]
    <3>1. marked \in Seq(Work) /\ submitted \in Seq(Work) /\ Len(marked) = Len(queue) /\ Len(submitted) = n
      BY <1>11, <1>12
    <3>2. /\ q \in Seq(Work) /\ Len(q) = Len(marked) + Len(submitted)
          /\ DOMAIN q = 1..(Len(marked) + Len(submitted))
          /\ \A j \in 1..Len(marked) : q[j] = marked[j]
          /\ \A j \in 1..Len(submitted) : q[Len(marked) + j] = submitted[j]
          /\ \A j \in (Len(marked) + 1)..(Len(marked) + Len(submitted)) :
                j - Len(marked) \in 1..Len(submitted) /\ q[j] = submitted[j - Len(marked)]
      BY <3>1, ConcatParts, Zenon
    <3> QED BY <3>1, <3>2, Zenon
  <2>2. DOMAIN queue = 1..Len(queue)
    BY DEF TypeOK
  <2> HIDE DEF q
  <2>3. queue' = q
    BY <1>8 DEF q
  <2> QED BY <1>12, <2>1, <2>2, <2>3
<1>14. Len(queue') <= QueueSize
  BY <1>5, <1>6, <1>13, CoordinatorAssumption DEF QueueRoom
<1>15. \A j \in DOMAIN queue : j \in DOMAIN queue' /\ queue'[j] = Marked(queue[j], current)
  BY <1>5, <1>6, <1>13
<1>16. \A j \in DOMAIN queue' \ DOMAIN queue :
            /\ queue'[j].id \in T /\ ~queue'[j].orphan
            /\ queue'[j].generation = generation[queue'[j].id] + 1
  <2> SUFFICES ASSUME NEW j \in DOMAIN queue' \ DOMAIN queue
               PROVE  /\ queue'[j].id \in T /\ ~queue'[j].orphan
                      /\ queue'[j].generation = generation[queue'[j].id] + 1
    OBVIOUS
  <2>1. j - Len(queue) \in 1..n /\ queue'[j] = submitted[j - Len(queue)]
    BY <1>5, <1>6, <1>13
  <2> QED BY <2>1, <1>11
<1>17. \A i \in T : \E j \in DOMAIN queue' \ DOMAIN queue : queue'[j].id = i
  <2> SUFFICES ASSUME NEW a \in 1..n
               PROVE  /\ Len(queue) + a \in DOMAIN queue' \ DOMAIN queue
                      /\ queue'[Len(queue) + a].id = requests[a][1]
    OBVIOUS
  <2> QED BY <1>5, <1>6, <1>11, <1>13
<1>18. \A i : Cardinality(QueuedAt(queue', i)) =
                IF i \in T THEN Cardinality(QueuedAt(queue, i)) + 1
                ELSE Cardinality(QueuedAt(queue, i))
  <2> SUFFICES ASSUME NEW i PROVE Cardinality(QueuedAt(queue', i)) =
                IF i \in T THEN Cardinality(QueuedAt(queue, i)) + 1
                ELSE Cardinality(QueuedAt(queue, i))
    OBVIOUS
  <2>1. \A a, b \in 1..Len(submitted) : submitted[a].id = submitted[b].id => a = b
    BY <1>3, <1>7, <1>11
  <2>2. i \in T <=> \E j \in 1..Len(submitted) : submitted[j].id = i
    BY <1>11
  <2>3. queue \in Seq(Work) /\ \A j \in 1..Len(queue) : marked[j].id = queue[j].id
    BY <1>12 DEF TypeOK
  <2> HIDE DEF T
  <2>4. Cardinality(QueuedAt(marked \o submitted, i)) =
            IF \E j \in 1..Len(submitted) : submitted[j].id = i
            THEN Cardinality(QueuedAt(queue, i)) + 1 ELSE Cardinality(QueuedAt(queue, i))
    <3>1. /\ submitted \in Seq(Work) /\ marked \in Seq(Work) /\ Len(marked) = Len(queue)
          /\ queue \in Seq(Work) /\ \A j \in 1..Len(queue) : marked[j].id = queue[j].id
          /\ \A a, b \in 1..Len(submitted) : submitted[a].id = submitted[b].id => a = b
      BY <1>11, <1>12, <2>1, <2>3
    <3> QED BY <3>1, SubmitCount, SMTT(30)
  <2> QED BY <1>8, <2>2, <2>4
<1>19. \A w \in BusyWorkers :
            /\ worker'[w].state = "busy" /\ worker'[w] \in Busy
            /\ worker'[w].work = Marked(worker[w].work, current)
            /\ worker'[w].cancelled = (worker[w].cancelled \/ Cancels(w, current))
  <2> SUFFICES ASSUME NEW w \in BusyWorkers
               PROVE  /\ worker'[w].state = "busy" /\ worker'[w] \in Busy
                      /\ worker'[w].work = Marked(worker[w].work, current)
                      /\ worker'[w].cancelled = (worker[w].cancelled \/ Cancels(w, current))
    OBVIOUS
  <2>1. worker[w] \in Busy
    BY BusyType
  <2>2. worker'[w] = [worker[w] EXCEPT !.work = Marked(worker[w].work, current),
                                       !.cancelled = worker[w].cancelled \/ Cancels(w, current)]
    BY <1>8 DEF BusyWorkers
  <2>3. Marked(worker[w].work, current) \in Work
    BY <2>1, MarkedWork DEF Busy
  <2> QED BY <2>1, <2>2, <2>3 DEF Busy, Cancels
<1>20. \A w \in Workers : worker[w].state # "busy" => worker'[w] = worker[w]
  BY <1>8
<1>21. worker' \in [Workers -> {Idle, Gone} \cup Busy]
  <2>1. \A w \in Workers : worker'[w] \in {Idle, Gone} \cup Busy
    BY <1>19, <1>20 DEF BusyWorkers, TypeOK
  <2> QED BY <1>8, <2>1
<1>22. /\ last_priority' \in [Ids -> {0} \cup Priorities]
       /\ \A i \in Ids : Forgets(i, current) => last_priority'[i] = 0
  <2>1. \A i \in T : requests[Row(i)][2] \in Priorities
    BY <1>7
  <2> HIDE DEF Row, T
  <2> QED BY <1>8, <2>1 DEF TypeOK
<1>23. \A i \in T : calls[i] < CallBudget
  <2> SUFFICES ASSUME NEW j \in 1..n PROVE calls[requests[j][1]] < CallBudget
    OBVIOUS
  <2>1. budget_allows_call(requests[j][1], requests[j][2]) /\ calls[requests[j][1]] \in Nat
    BY <1>2, <1>3, <1>7 DEF TypeOK
  <2> QED BY <2>1, CoordinatorAssumption DEF budget_allows_call, CallBudget
<1> HIDE DEF T
<1>24. Observed(current, T)
  BY <1>8, <1>9, <1>10, <1>13, <1>14, <1>15, <1>16, <1>17, <1>18, <1>19, <1>20, <1>21, <1>22, <1>23
     DEF Observed
<1> QED BY <1>24

\* The counts of the module in terms of the sets counted.
LEMMA Counts ==
    /\ \A i : Queued(i) = Cardinality(QueuedAt(queue, i)) /\ Running(i) = Cardinality(RunningOn(worker, i))
    /\ \A i : Queued(i)' = Cardinality(QueuedAt(queue', i)) /\ Running(i)' = Cardinality(RunningOn(worker', i))
    /\ BusyWorkers = BusyIn(worker) /\ BusyWorkers' = BusyIn(worker')
BY DEF Queued, Running, QueuedAt, RunningOn, BusyIn, BusyWorkers

\* Observe keeps the invariant, whatever it retires, routes and enqueues.
LEMMA ObserveKeeps ==
    ASSUME CoordinatorInv, NEW current, NEW T, Observed(current, T)
    PROVE  CoordinatorInv'
<1>1. TypeOK /\ OutstandingAccounted /\ queue \in Seq(Work) /\ DOMAIN queue = 1..Len(queue)
  BY DEF CoordinatorInv, TypeOK
<1>2. /\ current \subseteq Ids /\ T \subseteq current /\ active_ids' = current
      /\ phase' = phase /\ in_flight_tasks' = in_flight_tasks /\ in_flight' = in_flight
      /\ model_calls' = model_calls /\ phase \in {"stopped", "running"}
  BY DEF Observed
<1>3. /\ \A j \in DOMAIN queue : queue[j] \in Work
      /\ \A j \in DOMAIN queue : /\ j \in DOMAIN queue'
                                 /\ queue'[j].id = queue[j].id /\ queue'[j].generation = queue[j].generation
                                 /\ queue'[j].orphan = (queue[j].orphan \/ queue[j].id \notin current)
  BY <1>1, MarkedWork DEF Observed
<1>4. /\ BusyWorkers' = BusyWorkers
      /\ \A w \in BusyWorkers :
            /\ worker[w].work \in Work
            /\ worker'[w].work.id = worker[w].work.id
            /\ worker'[w].work.generation = worker[w].work.generation
            /\ worker'[w].work.orphan = (worker[w].work.orphan \/ worker[w].work.id \notin current)
            /\ worker'[w].cancelled = (worker[w].cancelled \/ Cancels(w, current))
  <2>1. BusyWorkers' = BusyWorkers
    BY DEF Observed, BusyWorkers
  <2>2. \A w \in BusyWorkers : worker[w].work \in Work
    BY <1>1, BusyType DEF Busy
  <2> QED BY <2>1, <2>2, MarkedWork DEF Observed
<1>5. \A i \in Ids : RunningOn(worker', i) = RunningOn(worker, i)
  BY <1>4, Counts DEF RunningOn
<1>6. \A i \in Ids : /\ i \in T => ~Forgets(i, current)
                     /\ Forgets(i, current) <=> i \notin current /\ pending[i] = 0
  BY <1>2 DEF Forgets
<1>7. \A i \in Ids : /\ generation[i] \in Nat /\ calls[i] \in Nat /\ pending[i] \in Nat
                     /\ model_calls[i] \in Nat
  BY <1>1 DEF TypeOK
<1>8. \A i \in Ids :
        /\ generation'[i] = IF Forgets(i, current) THEN 0 ELSE IF i \notin current \/ i \in T
                            THEN generation[i] + 1 ELSE generation[i]
        /\ calls'[i] = IF Forgets(i, current) THEN 0 ELSE IF i \in T THEN calls[i] + 1 ELSE calls[i]
        /\ pending'[i] = IF i \in T THEN pending[i] + 1 ELSE pending[i]
        /\ registry'[i] = IF i \notin current THEN "none" ELSE IF i \in T THEN "QUEUED" ELSE registry[i]
  BY DEF Observed
<1>9. TypeOK'
  <2>1. generation' \in [Ids -> Nat] /\ calls' \in [Ids -> Nat] /\ pending' \in [Ids -> Nat]
    BY <1>7 DEF Observed
  <2>2. registry' \in [Ids -> Status] /\ departed' \subseteq Ids
    BY <1>1 DEF Observed, TypeOK, Status
  <2> QED BY <1>1, <1>2, <2>1, <2>2 DEF Observed, TypeOK
<1>10. QuietWhenStopped'
  <2> SUFFICES ASSUME phase = "stopped"
               PROVE  /\ queue' = <<>> /\ \A w \in Workers : worker'[w].state = "gone"
                      /\ \A i \in Ids : registry'[i] = "none"
    BY <1>2 DEF QuietWhenStopped
  <2>1. T = {} /\ queue = <<>> /\ \A w \in Workers : worker[w].state = "gone"
    BY DEF Observed, CoordinatorInv, QuietWhenStopped
  <2>2. queue' = <<>>
    <3>1. DOMAIN queue' = {}
      <4>1. DOMAIN queue = {} /\ \A j \in DOMAIN queue' \ DOMAIN queue : queue'[j].id \in {}
        BY <2>1 DEF Observed
      <4> QED BY <4>1
    <3> QED BY <3>1 DEF Observed
  <2>3. \A w \in Workers : worker'[w].state = "gone"
    BY <2>1 DEF Observed
  <2> QED BY <2>1, <2>2, <2>3, <1>8 DEF CoordinatorInv, QuietWhenStopped
<1>11. OutstandingAccounted'
  <2>1. in_flight' = Cardinality(BusyWorkers')
    BY <1>1, <1>2, <1>4 DEF OutstandingAccounted
  <2>2. ASSUME NEW i \in Ids PROVE pending'[i] = Queued(i)' + Running(i)'
    <3>1. pending[i] = Cardinality(QueuedAt(queue, i)) + Cardinality(RunningOn(worker, i))
      BY <1>1, Counts DEF OutstandingAccounted
    <3>2. Cardinality(QueuedAt(queue, i)) \in Nat /\ Cardinality(RunningOn(worker, i)) \in Nat
      BY <1>1, CountsAreFinite
    <3>3. /\ Queued(i)' = IF i \in T THEN Cardinality(QueuedAt(queue, i)) + 1
                          ELSE Cardinality(QueuedAt(queue, i))
          /\ Running(i)' = Cardinality(RunningOn(worker, i))
      BY <1>5, Counts DEF Observed
    <3> QED BY <1>8, <3>1, <3>2, <3>3
  <2> QED BY <2>1, <2>2 DEF OutstandingAccounted
<1>12. RetiredIdsForgotten'
  <2> SUFFICES ASSUME NEW i \in Ids, i \notin current, pending'[i] = 0
               PROVE  calls'[i] = 0 /\ generation'[i] = 0 /\ last_priority'[i] = 0
    BY <1>2 DEF RetiredIdsForgotten
  <2>1. Forgets(i, current)
    BY <1>2, <1>6, <1>8
  <2> QED BY <2>1, <1>8 DEF Observed
<1>13. \A i \in Ids : /\ generation'[i] >= IF pending[i] > 0 THEN generation[i] ELSE 0
                      /\ i \notin current /\ pending[i] > 0 => generation'[i] = generation[i] + 1
                      /\ i \in current \ T => generation'[i] = generation[i]
                      /\ i \in T => generation'[i] = generation[i] + 1
  BY <1>2, <1>6, <1>7, <1>8
<1>14. GenerationsAhead'
  <2>1. ASSUME NEW k \in Work, NEW m, k.generation <= generation[k.id],
               k.orphan => k.generation < generation[k.id], pending[k.id] > 0,
               m.id = k.id, m.generation = k.generation, m.orphan = (k.orphan \/ k.id \notin current)
        PROVE  m.generation <= generation'[m.id] /\ (m.orphan => m.generation < generation'[m.id])
    <3>1. k.id \in Ids /\ k.generation \in Nat
      BY DEF Work
    <3>2. generation[k.id] \in Nat /\ generation'[k.id] \in Nat
      BY <3>1, <1>7, <1>9 DEF TypeOK
    <3>3. CASE k.id \in current
      <4>1. generation[k.id] <= generation'[k.id]
        BY <2>1, <3>1, <3>2, <1>13
      <4>2. m.orphan => k.orphan
        BY <2>1, <3>3, Zenon
      <4> QED BY <2>1, <3>1, <3>2, <4>1, <4>2
    <3>4. CASE k.id \notin current
      <4>1. generation'[k.id] = generation[k.id] + 1
        BY <2>1, <3>1, <3>4, <1>13
      <4> QED BY <2>1, <3>1, <3>2, <4>1
    <3> QED BY <3>3, <3>4
  <2>2. ASSUME NEW j \in DOMAIN queue'
        PROVE  /\ queue'[j].generation <= generation'[queue'[j].id]
               /\ queue'[j].orphan => queue'[j].generation < generation'[queue'[j].id]
    <3>1. CASE j \in DOMAIN queue
      <4>1. pending[queue[j].id] > 0 /\ Behind(queue[j])
        BY <1>1, <3>1, OutstandingPends DEF AllPending, CoordinatorInv, GenerationsAhead
      <4> QED BY <1>3, <2>1, <3>1, <4>1 DEF Behind
    <3>2. CASE j \notin DOMAIN queue
      <4>1. queue'[j].id \in T /\ ~queue'[j].orphan /\ queue'[j].generation = generation[queue'[j].id] + 1
        BY <3>2 DEF Observed
      <4> QED BY <1>2, <1>7, <1>13, <4>1
    <3> QED BY <3>1, <3>2
  <2>3. ASSUME NEW w \in BusyWorkers
        PROVE  /\ worker'[w].work.generation <= generation'[worker'[w].work.id]
               /\ worker'[w].work.orphan => worker'[w].work.generation < generation'[worker'[w].work.id]
    <3>1. pending[worker[w].work.id] > 0 /\ Behind(worker[w].work)
      BY <1>1, OutstandingPends DEF AllPending, CoordinatorInv, GenerationsAhead
    <3> QED BY <1>4, <2>1, <3>1 DEF Behind
  <2> QED BY <1>4, <2>2, <2>3 DEF GenerationsAhead, Behind
<1>15. CancelledAreOrphans'
  <2> SUFFICES ASSUME phase = "running", NEW w \in BusyWorkers, worker'[w].cancelled
               PROVE  worker'[w].work.orphan
    BY <1>2, <1>4 DEF CancelledAreOrphans
  <2> QED BY <1>4 DEF Cancels, CoordinatorInv, CancelledAreOrphans
<1>16. StatusHonest'
  <2>1. \A i \in Ids : registry'[i] # "none" => i \in active_ids'
    BY <1>2, <1>8
  <2>2. ASSUME phase = "running", NEW i \in Ids, registry'[i] = "QUEUED"
        PROVE  \E j \in DOMAIN queue' : queue'[j].id = i /\ i \in current
                                        /\ queue'[j].generation = generation'[i]
    <3>1. i \in current
      BY <1>8, <2>2
    <3>2. CASE i \in T
      BY <1>13, <3>1, <3>2 DEF Observed
    <3>3. CASE i \notin T
      <4>1. registry[i] = "QUEUED"
        BY <1>8, <2>2, <3>1, <3>3
      <4>2. PICK k \in Range(queue) : k.id = i /\ k.generation = generation[i]
        BY <2>2, <4>1 DEF CoordinatorInv, StatusHonest, work_is_live
      <4>3. PICK j \in DOMAIN queue : queue[j] = k
        BY <4>2 DEF Range
      <4> QED BY <1>3, <1>13, <3>1, <3>3, <4>2, <4>3
    <3> QED BY <3>2, <3>3
  <2>3. ASSUME phase = "running", NEW i \in Ids, registry'[i] = "RUNNING"
        PROVE  \E w \in BusyWorkers : worker'[w].work.id = i /\ i \in current
                                      /\ worker'[w].work.generation = generation'[i]
    <3>1. i \in current /\ i \notin T /\ registry[i] = "RUNNING"
      BY <1>8, <2>3
    <3>2. PICK k \in InWorkers : k.id = i /\ k.generation = generation[i]
      BY <2>3, <3>1 DEF CoordinatorInv, StatusHonest, work_is_live
    <3>3. PICK w \in BusyWorkers : worker[w].work = k
      BY <3>2 DEF InWorkers
    <3> QED BY <1>4, <1>13, <3>1, <3>2, <3>3
  <2> QED BY <1>2, <1>4, <2>1, <2>2, <2>3 DEF StatusHonest, work_is_live, Range, InWorkers
<1>17. BudgetKept'
  <2> SUFFICES ASSUME NEW i \in Ids
               PROVE  /\ pending'[i] <= calls'[i] /\ calls'[i] <= CallBudget
                      /\ i \notin departed' => /\ model_calls[i] + Queued(i)' <= calls'[i]
                                               /\ i \notin current => calls'[i] = 0
    BY <1>2 DEF BudgetKept
  <2>1. /\ pending[i] <= calls[i] /\ calls[i] <= CallBudget /\ CallBudget \in Nat
        /\ i \notin departed => /\ model_calls[i] + Queued(i) <= calls[i]
                                /\ i \notin active_ids => calls[i] = 0
    BY CoordinatorAssumption DEF CoordinatorInv, BudgetKept, CallBudget
  <2>2. pending'[i] <= calls'[i] /\ calls'[i] <= CallBudget
    BY <1>2, <1>6, <1>7, <1>8, <2>1 DEF Observed, CallBudget
  <2>3. Queued(i) \in Nat /\ Queued(i)' = IF i \in T THEN Queued(i) + 1 ELSE Queued(i)
    BY <1>1, Counts, CountsAreFinite DEF Observed
  <2>4. ASSUME i \notin departed' PROVE i \notin departed /\ (i \notin active_ids \/ i \in current)
    BY <2>4 DEF Observed
  <2>5. ASSUME i \notin departed', i \notin current PROVE calls'[i] = 0 /\ calls[i] = 0 /\ i \notin T
    BY <1>2, <1>6, <1>7, <1>8, <2>1, <2>4, <2>5
  <2>6. ASSUME i \notin departed' PROVE model_calls[i] + Queued(i)' <= calls'[i]
    <3>1. model_calls[i] + Queued(i) <= calls[i]
      BY <2>1, <2>4, <2>6
    <3>2. CASE i \notin current
      BY <1>7, <2>3, <2>5, <2>6, <3>1, <3>2
    <3>3. CASE i \in current
      BY <1>6, <1>7, <1>8, <2>3, <3>1, <3>3
    <3> QED BY <3>2, <3>3
  <2> QED BY <2>2, <2>5, <2>6
<1>18. RegisteredRun'
  BY <1>2, <1>4 DEF CoordinatorInv, RegisteredRun
<1>19. \A i \in Ids : HasCall(i) => pending[i] > 0
  BY <1>1, OutstandingPends DEF AllPending, HasCall
<1>20. \A i \in Ids : HasCall(i)' <=> HasCall(i)
  BY <1>4 DEF HasCall
<1>21. \A i \in Ids : pending[i] > 0 /\ pending[i] < calls[i] => pending'[i] < calls'[i]
  BY <1>6, <1>7, <1>8
<1>22. UnregisteredSpent'
  BY <1>2, <1>19, <1>20, <1>21 DEF CoordinatorInv, UnregisteredSpent
<1>23. RetiredSpent'
  <2> SUFFICES ASSUME NEW i \in Ids, i \notin current, HasCall(i)
               PROVE  HasCancelledCall(i)' \/ pending'[i] < calls'[i]
    BY <1>2, <1>20 DEF RetiredSpent
  <2>1. CASE in_flight_tasks[i] = NoWorker
    BY <1>19, <1>21, <2>1 DEF CoordinatorInv, UnregisteredSpent
  <2>2. CASE in_flight_tasks[i] # NoWorker
    <3>1. in_flight_tasks[i] \in BusyWorkers /\ worker[in_flight_tasks[i]].work.id = i
      BY <2>2 DEF CoordinatorInv, RegisteredRun
    <3>2. Cancels(in_flight_tasks[i], current)
      BY <3>1 DEF Cancels
    <3> QED BY <1>4, <3>1, <3>2 DEF HasCancelledCall
  <2> QED BY <2>1, <2>2
<1> QED BY <1>9, <1>10, <1>11, <1>12, <1>14, <1>15, <1>16, <1>17, <1>18, <1>22, <1>23 DEF CoordinatorInv

-----------------------------------------------------------------------------
(* Work ends *)

\* What release_pending does for an id i with outstanding work.
Released(i) ==
    /\ pending' \in [Ids -> Nat] /\ calls' \in [Ids -> Nat] /\ generation' \in [Ids -> Nat]
    /\ last_priority' \in [Ids -> {0} \cup Priorities]
    /\ \A j \in Ids \ {i} : /\ pending'[j] = pending[j] /\ calls'[j] = calls[j]
                            /\ generation'[j] = generation[j] /\ last_priority'[j] = last_priority[j]
    /\ pending'[i] = pending[i] - 1
    /\ IF i \notin active_ids /\ pending[i] = 1
       THEN calls'[i] = 0 /\ generation'[i] = 0 /\ last_priority'[i] = 0
       ELSE calls'[i] = calls[i] /\ generation'[i] = generation[i] /\ last_priority'[i] = last_priority[i]

\* What _release_pending does to an id that has work pending.
LEMMA ReleaseEffects ==
    ASSUME TypeOK, NEW i \in Ids, pending[i] > 0, release_pending(i)
    PROVE  Released(i)
<1>1. pending[i] \in Nat
  BY DEF TypeOK
<1>2. CASE i \notin active_ids /\ pending[i] = 1
  BY <1>1, <1>2 DEF TypeOK, release_pending, Released
<1>3. CASE ~(i \notin active_ids /\ pending[i] = 1)
  BY <1>1, <1>3 DEF TypeOK, release_pending, Released
<1> QED BY <1>2, <1>3

\* The parts of the invariant that depend on the book alone.
LEMMA ReleaseKeeps ==
    ASSUME CoordinatorInv, TypeOK', NEW i \in Ids, pending[i] > 0, Released(i),
           active_ids' = active_ids, departed' = departed,
           \A j \in Ids : model_calls'[j] + Queued(j)' <= model_calls[j] + Queued(j)
    PROVE  RetiredIdsForgotten' /\ BudgetKept'
<1>1. \A j \in Ids : pending[j] \in Nat /\ calls[j] \in Nat
  BY DEF CoordinatorInv, TypeOK
<1>2. RetiredIdsForgotten'
  <2> SUFFICES ASSUME NEW j \in Ids, j \notin active_ids, pending'[j] = 0
               PROVE  calls'[j] = 0 /\ generation'[j] = 0 /\ last_priority'[j] = 0
    BY DEF RetiredIdsForgotten
  <2>1. CASE j = i
    BY <1>1, <2>1 DEF Released
  <2>2. CASE j # i
    BY <2>2 DEF Released, CoordinatorInv, RetiredIdsForgotten
  <2> QED BY <2>1, <2>2
<1>3. CallBudget \in Nat
  BY CoordinatorAssumption DEF CallBudget
<1>4. BudgetKept'
  <2> SUFFICES ASSUME NEW j \in Ids
               PROVE  /\ pending'[j] <= calls'[j] /\ calls'[j] <= CallBudget
                      /\ j \notin departed => /\ model_calls'[j] + Queued(j)' <= calls'[j]
                                              /\ j \notin active_ids => calls'[j] = 0
    BY DEF BudgetKept, CallBudget
  <2>1. /\ pending[j] <= calls[j] /\ calls[j] <= CallBudget
        /\ j \notin departed => /\ model_calls[j] + Queued(j) <= calls[j]
                                /\ j \notin active_ids => calls[j] = 0
    BY DEF CoordinatorInv, BudgetKept
  <2>2. pending'[j] <= calls'[j] /\ calls'[j] <= CallBudget
    BY <1>1, <1>3, <2>1 DEF Released
  <2>3. j \notin departed /\ j \notin active_ids => j # i
    BY <1>1, <2>1
  <2>4. j \notin departed => calls'[j] = calls[j]
    BY <2>3 DEF Released
  <2>5. /\ model_calls'[j] + Queued(j)' <= model_calls[j] + Queued(j)
        /\ Queued(j) \in Nat /\ Queued(j)' \in Nat /\ model_calls[j] \in Nat /\ model_calls'[j] \in Nat
    BY Counts, CountsAreFinite DEF CoordinatorInv, TypeOK
  <2> QED BY <1>1, <2>1, <2>2, <2>3, <2>4, <2>5
<1> QED BY <1>2, <1>4

\* A worker takes the next work.
Took(w) ==
    /\ worker[w].state = "idle" /\ queue # <<>> /\ phase = "running"
    /\ queue' = Tail(queue)

\* The queue without its head.
LEMMA TookEffects ==
    ASSUME TypeOK, OutstandingAccounted, NEW w \in Workers, Took(w)
    PROVE  /\ Head(queue) \in Work /\ Head(queue).id \in Ids /\ pending[Head(queue).id] > 0
           /\ queue' \in Seq(Work) /\ Len(queue') <= QueueSize
           /\ \A j \in DOMAIN queue' : \E h \in DOMAIN queue : queue'[j] = queue[h]
           /\ \A h \in DOMAIN queue : queue[h] = Head(queue) \/ \E j \in DOMAIN queue' : queue'[j] = queue[h]
           /\ \A i : Queued(i)' = IF Head(queue).id = i THEN Queued(i) - 1 ELSE Queued(i)
           /\ \A i : Queued(i) \in Nat /\ Running(i) \in Nat
<1>1. queue \in Seq(Work) /\ queue # <<>> /\ Len(queue) <= QueueSize /\ queue' = Tail(queue)
  BY DEF TypeOK, Took
<1>2. /\ Head(queue) = queue[1] /\ Head(queue) \in Work /\ 1 \in DOMAIN queue
      /\ queue' \in Seq(Work) /\ Len(queue') = Len(queue) - 1 /\ Len(queue) \in Nat
      /\ DOMAIN queue = 1..Len(queue) /\ DOMAIN queue' = 1..(Len(queue) - 1)
      /\ \A j \in 1..(Len(queue) - 1) : queue'[j] = queue[j + 1]
  BY <1>1
<1>3. \A j \in DOMAIN queue' : j + 1 \in DOMAIN queue /\ queue'[j] = queue[j + 1]
  BY <1>2
<1>4. \A h \in DOMAIN queue : h = 1 \/ (h - 1 \in DOMAIN queue' /\ queue'[h - 1] = queue[h])
  BY <1>2
<1>5. Len(queue') <= QueueSize
  BY <1>1, <1>2, CoordinatorAssumption
<1>6. Head(queue).id \in Ids /\ pending[Head(queue).id] > 0
  BY <1>2, OutstandingPends DEF AllPending, Work
<1>7. \A i : Queued(i)' = IF Head(queue).id = i THEN Queued(i) - 1 ELSE Queued(i)
  BY <1>1, Counts, TailCount
<1>8. \A i : Queued(i) \in Nat /\ Running(i) \in Nat
  BY <1>1, Counts, CountsAreFinite
<1> QED BY <1>2, <1>3, <1>4, <1>5, <1>6, <1>7, <1>8

\* A worker that drops stale work keeps the invariant.
LEMMA DiscardKeeps ==
    ASSUME CoordinatorInv, NEW w \in Workers, DiscardStale(w)
    PROVE  CoordinatorInv'
<1> DEFINE i == Head(queue).id
<1>1. /\ ~work_is_live(Head(queue)) /\ release_pending(i) /\ phase = "running" /\ Took(w)
      /\ UNCHANGED <<phase, worker, active_ids, in_flight_tasks, in_flight, registry, model_calls, departed>>
  BY DEF DiscardStale, Took
<1>2. TypeOK /\ OutstandingAccounted
  BY DEF CoordinatorInv
<1>3. /\ i \in Ids /\ pending[i] > 0 /\ queue' \in Seq(Work) /\ Len(queue') <= QueueSize
      /\ \A j \in DOMAIN queue' : \E h \in DOMAIN queue : queue'[j] = queue[h]
      /\ \A h \in DOMAIN queue : queue[h] = Head(queue) \/ \E j \in DOMAIN queue' : queue'[j] = queue[h]
      /\ \A j : Queued(j)' = IF i = j THEN Queued(j) - 1 ELSE Queued(j)
      /\ \A j : Queued(j) \in Nat /\ Running(j) \in Nat
  BY <1>1, <1>2, TookEffects
<1> HIDE DEF i
<1>4. Released(i)
  BY <1>1, <1>2, <1>3, ReleaseEffects
<1>5. TypeOK'
  BY <1>1, <1>2, <1>3, <1>4 DEF TypeOK, Released
<1>6. BusyWorkers' = BusyWorkers /\ \A j : Running(j)' = Running(j)
  BY <1>1 DEF BusyWorkers, Running
<1>7. OutstandingAccounted'
  <2>1. ASSUME NEW j \in Ids PROVE pending'[j] = Queued(j)' + Running(j)'
    <3>1. pending[j] = Queued(j) + Running(j) /\ Queued(j) \in Nat /\ Running(j) \in Nat
      BY <1>2, <1>3 DEF OutstandingAccounted
    <3>2. Queued(j)' = (IF i = j THEN Queued(j) - 1 ELSE Queued(j)) /\ Running(j)' = Running(j)
      BY <1>3, <1>6
    <3>3. pending'[j] = IF i = j THEN pending[j] - 1 ELSE pending[j]
      BY <1>4 DEF Released
    <3> HIDE DEF Queued, Running
    <3> QED BY <3>1, <3>2, <3>3
  <2>2. in_flight' = Cardinality(BusyWorkers')
    BY <1>1, <1>2, <1>6 DEF OutstandingAccounted
  <2> QED BY <2>1, <2>2 DEF OutstandingAccounted
<1>8. RetiredIdsForgotten' /\ BudgetKept'
  <2>1. \A j \in Ids : model_calls'[j] + Queued(j)' <= model_calls[j] + Queued(j)
    <3> SUFFICES ASSUME NEW j \in Ids
                 PROVE  model_calls'[j] + Queued(j)' <= model_calls[j] + Queued(j)
      OBVIOUS
    <3>1. model_calls'[j] = model_calls[j] /\ model_calls[j] \in Nat /\ Queued(j) \in Nat
      BY <1>1, <1>2, <1>3 DEF TypeOK
    <3>2. Queued(j)' = IF i = j THEN Queued(j) - 1 ELSE Queued(j)
      BY <1>3
    <3> QED BY <3>1, <3>2
  <2> QED BY <1>1, <1>3, <1>4, <1>5, <2>1, ReleaseKeeps
<1>9. QuietWhenStopped'
  BY <1>1 DEF QuietWhenStopped
<1>10. \A j \in Ids : pending'[j] > 0 => generation'[j] = generation[j] /\ calls'[j] = calls[j]
  BY <1>2, <1>4, SMTT(30) DEF Released, TypeOK
<1>11. /\ \A j \in DOMAIN queue' : pending'[queue'[j].id] > 0 /\ queue'[j].id \in Ids
       /\ \A v \in BusyWorkers : pending'[worker[v].work.id] > 0 /\ worker[v].work.id \in Ids
  BY <1>1, <1>5, <1>6, <1>7, OutstandingPendsNext DEF AllPending
<1>12. GenerationsAhead'
  BY <1>1, <1>3, <1>6, <1>10, <1>11 DEF CoordinatorInv, GenerationsAhead, Behind
<1>13. CancelledAreOrphans' /\ RegisteredRun'
  BY <1>1, <1>6 DEF CoordinatorInv, CancelledAreOrphans, RegisteredRun
<1>14. StatusHonest'
  <2>1. \A j \in active_ids : generation'[j] = generation[j]
    BY <1>2, <1>4 DEF Released, TypeOK
  <2>2. \A j \in Ids : registry[j] # "none" => j \in active_ids
    BY DEF CoordinatorInv, StatusHonest
  <2>3. ASSUME NEW j \in Ids, registry[j] = "QUEUED"
        PROVE  \E k \in Range(queue') : k.id = j /\ k.generation = generation'[j]
    <3>1. PICK k \in Range(queue) : k.id = j /\ work_is_live(k)
      BY <1>1, <2>3 DEF CoordinatorInv, StatusHonest
    <3>2. k \in Range(queue')
      BY <1>1, <1>3, <3>1 DEF Range
    <3> QED BY <2>1, <3>1, <3>2 DEF work_is_live
  <2>4. ASSUME NEW j \in Ids, registry[j] = "RUNNING"
        PROVE  \E k \in InWorkers : k.id = j /\ k.generation = generation'[j]
    <3>1. PICK k \in InWorkers : k.id = j /\ work_is_live(k)
      BY <1>1, <2>4 DEF CoordinatorInv, StatusHonest
    <3> QED BY <2>1, <3>1 DEF work_is_live
  <2>5. InWorkers' = InWorkers
    BY <1>1, <1>6 DEF InWorkers
  <2> QED BY <1>1, <2>2, <2>3, <2>4, <2>5 DEF StatusHonest, work_is_live
<1>15. /\ \A j \in Ids : HasCall(j)' => HasCall(j) /\ pending'[j] > 0
       /\ \A j \in Ids : HasCancelledCall(j)' <=> HasCancelledCall(j)
  BY <1>1, <1>6, <1>11 DEF HasCall, HasCancelledCall
<1>16. \A j \in Ids : pending'[j] > 0 /\ pending[j] < calls[j] => pending'[j] < calls'[j]
  <2>1. \A j \in Ids : pending[j] \in Nat /\ calls[j] \in Nat /\ (pending'[j] = pending[j] \/ pending'[j] = pending[j] - 1)
    BY <1>2, <1>4 DEF Released, TypeOK
  <2> QED BY <1>10, <2>1
<1>17. UnregisteredSpent' /\ RetiredSpent'
  BY <1>1, <1>15, <1>16 DEF CoordinatorInv, UnregisteredSpent, RetiredSpent
<1> QED BY <1>5, <1>7, <1>8, <1>9, <1>12, <1>13, <1>14, <1>17 DEF CoordinatorInv

\* A call ends and the registry shows an answer for its id, or stays as it is; it does not
\* go on announcing an answer of live work that has ended.
LEMMA FinishKeeps ==
    ASSUME CoordinatorInv, NEW w \in BusyWorkers, NEW next \in {Idle, Gone}, Finish(w, next),
           phase \in {"running", "closing"}, registry' \in [Ids -> Status],
           \A j \in Ids : \/ registry'[j] = registry[j]
                          \/ registry'[j] \in {"ENRICHED", "FALLBACK"} /\ j \in active_ids,
           phase = "running" /\ registry'[worker[w].work.id] = "RUNNING" => ~work_is_live(worker[w].work)
    PROVE  CoordinatorInv'
<1> DEFINE i == worker[w].work.id
<1>1. /\ worker' = [worker EXCEPT ![w] = next]
      /\ in_flight_tasks' = [in_flight_tasks EXCEPT ![i] = NoWorker]
      /\ in_flight' = IF in_flight > 0 THEN in_flight - 1 ELSE 0
      /\ release_pending(i)
      /\ UNCHANGED <<phase, queue, active_ids, model_calls, departed>>
  BY DEF Finish
<1>2. TypeOK /\ OutstandingAccounted /\ w \in Workers /\ AllPending
  BY OutstandingPends DEF CoordinatorInv, BusyWorkers
<1>3. i \in Ids /\ pending[i] > 0 /\ worker[w].state = "busy"
  BY <1>2 DEF AllPending, BusyWorkers
<1> HIDE DEF i
<1>4. Released(i)
  BY <1>1, <1>2, <1>3, ReleaseEffects
<1>5. /\ worker'[w] = next /\ worker'[w].state # "busy" /\ \A v \in Workers \ {w} : worker'[v] = worker[v]
      /\ BusyWorkers' = BusyWorkers \ {w}
  <2>1. worker'[w] = next /\ worker'[w].state # "busy" /\ \A v \in Workers \ {w} : worker'[v] = worker[v]
    BY <1>1, <1>2 DEF TypeOK, Idle, Gone
  <2> QED BY <2>1 DEF BusyWorkers
<1>6. /\ Cardinality(BusyWorkers) = Cardinality(BusyWorkers') + 1
      /\ \A j : Running(j) = Running(j)' + (IF j = i THEN 1 ELSE 0)
  <2>1. \A v \in Workers \ {w} : worker'[v] = worker[v]
    BY <1>5
  <2>2. /\ Cardinality(BusyIn(worker)) = Cardinality(BusyIn(worker')) + 1
        /\ \A j : Cardinality(RunningOn(worker, j)) = Cardinality(RunningOn(worker', j))
                                                        + (IF j = i THEN 1 ELSE 0)
    BY <1>2, <1>3, <1>5, <2>1, BusyCount DEF i
  <2> QED BY <2>2, Counts
<1>7. /\ \A j : Queued(j)' = Queued(j) /\ Queued(j) \in Nat /\ Running(j)' \in Nat
      /\ Cardinality(BusyWorkers') \in Nat
  <2>1. queue \in Seq(Work) /\ queue' = queue
    BY <1>1, <1>2 DEF TypeOK
  <2> QED BY <2>1, Counts, CountsAreFinite
<1>8. TypeOK'
  <2>1. worker' \in [Workers -> {Idle, Gone} \cup Busy]
    BY <1>1, <1>2 DEF TypeOK
  <2>2. in_flight_tasks' \in [Ids -> Workers \cup {NoWorker}]
    BY <1>1, <1>2 DEF TypeOK
  <2>3. in_flight' \in Nat
    BY <1>1, <1>2 DEF TypeOK
  <2> QED BY <1>1, <1>2, <1>4, <2>1, <2>2, <2>3 DEF TypeOK, Released
<1>9. OutstandingAccounted'
  <2>1. ASSUME NEW j \in Ids PROVE pending'[j] = Queued(j)' + Running(j)'
    <3>1. pending[j] = Queued(j) + Running(j)
      BY <1>2 DEF OutstandingAccounted
    <3>2. pending'[j] = IF j = i THEN pending[j] - 1 ELSE pending[j]
      BY <1>4 DEF Released
    <3>3. Queued(j)' = Queued(j) /\ Queued(j) \in Nat /\ Running(j)' \in Nat
      BY <1>7
    <3>4. Running(j) = Running(j)' + (IF j = i THEN 1 ELSE 0)
      BY <1>6
    <3> QED BY <3>1, <3>2, <3>3, <3>4
  <2>2. in_flight = Cardinality(BusyWorkers)
    BY <1>2 DEF OutstandingAccounted
  <2>3. in_flight' = Cardinality(BusyWorkers')
    BY <1>1, <1>6, <1>7, <2>2
  <2> QED BY <2>1, <2>3 DEF OutstandingAccounted
<1>10. RetiredIdsForgotten' /\ BudgetKept'
  <2>1. \A j \in Ids : model_calls'[j] + Queued(j)' <= model_calls[j] + Queued(j)
    <3> SUFFICES ASSUME NEW j \in Ids
                 PROVE  model_calls'[j] + Queued(j)' <= model_calls[j] + Queued(j)
      OBVIOUS
    <3>1. model_calls'[j] = model_calls[j] /\ model_calls[j] \in Nat
      BY <1>1, <1>2 DEF TypeOK
    <3>2. Queued(j)' = Queued(j) /\ Queued(j) \in Nat
      BY <1>7
    <3> QED BY <3>1, <3>2
  <2> QED BY <1>1, <1>3, <1>4, <1>8, <2>1, ReleaseKeeps
<1>11. QuietWhenStopped'
  BY <1>1 DEF QuietWhenStopped
<1>12. \A j \in Ids : pending'[j] > 0 => generation'[j] = generation[j] /\ calls'[j] = calls[j]
  BY <1>2, <1>4, SMTT(30) DEF Released, TypeOK
<1>13. AllPending'
  BY <1>8, <1>9, OutstandingPendsNext
<1>14. \A v \in BusyWorkers' : v \in BusyWorkers /\ v # w /\ worker'[v] = worker[v]
  BY <1>5 DEF BusyWorkers
<1>15. GenerationsAhead'
  <2>1. ASSUME NEW j \in DOMAIN queue'
        PROVE  /\ queue'[j].generation <= generation'[queue'[j].id]
               /\ queue'[j].orphan => queue'[j].generation < generation'[queue'[j].id]
    BY <1>1, <1>12, <1>13 DEF AllPending, CoordinatorInv, GenerationsAhead, Behind
  <2>2. ASSUME NEW v \in BusyWorkers'
        PROVE  /\ worker'[v].work.generation <= generation'[worker'[v].work.id]
               /\ worker'[v].work.orphan => worker'[v].work.generation < generation'[worker'[v].work.id]
    BY <1>12, <1>13, <1>14 DEF AllPending, CoordinatorInv, GenerationsAhead, Behind
  <2> QED BY <2>1, <2>2 DEF GenerationsAhead, Behind
<1>16. CancelledAreOrphans'
  BY <1>1, <1>14 DEF CoordinatorInv, CancelledAreOrphans
<1>17. RegisteredRun'
  <2> SUFFICES ASSUME NEW j \in Ids, in_flight_tasks'[j] # NoWorker
               PROVE  /\ in_flight_tasks'[j] \in BusyWorkers'
                      /\ worker'[in_flight_tasks'[j]].work.id = j
    BY DEF RegisteredRun
  <2>1. j # i /\ in_flight_tasks'[j] = in_flight_tasks[j]
    BY <1>1, <1>2, <1>3 DEF TypeOK
  <2>2. in_flight_tasks[j] \in BusyWorkers /\ worker[in_flight_tasks[j]].work.id = j
    BY <2>1 DEF CoordinatorInv, RegisteredRun
  <2>3. in_flight_tasks[j] # w
    BY <2>1, <2>2 DEF i
  <2> QED BY <2>1, <2>2, <2>3, <1>5 DEF BusyWorkers
<1>18. StatusHonest'
  <2>1. \A j \in active_ids : generation'[j] = generation[j]
    BY <1>2, <1>4 DEF Released, TypeOK
  <2>2. \A j \in Ids : registry'[j] # "none" => j \in active_ids
    BY DEF CoordinatorInv, StatusHonest
  <2>3. ASSUME phase = "running", NEW j \in Ids, registry'[j] = "QUEUED"
        PROVE  \E k \in Range(queue) : k.id = j /\ k.generation = generation'[j]
    <3>1. registry[j] = "QUEUED"
      BY <2>3
    <3>2. PICK k \in Range(queue) : k.id = j /\ work_is_live(k)
      BY <2>3, <3>1 DEF CoordinatorInv, StatusHonest
    <3> QED BY <2>1, <3>2 DEF work_is_live
  <2>4. ASSUME phase = "running", NEW j \in Ids, registry'[j] = "RUNNING"
        PROVE  \E k \in InWorkers' : k.id = j /\ k.generation = generation'[j]
    <3>1. registry[j] = "RUNNING"
      BY <2>4
    <3>2. PICK k \in InWorkers : k.id = j /\ work_is_live(k)
      BY <2>4, <3>1 DEF CoordinatorInv, StatusHonest
    <3>3. PICK v \in BusyWorkers : worker[v].work = k
      BY <3>2 DEF InWorkers
    <3>4. v # w
      BY <2>4, <3>2, <3>3
    <3>5. k \in InWorkers'
      BY <1>5, <3>3, <3>4 DEF InWorkers, BusyWorkers
    <3> QED BY <2>1, <3>2, <3>5 DEF work_is_live
  <2> QED BY <1>1, <2>2, <2>3, <2>4 DEF StatusHonest, work_is_live
<1>19. \A j \in Ids : HasCall(j)' => HasCall(j) /\ pending'[j] > 0
  BY <1>13, <1>14 DEF HasCall, AllPending
<1>20. \A j \in Ids : j # i /\ HasCancelledCall(j) => HasCancelledCall(j)'
  BY <1>5 DEF HasCancelledCall, BusyWorkers, i
<1>21. \A j \in Ids : pending[j] \in Nat /\ calls[j] \in Nat /\ pending[j] <= calls[j]
  BY <1>2 DEF TypeOK, CoordinatorInv, BudgetKept
<1>22. pending'[i] > 0 => pending'[i] < calls'[i]
  BY <1>3, <1>4, <1>12, <1>21 DEF Released
<1>23. \A j \in Ids \ {i} : /\ pending'[j] = pending[j] /\ calls'[j] = calls[j]
                            /\ in_flight_tasks'[j] = in_flight_tasks[j]
  BY <1>1, <1>2, <1>4 DEF Released, TypeOK
<1>24. UnregisteredSpent'
  <2> SUFFICES ASSUME NEW j \in Ids, HasCall(j)', in_flight_tasks'[j] = NoWorker
               PROVE  pending'[j] < calls'[j]
    BY DEF UnregisteredSpent
  <2> QED BY <1>19, <1>22, <1>23 DEF CoordinatorInv, UnregisteredSpent
<1>25. RetiredSpent'
  <2> SUFFICES ASSUME NEW j \in Ids, j \notin active_ids, HasCall(j)'
               PROVE  HasCancelledCall(j)' \/ pending'[j] < calls'[j]
    BY <1>1 DEF RetiredSpent
  <2> QED BY <1>19, <1>20, <1>22, <1>23 DEF CoordinatorInv, RetiredSpent
<1> QED BY <1>8, <1>9, <1>10, <1>11, <1>15, <1>16, <1>17, <1>18, <1>24, <1>25 DEF CoordinatorInv

-----------------------------------------------------------------------------
(* A call starts *)

\* A worker that starts a model call keeps the invariant.
LEMMA StartCallKeeps ==
    ASSUME CoordinatorInv, NEW w \in Workers, StartCall(w)
    PROVE  CoordinatorInv'
<1> DEFINE i == Head(queue).id
<1>1. /\ worker[w].state = "idle" /\ work_is_live(Head(queue)) /\ phase = "running" /\ Took(w)
      /\ worker' = [worker EXCEPT ![w] = [state |-> "busy", work |-> Head(queue), cancelled |-> FALSE]]
      /\ in_flight_tasks' = [in_flight_tasks EXCEPT ![i] = w]
      /\ in_flight' = in_flight + 1
      /\ registry' = [registry EXCEPT ![i] = "RUNNING"]
      /\ model_calls' = [model_calls EXCEPT ![i] = IF @ < CallCap THEN @ + 1 ELSE @]
      /\ UNCHANGED <<phase, book, active_ids, departed>>
  BY DEF StartCall, Took
<1>2. TypeOK /\ OutstandingAccounted /\ AllPending
  BY OutstandingPends DEF CoordinatorInv
<1>3. /\ Head(queue) \in Work /\ i \in Ids /\ queue' \in Seq(Work) /\ Len(queue') <= QueueSize
      /\ \A j \in DOMAIN queue' : \E h \in DOMAIN queue : queue'[j] = queue[h]
      /\ \A h \in DOMAIN queue : queue[h] = Head(queue) \/ \E j \in DOMAIN queue' : queue'[j] = queue[h]
      /\ \A j : Queued(j)' = IF i = j THEN Queued(j) - 1 ELSE Queued(j)
      /\ \A j : Queued(j) \in Nat /\ Running(j) \in Nat
  BY <1>1, <1>2, TookEffects
<1>4. i \in active_ids /\ Head(queue).generation = generation[i] /\ \E h \in DOMAIN queue : queue[h] = Head(queue)
  <2>1. queue \in Seq(Work) /\ queue # <<>>
    BY <1>1, <1>2 DEF TypeOK, Took
  <2>2. 1 \in DOMAIN queue /\ queue[1] = Head(queue)
    BY <2>1
  <2> QED BY <1>1, <2>2 DEF work_is_live
<1> DEFINE call == [state |-> "busy", work |-> Head(queue), cancelled |-> FALSE]
<1>5. /\ worker'[w] = call /\ \A v \in Workers \ {w} : worker'[v] = worker[v]
      /\ w \notin BusyWorkers /\ BusyWorkers' = BusyWorkers \cup {w}
      /\ \A v \in BusyWorkers : v \in Workers \ {w}
  <2>1. worker'[w] = call /\ \A v \in Workers \ {w} : worker'[v] = worker[v]
    BY <1>1, <1>2 DEF TypeOK
  <2> QED BY <1>1, <2>1 DEF BusyWorkers
<1>6. call.state = "busy" /\ call.work = Head(queue) /\ call.work.id = i /\ ~call.cancelled /\ call \in Busy
  BY <1>3 DEF Busy
<1> HIDE DEF i, call
<1>7. /\ Cardinality(BusyWorkers') = Cardinality(BusyWorkers) + 1
      /\ \A j : Running(j)' = Running(j) + (IF j = i THEN 1 ELSE 0)
  <2>1. /\ worker[w].state # "busy" /\ worker'[w].state = "busy" /\ worker'[w].work.id = i
        /\ \A v \in Workers \ {w} : worker[v] = worker'[v]
    BY <1>1, <1>5, <1>6
  <2>2. /\ Cardinality(BusyIn(worker')) = Cardinality(BusyIn(worker)) + 1
        /\ \A j : Cardinality(RunningOn(worker', j)) = Cardinality(RunningOn(worker, j))
                                                        + (IF j = i THEN 1 ELSE 0)
    BY <2>1, BusyCount
  <2> QED BY <2>2, Counts
<1>8. TypeOK'
  <2>1. worker' \in [Workers -> {Idle, Gone} \cup Busy]
    BY <1>1, <1>2, <1>6 DEF TypeOK, call
  <2>2. in_flight_tasks' \in [Ids -> Workers \cup {NoWorker}]
    BY <1>1, <1>2 DEF TypeOK
  <2>3. registry' \in [Ids -> Status]
    BY <1>1, <1>2 DEF TypeOK, Status
  <2>4. model_calls' \in [Ids -> Nat] /\ in_flight' \in Nat
    <3> DEFINE n == IF model_calls[i] < CallCap THEN model_calls[i] + 1 ELSE model_calls[i]
    <3>1. model_calls \in [Ids -> Nat] /\ in_flight \in Nat
      BY <1>2 DEF TypeOK
    <3>2. n \in Nat
      <4>1. model_calls[i] \in Nat
        BY <1>3, <3>1
      <4> QED BY <4>1
    <3>3. model_calls' = [model_calls EXCEPT ![i] = n]
      BY <1>1
    <3> HIDE DEF n
    <3>4. model_calls' \in [Ids -> Nat]
      BY <3>1, <3>2, <3>3
    <3>5. in_flight' \in Nat
      BY <1>1, <3>1
    <3> QED BY <3>4, <3>5
  <2> QED BY <1>1, <1>2, <1>3, <2>1, <2>2, <2>3, <2>4 DEF TypeOK, book
<1>9. OutstandingAccounted'
  <2>1. ASSUME NEW j \in Ids PROVE pending'[j] = Queued(j)' + Running(j)'
    <3>1. pending[j] = Queued(j) + Running(j) /\ pending'[j] = pending[j]
      BY <1>1, <1>2 DEF OutstandingAccounted, book
    <3>2. Queued(j)' = (IF i = j THEN Queued(j) - 1 ELSE Queued(j)) /\ Queued(j) \in Nat /\ Running(j) \in Nat
      BY <1>3
    <3>3. Running(j)' = Running(j) + (IF j = i THEN 1 ELSE 0)
      BY <1>7
    <3> QED BY <3>1, <3>2, <3>3
  <2>2. in_flight' = Cardinality(BusyWorkers')
    BY <1>1, <1>2, <1>7 DEF OutstandingAccounted
  <2> QED BY <2>1, <2>2 DEF OutstandingAccounted
<1>10. RetiredIdsForgotten' /\ QuietWhenStopped'
  BY <1>1 DEF CoordinatorInv, RetiredIdsForgotten, QuietWhenStopped, book
<1>11. BudgetKept'
  <2> SUFFICES ASSUME NEW j \in Ids PROVE model_calls'[j] + Queued(j)' <= model_calls[j] + Queued(j)
    <3>1. \A j \in Ids : /\ Queued(j) \in Nat /\ Queued(j)' \in Nat /\ calls[j] \in Nat
                         /\ model_calls[j] \in Nat /\ model_calls'[j] \in Nat
      BY <1>2, <1>8, Counts, CountsAreFinite DEF TypeOK
    <3>2. \A j \in Ids : j \notin departed => model_calls'[j] + Queued(j)' <= calls[j]
      BY <3>1 DEF CoordinatorInv, BudgetKept
    <3> QED BY <1>1, <3>2 DEF CoordinatorInv, BudgetKept, book, CallBudget
  <2>1. Queued(j)' = (IF i = j THEN Queued(j) - 1 ELSE Queued(j)) /\ Queued(j) \in Nat
    BY <1>3
  <2>2. /\ model_calls[j] \in Nat
        /\ model_calls'[j] = model_calls[j] \/ (i = j /\ model_calls'[j] = model_calls[j] + 1)
    BY <1>1, <1>2, <1>3 DEF TypeOK
  <2> QED BY <2>1, <2>2
<1>12. GenerationsAhead'
  <2>1. ASSUME NEW j \in DOMAIN queue' PROVE Behind(queue'[j])
    BY <1>3 DEF CoordinatorInv, GenerationsAhead
  <2>2. ASSUME NEW v \in BusyWorkers' PROVE Behind(worker'[v].work)
    BY <1>4, <1>5, <1>6 DEF CoordinatorInv, GenerationsAhead
  <2>3. generation' = generation
    BY <1>1 DEF book
  <2> QED BY <2>1, <2>2, <2>3 DEF GenerationsAhead, Behind
<1>13. CancelledAreOrphans'
  BY <1>1, <1>5, <1>6 DEF CoordinatorInv, CancelledAreOrphans
<1>14. RegisteredRun'
  <2> SUFFICES ASSUME NEW j \in Ids, in_flight_tasks'[j] # NoWorker
               PROVE  in_flight_tasks'[j] \in BusyWorkers' /\ worker'[in_flight_tasks'[j]].work.id = j
    BY DEF RegisteredRun
  <2>1. CASE j = i
    BY <1>1, <1>2, <1>5, <1>6, <2>1 DEF TypeOK
  <2>2. CASE j # i
    <3>1. in_flight_tasks'[j] = in_flight_tasks[j]
      BY <1>1, <1>2, <2>2 DEF TypeOK
    <3> QED BY <3>1, <1>5 DEF CoordinatorInv, RegisteredRun
  <2> QED BY <2>1, <2>2
<1>15. StatusHonest'
  <2>1. generation' = generation /\ active_ids' = active_ids /\ phase' = "running" /\ phase = "running"
    BY <1>1 DEF book
  <2>2. /\ registry'[i] = "RUNNING" /\ \A j \in Ids \ {i} : registry'[j] = registry[j]
    BY <1>1, <1>2, <1>3 DEF TypeOK
  <2>3. \A j \in Ids : registry'[j] # "none" => j \in active_ids
    BY <1>4, <2>2 DEF CoordinatorInv, StatusHonest
  <2>4. ASSUME NEW j \in Ids, registry'[j] = "QUEUED"
        PROVE  \E k \in Range(queue') : k.id = j /\ work_is_live(k)
    <3>1. j # i /\ registry[j] = "QUEUED"
      BY <2>2, <2>4
    <3>2. PICK k \in Range(queue) : k.id = j /\ work_is_live(k)
      BY <2>1, <3>1 DEF CoordinatorInv, StatusHonest
    <3>3. k \in Range(queue')
      BY <1>3, <3>1, <3>2 DEF Range, i
    <3> QED BY <3>2, <3>3
  <2>5. ASSUME NEW j \in Ids, registry'[j] = "RUNNING"
        PROVE  \E k \in InWorkers' : k.id = j /\ work_is_live(k)
    <3>1. CASE j = i
      <4>1. Head(queue) \in InWorkers'
        BY <1>5, <1>6 DEF InWorkers
      <4> QED BY <1>1, <4>1, <3>1 DEF i
    <3>2. CASE j # i
      <4>1. registry[j] = "RUNNING"
        BY <2>2, <2>5, <3>2
      <4>2. PICK k \in InWorkers : k.id = j /\ work_is_live(k)
        BY <2>1, <4>1 DEF CoordinatorInv, StatusHonest
      <4>3. k \in InWorkers'
        BY <1>5, <4>2 DEF InWorkers
      <4> QED BY <4>2, <4>3
    <3> QED BY <3>1, <3>2
  <2> QED BY <2>1, <2>3, <2>4, <2>5 DEF StatusHonest, work_is_live
<1>16. UnregisteredSpent'
  <2> SUFFICES ASSUME NEW j \in Ids, HasCall(j)', in_flight_tasks'[j] = NoWorker
               PROVE  pending'[j] < calls'[j]
    BY DEF UnregisteredSpent
  <2>1. in_flight_tasks'[i] = w /\ \A h \in Ids \ {i} : in_flight_tasks'[h] = in_flight_tasks[h]
    BY <1>1, <1>2, <1>3 DEF TypeOK
  <2>2. j # i /\ in_flight_tasks[j] = NoWorker
    BY <2>1, CoordinatorAssumption
  <2>3. HasCall(j)
    BY <1>5, <1>6, <2>2 DEF HasCall
  <2> QED BY <1>1, <2>2, <2>3 DEF CoordinatorInv, UnregisteredSpent, book
<1>17. RetiredSpent'
  <2> SUFFICES ASSUME NEW j \in Ids, j \notin active_ids, HasCall(j)'
               PROVE  HasCancelledCall(j)' \/ pending'[j] < calls'[j]
    BY <1>1 DEF RetiredSpent
  <2>1. j # i /\ HasCall(j)
    BY <1>4, <1>5, <1>6 DEF HasCall
  <2>2. HasCancelledCall(j) => HasCancelledCall(j)'
    BY <1>5 DEF HasCancelledCall
  <2> QED BY <1>1, <2>1, <2>2 DEF CoordinatorInv, RetiredSpent, book
<1> QED BY <1>8, <1>9, <1>10, <1>11, <1>12, <1>13, <1>14, <1>15, <1>16, <1>17 DEF CoordinatorInv

-----------------------------------------------------------------------------
(* Start and shutdown *)

\* A step that leaves the busy workers and their works alone keeps the counts.
SameWork ==
    /\ queue' = queue /\ BusyWorkers' = BusyWorkers
    /\ \A w \in BusyWorkers : worker'[w].work = worker[w].work

\* A step that leaves the work as it is leaves its counts as they are.
LEMMA SameCounts ==
    ASSUME SameWork
    PROVE  /\ \A i : Queued(i)' = Queued(i) /\ Running(i)' = Running(i)
           /\ \A i : HasCall(i)' <=> HasCall(i)
           /\ InWorkers' = InWorkers
<1>1. \A i : RunningOn(worker', i) = RunningOn(worker, i)
  BY Counts DEF SameWork, RunningOn
<1> QED BY <1>1, Counts DEF SameWork, HasCall, InWorkers

\* Such a step that changes nothing but workers and the phase keeps the invariant.
LEMMA PhaseKeeps ==
    ASSUME CoordinatorInv, SameWork,
           phase' \in {"running", "closing"}, phase' = "running" => phase = "stopped",
           worker' \in [Workers -> {Idle, Gone} \cup Busy],
           \A w \in BusyWorkers : worker[w].cancelled => worker'[w].cancelled,
           UNCHANGED <<book, active_ids, in_flight_tasks, in_flight, registry, model_calls, departed>>
    PROVE  CoordinatorInv'
<1>1. TypeOK'
  BY DEF CoordinatorInv, TypeOK, SameWork, book
<1>2. OutstandingAccounted'
  BY SameCounts DEF CoordinatorInv, OutstandingAccounted, SameWork, book
<1>3. RetiredIdsForgotten' /\ QuietWhenStopped'
  BY DEF CoordinatorInv, RetiredIdsForgotten, QuietWhenStopped, book
<1>4. GenerationsAhead'
  BY DEF CoordinatorInv, GenerationsAhead, Behind, SameWork, book
<1>5. CancelledAreOrphans'
  <2>1. phase = "stopped" => BusyWorkers = {}
    BY DEF CoordinatorInv, QuietWhenStopped, BusyWorkers
  <2> QED BY <2>1 DEF CancelledAreOrphans, SameWork
<1>6. StatusHonest'
  <2>1. phase = "stopped" => \A i \in Ids : registry[i] = "none"
    BY DEF CoordinatorInv, QuietWhenStopped
  <2> QED BY <2>1 DEF CoordinatorInv, StatusHonest
<1>7. BudgetKept'
  BY SameCounts DEF CoordinatorInv, BudgetKept, CallBudget, book
<1>8. RegisteredRun'
  BY DEF CoordinatorInv, RegisteredRun, SameWork
<1>9. UnregisteredSpent'
  BY SameCounts DEF CoordinatorInv, UnregisteredSpent, book
<1>10. \A i \in Ids : HasCancelledCall(i) => HasCancelledCall(i)'
  BY DEF HasCancelledCall, SameWork
<1>11. RetiredSpent'
  BY <1>10, SameCounts DEF CoordinatorInv, RetiredSpent, book
<1> QED BY <1>1, <1>2, <1>3, <1>4, <1>5, <1>6, <1>7, <1>8, <1>9, <1>11 DEF CoordinatorInv

\* In a state where nothing is outstanding and every map is empty the invariant holds.
Blank ==
    /\ phase = "stopped" /\ queue = <<>>
    /\ worker \in [Workers -> {Idle, Gone} \cup Busy] /\ \A w \in Workers : worker[w].state = "gone"
    /\ calls = [i \in Ids |-> 0] /\ generation = [i \in Ids |-> 0]
    /\ last_priority = [i \in Ids |-> 0] /\ pending = [i \in Ids |-> 0]
    /\ active_ids = {} /\ in_flight_tasks = [i \in Ids |-> NoWorker] /\ in_flight = 0
    /\ registry = [i \in Ids |-> "none"] /\ model_calls = [i \in Ids |-> 0] /\ departed = {}

\* A coordinator that is stopped and empty satisfies the invariant,
LEMMA BlankHolds == Blank => CoordinatorInv
<1> SUFFICES ASSUME Blank PROVE CoordinatorInv
  OBVIOUS
<1>1. TypeOK
  <2>1. <<>> \in Seq(Work) /\ Len(<<>>) = 0
    OBVIOUS
  <2> QED BY <2>1, CoordinatorAssumption DEF Blank, TypeOK, Status
<1>2. BusyWorkers = {} /\ DOMAIN queue = {}
  BY DEF Blank, BusyWorkers
<1>3. /\ \A i : Queued(i) = 0 /\ Running(i) = 0
      /\ Cardinality(BusyWorkers) = 0
  <2>1. \A i : {j \in DOMAIN queue : queue[j].id = i} = {} /\ {w \in BusyWorkers : worker[w].work.id = i} = {}
    BY <1>2
  <2>2. Cardinality({}) = 0
    BY FS_EmptySet
  <2> QED BY <1>2, <2>1, <2>2 DEF Queued, Running
<1>4. OutstandingAccounted
  BY <1>3 DEF Blank, OutstandingAccounted
<1>5. BudgetKept
  BY <1>3, CoordinatorAssumption DEF Blank, BudgetKept, CallBudget
<1>6. StatusHonest
  BY DEF Blank, StatusHonest
<1>7. RetiredIdsForgotten /\ QuietWhenStopped /\ RegisteredRun
  BY DEF Blank, RetiredIdsForgotten, QuietWhenStopped, RegisteredRun
<1>8. GenerationsAhead /\ CancelledAreOrphans
  BY <1>2 DEF GenerationsAhead, CancelledAreOrphans
<1>9. UnregisteredSpent /\ RetiredSpent
  BY <1>2 DEF UnregisteredSpent, RetiredSpent, HasCall
<1> QED BY <1>1, <1>4, <1>5, <1>6, <1>7, <1>8, <1>9 DEF CoordinatorInv

\* and so it does after a step.
LEMMA BlankHoldsNext == Blank' => CoordinatorInv'
BY BlankHolds, PTL

-----------------------------------------------------------------------------
(* The invariant *)

\* Every step of a worker keeps the invariant.
LEMMA WorkerStepKeeps ==
    ASSUME CoordinatorInv, NEW w \in Workers, WorkerStep(w)
    PROVE  CoordinatorInv'
<1>1. TypeOK
  BY DEF CoordinatorInv
<1>2. ASSUME NEW outcome \in {"ENRICHED", "FALLBACK"}, CallReturns(w, outcome) PROVE CoordinatorInv'
  <2> DEFINE i == worker[w].work.id
  <2>1. /\ phase = "running" /\ w \in BusyWorkers /\ Finish(w, Idle)
        /\ registry' = IF work_is_live(worker[w].work) THEN [registry EXCEPT ![i] = outcome] ELSE registry
    BY <1>2 DEF CallReturns, BusyWorkers
  <2>2. i \in Ids
    BY <1>1, <2>1, BusyType DEF Busy, Work
  <2>3. /\ registry' \in [Ids -> Status]
        /\ \A j \in Ids : \/ registry'[j] = registry[j]
                          \/ registry'[j] \in {"ENRICHED", "FALLBACK"} /\ j \in active_ids
        /\ registry'[i] = "RUNNING" => ~work_is_live(worker[w].work)
    <3>1. CASE work_is_live(worker[w].work)
      <4>1. i \in active_ids /\ registry' = [registry EXCEPT ![i] = outcome]
        BY <2>1, <3>1 DEF work_is_live
      <4> QED BY <1>1, <2>2, <4>1 DEF TypeOK, Status
    <3>2. CASE ~work_is_live(worker[w].work)
      BY <1>1, <2>1, <3>2 DEF TypeOK
    <3> QED BY <3>1, <3>2
  <2> QED BY <2>1, <2>3, FinishKeeps
<1>3. ASSUME CallCancelled(w) PROVE CoordinatorInv'
  <2>1. /\ phase = "running" /\ w \in BusyWorkers /\ worker[w].cancelled /\ Finish(w, Idle)
        /\ registry' = registry
    BY <1>3 DEF CallCancelled, BusyWorkers
  <2>2. worker[w].work.orphan /\ Behind(worker[w].work)
    BY <2>1 DEF CoordinatorInv, CancelledAreOrphans, GenerationsAhead
  <2>3. worker[w].work \in Work
    BY <1>1, <2>1, BusyType DEF Busy
  <2>4. ~work_is_live(worker[w].work)
    BY <1>1, <2>2, <2>3 DEF Behind, work_is_live, Work, TypeOK
  <2>5. registry' \in [Ids -> Status] /\ \A j \in Ids : registry'[j] = registry[j]
    BY <1>1, <2>1 DEF TypeOK
  <2> QED BY <2>1, <2>4, <2>5, FinishKeeps
<1>4. ASSUME WorkerExits(w) PROVE CoordinatorInv'
  <2>1. phase = "closing" /\ registry' = registry
    BY <1>4 DEF WorkerExits
  <2>2. CASE worker[w].state = "busy" /\ Finish(w, Gone)
    <3>1. registry' \in [Ids -> Status] /\ w \in BusyWorkers /\ \A j \in Ids : registry'[j] = registry[j]
      BY <1>1, <2>1, <2>2 DEF TypeOK, BusyWorkers
    <3> QED BY <2>1, <2>2, <3>1, FinishKeeps
  <2>3. CASE /\ worker[w].state = "idle"
             /\ worker' = [worker EXCEPT ![w] = Gone]
             /\ UNCHANGED <<phase, queue, book, active_ids, in_flight_tasks,
                            in_flight, model_calls, departed>>
    <3>1. worker' \in [Workers -> {Idle, Gone} \cup Busy]
      BY <1>1, <2>3 DEF TypeOK
    <3>2. SameWork /\ \A v \in BusyWorkers : worker'[v] = worker[v]
      <4>1. worker'[w] = Gone /\ \A v \in Workers \ {w} : worker'[v] = worker[v]
        BY <1>1, <2>3 DEF TypeOK
      <4> QED BY <2>3, <4>1 DEF SameWork, BusyWorkers, Gone
    <3> QED BY <2>1, <2>3, <3>1, <3>2, PhaseKeeps
  <2> QED BY <1>4, <2>2, <2>3 DEF WorkerExits
<1> QED BY <1>2, <1>3, <1>4, StartCallKeeps, DiscardKeeps DEF WorkerStep

\* The invariant holds initially, and every step keeps it.
LEMMA CoordinatorInduction ==
    (Init => CoordinatorInv) /\ (CoordinatorInv /\ [Next]_vars => CoordinatorInv')
<1>1. ASSUME Init PROVE CoordinatorInv
  BY <1>1, BlankHolds DEF Init, Blank, Gone
<1>2. ASSUME CoordinatorInv, [Next]_vars PROVE CoordinatorInv'
  <2>0. TypeOK /\ QuietWhenStopped
    BY <1>2 DEF CoordinatorInv
  <2>1. CASE start
    <3>1. worker' \in [Workers -> {Idle, Gone} \cup Busy] /\ BusyWorkers = {} /\ BusyWorkers' = {}
      BY <2>0, <2>1 DEF start, QuietWhenStopped, BusyWorkers, Idle
    <3> QED BY <1>2, <2>1, <3>1, PhaseKeeps DEF start, SameWork
  <2>2. CASE observe_tick
    <3>1. PICK current, T : Observed(current, T)
      BY <2>0, <2>2, ObserveEffects
    <3> QED BY <1>2, <3>1, ObserveKeeps
  <2>3. CASE shutdown
    <3>1. ASSUME NEW w \in Workers
          PROVE  /\ worker'[w] \in {Idle, Gone} \cup Busy
                 /\ worker'[w].state = worker[w].state
                 /\ worker[w].state = "busy" => /\ worker'[w].work = worker[w].work
                                                /\ worker[w].cancelled => worker'[w].cancelled
      <4>1. CASE worker[w].state = "busy" /\ in_flight_tasks[worker[w].work.id] = w
        <5>1. worker[w] \in Busy
          BY <2>0, <4>1, BusyType DEF BusyWorkers
        <5>2. worker'[w] = [worker[w] EXCEPT !.cancelled = TRUE]
          BY <2>3, <4>1 DEF shutdown
        <5> QED BY <5>1, <5>2 DEF Busy
      <4>2. CASE ~(worker[w].state = "busy" /\ in_flight_tasks[worker[w].work.id] = w)
        BY <2>0, <2>3, <4>2 DEF shutdown, TypeOK
      <4> QED BY <4>1, <4>2
    <3>2. worker' \in [Workers -> {Idle, Gone} \cup Busy] /\ SameWork
          /\ \A w \in BusyWorkers : worker[w].cancelled => worker'[w].cancelled
      BY <2>3, <3>1 DEF shutdown, SameWork, BusyWorkers
    <3> QED BY <1>2, <2>3, <3>2, PhaseKeeps DEF shutdown
  <2>4. CASE ShutdownCompletes
    <3>1. Blank'
      BY <2>0, <2>4 DEF ShutdownCompletes, Blank, TypeOK
    <3> QED BY <3>1, BlankHoldsNext
  <2>5. ASSUME NEW w \in Workers, WorkerStep(w) PROVE CoordinatorInv'
    BY <1>2, <2>5, WorkerStepKeeps
  <2>6. CASE UNCHANGED vars
    <3> USE <1>2, <2>6 DEF vars, book, CoordinatorInv
    <3>1. TypeOK' /\ QuietWhenStopped' /\ RetiredIdsForgotten'
      BY DEF TypeOK, QuietWhenStopped, RetiredIdsForgotten
    <3>2. BusyWorkers' = BusyWorkers /\ InWorkers' = InWorkers
      BY DEF BusyWorkers, InWorkers
    <3>3. SameWork /\ \A i \in Ids : HasCancelledCall(i)' <=> HasCancelledCall(i)
      BY <3>2 DEF SameWork, HasCancelledCall
    <3>4. OutstandingAccounted' /\ BudgetKept'
      BY <3>2, <3>3, SameCounts DEF OutstandingAccounted, BudgetKept
    <3>5. GenerationsAhead' /\ CancelledAreOrphans' /\ RegisteredRun'
      BY <3>2 DEF GenerationsAhead, Behind, CancelledAreOrphans, RegisteredRun
    <3>6. StatusHonest'
      BY <3>2 DEF StatusHonest, work_is_live
    <3>7. UnregisteredSpent' /\ RetiredSpent'
      BY <3>3, SameCounts DEF UnregisteredSpent, RetiredSpent
    <3> QED BY <3>1, <3>4, <3>5, <3>6, <3>7
  <2> QED BY <1>2, <2>1, <2>2, <2>3, <2>4, <2>5, <2>6 DEF Next
<1> QED BY <1>1, <1>2

\* The invariant holds throughout.
LEMMA CoordinatorInvariant == Spec => []CoordinatorInv
BY CoordinatorInduction, PTL DEF Spec

\* The variables keep their types, and the queue its bound.
THEOREM TypeCorrect == Spec => []TypeOK
<1>1. CoordinatorInv => TypeOK
  BY DEF CoordinatorInv
<1> QED BY <1>1, CoordinatorInvariant, PTL

\* _pending and _in_flight are exact for any number of ids, workers and restarts.
THEOREM WorkIsAccounted == Spec => []OutstandingAccounted
<1>1. CoordinatorInv => OutstandingAccounted
  BY DEF CoordinatorInv
<1> QED BY <1>1, CoordinatorInvariant, PTL

\* Work of a retired episode is never taken for live again, although _maybe_forget resets
\* the generation counter and the id may come back.
THEOREM StaleStaysStale == Spec => []StaleWorkStaysStale
<1>1. CoordinatorInv => StaleWorkStaysStale
  <2> SUFFICES ASSUME CoordinatorInv, NEW k \in Range(queue) \cup InWorkers, k.orphan
               PROVE  ~work_is_live(k)
    BY DEF StaleWorkStaysStale
  <2>1. TypeOK
    BY DEF CoordinatorInv
  <2>2. k \in Work
    <3>1. \A w \in BusyWorkers : worker[w].work \in Work
      BY <2>1, BusyType DEF Busy
    <3>2. \A j \in DOMAIN queue : queue[j] \in Work
      BY <2>1 DEF TypeOK
    <3> QED BY <3>1, <3>2 DEF Range, InWorkers
  <2>3. Behind(k)
    BY DEF CoordinatorInv, GenerationsAhead, Range, InWorkers
  <2> QED BY <2>1, <2>2, <2>3 DEF Behind, work_is_live, Work, TypeOK
<1> QED BY <1>1, CoordinatorInvariant, PTL

\* The maps hold nothing of an id that is neither active nor outstanding (_maybe_forget).
THEOREM RetiredAreForgotten == Spec => []RetiredIdsForgotten
<1>1. CoordinatorInv => RetiredIdsForgotten
  BY DEF CoordinatorInv
<1> QED BY <1>1, CoordinatorInvariant, PTL

\* The registry never announces an answer that no live work will give.
THEOREM StatusIsHonest == Spec => []StatusHonest
<1>1. CoordinatorInv => StatusHonest
  BY DEF CoordinatorInv
<1> QED BY <1>1, CoordinatorInvariant, PTL

\* An episode that stays active never exceeds its budget of model calls.
THEOREM BudgetHolds == Spec => []BudgetWhileActive
<1>1. CoordinatorInv => BudgetWhileActive
  <2> SUFFICES ASSUME CoordinatorInv, NEW i \in Ids, i \notin departed
               PROVE  model_calls[i] <= CallBudget
    BY DEF BudgetWhileActive
  <2>1. queue \in Seq(Work) /\ model_calls[i] \in Nat /\ calls[i] \in Nat
    BY DEF CoordinatorInv, TypeOK
  <2>2. Queued(i) \in Nat
    BY <2>1, Counts, CountsAreFinite
  <2>3. model_calls[i] + Queued(i) <= calls[i] /\ calls[i] <= CallBudget /\ CallBudget \in Nat
    BY CoordinatorAssumption DEF CoordinatorInv, BudgetKept, CallBudget
  <2> QED BY <2>1, <2>2, <2>3
<1> QED BY <1>1, CoordinatorInvariant, PTL

\* Retirement leaves fewer calls running than the budget allows, for every budget that
\* allows a call at all.
THEOREM RetirementCancels ==
    ASSUME CallBudget >= 1
    PROVE  Spec => []RetiredCallsCancelled
<1>1. CoordinatorInv => RetiredCallsCancelled
  <2> SUFFICES ASSUME CoordinatorInv, NEW i \in Ids \ active_ids
               PROVE  Cardinality({w \in {v \in BusyWorkers : worker[v].work.id = i} :
                                        ~worker[w].cancelled}) < CallBudget
    BY DEF RetiredCallsCancelled
  <2> DEFINE running == RunningOn(worker, i)
             left == {w \in running : ~worker[w].cancelled}
  <2>1. {v \in BusyWorkers : worker[v].work.id = i} = running
    BY Counts DEF RunningOn
  <2>2. queue \in Seq(Work) /\ pending[i] \in Nat /\ calls[i] \in Nat /\ CallBudget \in Nat
    BY CoordinatorAssumption DEF CoordinatorInv, TypeOK, CallBudget
  <2>3. IsFiniteSet(running) /\ Cardinality(running) \in Nat /\ Queued(i) \in Nat
    BY <2>2, Counts, CountsAreFinite
  <2>4. /\ pending[i] = Queued(i) + Cardinality(running)
        /\ pending[i] <= calls[i] /\ calls[i] <= CallBudget
    BY Counts DEF CoordinatorInv, OutstandingAccounted, BudgetKept
  <2>5. Cardinality(running) <= pending[i]
    BY <2>2, <2>3, <2>4
  <2>6. CASE running = {}
    <3>1. left = {} /\ Cardinality({}) = 0
      BY <2>6, FS_EmptySet
    <3>2. Cardinality(left) < CallBudget
      <4> HIDE DEF left
      <4>1. Cardinality(left) = 0
        BY <3>1
      <4> QED BY <2>2, <4>1
    <3> QED BY <2>1, <3>2
  <2>7. CASE running # {} /\ HasCancelledCall(i)
    <3>1. PICK w \in running : worker[w].cancelled
      BY <2>1, <2>7 DEF HasCancelledCall
    <3>2. left \subseteq running \ {w}
      BY <3>1
    <3>3. IsFiniteSet(running \ {w}) /\ Cardinality(running \ {w}) = Cardinality(running) - 1
      BY <2>3, <3>1, FS_RemoveElement
    <3>4. Cardinality(left) <= Cardinality(running \ {w}) /\ Cardinality(left) \in Nat
      BY <3>2, <3>3, FS_Subset, FS_CardinalityType
    <3>5. Cardinality(left) < CallBudget
      BY <2>2, <2>3, <2>4, <2>5, <3>3, <3>4
    <3> QED BY <2>1, <3>5
  <2>8. CASE running # {} /\ ~HasCancelledCall(i)
    <3>1. HasCall(i)
      BY <2>1, <2>8 DEF HasCall
    <3>2. pending[i] < calls[i]
      BY <2>8, <3>1 DEF CoordinatorInv, RetiredSpent
    <3>3. left \subseteq running
      OBVIOUS
    <3>4. Cardinality(left) <= Cardinality(running) /\ Cardinality(left) \in Nat
      BY <2>3, <3>3, FS_Subset, FS_CardinalityType
    <3>5. Cardinality(left) < CallBudget
      BY <2>2, <2>3, <2>4, <2>5, <3>2, <3>4
    <3> QED BY <2>1, <3>5
  <2> QED BY <2>6, <2>7, <2>8
<1> QED BY <1>1, CoordinatorInvariant, PTL
=============================================================================
