------------------------- MODULE SignalPipelineProofs -------------------------
(***************************************************************************)
(* Proofs about SignalPipeline for every set of symbols, every look-back,  *)
(* time to live and cooldown, and any number of calls.                     *)
(*                                                                         *)
(* One call of process composes up to six episodes, one after the other,   *)
(* on the composer's maps.  Composed(c, K, t) says what holds of the maps c *)
(* when the episodes with the keys K have been composed at market time t;  *)
(* each composition preserves it.                                          *)
(***************************************************************************)
EXTENDS SignalPipeline, TLAPS

\* The maps have their types, and ids come from the counter.
Shape(c) ==
    /\ c.next_id \in Nat
    /\ DOMAIN c.active \subseteq EpisodeKey
    /\ \A k \in DOMAIN c.active : c.active[k] \in Signal /\ c.active[k].id < c.next_id
    /\ DOMAIN c.home \subseteq MarketEvent
    /\ \A e \in DOMAIN c.home : c.home[e] \in EpisodeKey
    /\ c.produced \in Seq(Signal)

\* An id names one signal, and the traces are those of the signals.
Identity(c) ==
    /\ \A j, k \in DOMAIN c.active : c.active[j].id = c.active[k].id => j = k
    /\ DOMAIN c.traces = {c.active[k].id : k \in DOMAIN c.active}
    /\ \A k \in DOMAIN c.active : c.traces[c.active[k].id] = c.active[k].event_ids

\* The episode of key k may go on under an id that was key j's.
MayInherit(j, k) ==
    \/ j = k
    \/ /\ KeyDirection(j) = "NONE"
       /\ KeySymbol(j) = KeySymbol(k)
       /\ KeyLineage(j) = KeyLineage(k)

\* Ids that are not fresh come from the signals before the call.
Descent(c) ==
    /\ next_id <= c.next_id
    /\ \A k \in DOMAIN c.active : c.active[k].id < next_id =>
            \E j \in DOMAIN active : active[j].id = c.active[k].id /\ MayInherit(j, k)

\* The signals produced are those of the keys K, with distinct ids; all others are as
\* before the call.  None is older than the look-back, and none with a direction that is
\* not is lost.
Progress(c, K, t) ==
    /\ K \subseteq DOMAIN c.active
    /\ \A k \in DOMAIN c.active : c.active[k].ts >= t - LookbackS
    /\ \A k \in K : c.active[k].ts = t /\ \E n \in DOMAIN c.produced : c.produced[n] = c.active[k]
    /\ \A n \in DOMAIN c.produced : \E k \in K : c.produced[n] = c.active[k]
    /\ \A m, n \in DOMAIN c.produced : c.produced[m].id = c.produced[n].id => m = n
    /\ \A k \in DOMAIN c.active \ K : k \in DOMAIN active /\ c.active[k] = active[k]
    /\ \A k \in DOMAIN active : KeyDirection(k) # "NONE" /\ active[k].ts >= t - LookbackS
                                    => k \in DOMAIN c.active

Composed(c, K, t) == Shape(c) /\ Identity(c) /\ Descent(c) /\ Progress(c, K, t)

-----------------------------------------------------------------------------
(* Facts about the operators *)

\* The largest element of a set is the one that no other exceeds.
LEMMA MaxIs ==
    ASSUME NEW S, NEW m \in S, S \subseteq Int, \A y \in S : y <= m
    PROVE  Max(S) = m
<1>1. \A x \in S : (\A y \in S : x >= y) => x = m
  OBVIOUS
<1> QED BY <1>1 DEF Max

\* A composed signal has one of the four priorities.
LEMMA PriorityType == ASSUME NEW members PROVE compose_priority(members) \in Priorities
<1> DEFINE base == priority_from_severity(Max({e.severity : e \in members}))
<1>1. base \in 1..4
  BY DEF priority_from_severity
<1>2. \A a \in 1..4 : Max({base, a}) \in 1..4
  <2> SUFFICES ASSUME NEW a \in 1..4 PROVE Max({base, a}) \in 1..4
    OBVIOUS
  <2> HIDE DEF base
  <2>1. CASE base >= a
    BY <1>1, <2>1, MaxIs
  <2>2. CASE base < a
    BY <1>1, <2>2, MaxIs
  <2> QED BY <1>1, <2>1, <2>2
<1> QED BY <1>1, <1>2 DEF compose_priority, Priorities

\* A composed signal has a family.
LEMMA FamilyType == ASSUME NEW members PROVE classify_family(members) \in SignalFamily
BY DEF classify_family, SignalFamily

\* The three parts of a key, and the key of the NONE episode.
LEMMA KeyParts ==
    ASSUME NEW k \in EpisodeKey
    PROVE  /\ k = <<KeySymbol(k), KeyLineage(k), KeyDirection(k)>>
           /\ KeySymbol(k) \in Symbols /\ KeyLineage(k) \in Lineages
           /\ KeyDirection(k) \in EventDirection
           /\ none_key(k) \in EpisodeKey
           /\ KeyDirection(none_key(k)) = "NONE"
           /\ KeySymbol(none_key(k)) = KeySymbol(k) /\ KeyLineage(none_key(k)) = KeyLineage(k)
           /\ KeyDirection(k) = "NONE" => none_key(k) = k
           /\ \A j \in EpisodeKey : KeyDirection(j) = "NONE" /\ KeySymbol(j) = KeySymbol(k)
                                    /\ KeyLineage(j) = KeyLineage(k) => j = none_key(k)
BY DEF EpisodeKey, KeySymbol, KeyLineage, KeyDirection, none_key, EventDirection

-----------------------------------------------------------------------------
(* One episode is composed *)

\* compose_episode preserves what holds of the maps, and adds its key to the composed ones,
\* if neither that key nor its NONE key was composed before in the call.
LEMMA ComposeKeeps ==
    ASSUME NEW c, NEW K, NEW t \in Nat, Composed(c, K, t),
           next_id \in Nat, NEW k \in EpisodeKey, k \notin K, none_key(k) \notin K,
           NEW members \in SUBSET MarketEvent,
           \E e \in members : e.ts = t, \A e \in members : e.ts <= t
    PROVE  Composed(compose_episode(c, k, members, t), K \cup {k}, t)
<1> DEFINE d == compose_episode(c, k, members, t)
           none == none_key(k)
           continues == Continues(c, k, t)
           steals == Steals(c, k, t)
           signal == signal_of(c, k, members, t)
           kept == IF steals THEN release_key(c, none) ELSE c.active
           rehomed == IF steals THEN c.active[none].event_ids ELSE {}
<1>1. /\ d.active = Assign(kept, {k}, signal)
      /\ d.traces = Assign(c.traces, {signal.id}, members)
      /\ d.home = Assign(c.home, rehomed \cup members, k)
      /\ d.next_id = IF ~steals /\ ~continues THEN c.next_id + 1 ELSE c.next_id
      /\ d.produced = Append(c.produced, signal)
  BY DEF compose_episode
<1>2. /\ steals => none \in DOMAIN c.active /\ none # k /\ ~continues
      /\ continues <=> k \in DOMAIN c.active
  BY KeyParts DEF Steals, Continues, Composed, Progress
<1>3. /\ DOMAIN kept = IF steals THEN DOMAIN c.active \ {none} ELSE DOMAIN c.active
      /\ \A j \in DOMAIN kept : kept[j] = c.active[j]
  <2>1. CASE steals
    BY <2>1 DEF release_key, Without, Restrict
  <2>2. CASE ~steals
    BY <2>2
  <2> QED BY <2>1, <2>2
<1>4. /\ signal.event_ids = members /\ signal.ts = t
      /\ continues => signal.id = c.active[k].id
      /\ steals => signal.id = c.active[none].id
      /\ ~continues /\ ~steals => signal.id = c.next_id
      /\ signal.id \in Nat /\ signal \in Signal
  <2>1. Max({e.ts : e \in members}) = t
    <3>1. /\ t \in {e.ts : e \in members} /\ {e.ts : e \in members} \subseteq Int
          /\ \A y \in {e.ts : e \in members} : y <= t
      BY DEF MarketEvent
    <3> QED BY <3>1, MaxIs
  <2>2. /\ continues => signal.id = c.active[k].id
        /\ steals => signal.id = c.active[none].id
        /\ ~continues /\ ~steals => signal.id = c.next_id
    BY <1>2 DEF signal_of, resolve_identity
  <2>3. signal.id \in Nat
    BY <1>2, <2>2 DEF Composed, Shape, Signal
  <2> QED BY <2>1, <2>2, <2>3, PriorityType, FamilyType DEF signal_of, Signal
<1> HIDE DEF d, none, continues, steals, signal, kept, rehomed
<1>5. /\ DOMAIN d.active = DOMAIN kept \cup {k} /\ d.active[k] = signal
      /\ \A j \in DOMAIN kept \ {k} : d.active[j] = c.active[j]
  BY <1>1, <1>3 DEF Assign
<1>6. /\ c.next_id \in Nat /\ DOMAIN c.active \subseteq EpisodeKey
      /\ \A j \in DOMAIN c.active : c.active[j] \in Signal /\ c.active[j].id < c.next_id
      /\ \A j \in DOMAIN c.active : c.active[j].id \in Nat
      /\ \A i, j \in DOMAIN c.active : c.active[i].id = c.active[j].id => i = j
  BY DEF Composed, Shape, Identity, Signal
<1>7. d.next_id \in Nat /\ c.next_id <= d.next_id /\ signal.id < d.next_id
  BY <1>1, <1>2, <1>4, <1>6
<1>8. \A j \in DOMAIN kept \ {k} : c.active[j].id # signal.id
  BY <1>2, <1>3, <1>4, <1>6
<1>9. Shape(d)
  <2>1. rehomed \in SUBSET MarketEvent
    BY <1>2, <1>6 DEF rehomed, Signal
  <2>2. DOMAIN d.home \subseteq MarketEvent /\ \A e \in DOMAIN d.home : d.home[e] \in EpisodeKey
    BY <1>1, <2>1 DEF Composed, Shape, Assign
  <2>3. d.produced \in Seq(Signal)
    BY <1>1, <1>4 DEF Composed, Shape
  <2>4. /\ DOMAIN d.active \subseteq EpisodeKey
        /\ \A j \in DOMAIN d.active : d.active[j] \in Signal /\ d.active[j].id < d.next_id
    BY <1>3, <1>4, <1>5, <1>6, <1>7
  <2> QED BY <1>7, <2>2, <2>3, <2>4 DEF Shape
<1>10. Identity(d)
  <2>1. \A i, j \in DOMAIN d.active : d.active[i].id = d.active[j].id => i = j
    BY <1>3, <1>5, <1>6, <1>8
  <2>2. DOMAIN d.traces = {d.active[j].id : j \in DOMAIN d.active}
    <3>1. DOMAIN d.traces = {c.active[j].id : j \in DOMAIN c.active} \cup {signal.id}
      BY <1>1 DEF Assign, Composed, Identity
    <3> QED BY <3>1, <1>2, <1>3, <1>4, <1>5
  <2>3. \A j \in DOMAIN d.active : d.traces[d.active[j].id] = d.active[j].event_ids
    <3>1. /\ d.traces[signal.id] = members
          /\ \A j \in DOMAIN kept \ {k} : d.traces[c.active[j].id] = c.active[j].event_ids
      BY <1>1, <1>3, <1>8 DEF Assign, Composed, Identity
    <3> QED BY <3>1, <1>4, <1>5
  <2> QED BY <2>1, <2>2, <2>3 DEF Identity
<1>11. Descent(d)
  <2>1. next_id <= d.next_id
    BY <1>6, <1>7 DEF Composed, Descent
  <2>2. ASSUME NEW j \in DOMAIN d.active, d.active[j].id < next_id
        PROVE  \E i \in DOMAIN active : active[i].id = d.active[j].id /\ MayInherit(i, j)
    <3>1. CASE j # k
      BY <2>2, <3>1, <1>3, <1>5 DEF Composed, Descent
    <3>2. CASE j = k /\ continues
      BY <2>2, <3>2, <1>2, <1>4, <1>5 DEF Composed, Descent
    <3>3. CASE j = k /\ steals
      <4>1. PICK i \in DOMAIN active : active[i].id = c.active[none].id /\ MayInherit(i, none)
        BY <2>2, <3>3, <1>2, <1>4, <1>5 DEF Composed, Descent
      <4> QED BY <4>1, <3>3, <1>4, <1>5, KeyParts DEF MayInherit, none
    <3>4. CASE j = k /\ ~continues /\ ~steals
      BY <2>2, <3>4, <1>4, <1>5, <1>6 DEF Composed, Descent
    <3> QED BY <3>1, <3>2, <3>3, <3>4
  <2> QED BY <2>1, <2>2 DEF Descent
<1>12. Progress(d, K \cup {k}, t)
  <2>1. none \notin K
    BY DEF none
  <2>2. K \cup {k} \subseteq DOMAIN d.active /\ \A j \in K : d.active[j] = c.active[j]
    BY <2>1, <1>3, <1>5 DEF Composed, Progress
  <2>3. \A j \in DOMAIN d.active : d.active[j].ts >= t - LookbackS
    BY <1>3, <1>4, <1>5, PipelineAssumption DEF Composed, Progress
  <2>4. /\ DOMAIN d.produced = 1..(Len(c.produced) + 1)
        /\ DOMAIN c.produced = 1..Len(c.produced) /\ Len(c.produced) \in Nat
        /\ d.produced[Len(c.produced) + 1] = signal
        /\ \A n \in DOMAIN c.produced : d.produced[n] = c.produced[n]
    BY <1>1, <1>4 DEF Composed, Shape
  <2>5. \A j \in K \cup {k} : d.active[j].ts = t /\ \E n \in DOMAIN d.produced : d.produced[n] = d.active[j]
    <3>1. d.active[k].ts = t /\ d.produced[Len(c.produced) + 1] = d.active[k]
      BY <2>4, <1>4, <1>5
    <3>2. \A j \in K : d.active[j].ts = t
      BY <2>2 DEF Composed, Progress
    <3>3. \A j \in K : \E n \in DOMAIN c.produced : d.produced[n] = d.active[j]
      BY <2>2, <2>4 DEF Composed, Progress
    <3>4. DOMAIN c.produced \subseteq DOMAIN d.produced /\ Len(c.produced) + 1 \in DOMAIN d.produced
      BY <2>4
    <3> QED BY <3>1, <3>2, <3>3, <3>4
  <2>6. \A n \in DOMAIN d.produced : \E j \in K \cup {k} : d.produced[n] = d.active[j]
    BY <2>2, <2>4, <1>5 DEF Composed, Progress
  <2>7. \A n \in DOMAIN c.produced : c.produced[n].id # signal.id
    <3>1. \A j \in K : j \in DOMAIN kept \ {k}
      BY <2>1, <1>3 DEF Composed, Progress
    <3> QED BY <3>1, <1>8 DEF Composed, Progress
  <2>8. \A m, n \in DOMAIN d.produced : d.produced[m].id = d.produced[n].id => m = n
    <3>1. \A m, n \in DOMAIN c.produced : c.produced[m].id = c.produced[n].id => m = n
      BY DEF Composed, Progress
    <3>2. \A n \in DOMAIN d.produced : n \in DOMAIN c.produced \/ n = Len(c.produced) + 1
      BY <2>4
    <3> QED BY <2>4, <2>7, <3>1, <3>2
  <2>9. \A j \in DOMAIN d.active \ (K \cup {k}) : j \in DOMAIN active /\ d.active[j] = active[j]
    BY <1>3, <1>5 DEF Composed, Progress
  <2>10. \A j \in DOMAIN active : KeyDirection(j) # "NONE" /\ active[j].ts >= t - LookbackS
                                    => j \in DOMAIN d.active
    BY <1>3, <1>5, KeyParts DEF Composed, Progress, none
  <2> QED BY <2>2, <2>3, <2>5, <2>6, <2>8, <2>9, <2>10 DEF Progress
<1> QED BY <1>9, <1>10, <1>11, <1>12 DEF Composed, d

-----------------------------------------------------------------------------
(* One lineage is composed *)

\* The keys composed after one more direction, which may have gained nothing.
Gained(K, k, members, batch) == IF members \cap batch = {} THEN K ELSE K \cup {k}

\* The composition of one direction.
LEMMA DirectionKeeps ==
    ASSUME NEW c, NEW K, NEW t \in Nat, Composed(c, K, t), next_id \in Nat,
           NEW k \in EpisodeKey, k \notin K, none_key(k) \notin K,
           NEW members \in SUBSET MarketEvent, NEW batch,
           \A e \in members : e.ts <= t, \A e \in members \cap batch : e.ts = t
    PROVE  Composed(compose_direction(c, k, members, batch, t), Gained(K, k, members, batch), t)
<1>1. CASE members \cap batch = {}
  BY <1>1 DEF compose_direction, Gained
<1>2. CASE members \cap batch # {}
  <2>1. Composed(compose_episode(c, k, members, t), K \cup {k}, t)
    BY <1>2, ComposeKeeps
  <2> QED BY <1>2, <2>1 DEF compose_direction, Gained
<1> QED BY <1>1, <1>2

Directions(s, lineage) == {<<s, lineage, d>> : d \in EventDirection}

\* The keys that the composition of one lineage adds.
LineageGains(c, s, lineage, all_recent, all_batch) ==
    LET recent == {e \in all_recent : lineage_of(e.type) = lineage}
        batch == {e \in all_batch : lineage_of(e.type) = lineage}
        live == {KeyDirection(k) : k \in {q \in DOMAIN c.active :
                    KeySymbol(q) = s /\ KeyLineage(q) = lineage}}
        target == resolve_none_target(batch, recent, live)
        events == events_for_partition(c, s, lineage, recent, batch, target)
    IN  {<<s, lineage, d>> : d \in {f \in EventDirection : Members(events, target, f) \cap batch # {}}}

\* The composition of one lineage: every directional event of the batch has its episode.
LEMMA LineageKeeps ==
    ASSUME NEW c, NEW K, NEW t \in Nat, Composed(c, K, t), next_id \in Nat,
           NEW s \in Symbols, NEW lineage \in Lineages, K \cap Directions(s, lineage) = {},
           NEW all_recent \in SUBSET MarketEvent, NEW all_batch \in SUBSET all_recent,
           \A e \in all_recent : e.ts <= t, \A e \in all_batch : e.ts = t
    PROVE  /\ Composed(consume_lineage(c, s, lineage, all_recent, all_batch, t),
                       K \cup LineageGains(c, s, lineage, all_recent, all_batch), t)
           /\ LineageGains(c, s, lineage, all_recent, all_batch) \subseteq Directions(s, lineage)
           /\ \A e \in all_batch : lineage_of(e.type) = lineage /\ e.direction # "NONE"
                    => <<s, lineage, e.direction>> \in LineageGains(c, s, lineage, all_recent, all_batch)
<1> DEFINE recent == {e \in all_recent : lineage_of(e.type) = lineage}
           batch == {e \in all_batch : lineage_of(e.type) = lineage}
           live == {KeyDirection(k) : k \in {q \in DOMAIN c.active :
                       KeySymbol(q) = s /\ KeyLineage(q) = lineage}}
           target == resolve_none_target(batch, recent, live)
           events == events_for_partition(c, s, lineage, recent, batch, target)
           In(d) == Members(events, target, d)
           Key(d) == <<s, lineage, d>>
           up == compose_direction(c, Key("UP"), In("UP"), batch, t)
           down == compose_direction(up, Key("DOWN"), In("DOWN"), batch, t)
           all == compose_direction(down, Key("NONE"), In("NONE"), batch, t)
<1>1. consume_lineage(c, s, lineage, all_recent, all_batch, t) = IF batch = {} THEN c ELSE all
  BY DEF consume_lineage
<1> DEFINE L == {Key(d) : d \in {f \in EventDirection : In(f) \cap batch # {}}}
<1>0. LineageGains(c, s, lineage, all_recent, all_batch) = L
  BY DEF LineageGains
<1>2. \A d \in EventDirection :
        /\ In(d) \in SUBSET MarketEvent /\ \A e \in In(d) : e.ts <= t
        /\ \A e \in In(d) \cap batch : e.ts = t
        /\ d # "NONE" => \A e \in batch : e.direction = d => e \in In(d)
  BY DEF Members, events_for_partition
<1>3. \A d \in EventDirection : /\ Key(d) \in EpisodeKey /\ Key(d) \in Directions(s, lineage)
                                /\ none_key(Key(d)) = Key("NONE") /\ Key(d) \notin K
                                /\ \A f \in EventDirection : Key(d) = Key(f) => d = f
  BY DEF EpisodeKey, Directions, EventDirection, none_key, KeySymbol, KeyLineage
<1>4. "UP" \in EventDirection /\ "DOWN" \in EventDirection /\ "NONE" \in EventDirection
      /\ "UP" # "NONE" /\ "DOWN" # "NONE" /\ "UP" # "DOWN"
  BY DEF EventDirection
<1> HIDE DEF In, Key, batch
<1> DEFINE K1 == Gained(K, Key("UP"), In("UP"), batch)
           K2 == Gained(K1, Key("DOWN"), In("DOWN"), batch)
           K3 == Gained(K2, Key("NONE"), In("NONE"), batch)
<1>5. Composed(up, K1, t)
  <2>1. /\ Key("UP") \in EpisodeKey /\ Key("UP") \notin K /\ none_key(Key("UP")) \notin K
        /\ In("UP") \in SUBSET MarketEvent /\ \A e \in In("UP") : e.ts <= t
        /\ \A e \in In("UP") \cap batch : e.ts = t
    BY <1>2, <1>3, <1>4
  <2> QED BY <2>1, DirectionKeeps
<1>6. Composed(down, K2, t)
  <2>1. /\ Key("DOWN") \in EpisodeKey /\ Key("DOWN") \notin K1 /\ none_key(Key("DOWN")) \notin K1
        /\ In("DOWN") \in SUBSET MarketEvent /\ \A e \in In("DOWN") : e.ts <= t
        /\ \A e \in In("DOWN") \cap batch : e.ts = t
    BY <1>2, <1>3, <1>4 DEF Gained
  <2> HIDE DEF up, K1
  <2> QED BY <1>5, <2>1, DirectionKeeps
<1>7. Composed(all, K3, t)
  <2>1. /\ Key("NONE") \in EpisodeKey /\ Key("NONE") \notin K2 /\ none_key(Key("NONE")) \notin K2
        /\ In("NONE") \in SUBSET MarketEvent /\ \A e \in In("NONE") : e.ts <= t
        /\ \A e \in In("NONE") \cap batch : e.ts = t
    BY <1>2, <1>3, <1>4 DEF Gained
  <2> HIDE DEF down, K2
  <2> QED BY <1>6, <2>1, DirectionKeeps
<1>8. L \in SUBSET Directions(s, lineage) /\ K3 = K \cup L
  BY <1>3 DEF Gained, EventDirection
<1>10. \A e \in batch : e.direction # "NONE" => Key(e.direction) \in L
  <2> SUFFICES ASSUME NEW e \in batch, e.direction # "NONE" PROVE Key(e.direction) \in L
    OBVIOUS
  <2>1. e.direction \in EventDirection
    BY DEF batch, MarketEvent
  <2>2. e \in In(e.direction)
    BY <2>1, <1>2
  <2> QED BY <2>1, <2>2
<1> HIDE DEF L, K3
<1>11. batch = {} => L = {}
  BY DEF L
<1>12. Composed(consume_lineage(c, s, lineage, all_recent, all_batch, t), K \cup L, t)
  <2>1. CASE batch = {}
    BY <1>1, <1>11, <2>1
  <2>2. CASE batch # {}
    BY <1>1, <1>7, <1>8, <2>2
  <2> QED BY <2>1, <2>2
<1>13. \A e \in all_batch : lineage_of(e.type) = lineage /\ e.direction # "NONE"
                            => <<s, lineage, e.direction>> \in L
  BY <1>10 DEF batch, Key
<1> QED BY <1>0, <1>8, <1>12, <1>13

-----------------------------------------------------------------------------
(* One call of process *)

\* The ids in use have been drawn from the counter.
IdsDrawn == \A k \in DOMAIN active : active[k].id < next_id

\* No event is newer than what its symbol has been processed with.
AcceptedInTime == \A s \in Symbols : \A e \in accepted[s] : e.ts <= market_ts[s]

MapsInv == TypeOK /\ IdsDrawn /\ AcceptedInTime /\ EpisodeIdsUnique /\ TracesMatchActive

\* The maps after pruning.
LEMMA PruneKeeps ==
    ASSUME MapsInv, NEW t \in Nat
    PROVE  Composed(prune_active(Composer, t), {}, t)
<1> DEFINE c == prune_active(Composer, t)
           expired == {k \in DOMAIN active : active[k].ts < t - LookbackS}
<1>1. /\ c.active = Without(active, expired)
      /\ c.traces = Without(traces, {active[k].id : k \in expired})
      /\ DOMAIN c.home \subseteq DOMAIN home /\ \A e \in DOMAIN c.home : c.home[e] = home[e]
      /\ c.next_id = next_id /\ c.produced = <<>>
  BY DEF prune_active, Composer, Without, Restrict
<1>2. /\ DOMAIN c.active = DOMAIN active \ expired
      /\ \A k \in DOMAIN c.active : c.active[k] = active[k]
  BY <1>1 DEF Without, Restrict
<1>3. /\ DOMAIN c.traces = DOMAIN traces \ {active[k].id : k \in expired}
      /\ \A i \in DOMAIN c.traces : c.traces[i] = traces[i]
  BY <1>1 DEF Without, Restrict
<1> HIDE DEF c
<1>4. Shape(c)
  <2>1. <<>> \in Seq(Signal)
    OBVIOUS
  <2>2. DOMAIN c.active \subseteq EpisodeKey
    BY <1>2 DEF MapsInv, TypeOK
  <2>3. \A k \in DOMAIN c.active : c.active[k] \in Signal /\ c.active[k].id < c.next_id
    BY <1>1, <1>2 DEF MapsInv, TypeOK, IdsDrawn
  <2>4. DOMAIN c.home \subseteq MarketEvent /\ \A e \in DOMAIN c.home : c.home[e] \in EpisodeKey
    BY <1>1 DEF MapsInv, TypeOK
  <2>5. c.next_id \in Nat
    BY <1>1 DEF MapsInv, TypeOK
  <2> QED BY <1>1, <2>1, <2>2, <2>3, <2>4, <2>5 DEF Shape
<1>5. Identity(c)
  <2>1. \A j, k \in DOMAIN c.active : c.active[j].id = c.active[k].id => j = k
    BY <1>2 DEF MapsInv, EpisodeIdsUnique
  <2>2. DOMAIN c.traces = {c.active[k].id : k \in DOMAIN c.active}
    BY <1>2, <1>3 DEF MapsInv, EpisodeIdsUnique, TracesMatchActive, ActiveIds
  <2>3. \A k \in DOMAIN c.active : c.traces[c.active[k].id] = c.active[k].event_ids
    BY <1>2, <1>3, <2>2 DEF MapsInv, TracesMatchActive
  <2> QED BY <2>1, <2>2, <2>3 DEF Identity
<1>6. Descent(c)
  <2>1. next_id <= c.next_id
    BY <1>1 DEF MapsInv, TypeOK
  <2>2. \A k \in DOMAIN c.active : k \in DOMAIN active /\ active[k].id = c.active[k].id
    BY <1>2
  <2> QED BY <2>1, <2>2 DEF Descent, MayInherit
<1>7. Progress(c, {}, t)
  <2>1. \A k \in DOMAIN c.active : c.active[k].ts >= t - LookbackS
    BY <1>2, PipelineAssumption DEF MapsInv, TypeOK, Signal
  <2>2. \A k \in DOMAIN active : active[k].ts >= t - LookbackS => k \in DOMAIN c.active
    BY <1>2, PipelineAssumption DEF MapsInv, TypeOK, Signal
  <2>3. DOMAIN c.produced = {}
    BY <1>1
  <2> QED BY <1>2, <2>1, <2>2, <2>3 DEF Progress
<1> QED BY <1>4, <1>5, <1>6, <1>7 DEF Composed, c

\* The maps after the whole batch.
LEMMA BatchKeeps ==
    ASSUME MapsInv, NEW s \in Symbols, NEW t \in Nat, market_ts[s] <= t,
           NEW batch \in SUBSET MarketEvent, \A e \in batch : e.ts = t
    PROVE  \E K : /\ Composed(consume_batch(s, batch, t), K, t)
                  /\ \A e \in batch : e.direction # "NONE" =>
                            <<s, lineage_of(e.type), e.direction>> \in K
<1> DEFINE recent == Recent(accepted[s] \cup batch, t)
           pruned == prune_active(Composer, t)
           tape == consume_lineage(pruned, s, "tape", recent, batch, t)
           vwap == consume_lineage(tape, s, "vwap", recent, batch, t)
<1>1. consume_batch(s, batch, t) = vwap
  BY DEF consume_batch
<1>2. /\ recent \in SUBSET MarketEvent /\ batch \in SUBSET recent /\ \A e \in recent : e.ts <= t
      /\ next_id \in Nat
  BY PipelineAssumption DEF Recent, MapsInv, TypeOK, AcceptedInTime, MarketEvent
<1>3. Composed(pruned, {}, t)
  BY PruneKeeps
<1>4. /\ "tape" \in Lineages /\ "vwap" \in Lineages
      /\ Directions(s, "tape") \cap Directions(s, "vwap") = {}
  BY DEF Lineages, Directions
<1> HIDE DEF recent, pruned
<1> DEFINE L == LineageGains(pruned, s, "tape", recent, batch)
           M == LineageGains(tape, s, "vwap", recent, batch)
<1>5. /\ Composed(tape, {} \cup L, t) /\ L \subseteq Directions(s, "tape")
      /\ \A e \in batch : lineage_of(e.type) = "tape" /\ e.direction # "NONE"
                                => <<s, "tape", e.direction>> \in L
  <2>1. {} \cap Directions(s, "tape") = {}
    OBVIOUS
  <2> QED BY <2>1, <1>2, <1>3, <1>4, LineageKeeps
<1>6. /\ Composed(vwap, L \cup M, t)
      /\ \A e \in batch : lineage_of(e.type) = "vwap" /\ e.direction # "NONE"
                                => <<s, "vwap", e.direction>> \in M
  <2>1. Composed(tape, L, t) /\ L \cap Directions(s, "vwap") = {}
    BY <1>4, <1>5
  <2> HIDE DEF tape, L
  <2> QED BY <1>2, <1>4, <2>1, LineageKeeps
<1>7. \A e \in batch : e.direction # "NONE" => <<s, lineage_of(e.type), e.direction>> \in L \cup M
  BY <1>5, <1>6 DEF lineage_of
<1> QED BY <1>1, <1>6, <1>7

\* The expansion rule's severity stays in range.
LEMMA ExpansionType ==
    ASSUME NEW a \in 2..5, NEW b \in 2..5
    PROVE  Min({5, Max({a, b}) + 1}) \in 2..5
<1>1. PICK m \in 2..5 : Max({a, b}) = m
  <2>1. CASE a >= b
    BY <2>1, MaxIs
  <2>2. CASE a < b
    BY <2>2, MaxIs
  <2> QED BY <2>1, <2>2
<1>2. \A S \in SUBSET Int : \A x \in S : (\A y \in S : x <= y) => Min(S) = x
  <2> SUFFICES ASSUME NEW S \in SUBSET Int, NEW x \in S, \A y \in S : x <= y
               PROVE  Min(S) = x
    OBVIOUS
  <2>1. \A z \in S : (\A y \in S : z <= y) => z = x
    OBVIOUS
  <2> QED BY <2>1 DEF Min
<1>3. CASE m + 1 <= 5
  BY <1>1, <1>2, <1>3
<1>4. CASE m + 1 > 5
  BY <1>1, <1>2, <1>4
<1> QED BY <1>3, <1>4

\* What a rule returns.
LEMMA RuleType ==
    ASSUME NEW s \in Symbols, NEW t \in Nat, NEW type \in AllEventTypes,
           NEW m \in RuleOutcomes(type, s, t)
    PROVE  \A e \in m : e \in MarketEvent /\ e.ts = t
<1>1. DirectionsOf(type) \subseteq EventDirection
  BY DEF DirectionsOf, EventDirection
<1>2. Severities \subseteq 2..5
  BY PipelineAssumption
<1> SUFFICES ASSUME NEW e \in m PROVE e \in MarketEvent /\ e.ts = t
  OBVIOUS
<1>3. PICK d \in DirectionsOf(type), v \in SeveritiesOf(type) \cap Severities :
        m = {[symbol |-> s, type |-> type, direction |-> d, severity |-> v, ts |-> t]}
  BY DEF RuleOutcomes
<1>4. e = [symbol |-> s, type |-> type, direction |-> d, severity |-> v, ts |-> t]
  BY <1>3
<1> QED BY <1>1, <1>2, <1>4 DEF MarketEvent

\* The events detected at time t are events at time t.
LEMMA EvaluateType ==
    ASSUME NEW s \in Symbols, NEW t \in Nat, NEW detected \in evaluate(s, t)
    PROVE  \A e \in detected : e \in MarketEvent /\ e.ts = t
<1>1. PICK m \in RuleOutcomes("rapid_move", s, t), v \in RuleOutcomes("volume_spike", s, t),
           h \in RuleOutcomes("day_high_breakout", s, t),
           l \in RuleOutcomes("day_low_breakdown", s, t), w \in RuleOutcomes("vwap_cross", s, t) :
        detected = m \cup v \cup h \cup l \cup w \cup PriceVolumeExpansion(m, v)
  BY DEF evaluate
<1>2. \A e \in m \cup v \cup h \cup l \cup w : e \in MarketEvent /\ e.ts = t
  <2>1. /\ "rapid_move" \in AllEventTypes /\ "volume_spike" \in AllEventTypes
        /\ "day_high_breakout" \in AllEventTypes /\ "day_low_breakdown" \in AllEventTypes
        /\ "vwap_cross" \in AllEventTypes
    BY DEF AllEventTypes
  <2> QED BY <1>1, <2>1, RuleType
<1>3. \A e \in PriceVolumeExpansion(m, v) : e \in MarketEvent /\ e.ts = t
  <2> SUFFICES ASSUME NEW e \in PriceVolumeExpansion(m, v) PROVE e \in MarketEvent /\ e.ts = t
    OBVIOUS
  <2>0. PICK a \in m, b \in v : e = Expansion(a, b)
    BY DEF PriceVolumeExpansion
  <2>1. a \in MarketEvent /\ b \in MarketEvent /\ a.ts = t
    BY <1>2
  <2>2. a.severity \in 2..5 /\ b.severity \in 2..5
    BY <2>1 DEF MarketEvent
  <2>3. Min({5, Max({a.severity, b.severity}) + 1}) \in 2..5
    BY <2>2, ExpansionType
  <2> QED BY <2>0, <2>1, <2>3 DEF Expansion, MarketEvent, AllEventTypes
<1> QED BY <1>1, <1>2, <1>3

-----------------------------------------------------------------------------
(* The invariants *)

\* The signals of one call have distinct ids, so the cooldown gate is asked about each.
LEMMA AllAsked ==
    ASSUME NEW c, NEW K, NEW t, Composed(c, K, t)
    PROVE  FirstOfEachId(c.produced) = {c.active[k] : k \in K}
<1>1. /\ \A k \in K : \E n \in DOMAIN c.produced : c.produced[n] = c.active[k]
      /\ \A n \in DOMAIN c.produced : \E k \in K : c.produced[n] = c.active[k]
  BY DEF Composed, Progress
<1>2. \A m, n \in DOMAIN c.produced : c.produced[m].id = c.produced[n].id => m = n
  BY DEF Composed, Progress
<1>3. DOMAIN c.produced = 1..Len(c.produced) /\ Len(c.produced) \in Nat
  BY DEF Composed, Shape
<1>4. \A n \in DOMAIN c.produced : \A h \in 1..(n - 1) : c.produced[h].id # c.produced[n].id
  BY <1>2, <1>3
<1>5. {j \in DOMAIN c.produced : \A h \in 1..(j - 1) : c.produced[h].id # c.produced[j].id}
        = DOMAIN c.produced
  BY <1>4
<1>6. FirstOfEachId(c.produced) = {c.produced[i] : i \in DOMAIN c.produced}
  BY <1>5 DEF FirstOfEachId
<1> QED BY <1>1, <1>6

\* What one call of process does, in terms of the composed maps.
Called(s, t, kept, c, K) ==
    /\ kept \in SUBSET MarketEvent /\ \A e \in kept : e.ts = t
    /\ t \in Nat /\ market_ts[s] <= t
    /\ Composed(c, K, t)
    /\ \A e \in kept : e.direction # "NONE" => <<s, lineage_of(e.type), e.direction>> \in K
    /\ market_ts' = [market_ts EXCEPT ![s] = t]
    /\ records' = Stored(kept)
    /\ accepted' = [accepted EXCEPT ![s] = Recent(@ \cup kept, t)]
    /\ active' = c.active
    /\ traces' = c.traces
    /\ home' = c.home
    /\ next_id' = c.next_id
    /\ \A k \in K : allow(c.active[k]) =>
            /\ c.active[k].id \in DOMAIN last_alert'
            /\ last_alert'[c.active[k].id] = [at |-> mono, priority |-> c.active[k].priority]
    /\ \A i \in DOMAIN last_alert :
            /\ i \in DOMAIN last_alert'
            /\ (\A k \in K : allow(c.active[k]) => c.active[k].id # i) => last_alert'[i] = last_alert[i]
    /\ \A i \in DOMAIN last_alert' :
            i \in DOMAIN last_alert \/ \E k \in K : allow(c.active[k]) /\ c.active[k].id = i
    /\ clustered' = clustered \cup NewlyClustered(c.produced)
    /\ mono' = mono

\* A step of the pipeline is a call of process with some accepted events and candidates.
LEMMA ProcessCalls ==
    ASSUME MapsInv, NEW s \in Symbols, Process(s)
    PROVE  \E t, kept, c, K : Called(s, t, kept, c, K)
<1>0. PICK t \in market_ts[s]..MaxMarketTs : \E detected \in evaluate(s, t) : process(s, t, detected)
  BY DEF Process
<1>1. PICK detected \in evaluate(s, t) : process(s, t, detected)
  BY <1>0
<1>2. t \in Nat /\ market_ts[s] <= t
  BY PipelineAssumption DEF MapsInv, TypeOK
<1> DEFINE kept == {e \in detected : accept(e)}
           c == consume_batch(s, kept, t)
<1>3. kept \in SUBSET MarketEvent /\ \A e \in kept : e.ts = t
  BY <1>2, EvaluateType
<1> HIDE DEF kept
<1>4. PICK K : /\ Composed(c, K, t)
               /\ \A e \in kept : e.direction # "NONE" =>
                        <<s, lineage_of(e.type), e.direction>> \in K
  BY <1>2, <1>3, BatchKeeps
<1> DEFINE alerts == {g \in FirstOfEachId(c.produced) : allow(g)}
           alerted == {g.id : g \in alerts}
<1>5. /\ market_ts' = [market_ts EXCEPT ![s] = t]
      /\ records' = Stored(kept)
      /\ accepted' = [accepted EXCEPT ![s] = Recent(@ \cup kept, t)]
      /\ active' = c.active
      /\ traces' = c.traces
      /\ home' = c.home
      /\ next_id' = c.next_id
      /\ last_alert' = [i \in DOMAIN last_alert \cup alerted |->
                          IF i \in alerted
                          THEN [at |-> mono,
                                priority |-> (CHOOSE g \in alerts : g.id = i).priority]
                          ELSE last_alert[i]]
      /\ clustered' = clustered \cup NewlyClustered(c.produced)
      /\ mono' = mono
  <2>1. publish(s, t, kept, c)
    BY <1>1 DEF process, kept
  <2> QED BY <2>1 DEF publish
<1> HIDE DEF c
<1>6. FirstOfEachId(c.produced) = {c.active[k] : k \in K}
  BY <1>4, AllAsked
<1>7. \A g \in alerts : \E k \in K : g = c.active[k] /\ allow(c.active[k])
  BY <1>6
<1>8. \A k \in K : allow(c.active[k]) => c.active[k] \in alerts
  BY <1>6
<1>9. \A g, h \in alerts : g.id = h.id => g = h
  <2>1. \A j, k \in K : c.active[j].id = c.active[k].id => j = k
    BY <1>4 DEF Composed, Identity, Progress
  <2> QED BY <2>1, <1>7
<1> HIDE DEF alerts
<1>10. \A g \in alerts : (CHOOSE h \in alerts : h.id = g.id) = g
  BY <1>9
<1>11. \A k \in K : allow(c.active[k]) =>
            /\ c.active[k].id \in DOMAIN last_alert'
            /\ last_alert'[c.active[k].id] = [at |-> mono, priority |-> c.active[k].priority]
  <2> SUFFICES ASSUME NEW k \in K, allow(c.active[k])
               PROVE  /\ c.active[k].id \in DOMAIN last_alert'
                      /\ last_alert'[c.active[k].id] = [at |-> mono, priority |-> c.active[k].priority]
    OBVIOUS
  <2>1. c.active[k] \in alerts /\ c.active[k].id \in alerted
    BY <1>8
  <2>2. (CHOOSE h \in alerts : h.id = c.active[k].id) = c.active[k]
    BY <2>1, <1>10
  <2> QED BY <1>5, <2>1, <2>2
<1>12. \A i \in alerted : \E k \in K : allow(c.active[k]) /\ c.active[k].id = i
  BY <1>7
<1> HIDE DEF alerted
<1>13. \A i \in DOMAIN last_alert :
            /\ i \in DOMAIN last_alert'
            /\ (\A k \in K : allow(c.active[k]) => c.active[k].id # i) => last_alert'[i] = last_alert[i]
  BY <1>5, <1>12
<1>14. \A i \in DOMAIN last_alert' :
            i \in DOMAIN last_alert \/ \E k \in K : allow(c.active[k]) /\ c.active[k].id = i
  BY <1>5, <1>12
<1>15. Called(s, t, kept, c, K)
  BY <1>2, <1>3, <1>4, <1>5, <1>11, <1>13, <1>14 DEF Called
<1> QED BY <1>15

\* The inductive invariant of the pipeline.
PipelineInv == MapsInv /\ AlertCoversPriority

\* A call keeps the types.
LEMMA CallTypes ==
    ASSUME PipelineInv, NEW s \in Symbols, NEW t, NEW kept, NEW c, NEW K,
           Called(s, t, kept, c, K)
    PROVE  TypeOK'
<1> USE DEF PipelineInv, MapsInv, TypeOK
<1>1. Shape(c) /\ t \in Nat /\ kept \in SUBSET MarketEvent
  BY DEF Called, Composed
<1>2. market_ts' \in [Symbols -> Nat] /\ mono' \in Nat
  BY <1>1 DEF Called
<1>3. DOMAIN records' \subseteq Symbols \X AllEventTypes \X EventDirection
  <2>1. records' = Stored(kept)
    BY DEF Called
  <2>2. \A e \in kept : dedupe_key(e) \in Symbols \X AllEventTypes \X EventDirection
    BY <1>1 DEF dedupe_key, MarketEvent
  <2>3. DOMAIN records' = DOMAIN records \cup {dedupe_key(e) : e \in kept}
    BY <2>1 DEF Stored
  <2> QED BY <2>2, <2>3
<1>4. accepted' \in [Symbols -> SUBSET MarketEvent]
  <2>1. accepted' = [accepted EXCEPT ![s] = Recent(accepted[s] \cup kept, t)]
    BY DEF Called
  <2>2. Recent(accepted[s] \cup kept, t) \in SUBSET MarketEvent
    BY <1>1 DEF Recent
  <2> QED BY <2>1, <2>2
<1>5. /\ DOMAIN active' \subseteq EpisodeKey /\ \A k \in DOMAIN active' : active'[k] \in Signal
      /\ DOMAIN home' \subseteq MarketEvent /\ \A e \in DOMAIN home' : home'[e] \in EpisodeKey
      /\ next_id' \in Nat /\ next_id <= next_id'
      /\ \A k \in DOMAIN active' : active'[k].id < next_id'
  BY <1>1 DEF Called, Shape, Composed, Descent
<1>6. DOMAIN traces' \subseteq 0..(next_id' - 1)
  BY <1>5 DEF Called, Composed, Identity, Signal
<1>7. /\ DOMAIN last_alert' \subseteq 0..(next_id' - 1)
      /\ \A i \in DOMAIN last_alert' : last_alert'[i] \in [at : Nat, priority : Priorities]
  <2>1. \A k \in K : /\ c.active[k].id \in 0..(next_id' - 1)
                     /\ [at |-> mono, priority |-> c.active[k].priority]
                            \in [at : Nat, priority : Priorities]
    <3>1. \A k \in K : k \in DOMAIN active' /\ active'[k] = c.active[k]
      BY DEF Called, Composed, Progress
    <3> QED BY <3>1, <1>5 DEF Signal
  <2>2. DOMAIN last_alert \subseteq 0..(next_id' - 1)
    BY <1>5
  <2>3. DOMAIN last_alert' \subseteq 0..(next_id' - 1)
    BY <2>1, <2>2 DEF Called
  <2> SUFFICES ASSUME NEW i \in DOMAIN last_alert'
               PROVE  last_alert'[i] \in [at : Nat, priority : Priorities]
    BY <2>3
  <2>4. CASE \E k \in K : allow(c.active[k]) /\ c.active[k].id = i
    <3>1. PICK k \in K : allow(c.active[k]) /\ c.active[k].id = i
      BY <2>4
    <3>2. last_alert'[i] = [at |-> mono, priority |-> c.active[k].priority]
      BY <3>1 DEF Called
    <3> QED BY <2>1, <3>2
  <2>5. CASE ~\E k \in K : allow(c.active[k]) /\ c.active[k].id = i
    BY <2>5 DEF Called
  <2> QED BY <2>4, <2>5
<1>8. clustered' \subseteq MarketEvent
  <2>1. \A g \in FirstOfEachId(c.produced) : g.event_ids \subseteq MarketEvent
    <3>1. \A n \in DOMAIN c.produced : c.produced[n] \in Signal
      BY <1>1 DEF Shape
    <3> QED BY <3>1 DEF FirstOfEachId, Signal
  <2> QED BY <2>1 DEF Called, NewlyClustered
<1> QED BY <1>2, <1>3, <1>4, <1>5, <1>6, <1>7, <1>8

\* A call keeps the alert history in step with the priorities shown.
LEMMA CallAlerts ==
    ASSUME PipelineInv, NEW s \in Symbols, NEW t, NEW kept, NEW c, NEW K,
           Called(s, t, kept, c, K)
    PROVE  AlertCoversPriority'
<1> SUFFICES ASSUME NEW k \in DOMAIN c.active
             PROVE  /\ c.active[k].id \in DOMAIN last_alert'
                    /\ c.active[k].priority <= last_alert'[c.active[k].id].priority
  BY DEF Called, AlertCoversPriority
<1> DEFINE i == c.active[k].id
<1>1. /\ \A j, n \in DOMAIN c.active : c.active[j].id = c.active[n].id => j = n
      /\ K \subseteq DOMAIN c.active
      /\ \A j \in DOMAIN c.active \ K : j \in DOMAIN active /\ c.active[j] = active[j]
      /\ c.active[k].priority \in 1..4
  BY DEF Called, Composed, Identity, Progress, Shape, Signal, Priorities
<1>2. CASE k \in K /\ allow(c.active[k])
  <2>1. /\ i \in DOMAIN last_alert'
        /\ last_alert'[i] = [at |-> mono, priority |-> c.active[k].priority]
    BY <1>2 DEF Called
  <2> QED BY <1>1, <2>1
<1>3. CASE ~(k \in K /\ allow(c.active[k]))
  <2>1. i \in DOMAIN last_alert /\ c.active[k].priority <= last_alert[i].priority
    <3>1. CASE k \in K
      BY <1>1, <1>3, <3>1 DEF allow, PipelineInv, MapsInv, TypeOK, Priorities
    <3>2. CASE k \notin K
      BY <1>1, <3>2 DEF PipelineInv, AlertCoversPriority
    <3> QED BY <3>1, <3>2
  <2>2. \A j \in K : allow(c.active[j]) => c.active[j].id # i
    BY <1>1, <1>3
  <2> QED BY <2>1, <2>2 DEF Called
<1> QED BY <1>2, <1>3

\* A call preserves the invariant.
LEMMA CallKeeps ==
    ASSUME PipelineInv, NEW s \in Symbols, NEW t, NEW kept, NEW c, NEW K,
           Called(s, t, kept, c, K)
    PROVE  PipelineInv'
<1>1. TypeOK'
  BY CallTypes
<1>2. AlertCoversPriority'
  BY CallAlerts
<1>3. IdsDrawn' /\ EpisodeIdsUnique' /\ TracesMatchActive'
  BY DEF Called, Composed, Shape, Identity, IdsDrawn, EpisodeIdsUnique, TracesMatchActive, ActiveIds
<1>4. AcceptedInTime'
  <2>1. ASSUME NEW u \in Symbols, NEW e \in accepted'[u] PROVE e.ts <= market_ts'[u]
    <3>1. /\ t \in Nat /\ market_ts[s] <= t /\ market_ts \in [Symbols -> Nat]
          /\ accepted \in [Symbols -> SUBSET MarketEvent] /\ \A f \in kept : f.ts = t
          /\ market_ts' = [market_ts EXCEPT ![s] = t]
          /\ accepted' = [accepted EXCEPT ![s] = Recent(accepted[s] \cup kept, t)]
      BY DEF Called, PipelineInv, MapsInv, TypeOK
    <3>2. CASE u = s
      BY <3>1, <3>2 DEF Recent, PipelineInv, MapsInv, AcceptedInTime, MarketEvent
    <3>3. CASE u # s
      BY <3>1, <3>3 DEF PipelineInv, MapsInv, AcceptedInTime
    <3> QED BY <3>2, <3>3
  <2> QED BY <2>1 DEF AcceptedInTime
<1> QED BY <1>1, <1>2, <1>3, <1>4 DEF PipelineInv, MapsInv

\* The invariant holds initially, and every step preserves it.
LEMMA PipelineInduction == (Init => PipelineInv) /\ (PipelineInv /\ [Next]_vars => PipelineInv')
<1>1. ASSUME Init PROVE PipelineInv
  BY <1>1 DEF Init, PipelineInv, MapsInv, TypeOK, IdsDrawn, AcceptedInTime, EpisodeIdsUnique,
              TracesMatchActive, AlertCoversPriority, ActiveIds
<1>2. ASSUME PipelineInv, [Next]_vars PROVE PipelineInv'
  <2>1. CASE AdvanceClock
    BY <1>2, <2>1 DEF AdvanceClock, composer_vars, PipelineInv, MapsInv, TypeOK, IdsDrawn,
                      AcceptedInTime, EpisodeIdsUnique, TracesMatchActive, AlertCoversPriority, ActiveIds
  <2>2. CASE UNCHANGED vars
    BY <1>2, <2>2 DEF vars, composer_vars, PipelineInv, MapsInv, TypeOK, IdsDrawn,
                      AcceptedInTime, EpisodeIdsUnique, TracesMatchActive, AlertCoversPriority, ActiveIds
  <2>3. ASSUME NEW s \in Symbols, Process(s) PROVE PipelineInv'
    <3>1. MapsInv
      BY <1>2 DEF PipelineInv
    <3>2. PICK t, kept, c, K : Called(s, t, kept, c, K)
      BY <2>3, <3>1, ProcessCalls
    <3> QED BY <1>2, <3>2, CallKeeps
  <2> QED BY <1>2, <2>1, <2>2, <2>3 DEF Next
<1> QED BY <1>1, <1>2

\* The invariant holds throughout.
LEMMA PipelineInvariant == Spec => []PipelineInv
BY PipelineInduction, PTL DEF Spec

\* The variables keep their types.
THEOREM TypeCorrect == Spec => []TypeOK
<1>1. PipelineInv => TypeOK
  BY DEF PipelineInv, MapsInv
<1> QED BY <1>1, PipelineInvariant, PTL

\* No two live episodes share an id, for any number of symbols and any sequence of
\* hand-overs from NONE episodes (SignalComposer._resolve_identity).
THEOREM IdsAreUnique == Spec => []EpisodeIdsUnique
<1>1. PipelineInv => EpisodeIdsUnique
  BY DEF PipelineInv, MapsInv
<1> QED BY <1>1, PipelineInvariant, PTL

\* trace_for never misses, and no trace outlives its signal (SignalComposer._traces).
THEOREM TracesMatch == Spec => []TracesMatchActive
<1>1. PipelineInv => TracesMatchActive
  BY DEF PipelineInv, MapsInv
<1> QED BY <1>1, PipelineInvariant, PTL

\* Every live episode was alerted with at least the priority it shows, whatever the
\* cooldown is (CooldownGate.allow).
THEOREM AlertsCover == Spec => []AlertCoversPriority
<1>1. PipelineInv => AlertCoversPriority
  BY DEF PipelineInv
<1> QED BY <1>1, PipelineInvariant, PTL

\* An id never moves to another episode, except from a NONE episode to a directional one
\* of its symbol and lineage, and never comes back to life (_resolve_identity).
THEOREM IdentityIsStable == Spec => IdentityStable
<1> DEFINE Moves == \A j \in DOMAIN active : \A k \in DOMAIN active' :
                        active[j].id = active'[k].id => MayInherit(j, k)
           Descends == \A k \in DOMAIN active' :
                        active'[k].id < next_id => active'[k].id \in ActiveIds
<1>1. ASSUME PipelineInv, NEW s \in Symbols, Process(s) PROVE Moves /\ Descends
  <2>1. MapsInv
    BY <1>1 DEF PipelineInv
  <2>2. PICK t, kept, c, K : Called(s, t, kept, c, K)
    BY <1>1, <2>1, ProcessCalls
  <2>3. \A k \in DOMAIN active' : active'[k].id < next_id =>
            \E j \in DOMAIN active : active[j].id = active'[k].id /\ MayInherit(j, k)
    BY <2>2 DEF Called, Composed, Descent
  <2>4. Descends
    BY <2>3 DEF ActiveIds
  <2>5. Moves
    <3> SUFFICES ASSUME NEW j \in DOMAIN active, NEW k \in DOMAIN active',
                        active[j].id = active'[k].id
                 PROVE  MayInherit(j, k)
      OBVIOUS
    <3>1. active'[k].id < next_id
      BY <2>1 DEF MapsInv, IdsDrawn
    <3>2. PICK i \in DOMAIN active : active[i].id = active'[k].id /\ MayInherit(i, k)
      BY <2>3, <3>1
    <3>3. i = j
      BY <2>1, <3>2 DEF MapsInv, EpisodeIdsUnique
    <3> QED BY <3>2, <3>3
  <2> QED BY <2>4, <2>5
<1>2. ASSUME PipelineInv, AdvanceClock PROVE Moves /\ Descends
  BY <1>2 DEF AdvanceClock, composer_vars, PipelineInv, MapsInv, EpisodeIdsUnique, ActiveIds, MayInherit
<1>3. ASSUME PipelineInv, [Next]_vars PROVE [Moves /\ Descends]_vars
  BY <1>1, <1>2, <1>3 DEF Next
<1>4. ASSUME PipelineInv, [Next]_vars
      PROVE  [/\ \A j \in DOMAIN active : \A k \in DOMAIN active' :
                    active[j].id = active'[k].id =>
                        \/ j = k
                        \/ /\ KeyDirection(j) = "NONE"
                           /\ KeySymbol(j) = KeySymbol(k)
                           /\ KeyLineage(j) = KeyLineage(k)
              /\ \A k \in DOMAIN active' :
                    active'[k].id < next_id => active'[k].id \in ActiveIds]_vars
  BY <1>3, <1>4 DEF MayInherit
<1> QED BY <1>4, PipelineInvariant, PTL DEF Spec, IdentityStable

\* With a single symbol, an episode stays live as long as one of its events is inside the
\* look-back (docstring of SignalComposer).  The hypothesis is needed: the run lookback
\* refutes the property for two symbols, as _prune_active drops the episodes of both.
THEOREM OneSymbolKeepsEpisodes ==
    ASSUME \A s, u \in Symbols : s = u
    PROVE  Spec => []RecentEventHasEpisode
<1>1. Init => RecentEventHasEpisode
  BY DEF Init, RecentEventHasEpisode
<1>2. ASSUME PipelineInv, RecentEventHasEpisode, NEW s \in Symbols, Process(s)
      PROVE  RecentEventHasEpisode'
  <2>1. MapsInv
    BY <1>2 DEF PipelineInv
  <2>2. PICK t, kept, c, K : Called(s, t, kept, c, K)
    BY <1>2, <2>1, ProcessCalls
  <2> SUFFICES ASSUME NEW e \in accepted'[s], e.direction # "NONE"
               PROVE  LET k == <<s, lineage_of(e.type), e.direction>>
                      IN  k \in DOMAIN active' /\ active'[k].ts >= e.ts
    BY DEF RecentEventHasEpisode
  <2> DEFINE k == <<s, lineage_of(e.type), e.direction>>
  <2>3. /\ e \in accepted[s] \cup kept /\ e.ts >= t - LookbackS
        /\ active' = c.active
    BY <2>1, <2>2 DEF Called, Recent, MapsInv, TypeOK
  <2>4. e \in MarketEvent /\ e.ts <= t /\ t \in Nat /\ e.ts \in Nat
    BY <2>1, <2>2, <2>3 DEF Called, MapsInv, TypeOK, AcceptedInTime, MarketEvent
  <2>5. \A j \in K : j \in DOMAIN c.active /\ c.active[j].ts = t
    BY <2>2 DEF Called, Composed, Progress
  <2>6. CASE e \in kept
    <3>1. k \in K
      BY <2>2, <2>6 DEF Called
    <3> QED BY <2>3, <2>4, <2>5, <3>1
  <2>7. CASE e \in accepted[s]
    <3>1. k \in DOMAIN active /\ active[k].ts >= e.ts
      BY <1>2, <2>7 DEF RecentEventHasEpisode
    <3>2. active[k].ts \in Nat /\ KeyDirection(k) # "NONE"
      BY <2>1, <3>1 DEF MapsInv, TypeOK, Signal, KeyDirection
    <3>3. active[k].ts >= t - LookbackS
      BY <2>3, <2>4, <3>1, <3>2, PipelineAssumption
    <3> HIDE DEF k
    <3>4. k \in DOMAIN c.active /\ (k \notin K => c.active[k] = active[k])
      BY <2>2, <3>1, <3>2, <3>3 DEF Called, Composed, Progress
    <3>5. k \in DOMAIN active' /\ active'[k].ts >= e.ts
      BY <2>3, <2>4, <2>5, <3>1, <3>4
    <3> QED BY <3>5 DEF k
  <2> QED BY <2>3, <2>6, <2>7
<1>3. ASSUME PipelineInv, RecentEventHasEpisode, [Next]_vars PROVE RecentEventHasEpisode'
  <2>1. CASE AdvanceClock
    BY <1>3, <2>1 DEF AdvanceClock, composer_vars, RecentEventHasEpisode
  <2>2. CASE UNCHANGED vars
    BY <1>3, <2>2 DEF vars, composer_vars, RecentEventHasEpisode
  <2> QED BY <1>2, <1>3, <2>1, <2>2 DEF Next
<1> QED BY <1>1, <1>3, PipelineInvariant, PTL DEF Spec
=============================================================================
