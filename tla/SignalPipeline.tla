---------------------------- MODULE SignalPipeline ----------------------------
(***************************************************************************)
(* The deterministic signal path of MarketSentinel (signals/): the rules   *)
(* detect events, the deduper drops repeats, the composer folds accepted   *)
(* events into signal episodes, the cooldown gate decides which produced   *)
(* signals become alerts.  One Process step is one whole call of           *)
(* SignalPipeline.process for one symbol.                                  *)
(*                                                                         *)
(* Times are integers.  Market time is carried by the data and advances    *)
(* per symbol (the engine rejects older snapshots); the cooldown reads the *)
(* monotonic clock, which is independent of market time.                   *)
(*                                                                         *)
(* An event is identified with its contents: the deduper never accepts the *)
(* same symbol, type and direction twice with equal timestamp and          *)
(* severity, so accepted events with equal contents are the same event and *)
(* its uuid carries no further information.  A signal id is drawn from a   *)
(* counter, as uuid4 is only used for being fresh.                         *)
(***************************************************************************)
EXTENDS Integers, Sequences, FiniteSets, FiniteSetsExt, Functions

CONSTANTS
    Symbols,      \* symbols the engine may process
    EventTypes,   \* event types the rules can emit in this instance
    Severities,   \* severities the rules can emit in this instance
    LookbackS,    \* CLUSTER_LOOKBACK_S
    TtlShortS,    \* TTL_SHORT_S
    TtlLongS,     \* TTL_LONG_S
    CooldownS,    \* DEFAULT_COOLDOWN_S
    MaxMarketTs,  \* bound on market time
    MaxMono       \* bound on the monotonic clock

AllEventTypes == {"rapid_move", "volume_spike", "price_volume_expansion",
                  "day_high_breakout", "day_low_breakdown", "vwap_cross"}

ASSUME PipelineAssumption ==
    /\ EventTypes \subseteq AllEventTypes
    /\ Severities \subseteq 2..5
    /\ LookbackS \in Nat /\ TtlShortS \in Nat /\ TtlLongS \in Nat
    /\ CooldownS \in Nat /\ MaxMarketTs \in Nat /\ MaxMono \in Nat

VARIABLES
    market_ts,  \* newest market timestamp processed, per symbol
    mono,       \* Clock.monotonic_time
    records,    \* EventDeduper._records: dedupe key -> [ts, severity, ttl]
    accepted,   \* SignalComposer._accepted, per symbol
    active,     \* SignalComposer._active: episode key -> signal
    traces,     \* SignalComposer._traces: signal id -> member events
    home,       \* SignalComposer._home: event -> episode key
    next_id,    \* ids allocated so far (uuid4 in _resolve_identity)
    last_alert, \* CooldownGate._last: signal id -> [at, priority]
    clustered   \* ClusterMembershipTracker._clustered

composer_vars == <<accepted, active, traces, home, next_id>>
vars == <<market_ts, mono, records, composer_vars, last_alert, clustered>>

-----------------------------------------------------------------------------
(* Events and rules *)

EventDirection == {"UP", "DOWN", "NONE"}
Lineages == {"tape", "vwap"}
MarketEvent == [symbol : Symbols, type : AllEventTypes,
                direction : EventDirection, severity : 2..5, ts : Nat]

lineage_of(type) == IF type = "vwap_cross" THEN "vwap" ELSE "tape"

\* The direction each rule gives its event.
DirectionsOf(type) ==
    CASE type = "day_high_breakout" -> {"UP"}
      [] type = "day_low_breakdown" -> {"DOWN"}
      [] type = "volume_spike"      -> {"NONE"}
      [] OTHER                      -> {"UP", "DOWN"}

\* The severities each rule can compute.
SeveritiesOf(type) ==
    CASE type \in {"day_high_breakout", "day_low_breakdown"} -> 3..5
      [] type = "vwap_cross"                                 -> 2..3
      [] OTHER                                               -> 2..5

ttl_s(type) == IF type \in {"volume_spike", "price_volume_expansion"}
               THEN TtlLongS ELSE TtlShortS

\* What one rule returns for one pair of features: nothing or one event.
RuleOutcomes(type, s, t) ==
    {{}} \cup (IF type \in EventTypes
               THEN {{[symbol |-> s, type |-> type, direction |-> d,
                       severity |-> v, ts |-> t]} :
                        d \in DirectionsOf(type),
                        v \in SeveritiesOf(type) \cap Severities}
               ELSE {})

\* The expansion of a move and a volume event: the move's direction, and one more
\* than the larger severity.
Expansion(m, v) ==
    [m EXCEPT !.type = "price_volume_expansion",
              !.severity = Min({5, Max({m.severity, v.severity}) + 1})]

\* The expansion rule fires exactly when both the move rule and the volume rule do.
PriceVolumeExpansion(moves, volumes) ==
    {Expansion(m, v) : m \in moves, v \in volumes}

\* EventDetector.evaluate: all rules, over the features of symbol s at t.
evaluate(s, t) ==
    {m \cup v \cup h \cup l \cup w \cup PriceVolumeExpansion(m, v) :
        m \in RuleOutcomes("rapid_move", s, t),
        v \in RuleOutcomes("volume_spike", s, t),
        h \in RuleOutcomes("day_high_breakout", s, t),
        l \in RuleOutcomes("day_low_breakdown", s, t),
        w \in RuleOutcomes("vwap_cross", s, t)}

-----------------------------------------------------------------------------
(* EventDeduper *)

dedupe_key(e) == <<e.symbol, e.type, e.direction>>

\* EventDeduper.accept: is the event kept?
accept(e) ==
    LET key == dedupe_key(e)
        elapsed == e.ts - records[key].ts
    IN  \/ key \notin DOMAIN records
        \/ /\ elapsed >= 0
           /\ elapsed < records[key].ttl => e.severity > records[key].severity

Record(e) == [ts |-> e.ts, severity |-> e.severity, ttl |-> ttl_s(e.type)]

\* The events of one evaluation have distinct types, hence distinct keys: the
\* order in which the deduper sees them does not matter.
Stored(batch) ==
    LET keys == {dedupe_key(e) : e \in batch}
    IN  [k \in DOMAIN records \cup keys |->
            IF k \in keys
            THEN Record(CHOOSE e \in batch : dedupe_key(e) = k)
            ELSE records[k]]

-----------------------------------------------------------------------------
(* Priorities: 1 INFO, 2 NOTICE, 3 IMPORTANT, 4 CRITICAL *)

Priorities == 1..4

priority_from_severity(severity) ==
    CASE severity >= 5 -> 4
      [] severity = 4  -> 3
      [] severity = 3  -> 2
      [] OTHER         -> 1

SignalFamily == {"price_volume", "breakout", "breakdown", "volume", "move", "vwap"}

classify_family(members) ==
    LET types == {e.type : e \in members}
        has_vol == types \cap {"volume_spike", "price_volume_expansion"} # {}
        has_move == types \cap {"rapid_move", "price_volume_expansion"} # {}
    IN  CASE has_vol /\ has_move             -> "price_volume"
          [] "day_high_breakout" \in types   -> "breakout"
          [] "day_low_breakdown" \in types   -> "breakdown"
          [] has_vol                         -> "volume"
          [] has_move                        -> "move"
          [] OTHER                           -> "vwap"

compose_priority(members) ==
    LET base == priority_from_severity(Max({e.severity : e \in members}))
        family == classify_family(members)
    IN  CASE family = "price_volume" -> Max({base, 3})
          [] family = "volume"       -> Max({base, 2})
          [] OTHER                   -> base

-----------------------------------------------------------------------------
(* SignalComposer.  The operators thread its maps through one record c with *)
(* fields active, traces, home, next_id, stolen (lineages whose NONE signal *)
(* was taken over in this call) and produced (signals composed, in order).  *)

EpisodeKey == Symbols \X Lineages \X EventDirection
KeySymbol(k) == k[1]
KeyLineage(k) == k[2]
KeyDirection(k) == k[3]

Signal == [id : Nat, event_ids : SUBSET MarketEvent, family : SignalFamily,
           priority : Priorities, ts : Nat]

\* f with every element of S mapped to v.
Assign(f, S, v) == [x \in DOMAIN f \cup S |-> IF x \in S THEN v ELSE f[x]]
Without(f, S) == Restrict(f, DOMAIN f \ S)

\* Faulty variant: an episode exactly as old as the look-back has expired.
PruneAtBoundary(c, now_ts) ==
    LET expired == {k \in DOMAIN c.active : c.active[k].ts <= now_ts - LookbackS}
    IN  [c EXCEPT !.active = Without(@, expired),
                  !.traces = Without(@, {c.active[k].id : k \in expired})]

\* Faulty variant: the traces of expired episodes stay.
PruneLeaksTraces(c, now_ts) ==
    LET expired == {k \in DOMAIN c.active : c.active[k].ts < now_ts - LookbackS}
    IN  [c EXCEPT !.active = Without(@, expired)]

\* SignalComposer._prune_active: it drops the expired signals of EVERY symbol,
\* and the home of a member only while that still names the expired episode.
prune_active(c, now_ts) ==
    LET expired == {k \in DOMAIN c.active : c.active[k].ts < now_ts - LookbackS}
    IN  [c EXCEPT
           !.active = Without(@, expired),
           !.traces = Without(@, {c.active[k].id : k \in expired}),
           !.home   = Without(@, {e \in DOMAIN c.home :
                                    /\ c.home[e] \in expired
                                    /\ e \in c.active[c.home[e]].event_ids})]

Directional(events) == {e.direction : e \in events} \ {"NONE"}

\* The one episode that the NONE events of this batch join.
resolve_none_target(batch, recent, live) ==
    LET batch_dirs == Directional(batch)
        candidates == Directional(recent) \cup (live \ {"NONE"})
    IN  CASE Cardinality(batch_dirs) = 1 -> CHOOSE d \in batch_dirs : TRUE
          [] Cardinality(batch_dirs) > 1 -> "NONE"
          [] OTHER -> IF Cardinality(candidates) = 1
                      THEN CHOOSE d \in candidates : TRUE ELSE "NONE"

\* SignalComposer._events_for_partition
events_for_partition(c, s, lineage, recent, batch, none_target) ==
    {e \in recent :
        \/ e.direction # "NONE"
        \/ e \notin DOMAIN c.home /\ e \in batch
        \/ /\ e \in DOMAIN c.home
           /\ c.home[e] \in {<<s, lineage, none_target>>, <<s, lineage, "NONE">>}}

\* partition_lineage_episodes, restricted to one direction: a NONE event goes
\* to none_target, any other event to the episode of its own direction.
Members(events, none_target, direction) ==
    {e \in events : direction = IF e.direction = "NONE"
                                THEN none_target ELSE e.direction}

\* The active signal of key k, if any, is still inside the look-back.
Continues(c, k, now_ts) ==
    k \in DOMAIN c.active /\ c.active[k].ts >= now_ts - LookbackS

\* Faulty variant: a direction may take over the opposite one's signal.
OppositeKey(k) == <<KeySymbol(k), KeyLineage(k),
                    IF KeyDirection(k) = "UP" THEN "DOWN" ELSE "UP">>

\* The NONE episode that episode k may take over.
none_key(k) == <<KeySymbol(k), KeyLineage(k), "NONE">>

\* Faulty variant: the signal taken over stays active under its old key.
KeepTakenOver(c, k) == c.active

\* The active signals once the one under key k has been taken over.
release_key(c, k) == Without(c.active, {k})

\* A directional episode that does not continue takes over the live NONE signal of
\* its lineage, which only one episode of a call may do.
Steals(c, k, now_ts) ==
    /\ ~Continues(c, k, now_ts)
    /\ KeyDirection(k) # "NONE"
    /\ KeyLineage(k) \notin c.stolen
    /\ Continues(c, none_key(k), now_ts)

\* SignalComposer._resolve_identity: the episode keeps its id, takes one over, or
\* draws a fresh one.
resolve_identity(c, k, now_ts) ==
    IF Continues(c, k, now_ts) THEN c.active[k].id
    ELSE IF Steals(c, k, now_ts) THEN c.active[none_key(k)].id
    ELSE c.next_id

\* The Signal of an episode.
signal_of(c, k, members, now_ts) ==
    [id |-> resolve_identity(c, k, now_ts),
     event_ids |-> members,
     family |-> classify_family(members),
     priority |-> compose_priority(members),
     ts |-> Max({e.ts : e \in members})]

\* SignalComposer._compose_episode
compose_episode(c, k, members, now_ts) ==
    LET signal == signal_of(c, k, members, now_ts)
        steals == Steals(c, k, now_ts)
        kept == IF steals THEN release_key(c, none_key(k)) ELSE c.active
        rehomed == IF steals THEN c.active[none_key(k)].event_ids ELSE {}
        fresh == ~steals /\ ~Continues(c, k, now_ts)
    IN  [active   |-> Assign(kept, {k}, signal),
         traces   |-> Assign(c.traces, {signal.id}, members),
         home     |-> Assign(c.home, rehomed \cup members, k),
         next_id  |-> IF fresh THEN c.next_id + 1 ELSE c.next_id,
         stolen   |-> IF steals THEN c.stolen \cup {KeyLineage(k)} ELSE c.stolen,
         produced |-> Append(c.produced, signal)]

\* One direction: its members are composed if they gained an event of the batch.
compose_direction(c, k, members, batch, now_ts) ==
    IF members \cap batch = {} THEN c ELSE compose_episode(c, k, members, now_ts)

\* One lineage of SignalComposer._consume_symbol: the directions are composed
\* in the order UP, DOWN, NONE.
consume_lineage(c, s, lineage, all_recent, all_batch, now_ts) ==
    LET recent == {e \in all_recent : lineage_of(e.type) = lineage}
        batch == {e \in all_batch : lineage_of(e.type) = lineage}
        live == {KeyDirection(k) : k \in {q \in DOMAIN c.active :
                    KeySymbol(q) = s /\ KeyLineage(q) = lineage}}
        none_target == resolve_none_target(batch, recent, live)
        events == events_for_partition(c, s, lineage, recent, batch, none_target)
        Compose(cc, d) == compose_direction(cc, <<s, lineage, d>>,
                                            Members(events, none_target, d), batch, now_ts)
    IN  IF batch = {} THEN c
        ELSE Compose(Compose(Compose(c, "UP"), "DOWN"), "NONE")

Recent(events, now_ts) == {e \in events : e.ts >= now_ts - LookbackS}

Composer == [active |-> active, traces |-> traces, home |-> home,
             next_id |-> next_id, stolen |-> {}, produced |-> <<>>]

\* SignalComposer.consume_batch for a non-empty batch of symbol s at now_ts,
\* SignalComposer.prune when nothing was accepted.
consume_batch(s, batch, now_ts) ==
    LET recent == Recent(accepted[s] \cup batch, now_ts)
        pruned == prune_active(Composer, now_ts)
        tape == consume_lineage(pruned, s, "tape", recent, batch, now_ts)
    IN  consume_lineage(tape, s, "vwap", recent, batch, now_ts)

-----------------------------------------------------------------------------
(* CooldownGate and ClusterMembershipTracker *)

\* Faulty variant: a rising priority waits for the cooldown too.
AllowIgnoresPriority(signal) ==
    \/ signal.id \notin DOMAIN last_alert
    \/ mono - last_alert[signal.id].at >= CooldownS

\* CooldownGate.allow
allow(signal) ==
    \/ signal.id \notin DOMAIN last_alert
    \/ mono - last_alert[signal.id].at >= CooldownS
    \/ signal.priority > last_alert[signal.id].priority

\* The produced signals the cooldown gate is asked about: a second signal of
\* the same id in one call is suppressed before it (SAME_TICK_DUPLICATE).
FirstOfEachId(produced) ==
    {produced[i] : i \in {j \in DOMAIN produced :
        \A h \in 1..(j - 1) : produced[h].id # produced[j].id}}

\* ClusterMembershipTracker.newly_clustered over the produced signals.
NewlyClustered(produced) ==
    UNION {g.event_ids : g \in {p \in FirstOfEachId(produced) :
                                    Cardinality(p.event_ids) >= 2}}

-----------------------------------------------------------------------------

Init ==
    /\ market_ts = [s \in Symbols |-> 0]
    /\ mono = 0
    /\ records = <<>>
    /\ accepted = [s \in Symbols |-> {}]
    /\ active = <<>>
    /\ traces = <<>>
    /\ home = <<>>
    /\ next_id = 0
    /\ last_alert = <<>>
    /\ clustered = {}

\* The effects of a call that kept the events kept and composed the maps c: every
\* signal composed is offered to the cooldown gate.
publish(s, t, kept, c) ==
    LET alerts == {g \in FirstOfEachId(c.produced) : allow(g)}
        alerted == {g.id : g \in alerts}
    IN  /\ market_ts' = [market_ts EXCEPT ![s] = t]
        /\ records' = Stored(kept)
        /\ accepted' = [accepted EXCEPT ![s] = Recent(@ \cup kept, t)]
        /\ active' = c.active
        /\ traces' = c.traces
        /\ home' = c.home
        /\ next_id' = c.next_id
        /\ last_alert' = [i \in DOMAIN last_alert \cup alerted |->
                            IF i \in alerted
                            THEN [at |-> mono,
                                  priority |-> (CHOOSE g \in alerts : g.id = i).priority]
                            ELSE last_alert[i]]
        /\ clustered' = clustered \cup NewlyClustered(c.produced)
        /\ UNCHANGED mono

\* SignalPipeline.process for symbol s with features at market time t whose
\* rules returned the events detected.
process(s, t, detected) ==
    \E kept \in {{e \in detected : accept(e)}} :
        \E c \in {consume_batch(s, kept, t)} : publish(s, t, kept, c)

Process(s) ==
    \E t \in market_ts[s]..MaxMarketTs :
        \E detected \in evaluate(s, t) : process(s, t, detected)

\* The monotonic clock moves between two calls.
AdvanceClock ==
    /\ mono < MaxMono
    /\ mono' = mono + 1
    /\ UNCHANGED <<market_ts, records, composer_vars, last_alert, clustered>>

Next == AdvanceClock \/ \E s \in Symbols : Process(s)

Spec == Init /\ [][Next]_vars

-----------------------------------------------------------------------------
(* Properties *)

ActiveIds == {active[k].id : k \in DOMAIN active}

TypeOK ==
    /\ market_ts \in [Symbols -> Nat]
    /\ mono \in Nat
    /\ DOMAIN records \subseteq Symbols \X AllEventTypes \X EventDirection
    /\ accepted \in [Symbols -> SUBSET MarketEvent]
    /\ DOMAIN active \subseteq EpisodeKey
    /\ \A k \in DOMAIN active : active[k] \in Signal
    /\ DOMAIN home \subseteq MarketEvent
    /\ \A e \in DOMAIN home : home[e] \in EpisodeKey
    /\ next_id \in Nat
    /\ DOMAIN traces \subseteq 0..(next_id - 1)
    /\ DOMAIN last_alert \subseteq 0..(next_id - 1)
    /\ \A i \in DOMAIN last_alert :
            last_alert[i] \in [at : Nat, priority : Priorities]
    /\ clustered \subseteq MarketEvent

\* An id names one episode: no two live episodes share it, although a NONE
\* episode hands its id over to a directional one (_resolve_identity).
EpisodeIdsUnique ==
    \A j, k \in DOMAIN active : active[j].id = active[k].id => j = k

\* Every live signal has its trace with the same members, and no trace outlives
\* its signal: trace_for indexes _traces, so a missing one would abort process.
TracesMatchActive ==
    /\ DOMAIN traces = ActiveIds
    /\ \A k \in DOMAIN active : traces[active[k].id] = active[k].event_ids

\* The alert history covers what is shown: every live episode was alerted, with
\* a priority at least the one it shows now.  An episode whose priority rises
\* is alerted in the same call, whatever the cooldown says.
AlertCoversPriority ==
    \A k \in DOMAIN active :
        /\ active[k].id \in DOMAIN last_alert
        /\ active[k].priority <= last_alert[active[k].id].priority

\* A NONE event is never a member of both the UP and the DOWN episode of its
\* lineage, however often the episodes are recomposed.
NoneNotInBothDirections ==
    \A j, k \in DOMAIN active :
        /\ KeyDirection(j) = "UP" /\ KeyDirection(k) = "DOWN"
        => active[j].event_ids \cap active[k].event_ids = {}

\* While an accepted directional event is inside the look-back of its own
\* symbol, the episode it belongs to is live: an id is one look-back-continuous
\* directional episode (docstring of SignalComposer).
RecentEventHasEpisode ==
    \A s \in Symbols : \A e \in accepted[s] :
        e.direction # "NONE" =>
            LET k == <<s, lineage_of(e.type), e.direction>>
            IN  k \in DOMAIN active /\ active[k].ts >= e.ts

\* An id stays with its episode: from one step to the next it keeps its key or
\* moves from the NONE episode to a directional one of the same symbol and
\* lineage, and an id that is given up is never live again.
IdentityStable ==
    [][/\ \A j \in DOMAIN active : \A k \in DOMAIN active' :
            active[j].id = active'[k].id =>
                \/ j = k
                \/ /\ KeyDirection(j) = "NONE"
                   /\ KeySymbol(j) = KeySymbol(k)
                   /\ KeyLineage(j) = KeyLineage(k)
       /\ \A k \in DOMAIN active' :
            active'[k].id < next_id => active'[k].id \in ActiveIds]_vars
=============================================================================
