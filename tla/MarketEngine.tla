----------------------------- MODULE MarketEngine -----------------------------
(***************************************************************************)
(* The engine tick (runtime/engine.py) with the components it drives: the  *)
(* watchlist, the adaptive scheduler, the feed health tracker, the quote   *)
(* buffers, the warming policy and the state store that hosts read.        *)
(*                                                                         *)
(* A tick that has symbols due awaits the provider; everything before and  *)
(* after that await is one step.  The clock can move during the await, the *)
(* watchlist cannot change (daemon commands and ticks share one lock).     *)
(*                                                                         *)
(* A monotonic timestamp is kept as its age, clock.monotonic_time() minus  *)
(* the timestamp.  Ages stop growing at AgeCap, which no threshold exceeds, *)
(* so a capped age behaves as any larger one; a fetch or a level change    *)
(* that never happened behaves as a very old one.                          *)
(***************************************************************************)
EXTENDS Integers, FiniteSets

CONSTANTS
    Symbols,             \* symbols a host may watch
    Limit,               \* watchlist limit
    ColdS, WarmS, HotS,  \* SchedulerPolicy: fetch intervals
    UpgradeDwellS, HotDowngradeDwellS, WarmDowngradeDwellS,
    StaleS, DisconnectS, \* HealthPolicy: ages
    DisconnectFailures,  \* HealthPolicy.disconnect_failures
    Requests,            \* levels the warming policy asks for in this instance
    Latencies,           \* may a quote arrive with at least delayed_s latency?
    AgeCap,              \* bound on ages
    MaxTs                \* bound on market timestamps

Levels == {"COLD", "WARM", "HOT"}
FeedStatus == {"LIVE", "DELAYED", "STALE", "DISCONNECTED"}

ASSUME EngineAssumption ==
    /\ Limit \in Nat /\ MaxTs \in Nat
    /\ AgeCap \in Nat /\ DisconnectFailures \in Nat \ {0}
    /\ \A d \in {ColdS, WarmS, HotS, HotDowngradeDwellS, WarmDowngradeDwellS,
                 StaleS, DisconnectS} : d \in 1..AgeCap
    /\ UpgradeDwellS \in 0..AgeCap
    /\ StaleS <= DisconnectS
    /\ Requests \subseteq Levels /\ Latencies \subseteq BOOLEAN

VARIABLES
    watch,      \* Watchlist._items: "absent", "enabled" or "disabled"
    sched,      \* AdaptiveScheduler: level and ages of last change and fetch
    health,     \* FeedHealthTracker._symbols
    newest,     \* market timestamp of the newest buffered quote, 0 if none
    processed,  \* market timestamp SignalPipeline.process last ran with
    state,      \* MarketStateStore: what a host is shown of the symbol
    tick,       \* the tick in progress: its enabled and due symbols
    exhausted,  \* source_exhausted: the replay has no more ticks
    quote_age,  \* age of the newest accepted quote (history)
    down_age    \* age of the last level downgrade (history)

vars == <<watch, sched, health, newest, processed, state, tick, exhausted,
          quote_age, down_age>>

Never == -1
Age == 0..AgeCap
Older(a) == IF a = Never \/ a = AgeCap THEN a ELSE a + 1

NoTick == [stage |-> "idle"]
Enabled == {s \in Symbols : watch[s] = "enabled"}

-----------------------------------------------------------------------------
(* FeedHealthTracker *)

\* FeedHealthTracker.observe with a snapshot, and with an error.
observe_quote(late) == [success_age |-> 0, failures |-> 0, late |-> late]

\* The failure count stops at the threshold that is the only thing it is
\* compared with.
observe_error(h) ==
    [h EXCEPT !.failures = IF @ < DisconnectFailures THEN @ + 1 ELSE @]

\* Faulty variant: the end of the source refreshes failing symbols as well.
KeepAliveHidesFailures(h) ==
    IF h.success_age = Never THEN h ELSE [h EXCEPT !.success_age = 0]

keep_alive(h) ==
    IF h.success_age = Never \/ h.failures > 0 THEN h
    ELSE [h EXCEPT !.success_age = 0]

\* FeedHealthTracker._compute
status_of(h) ==
    CASE h.success_age = Never ->
            IF h.failures \in 1..(DisconnectFailures - 1) THEN "STALE" ELSE "DISCONNECTED"
      [] h.success_age # Never /\ (\/ h.failures >= DisconnectFailures
                                   \/ h.success_age >= DisconnectS) -> "DISCONNECTED"
      [] OTHER -> IF h.success_age >= StaleS THEN "STALE"
                  ELSE IF h.late THEN "DELAYED" ELSE "LIVE"

-----------------------------------------------------------------------------
(* AdaptiveScheduler *)

Rank(l) == CASE l = "COLD" -> 0 [] l = "WARM" -> 1 [] OTHER -> 2

interval(l) == CASE l = "HOT" -> HotS [] l = "WARM" -> WarmS [] OTHER -> ColdS

required_dwell(current, target) ==
    IF Rank(target) > Rank(current) THEN UpgradeDwellS
    ELSE IF current = "HOT" THEN HotDowngradeDwellS ELSE WarmDowngradeDwellS

\* Faulty variant: the time of the change is not recorded.
SetLevelForgetsChange(c, l) ==
    IF l = c.level \/ c.change_age < required_dwell(c.level, l) THEN c
    ELSE [c EXCEPT !.level = l]

set_level(c, l) ==
    IF l = c.level \/ c.change_age < required_dwell(c.level, l) THEN c
    ELSE [level |-> l, change_age |-> 0, fetch_age |-> c.fetch_age]

\* Faulty variant: a symbol is due at its interval exactly.
DueExactly(enabled) ==
    {s \in enabled : sched[s].fetch_age = interval(sched[s].level)}

due_symbols(enabled) ==
    {s \in enabled : sched[s].fetch_age >= interval(sched[s].level)}

mark_fetched(c) == [c EXCEPT !.fetch_age = 0]

-----------------------------------------------------------------------------

Init ==
    /\ watch \in [Symbols -> {"absent", "enabled", "disabled"}]
    /\ Cardinality({s \in Symbols : watch[s] # "absent"}) <= Limit
    /\ sched = [s \in Symbols |->
                    [level |-> "COLD", change_age |-> AgeCap, fetch_age |-> AgeCap]]
    /\ health = [s \in Symbols |->
                    [success_age |-> Never, failures |-> 0, late |-> FALSE]]
    /\ newest = [s \in Symbols |-> 0]
    /\ processed = [s \in Symbols |-> 0]
    /\ state = [s \in Symbols |->
                    [ts |-> 0, level |-> "COLD", status |-> "DISCONNECTED"]]
    /\ tick = NoTick
    /\ exhausted \in BOOLEAN
    /\ quote_age = [s \in Symbols |-> Never]
    /\ down_age = [s \in Symbols |-> AgeCap]

\* Watchlist.replace; add, remove, enable and disable are special cases of it.
replace(items) ==
    /\ tick = NoTick
    /\ Cardinality({s \in Symbols : items[s] # "absent"}) <= Limit
    /\ watch' = items
    /\ UNCHANGED <<sched, health, newest, processed, state, tick, exhausted,
                   quote_age, down_age>>

AdvanceClock ==
    /\ sched' = [s \in Symbols |-> [sched[s] EXCEPT !.change_age = Older(@),
                                                    !.fetch_age = Older(@)]]
    /\ health' = [s \in Symbols |-> [health[s] EXCEPT !.success_age = Older(@)]]
    /\ quote_age' = [s \in Symbols |-> Older(quote_age[s])]
    /\ down_age' = [s \in Symbols |-> Older(down_age[s])]
    /\ UNCHANGED <<watch, newest, processed, state, tick, exhausted>>

\* _project_health: level and status of s as the scheduler c and the health
\* record h now give them; the latest quote stays.
project_health(latest, c, h) ==
    [ts |-> latest, level |-> c.level, status |-> status_of(h)]

\* The symbols whose state a tick that fetched refreshes.
Projected(t) == t.enabled

\* tick, up to the await of the provider.
TickBegins ==
    /\ tick = NoTick
    /\ ~exhausted
    /\ due_symbols(Enabled) # {}
    /\ tick' = [stage |-> "fetching", enabled |-> Enabled, due |-> due_symbols(Enabled)]
    /\ UNCHANGED <<watch, sched, health, newest, processed, state, exhausted,
                   quote_age, down_age>>

\* A whole tick without await: nothing is due, or the replay has ended and the
\* due symbols are only kept alive.
TickWithoutFetch ==
    /\ tick = NoTick
    /\ exhausted \/ due_symbols(Enabled) = {}
    /\ LET due == due_symbols(Enabled)
           h == [s \in Symbols |-> IF s \in due THEN keep_alive(health[s]) ELSE health[s]]
       IN  /\ health' = h
           /\ sched' = [s \in Symbols |->
                            IF s \in due THEN mark_fetched(sched[s]) ELSE sched[s]]
           /\ state' = [s \in Symbols |->
                            IF s \in Enabled
                            THEN project_health(state[s].ts, sched[s], h[s])
                            ELSE state[s]]
    /\ UNCHANGED <<watch, newest, processed, tick, exhausted, quote_age, down_age>>

\* Faulty variant: a failed fetch is recorded and not shown.
FetchRaisesUnseen ==
    /\ tick # NoTick
    /\ health' = [s \in Symbols |->
                    IF s \in tick.due THEN observe_error(health[s]) ELSE health[s]]
    /\ sched' = [s \in Symbols |->
                    IF s \in tick.due THEN mark_fetched(sched[s]) ELSE sched[s]]
    /\ tick' = NoTick
    /\ UNCHANGED <<watch, newest, processed, state, exhausted, quote_age, down_age>>

\* The provider raises: a failure of every due symbol.
FetchRaises ==
    /\ tick # NoTick
    /\ LET h == [s \in Symbols |->
                    IF s \in tick.due THEN observe_error(health[s]) ELSE health[s]]
       IN  /\ health' = h
           /\ sched' = [s \in Symbols |->
                            IF s \in tick.due THEN mark_fetched(sched[s]) ELSE sched[s]]
           /\ state' = [s \in Symbols |->
                            IF s \in Projected(tick)
                            THEN project_health(state[s].ts, sched[s], h[s])
                            ELSE state[s]]
    /\ tick' = NoTick
    /\ UNCHANGED <<watch, newest, processed, exhausted, quote_age, down_age>>

\* What the provider may return for one due symbol, and how the rest of the
\* tick goes for it: the warming policy asks for a level, or the features or
\* the pipeline raise and only the health is projected.
Missing == [found |-> FALSE]
Outcomes == {Missing} \cup
    [found : {TRUE}, ts : 1..MaxTs, late : Latencies,
     reaction : Requests \cup {"features_raise", "pipeline_raises"}]

\* Faulty variant: older quotes are kept too.
AcceptsOlder(s, o) == o.found

\* _ingest_snapshot keeps the quote: it is not older than the newest one.
accepts(s, o) == o.found /\ o.ts >= newest[s]

\* _process_symbol of an accepted quote, on the scheduler record c.
process_symbol(c, o) ==
    IF o.reaction \in Levels THEN set_level(c, o.reaction) ELSE c

\* The provider answers: missing and older quotes are failures of their symbol,
\* the others are buffered and processed; every enabled symbol is projected.
FetchReturns(outcome) ==
    /\ tick # NoTick
    /\ LET fresh == {s \in tick.due : accepts(s, outcome[s])}
           h == [s \in Symbols |->
                    IF s \in fresh THEN observe_quote(outcome[s].late)
                    ELSE IF s \in tick.due THEN observe_error(health[s])
                    ELSE health[s]]
           c == [s \in Symbols |->
                    IF s \in fresh THEN process_symbol(mark_fetched(sched[s]), outcome[s])
                    ELSE IF s \in tick.due THEN mark_fetched(sched[s])
                    ELSE sched[s]]
       IN  /\ health' = h
           /\ sched' = c
           /\ newest' = [s \in Symbols |->
                            IF s \in fresh /\ outcome[s].ts > newest[s]
                            THEN outcome[s].ts ELSE newest[s]]
           /\ processed' = [s \in Symbols |->
                                IF s \in fresh /\ outcome[s].reaction # "features_raise"
                                THEN outcome[s].ts ELSE processed[s]]
           /\ state' = [s \in Symbols |->
                            IF s \in Projected(tick)
                            THEN project_health(IF s \in fresh THEN outcome[s].ts
                                                ELSE state[s].ts, c[s], h[s])
                            ELSE state[s]]
           /\ quote_age' = [s \in Symbols |-> IF s \in fresh THEN 0 ELSE quote_age[s]]
           /\ down_age' = [s \in Symbols |->
                                IF Rank(c[s].level) < Rank(sched[s].level)
                                THEN 0 ELSE down_age[s]]
    /\ tick' = NoTick
    /\ UNCHANGED watch

\* Consuming its last tick exhausts a replay.
FetchEnds ==
    /\ tick # NoTick
    /\ \E outcome \in [tick.due -> Outcomes] : FetchReturns(outcome)
    /\ exhausted' \in {exhausted, TRUE}

Tick == TickBegins \/ TickWithoutFetch
TickEnds == FetchRaises \/ FetchEnds

Next ==
    \/ AdvanceClock \/ Tick \/ TickEnds
    \/ \E items \in [Symbols -> {"absent", "enabled", "disabled"}] : replace(items)

Spec == Init /\ [][Next]_vars

\* A running daemon keeps ticking, the provider answers or its timeout raises,
\* and time passes.
FairSpec == Spec /\ WF_vars(AdvanceClock) /\ WF_vars(Tick) /\ WF_vars(TickEnds)

-----------------------------------------------------------------------------
(* Properties *)

FetchingTick == [stage : {"fetching"}, enabled : SUBSET Symbols, due : SUBSET Symbols]

TypeOK ==
    /\ watch \in [Symbols -> {"absent", "enabled", "disabled"}]
    /\ sched \in [Symbols -> [level : Levels, change_age : Age, fetch_age : Age]]
    /\ health \in [Symbols -> [success_age : Age \cup {Never},
                               failures : 0..DisconnectFailures, late : BOOLEAN]]
    /\ newest \in [Symbols -> 0..MaxTs]
    /\ processed \in [Symbols -> 0..MaxTs]
    /\ state \in [Symbols -> [ts : 0..MaxTs, level : Levels, status : FeedStatus]]
    /\ tick \in {NoTick} \cup FetchingTick
    /\ exhausted \in BOOLEAN
    /\ quote_age \in [Symbols -> Age \cup {Never}]
    /\ down_age \in [Symbols -> Age]

\* A feed that counts as usable has a recent quote.  Only the end of a replay
\* may keep an old quote fresh, and never that of a failing symbol (docstring of
\* keep_alive: failures must still age, EOF must not refresh them).
FreshnessHonest ==
    \A s \in Symbols :
        status_of(health[s]) \in {"LIVE", "DELAYED"} =>
            \/ quote_age[s] \in 0..(StaleS - 1)
            \/ exhausted /\ health[s].failures = 0 /\ quote_age[s] # Never

\* The quote a host is shown is the newest one buffered, and the pipeline never
\* ran ahead of it.
PublishedQuoteIsNewest ==
    \A s \in Symbols : state[s].ts = newest[s] /\ processed[s] <= newest[s]

\* The pipeline sees the market time of a symbol advance only: this is what the
\* deduper, the composer and the look-back rely on.
PipelineTimeMonotone == [][\A s \in Symbols : processed'[s] >= processed[s]]_vars

\* Whatever happened in a tick, at its end every enabled symbol is shown with
\* the level and the feed status it has at that moment.
ProjectionCurrent ==
    [][(TickWithoutFetch \/ TickEnds) =>
         \A s \in Enabled :
            /\ state'[s].level = sched'[s].level
            /\ state'[s].status = status_of(health'[s])]_vars

\* Attention does not flap: two downgrades of a symbol are at least the shorter
\* downgrade dwell apart, whatever upgrades happen between them.
DowngradesSpaced ==
    [][\A s \in Symbols :
        Rank(sched'[s].level) < Rank(sched[s].level) =>
            \/ down_age[s] >= HotDowngradeDwellS
            \/ down_age[s] >= WarmDowngradeDwellS]_vars

\* An enabled symbol is fetched again and again, whatever its level.
KeepsFetching ==
    \A s \in Symbols : []<>(watch[s] # "enabled" \/ sched[s].fetch_age = 0)

\* A dead feed is shown dead: once an enabled symbol has had no quote for the
\* disconnect age, the shown status follows unless a quote comes.
DeadFeedShown ==
    \A s \in Symbols :
        (watch[s] = "enabled" /\ ~exhausted /\ quote_age[s] = AgeCap)
            ~> \/ state[s].status = "DISCONNECTED"
               \/ quote_age[s] # AgeCap \/ watch[s] # "enabled" \/ exhausted
=============================================================================
