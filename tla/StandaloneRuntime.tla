-------------------------- MODULE StandaloneRuntime --------------------------
(***************************************************************************)
(* The process behind `market-sentinel mcp`: one engine with its tick loop *)
(* (mcp_server/runtime.py), served over stdio (mcp_server/server.py), and  *)
(* the read-only tools (capabilities/).  The engine is that of             *)
(* MarketEngine; here it runs under the loop, on a watchlist that is fixed *)
(* at start, without an intelligence sidecar and with telemetry that       *)
(* writes nothing.                                                         *)
(*                                                                         *)
(* A tool is a synchronous read: its answer is a function of the state, and *)
(* it can be asked in every state the event loop yields in.                *)
(***************************************************************************)
EXTENDS MarketEngine, Sequences, FiniteSetsExt

CONSTANTS
    Unwatched,   \* well-formed symbols that are not on the watchlist
    BufferLen,   \* maxlen of the RecentEventsBuffer
    MaxEvents    \* bound on accepted events

ASSUME RuntimeAssumption ==
    /\ BufferLen \in Nat \ {0} /\ MaxEvents \in Nat
    /\ Unwatched \cap Symbols = {}

VARIABLES
    serving,   \* serve: "new", "serving", "stopping", "stopped" or "raised"
    running,   \* _running
    loop,      \* the tick task
    telemetry, \* whether a TelemetryRuntime is open
    events,    \* RecentEventsBuffer._events: symbol and number of the event
    accepted,  \* number of events accepted (history)
    shown_age  \* age of the last tick that ended, Never before the first (history)

runtime == <<serving, running, loop, telemetry, events, accepted, shown_age>>
allvars == <<vars, runtime>>

RuntimeInit ==
    /\ Init
    /\ watch = [s \in Symbols |-> "enabled"]
    /\ serving = "new" /\ running = FALSE /\ loop = "none" /\ telemetry = FALSE
    /\ events = <<>> /\ accepted = 0 /\ shown_age = Never

-----------------------------------------------------------------------------
(* Life of the process *)

\* start
start ==
    /\ serving = "new"
    /\ serving' = "serving" /\ running' = TRUE /\ loop' = "ready" /\ telemetry' = TRUE
    /\ UNCHANGED <<events, accepted, shown_age, vars>>

\* create_provider or resolve_watchlist_symbols rejects the configuration: serve
\* has not entered its try block, so stop is not called.
StartFails ==
    /\ serving = "new"
    /\ serving' = "raised" /\ telemetry' = TRUE
    /\ UNCHANGED <<running, loop, events, accepted, shown_age, vars>>

\* The accepted events of a tick, named by their symbols: those of one symbol follow
\* each other, in whatever order the watchlist has the symbols.
Accepted(symbols) ==
    {new \in UNION {[1..n -> symbols] : n \in 0..MaxEvents} :
        \A i, k \in DOMAIN new : new[i] = new[k] => \A j \in i..k : new[j] = new[i]}

\* RecentEventsBuffer.observe_tick: the accepted events of a tick, in order.
observe_tick(new) ==
    /\ accepted + Len(new) <= MaxEvents
    /\ accepted' = accepted + Len(new)
    /\ LET all == events \o [i \in DOMAIN new |-> [symbol |-> new[i], n |-> accepted + i]]
       IN  events' = SubSeq(all, Max({1, Len(all) - BufferLen + 1}), Len(all))

\* Up to the await of the provider, or the whole of a tick that fetches nothing.
TickStarts ==
    /\ loop = "ready"
    /\ \/ TickBegins /\ loop' = "ticking" /\ UNCHANGED shown_age
       \/ TickWithoutFetch /\ loop' = "sleeping" /\ shown_age' = 0
    /\ UNCHANGED <<serving, running, telemetry, events, accepted>>

\* The symbols whose quote went through the pipeline.
Piped(outcome) ==
    {s \in tick.due : accepts(s, outcome[s]) /\ outcome[s].reaction \in Levels}

\* The rest of the tick, then observe_tick, then the sleep.
TickFinishes ==
    /\ loop = "ticking"
    /\ \/ FetchRaises /\ UNCHANGED <<events, accepted>>
       \/ \E outcome \in [tick.due -> Outcomes] :
            /\ FetchReturns(outcome) /\ exhausted' \in {exhausted, TRUE}
            /\ \E new \in Accepted(Piped(outcome)) : observe_tick(new)
    /\ loop' = "sleeping" /\ shown_age' = 0
    /\ UNCHANGED <<serving, running, telemetry>>

\* How far an exception let a tick t get with each symbol: 0 not at all, 1 its quote is
\* buffered, 2 its health and its fetch are recorded, 3 its quote is processed, 4 it is
\* projected.  _fetch_due and tick take the due symbols one by one, and the others last.
Reached(t, at) ==
    /\ \E first \in {0, 2} :
        /\ \A s \in t.due : at[s] \in first..(first + 2)
        /\ \A r, s \in t.due : at[r] = first + 1 /\ at[s] = first + 1 => r = s
    /\ \A s \in t.enabled \ t.due :
        at[s] = 0 \/ (at[s] = 4 /\ \A r \in t.due : at[r] = 4)

\* MarketStateStore.update_latest: a symbol nothing was published of starts as LIVE.
update_latest(s, ts) ==
    [state[s] EXCEPT !.ts = ts, !.status = IF shown_age = Never THEN "LIVE" ELSE @]

\* What a tick leaves that got as far as at with the quotes of outcome, or with none
\* because the source is exhausted.
Left(t, outcome, at) ==
    LET fresh(n) == {s \in t.due : at[s] >= n /\ accepts(s, outcome[s])}
        fetched == {s \in t.due : at[s] >= 2}
        h == [s \in Symbols |->
                IF s \notin fetched THEN health[s]
                ELSE IF exhausted THEN keep_alive(health[s])
                ELSE IF s \in fresh(2) THEN observe_quote(outcome[s].late)
                ELSE observe_error(health[s])]
        c == [s \in Symbols |->
                IF s \notin fetched THEN sched[s]
                ELSE IF s \in fresh(3) THEN process_symbol(mark_fetched(sched[s]), outcome[s])
                ELSE mark_fetched(sched[s])]
        latest == [s \in Symbols |-> IF s \in fresh(1) THEN outcome[s].ts ELSE newest[s]]
    IN  /\ health' = h
        /\ sched' = c
        /\ newest' = latest
        /\ processed' = [s \in Symbols |->
                            IF s \in fresh(3) /\ outcome[s].reaction # "features_raise"
                            THEN outcome[s].ts ELSE processed[s]]
        /\ state' = [s \in Symbols |->
                        IF s \in t.enabled /\ at[s] = 4 THEN project_health(latest[s], c[s], h[s])
                        ELSE IF s \in fresh(1) THEN update_latest(s, outcome[s].ts)
                        ELSE state[s]]
        /\ quote_age' = [s \in Symbols |-> IF s \in fresh(2) THEN 0 ELSE quote_age[s]]
        /\ down_age' = [s \in Symbols |-> IF Rank(c[s].level) < Rank(sched[s].level)
                                          THEN 0 ELSE down_age[s]]
        /\ tick' = NoTick
        /\ UNCHANGED watch

\* An exception leaves the tick, or observe_tick after it, at any point: the task ends,
\* and nobody looks at it before stop.
TickFails ==
    /\ \/ /\ loop = "ticking" /\ tick # NoTick
          /\ \E at \in {at \in [tick.enabled -> 0..4] : Reached(tick, at)},
               outcome \in [tick.due -> Outcomes] :
                /\ Left(tick, outcome, at)
                /\ \/ UNCHANGED <<events, accepted>>
                   \/ /\ \A s \in tick.enabled : at[s] = 4
                      /\ \E new \in Accepted(Piped(outcome)) : observe_tick(new)
          /\ exhausted' \in {exhausted, TRUE}
       \/ /\ loop = "ready" /\ (exhausted \/ due_symbols(Enabled) = {})
          /\ LET t == [enabled |-> Enabled, due |-> due_symbols(Enabled)]
             IN  \E at \in {at \in [t.enabled -> 0..4] : Reached(t, at)} :
                    Left(t, [s \in t.due |-> Missing], at)
          /\ UNCHANGED <<exhausted, events, accepted>>
    /\ loop' = "failed"
    /\ UNCHANGED <<serving, running, telemetry, shown_age>>

\* The sleep of next_wait_s is over.
Wakes ==
    /\ loop = "sleeping"
    /\ loop' = "ready"
    /\ UNCHANGED <<serving, running, telemetry, events, accepted, shown_age, vars>>

\* The client closes stdin: serve reaches its finally, stop cancels the task.
ClientLeaves ==
    /\ serving = "serving"
    /\ serving' = "stopping" /\ running' = FALSE
    /\ UNCHANGED <<loop, telemetry, events, accepted, shown_age, vars>>

\* Faulty variant: the loop catches the cancellation as it would an error and goes on.
CancellationCaught ==
    /\ serving = "stopping" /\ loop \in {"ready", "ticking", "sleeping"}
    /\ loop' = "sleeping"
    /\ tick' = NoTick
    /\ UNCHANGED <<serving, running, telemetry, events, accepted, shown_age, watch, sched,
                   health, newest, processed, state, exhausted, quote_age, down_age>>

\* The cancellation reaches the task at its await: a fetch is abandoned.
TaskCancelled ==
    /\ serving = "stopping" /\ loop \in {"ready", "ticking", "sleeping"}
    /\ loop' = "cancelled"
    /\ tick' = NoTick
    /\ UNCHANGED <<serving, running, telemetry, events, accepted, shown_age, watch, sched,
                   health, newest, processed, state, exhausted, quote_age, down_age>>

\* stop after the task: a cancelled task is expected, a failed one raises out of
\* stop before the telemetry is closed.
StopEnds ==
    /\ serving = "stopping"
    /\ \/ loop = "cancelled" /\ serving' = "stopped" /\ telemetry' = FALSE
       \/ loop = "failed" /\ serving' = "raised" /\ UNCHANGED telemetry
    /\ UNCHANGED <<running, loop, events, accepted, shown_age, vars>>

TimePasses ==
    /\ AdvanceClock
    /\ shown_age' = Older(shown_age)
    /\ UNCHANGED <<serving, running, loop, telemetry, events, accepted>>

\* The tick task.
LoopRuns == serving = "serving" /\ (TickStarts \/ TickFinishes \/ TickFails \/ Wakes)

\* The loop runs on while stop has not cancelled it.
RuntimeNext ==
    \/ start \/ StartFails \/ ClientLeaves \/ TaskCancelled \/ StopEnds \/ TimePasses
    \/ LoopRuns

\* The event loop runs every task that can run, the provider answers or its timeout
\* raises, time passes; stop waits for the task alone.
RuntimeSpec == RuntimeInit /\ [][RuntimeNext]_allvars
                /\ WF_allvars(LoopRuns) /\ WF_allvars(TimePasses)
                /\ WF_allvars(TaskCancelled) /\ WF_allvars(StopEnds)

-----------------------------------------------------------------------------
(* The tools *)

Severity(status) ==
    CASE status = "LIVE" -> 0 [] status = "DELAYED" -> 1 [] status = "STALE" -> 2 [] OTHER -> 3

\* aggregate_status, and the aggregate of get_feed_health
worst_of(statuses) == CHOOSE x \in statuses : \A y \in statuses : Severity(x) >= Severity(y)

\* _require_started, and the envelope _guarded puts around an answer
answer(data) == IF running THEN [ok |-> TRUE, data |-> data] ELSE [ok |-> FALSE, data |-> "not_running"]
Failure(code) == IF running THEN [ok |-> FALSE, data |-> code] ELSE answer(code)

\* Faulty variant: what the last tick published.
HealthAsPublished(s) == state[s].status

\* peek_status: the status of s at this moment.
peek_status(s) == status_of(health[s])

get_feed_health ==
    answer([aggregate |-> worst_of({peek_status(s) : s \in Symbols}),
            symbols |-> [s \in Symbols |-> peek_status(s)]])

\* map_symbol_state: what the last tick left of s; no quote yet is time 0.
map_symbol_state(s) == state[s]

\* map_engine_state: the symbols as the last tick left them, the aggregate of this moment.
get_market_state ==
    answer([feed_status |-> worst_of({status_of(health[s]) : s \in Symbols}),
            symbols |-> [s \in Symbols |-> map_symbol_state(s)], replay_complete |-> exhausted,
            last_market_timestamp |-> Max({map_symbol_state(s).ts : s \in Symbols})])

\* _ensure_known_symbol: the error of a symbol the tools have no state of.
ensure_known_symbol(symbol) ==
    CASE symbol \in Symbols -> "known" [] symbol \in Unwatched -> "not_found"
      [] OTHER -> "invalid_argument"

get_symbol_state(symbol) ==
    IF ensure_known_symbol(symbol) = "known" THEN answer(map_symbol_state(symbol))
    ELSE Failure(ensure_known_symbol(symbol))

\* get_recent_events and RecentEventsBuffer.recent
get_recent_events(symbol, limit) ==
    IF limit \notin 1..BufferLen \/ symbol \notin Symbols \cup Unwatched \cup {"any"}
    THEN Failure("invalid_argument")
    ELSE LET matching == IF symbol = "any" THEN events
                         ELSE SelectSeq(events, LAMBDA e : e.symbol = symbol)
         IN  answer(SubSeq(matching, Max({1, Len(matching) - limit + 1}), Len(matching)))

-----------------------------------------------------------------------------
(* Properties *)

\* What a host is shown of s is what get_feed_health would have said of it when the last
\* tick ended: since then the quote has aged and nothing else has happened.
AsLastTick(s) ==
    IF health[s].success_age = Never THEN state[s].status = peek_status(s)
    ELSE \E a \in Age :
            /\ health[s].success_age = Min({a + shown_age, AgeCap})
            /\ state[s].status = status_of([health[s] EXCEPT !.success_age = a])

\* What the tools may be trusted with.  get_feed_health, which asks peek_status, is true
\* when it answers, also after the loop has died, and so is the aggregate of
\* get_market_state: a symbol called usable has had a quote within stale_s, or the replay
\* has ended.  The status that get_symbol_state and get_market_state give of one symbol
\* is as old as the last tick: exactly the one of that moment while the loop lives, and
\* nothing is said of it once the loop has died, when it may stay LIVE for ever.  The
\* market time is always that of the newest quote buffered, and get_recent_events gives
\* the last events accepted.
ToolsHonest ==
    running =>
        /\ \A s \in Symbols :
            {get_feed_health.data.symbols[s], get_market_state.data.feed_status}
                \cap {"LIVE", "DELAYED"} # {}
            => exhausted \/ quote_age[s] \in 0..(StaleS - 1)
        /\ loop # "failed" /\ shown_age # Never => \A s \in Symbols : AsLastTick(s)
        /\ get_market_state.data.last_market_timestamp = Max({newest[s] : s \in Symbols})
        /\ \A l \in 1..BufferLen :
            LET all == get_recent_events("any", l)
            IN  /\ all.data = [i \in 1..Min({l, accepted}) |->
                                    events[Len(events) - Min({l, accepted}) + i]]
                /\ \A i \in DOMAIN all.data : all.data[i].n = accepted - Len(all.data) + i

\* A host that reads the symbols only learns of a dead feed in the end, unless the loop
\* has died: then the tools answer on and the shown status never changes again.
DeadFeedTold ==
    \A s \in Symbols :
        (running /\ ~exhausted /\ quote_age[s] = AgeCap)
            ~> \/ running /\ get_symbol_state(s).data.status = "DISCONNECTED"
               \/ quote_age[s] # AgeCap \/ exhausted \/ ~running \/ loop = "failed"

\* Once the client is gone the process ends: no tick is under way any more, every
\* tool answers not_running, and only a loop that had failed before makes stop raise
\* and leave the telemetry open (serve and stop).
StopIsFinal ==
    serving = "stopping" ~>
        [](/\ serving \in {"stopped", "raised"} /\ loop \in {"cancelled", "failed"}
           /\ tick = NoTick /\ ~get_market_state.ok
           /\ \A s \in Symbols \cup Unwatched : ~get_symbol_state(s).ok
           /\ ~get_recent_events("any", 1).ok
           /\ (serving = "raised" <=> loop = "failed") /\ (telemetry <=> serving = "raised"))
=============================================================================
