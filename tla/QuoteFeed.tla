----------------------------- MODULE QuoteFeed ------------------------------
(***************************************************************************)
(* How quotes of one A-share symbol reach the event rules: the Longbridge  *)
(* quote provider (providers/longbridge.py) with its lazily created SDK    *)
(* context, its lock and its failures; the bounded quote buffer            *)
(* (market_data/ring_buffer.py); and the features computed from the buffer *)
(* (features/).  A caller of fetch_quotes appends what it gets to the      *)
(* buffer without yielding, as MarketEngine._fetch_due does.               *)
(*                                                                         *)
(* Market time is in seconds, the least distance of two quotes of a        *)
(* symbol.  Prices are small integers, a quotient is its numerator and     *)
(* denominator, a value the code leaves None is None.                      *)
(***************************************************************************)
EXTENDS Integers, Sequences, FiniteSets, FiniteSetsExt, Functions

CONSTANTS
    Callers,     \* tasks that call fetch_quotes
    Prices,      \* prices and session extremes
    MaxVolume,   \* bound on the cumulative volume of a session
    MaxTs,       \* bound on market time
    SessionLen,  \* market time of one session date
    Retention,   \* retention_s of the buffer
    MaxSize,     \* max_size of the buffer
    Short, Long, \* the windows of one and of five minutes
    MaxLag,      \* max_anchor_lag_s
    Lookback,    \* volume_ratio_lookback
    SampleStep,  \* distance of the volume samples
    BarLen,      \* bar_seconds
    None

ASSUME FeedAssumption ==
    /\ Prices \subseteq Nat \ {0} /\ MaxVolume \in Nat /\ MaxTs \in Nat
    /\ SessionLen \in Nat \ {0} /\ BarLen \in Nat \ {0} /\ Short \in Nat \ {0}
    /\ Long \in Nat /\ Short < Long
    /\ MaxLag \in Nat /\ Lookback \in Nat \ {0} /\ SampleStep \in Nat \ {0}
    \* 3600 s against 20 samples of 60 s, a window of 300 s and two lags of 30 s:
    /\ \A s \in 1..Lookback : Retention >= s * SampleStep + Long + 2 * MaxLag
    \* 4096 entries against 3600 s of quotes, at most one per second when hot: the
    \* buffer does not overflow:
    /\ MaxSize > Retention /\ MaxSize \in Nat /\ Retention \in Nat

\* None is neither a task nor something the code computes with.
ASSUME NoneAssumption ==
    /\ None \notin Callers /\ None \notin Int
    /\ None \notin [high : Int, low : Int]

VARIABLES
    phase,     \* phase[c]: where caller c is in fetch_quotes
    waiters,   \* callers that wait for _flight, in order
    flight,    \* the caller that holds _flight, or None
    client,    \* whether _sdk_client is there
    using,     \* using[c]: whether the context c's request runs on is still kept
    buffer,    \* RingBuffer._items: the retained quotes by market time
    seen       \* the last quote of every market time that ever reached the buffer (history)

provider == <<phase, waiters, flight, client, using>>
quotes == <<buffer, seen>>
vars == <<phase, waiters, flight, client, using, buffer, seen>>

Init ==
    /\ phase = [c \in Callers |-> "idle"]
    /\ waiters = <<>> /\ flight = None /\ client = FALSE
    /\ using = [c \in Callers |-> "none"]
    /\ buffer = <<>> /\ seen = <<>>

-----------------------------------------------------------------------------
(* The buffer *)

\* Faulty variant: an entry exactly retention_s old goes, too.
EvictsAtCutoff(b) ==
    LET young == {t \in DOMAIN b : t > Max(DOMAIN b) - Retention}
    IN  Restrict(b, {t \in young : Cardinality({u \in young : u > t}) < MaxSize})

\* _evict: first by age against the newest entry, then by number.
evict(b) ==
    LET young == {t \in DOMAIN b : t >= Max(DOMAIN b) - Retention}
    IN  Restrict(b, {t \in young : Cardinality({u \in young : u > t}) < MaxSize})

\* append up to the eviction: in order of market time, an equal time is replaced.
Inserted(b, q) == [t \in DOMAIN b \cup {q.ts} |-> IF t = q.ts THEN q ELSE b[t]]

\* append
append(b, q) == evict(Inserted(b, q))

\* latest
latest(b) == b[Max(DOMAIN b)]

\* at_or_before
at_or_before(b, t) ==
    LET older == {u \in DOMAIN b : u <= t}
    IN  IF older = {} THEN None ELSE b[Max(older)]

-----------------------------------------------------------------------------
(* Features *)

Windows == {Short, Long}

\* is_same_session
is_same_session(t, u) == t \div SessionLen = u \div SessionLen

\* snapshot_as_of
snapshot_as_of(b, t, q) ==
    LET found == at_or_before(b, t)
    IN  IF found = None THEN None
        ELSE IF is_same_session(found.ts, q.ts) /\ t - found.ts <= MaxLag THEN found
        ELSE None

\* resolve_anchor
resolve_anchor(b, q, w) ==
    IF is_same_session(q.ts - w, q.ts) THEN snapshot_as_of(b, q.ts - w, q) ELSE None

\* price_change
price_change(b, q, w) ==
    LET anchor == resolve_anchor(b, q, w)
    IN  IF anchor = None THEN None ELSE <<q.price - anchor.price, anchor.price>>

\* volume_delta
volume_delta(b, q, w) ==
    LET anchor == resolve_anchor(b, q, w)
    IN  IF anchor = None THEN None ELSE Max({0, q.volume - anchor.volume})

\* _historical_volume_deltas: a sample per step, or none at all.
historical_volume_deltas(b, q, w) ==
    LET as_of == [s \in 1..Lookback |-> snapshot_as_of(b, q.ts - s * SampleStep, q)]
        samples == [s \in 1..Lookback |->
                        IF as_of[s] = None THEN None ELSE volume_delta(b, as_of[s], w)]
    IN  IF \E s \in 1..Lookback : samples[s] = None THEN None ELSE samples

\* The denominator of the mean of the samples.
Total(samples) == MapThenSumSet(LAMBDA s : samples[s], 1..Lookback)

\* volume_ratio: the volume of the window over the mean of its samples.
volume_ratio(b, q, w) ==
    LET current == volume_delta(b, q, w)
        samples == historical_volume_deltas(b, q, w)
    IN  IF current = None \/ samples = None THEN None
        ELSE IF Total(samples) = 0 THEN None
        ELSE <<current * Lookback, Total(samples)>>

\* Faulty variant: the extremes are those of the traded prices that were polled.
PolledPrice(q) == q.price

\* session_extreme_high, session_extreme_low: the provider's extremes count.
session_extreme_high(q) == Max({q.price, q.high})
session_extreme_low(q) == Min({q.price, q.low})

\* _session_refs: extremes of the earlier quotes of the session.
Earlier(b, q) == {b[t] : t \in {u \in DOMAIN b : u < q.ts /\ is_same_session(u, q.ts)}}
session_refs(b, q) ==
    IF Earlier(b, q) = {} THEN None
    ELSE [high |-> Max({session_extreme_high(s) : s \in Earlier(b, q)}),
          low |-> Min({session_extreme_low(s) : s \in Earlier(b, q)})]

\* completed_minute_bars: the buckets of the session before the one that is forming;
\* the volume of a bar needs the bar before it.
completed_minute_bars(b, q) ==
    LET buckets == {t \div BarLen : t \in {u \in DOMAIN b : is_same_session(u, q.ts)}}
                    \ {q.ts \div BarLen}
        Last(k) == b[Max({t \in DOMAIN b : t \div BarLen = k /\ is_same_session(t, q.ts)})]
    IN  [k \in buckets |->
            [close |-> Last(k).price,
             volume |-> IF k - 1 \in buckets THEN Max({0, Last(k).volume - Last(k - 1).volume})
                        ELSE None]]

\* compute: what the features say of the latest quote of the buffer.
compute(b) ==
    LET q == latest(b)
        refs == session_refs(b, q)
        high == IF refs = None THEN session_extreme_high(q)
                ELSE Max({refs.high, session_extreme_high(q)})
        low == IF refs = None THEN session_extreme_low(q)
               ELSE Min({refs.low, session_extreme_low(q)})
    IN  [change |-> [w \in Windows |-> price_change(b, q, w)],
         volume |-> [w \in Windows |-> volume_delta(b, q, w)],
         ratio |-> [w \in Windows |-> volume_ratio(b, q, w)],
         day_range |-> IF high > low THEN <<q.price - low, high - low>> ELSE None,
         refs |-> refs, bars |-> completed_minute_bars(b, q)]

\* DayHighBreakoutRule and DayLowBreakdownRule
day_high_breakout(b) ==
    LET refs == session_refs(b, latest(b))
    IN  refs # None /\ session_extreme_high(latest(b)) > refs.high
day_low_breakdown(b) ==
    LET refs == session_refs(b, latest(b))
    IN  refs # None /\ session_extreme_low(latest(b)) < refs.low

\* Severities by window and threshold: changes in per mille, volume ratios in tenths.
RapidBands == {<<Short, 6, 2>>, <<Short, 10, 3>>, <<Short, 15, 4>>,
               <<Long, 12, 3>>, <<Long, 20, 4>>, <<Long, 35, 5>>}
VolumeBands == {<<Short, 30, 3>>,
                <<Long, 18, 2>>, <<Long, 25, 3>>, <<Long, 40, 4>>, <<Long, 60, 5>>}

\* The highest severity a magnitude reaches, 0 when it reaches none.
Severity(bands, unit, x) ==
    IF x = None THEN 0
    ELSE Max({0} \cup {b[3] : b \in {c \in bands : unit * Max({x[1], -x[1]}) >= c[2] * x[2]}})

\* _one_minute_severity, _five_minute_severity
window_severity(f, w) == Severity({b \in RapidBands : b[1] = w}, 1000, f.change[w])

\* rapid_move_severity
rapid_move_severity(f) == Max({window_severity(f, w) : w \in Windows})

\* move_direction: the sign of the change that has the severity, the shorter one first.
move_direction(f, severity) ==
    LET w == IF window_severity(f, Short) = severity THEN Short ELSE Long
    IN  IF f.change[w][1] > 0 THEN "UP" ELSE "DOWN"

\* RapidMoveRule
rapid_move(f) ==
    LET severity == rapid_move_severity(f)
    IN  IF severity = 0 THEN None ELSE <<severity, move_direction(f, severity)>>

\* VolumeSpikeRule
volume_spike(f) ==
    LET severity == Max({Severity({b \in VolumeBands : b[1] = w}, 10, f.ratio[w]) : w \in Windows})
    IN  IF severity = 0 THEN None ELSE severity

-----------------------------------------------------------------------------
(* What the vendor says *)

\* A quote of the vendor: a number may be zero, negative or something that is not a
\* finite number (None), a time may lack its zone (None).  External.
VendorQuotes ==
    [ashare : BOOLEAN, ts : (-1..MaxTs) \cup {None}, price : Prices \cup {0, None},
     high : Prices \cup {0, None}, low : Prices \cup {0, None},
     volume : (-1..MaxVolume) \cup {None}]

\* vendor_timestamp_to_unix: a time without its zone or before the epoch is none.
vendor_timestamp_to_unix(value) == IF value \in Nat THEN value ELSE None

\* vendor_quote_to_raw: foreign symbols and quotes without a usable time or range are
\* dropped.
vendor_quote_to_raw(v) ==
    IF ~v.ashare \/ vendor_timestamp_to_unix(v.ts) = None \/ v.high = None \/ v.low = None
    THEN None
    ELSE IF v.high <= 0 \/ v.low <= 0 \/ v.high < v.low THEN None
    ELSE v

\* normalize_snapshot: a price that is not positive or a negative volume is an error.
normalize_snapshot(v) ==
    IF v.price = None \/ v.volume = None THEN None
    ELSE IF v.price <= 0 \/ v.volume < 0 THEN None
    ELSE [ts |-> v.ts, price |-> v.price, high |-> v.high, low |-> v.low, volume |-> v.volume]

\* The loop of fetch_quotes over the answer, for the one symbol asked for.
Snapshot(v) ==
    LET raw == vendor_quote_to_raw(v)
    IN  IF raw = None THEN None ELSE normalize_snapshot(raw)

Snapshots == {Snapshot(v) : v \in VendorQuotes}

-----------------------------------------------------------------------------
(* fetch_quotes *)

\* async with self._flight: in the order of the calls.
Begin(c) ==
    /\ phase[c] = "idle"
    /\ phase' = [phase EXCEPT ![c] = "waiting"]
    /\ waiters' = Append(waiters, c)
    /\ UNCHANGED <<flight, client, using, quotes>>

\* Faulty variant: the lock does not cover the request.
AcquireUnlocked(c) ==
    /\ waiters # <<>> /\ c = Head(waiters)
    /\ waiters' = Tail(waiters) /\ flight' = c
    /\ phase' = [phase EXCEPT ![c] = IF client THEN "quoting" ELSE "creating"]
    /\ using' = [using EXCEPT ![c] = IF client THEN "kept" ELSE "none"]
    /\ UNCHANGED <<client, quotes>>

\* The lock is taken; _ensure_sdk_client finds a context or starts to create one.
Acquire(c) ==
    /\ waiters # <<>> /\ c = Head(waiters) /\ flight = None
    /\ waiters' = Tail(waiters) /\ flight' = c
    /\ phase' = [phase EXCEPT ![c] = IF client THEN "quoting" ELSE "creating"]
    /\ using' = [using EXCEPT ![c] = IF client THEN "kept" ELSE "none"]
    /\ UNCHANGED <<client, quotes>>

\* The rest of _ensure_sdk_client.
ContextCreated(c) ==
    /\ phase[c] = "creating"
    /\ client' = TRUE
    /\ phase' = [phase EXCEPT ![c] = "quoting"]
    /\ using' = [using EXCEPT ![c] = "kept"]
    /\ UNCHANGED <<waiters, flight, quotes>>

\* c leaves fetch_quotes and with it the lock.
Leaves(c) ==
    /\ phase' = [phase EXCEPT ![c] = "idle"]
    /\ flight' = IF flight = c THEN None ELSE flight

\* _invalidate_sdk: requests that still run on the context run on a discarded one.
InvalidateSdk(c) ==
    /\ client' = FALSE
    /\ using' = [d \in Callers |-> IF d = c THEN "none"
                                   ELSE IF using[d] = "kept" THEN "discarded" ELSE using[d]]

\* Creating the context fails with a ProviderError, which leaves nothing behind.
CreateFails(c) ==
    /\ phase[c] = "creating"
    /\ Leaves(c)
    /\ UNCHANGED <<waiters, client, using, quotes>>

\* The request times out, or the connection breaks: the context is discarded.
RequestBreaks(c) ==
    /\ phase[c] = "quoting"
    /\ Leaves(c) /\ InvalidateSdk(c)
    /\ UNCHANGED <<waiters, quotes>>

\* The vendor refuses (rate limit, authorisation, no data, server): it is kept.
RequestRefused(c) ==
    /\ phase[c] = "quoting"
    /\ Leaves(c)
    /\ using' = [using EXCEPT ![c] = "none"]
    /\ UNCHANGED <<waiters, client, quotes>>

\* The queue of the lock without its i-th waiter.  External.
Without(queue, i) == [j \in 1..Len(queue) - 1 |-> queue[IF j < i THEN j ELSE j + 1]]

\* The task of the caller is cancelled (StandaloneRuntime.stop): nothing is counted,
\* the context stays.
Cancelled(c) ==
    /\ phase[c] # "idle"
    /\ Leaves(c)
    /\ \/ phase[c] # "waiting" /\ UNCHANGED waiters
       \/ \E i \in DOMAIN waiters : waiters[i] = c /\ waiters' = Without(waiters, i)
    /\ using' = [using EXCEPT ![c] = "none"]
    /\ UNCHANGED <<client, quotes>>

\* _ingest_snapshot: a quote that was dropped or that is older than the latest leaves
\* nothing, any other is appended.
Ingested(q) ==
    IF q = None \/ (buffer # <<>> /\ q.ts < latest(buffer).ts)
    THEN UNCHANGED quotes
    ELSE buffer' = append(buffer, q) /\ seen' = Inserted(seen, q)

\* The answer, which the engine takes in.
RequestAnswered(c) ==
    /\ phase[c] = "quoting"
    /\ Leaves(c)
    /\ using' = [using EXCEPT ![c] = "none"]
    /\ \E q \in Snapshots : Ingested(q)
    /\ UNCHANGED <<waiters, client>>

Next ==
    \E c \in Callers :
        \/ Begin(c) \/ Acquire(c) \/ ContextCreated(c) \/ CreateFails(c)
        \/ RequestBreaks(c) \/ RequestRefused(c) \/ RequestAnswered(c) \/ Cancelled(c)

Spec == Init /\ [][Next]_vars

-----------------------------------------------------------------------------
(* Properties *)

\* No request runs on a context that another caller's failure has discarded, and no
\* second context is created beside a live one: the flight lock covers the creation,
\* the request and the invalidation (fetch_quotes, "One in-flight quote() per provider").
RequestsOnKeptContext ==
    /\ \A c \in Callers : phase[c] = "quoting" => using[c] = "kept" /\ client
    /\ \A c, d \in Callers : phase[c] = "creating" => c = d \/ phase[d] \in {"idle", "waiting"}

\* Forgetting quotes after retention_s is invisible to the rolling features: changes,
\* volumes, volume ratios and the moves and spikes the rules find in them are those of
\* the whole history, and the bars it keeps have the closes of the whole history's last
\* bars (RingBuffer._evict against resolve_anchor, _historical_volume_deltas and
\* completed_minute_bars).
EvictionInvisible ==
    buffer # seen =>
        LET f == compute(buffer)
            g == compute(seen)
        IN  /\ f.change = g.change /\ f.volume = g.volume /\ f.ratio = g.ratio
            /\ rapid_move(f) = rapid_move(g) /\ volume_spike(f) = volume_spike(g)
            /\ \A k \in DOMAIN g.bars :
                    \/ k \in DOMAIN f.bars /\ f.bars[k].close = g.bars[k].close
                    \/ k \notin DOMAIN f.bars /\ \A j \in DOMAIN f.bars : j > k

\* The breakout rules fire exactly when the latest quote exceeds every earlier quote of
\* the session within the retention, of which there must be one, whatever the vendor
\* says.  They fire exactly when it exceeds every earlier quote of the session, forgotten
\* ones included, if the extremes of these only widen, as those of an exchange do;
\* otherwise a forgotten extreme is exceeded again (_session_refs, the breakout rules).
BreakoutExact ==
    seen # <<>> =>
        LET q == latest(seen)
            earlier == Earlier(seen, q)
            recent == {s \in earlier : s.ts >= q.ts - Retention}
            High(s) == Max({s.price, s.high})
            Low(s) == Min({s.price, s.low})
            Above(S) == S # {} /\ \A s \in S : High(q) > High(s)
            Below(S) == S # {} /\ \A s \in S : Low(q) < Low(s)
            Widen == \A s, u \in earlier :
                        s.ts <= u.ts => High(s) <= High(u) /\ Low(u) <= Low(s)
        IN  /\ day_high_breakout(buffer) <=> Above(recent)
            /\ day_low_breakdown(buffer) <=> Below(recent)
            /\ recent # {} /\ Widen =>
                    /\ day_high_breakout(buffer) <=> Above(earlier)
                    /\ day_low_breakdown(buffer) <=> Below(earlier)
=============================================================================
