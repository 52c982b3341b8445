----------------------------- MODULE Evaluation -----------------------------
(***************************************************************************)
(* The offline readers of the telemetry log: the evaluation report         *)
(* (evaluation/aggregate.py), the tuning metrics (tuning/compare.py) and   *)
(* the feedback dataset of tuning (tuning/feedback.py).  They are          *)
(* functions of the rows read back; the rows grow as Core and the host     *)
(* write them (telemetry/runtime.py, telemetry/contract.py).               *)
(*                                                                         *)
(* No reader depends on the order of telemetry rows, so telemetry is a bag *)
(* of rows; feedback is the sequence its file is.  A field that is not     *)
(* there is None, or -1 for a time.  Market time is counted in half hours, *)
(* on which the boundaries of the cash windows fall.  A quotient is the    *)
(* pair of its numerator and denominator.                                  *)
(***************************************************************************)
EXTENDS Integers, Sequences, FiniteSets, FiniteSetsExt, Functions, SequencesExt

CONSTANTS
    AShares,      \* symbols that end in .SH or .SZ
    Produced,     \* rows the pipeline, the coordinator and the host hand to emit
    Foreign,      \* rows that other versions of the program left in the files
    Runs,         \* run ids
    Signals,      \* signal ids
    Created,      \* created_timestamps of feedback
    FeedbackIds,  \* feedback ids, in the order in which they sort
    MaxLog,       \* bound on all rows
    None          \* an absent field

\* The rows of telemetry.jsonl.
Values(field) == {r[field] : r \in Produced \cup Foreign} \cup {None}
Rows == [name : Values("name"), run : Runs \cup {None}, symbol : Values("symbol"),
         signal : Values("signal"), event : Values("event"), priority : Values("priority"),
         reason : Values("reason"), ts : Nat \cup {-1}, amount : Nat \cup {-1}]

ASSUME EvaluationAssumption ==
    /\ Produced \cup Foreign \subseteq Rows
    /\ Created \subseteq Nat /\ FeedbackIds \subseteq Nat /\ MaxLog \in Nat
    /\ None \notin Runs \cup Signals \cup AShares

VARIABLES
    rows,     \* telemetry.jsonl: how often each row occurs
    feedback  \* feedback.jsonl

vars == <<rows, feedback>>

Labels == {"useful", "not_useful", "too_noisy", "too_late"}
Priorities == {"INFO", "NOTICE", "IMPORTANT", "CRITICAL"}
SuppressionReasons == {"cooldown", "same_tick_duplicate"}
DecisionReasons == {"expired_episode", "suppressed_edge", "stale_feed",
                    "insufficient_features", "not_candidate", "episode_budget"}
FallbackReasons == DecisionReasons \cup
    {"none", "timeout", "transport", "malformed", "rate_limited",
     "unavailable", "cancelled", "stale_work", "policy"}
Stages == {"router", "model", "parse"}

-----------------------------------------------------------------------------
(* Bags of rows *)

Select(rs, P(_)) == RestrictDomain(rs, P)
Size(rs) == MapThenSumSet(LAMBDA r : rs[r], DOMAIN rs)
CountIf(rs, P(_)) == Size(Select(rs, P))
Named(rs, name) == CountIf(rs, LAMBDA r : r.name = name)
Added(rs, r) == [x \in DOMAIN rs \cup {r} |->
                    IF x \in DOMAIN rs THEN rs[x] + (IF x = r THEN 1 ELSE 0) ELSE 1]
\* F of a value, which is computed once however often F uses it.
Once(value, F(_)) == CHOOSE y \in {F(x) : x \in {value}} : TRUE
SumOver(f) == MapThenSumSet(LAMBDA x : f[x], DOMAIN f)

-----------------------------------------------------------------------------
(* Writing: TelemetryEvent and UserFeedback *)

EventNames == {"event_generated", "event_deduped", "event_clustered"}
SignalNames == {"signal_episode_created", "signal_escalated",
                "alert_candidate", "alert_suppressed"}
HostNames == {"alert_presented", "signal_opened", "alert_dismissed", "signal_muted"}
IntelligenceNames == {"intelligence_routed", "intelligence_skipped",
                      "intelligence_succeeded", "intelligence_fallback",
                      "intelligence_latency", "intelligence_token_usage"}

\* __post_init__ and _validate_correlations: what the constructor lets through.
valid_event(r) ==
    /\ r.run # None
    /\ r.name \in EventNames => r.event # None /\ r.symbol # None
    /\ r.name \in SignalNames => r.signal # None /\ r.symbol # None
    /\ r.name \in HostNames \cup IntelligenceNames => r.signal # None
    /\ r.name = "alert_suppressed" => r.reason \in SuppressionReasons
    /\ r.name = "intelligence_skipped" => r.reason \in DecisionReasons
    /\ r.name = "intelligence_fallback" => r.reason # None
    /\ r.name = "intelligence_latency" => r.reason \in Stages /\ r.amount >= 0
    /\ r.name = "intelligence_token_usage" => r.amount >= 0

\* parse_host_interaction: a host row has neither market time nor symbol, and a
\* badge reset drops the signal it came with.
host_row(r) ==
    IF r.name \in HostNames \cup {"alert_badge_reset"}
    THEN [r EXCEPT !.symbol = None, !.ts = -1,
                   !.signal = IF r.name = "alert_badge_reset" THEN None ELSE @]
    ELSE r

Room == Size(rows) + Len(feedback) < MaxLog

\* emit: an event the constructor rejects is logged and dropped.
emit(r) ==
    /\ Room /\ valid_event(host_row(r))
    /\ rows' = Added(rows, host_row(r))
    /\ UNCHANGED feedback

\* Rows the reader accepts although this version would not write them.
left_by_others(r) ==
    /\ Room
    /\ rows' = Added(rows, r)
    /\ UNCHANGED feedback

\* What the fields of a user_feedback command may hold.
FeedbackCommands ==
    [label : Labels \cup {None}, signal : Signals \cup {None}, created : Created \cup {None}]

\* parse_user_feedback: an unknown label, an empty signal or a time that is not a
\* number is answered with an error and recorded nowhere.
parse_user_feedback(command) == \A field \in DOMAIN command : command[field] # None

\* record_feedback: the id is a fresh uuid, the time is the host's.
record_feedback(id, run, command) ==
    /\ Room /\ parse_user_feedback(command)
    /\ \A i \in DOMAIN feedback : feedback[i].id # id
    /\ feedback' = Append(feedback, [id |-> id, run |-> run, signal |-> command.signal,
                                     label |-> command.label, created |-> command.created])
    /\ UNCHANGED rows

\* A feedback row without its run, which _valid_feedback_row rejects.
feedback_left_by_others(id, signal) ==
    /\ Room /\ \A i \in DOMAIN feedback : feedback[i].id # id
    /\ feedback' = Append(feedback, [id |-> id, run |-> None, signal |-> signal,
                                     label |-> "useful", created |-> 0])
    /\ UNCHANGED rows

Init == rows = <<>> /\ feedback = <<>>

Next ==
    \/ \E r \in Produced : emit(r)
    \/ \E r \in Foreign : left_by_others(r)
    \/ \E id \in FeedbackIds, run \in Runs, c \in FeedbackCommands : record_feedback(id, run, c)
    \/ \E id \in FeedbackIds, g \in Signals : feedback_left_by_others(id, g)

Spec == Init /\ [][Next]_vars

-----------------------------------------------------------------------------
(* The A-share calendar (market_data/session.py) *)

DayLen == 48
CashWindows == {<<19, 23>>, <<26, 30>>}  \* 09:30-11:30 and 13:00-15:00
session_id(t) == t \div DayLen
Weekday(day) == day % 7                  \* day 0 is a Monday

\* Faulty variant: the lunch break counts.
OverlapCountsLunch(from, to) ==
    SumOver([day \in session_id(from)..session_id(to) |->
        IF Weekday(day) < 5
        THEN Max({0, Min({to, day * DayLen + 30}) - Max({from, day * DayLen + 19})})
        ELSE 0])

\* cash_session_overlap_s: per weekday and window, the part inside [from, to].
cash_session_overlap(from, to) ==
    SumOver([day \in session_id(from)..session_id(to) |->
        IF Weekday(day) < 5
        THEN SumOver([w \in CashWindows |->
                Max({0, Min({to, day * DayLen + w[2]}) - Max({from, day * DayLen + w[1]})})])
        ELSE 0])

-----------------------------------------------------------------------------
(* Rates over market time (aggregate.py) *)

\* ratio: None over zero.
ratio(n, d) == IF d = 0 THEN None ELSE <<n, d>>
available_value(n, d) == [available |-> TRUE, value |-> <<n, d>>, why |-> None]
unavailable(why) == [available |-> FALSE, value |-> None, why |-> why]

FunnelNames == {"event_generated", "signal_episode_created", "alert_candidate",
                "alert_suppressed", "alert_presented"}

\* _funnel
funnel(rs) == [n \in FunnelNames |-> Named(rs, n)]

Stamps(rs) == {r.ts : r \in DOMAIN rs} \ {-1}
StampedSymbols(rs) == {r.symbol : r \in {x \in DOMAIN rs : x.ts # -1}} \ {None}

\* _market_scope
market_scope(rs) ==
    IF Stamps(rs) = {} THEN "empty"
    ELSE IF StampedSymbols(rs) # {} /\ StampedSymbols(rs) \subseteq AShares THEN "ashare"
    ELSE "unsupported"

\* _run_exposure: the span between the first and the last stamp of the run.
run_exposure(rs) ==
    LET scope == market_scope(rs)
        few == Cardinality(Stamps(rs)) < 2
        candidates == Named(rs, "alert_candidate")
        observed == IF scope = "unsupported" \/ few THEN 0
                    ELSE cash_session_overlap(Min(Stamps(rs)), Max(Stamps(rs)))
    IN  [observed |-> observed, ok |-> observed > 0, scope |-> scope,
         candidates |-> candidates, funnel |-> funnel(rs),
         rate |-> IF scope = "unsupported" THEN unavailable("unsupported_market_scope")
                  ELSE IF observed = 0 THEN unavailable("insufficient_market_time_evidence")
                  ELSE available_value(candidates, observed)]

\* _group_by_run: rows without a run belong to none.
group_by_run(rs) ==
    [run \in {r.run : r \in DOMAIN rs} \ {None} |-> Select(rs, LAMBDA r : r.run = run)]

\* The rate over the exposure of each run: one run that cannot be measured makes it
\* unavailable.
MetricsOver(rs, exposure) ==
    LET orphans == CountIf(rs, LAMBDA r : r.name = "alert_candidate" /\ r.run = None)
        unsupported == {run \in DOMAIN exposure : exposure[run].scope = "unsupported"}
        insufficient == {run \in DOMAIN exposure \ unsupported :
                            exposure[run].candidates > 0 /\ ~exposure[run].ok}
        observed == SumOver([run \in DOMAIN exposure |-> exposure[run].observed])
        candidates == SumOver([run \in DOMAIN exposure |-> exposure[run].candidates])
        rate == IF unsupported # {} THEN unavailable("unsupported_market_scope")
                ELSE IF insufficient # {} \/ orphans > 0 \/ observed = 0
                     THEN unavailable("insufficient_market_time_evidence")
                ELSE available_value(candidates + orphans, observed)
    IN  [rate |-> rate, observed |-> IF rate.available THEN observed ELSE 0,
         per_run |-> exposure, unsupported |-> unsupported, insufficient |-> insufficient]

\* _market_metrics
market_metrics(rs) ==
    Once(group_by_run(rs), LAMBDA groups :
        Once([run \in DOMAIN groups |-> Once(groups[run], run_exposure)],
             LAMBDA exposure : MetricsOver(rs, exposure)))

\* _per_market_date: each date is measured on its own; unstamped rows have none.
per_market_date(rs) ==
    [date \in {session_id(t) : t \in Stamps(rs)} |->
        Once(Select(rs, LAMBDA r : r.ts # -1 /\ session_id(r.ts) = date), LAMBDA day :
            Once(market_metrics(day), LAMBDA metrics :
                [funnel |-> funnel(day), observed |-> metrics.observed, rate |-> metrics.rate]))]

\* _per_symbol: rows without a symbol, so all host rows, count for none.
per_symbol(rs) ==
    [s \in {r.symbol : r \in DOMAIN rs} \ {None} |->
        funnel(Select(rs, LAMBDA r : r.symbol = s))]

-----------------------------------------------------------------------------
(* Counts of the report (aggregate.py, stats.py) *)

\* _suppression, and the reason counts of _intelligence: how often each known
\* reason occurs among the rows of a name, and the rest.
by_reason(rs, name, known) ==
    [counts |-> [k \in known |-> CountIf(rs, LAMBDA r : r.name = name /\ r.reason = k)],
     unknown |-> CountIf(rs, LAMBDA r : r.name = name /\ r.reason \notin known)]

\* Faulty variant: alerts of two runs under one signal id count as a repeat.
RepeatedAcrossRuns(rs) ==
    LET grouped == [g \in {r.signal : r \in {x \in DOMAIN rs : x.name = "alert_candidate"}} |->
                    CountIf(rs, LAMBDA r : r.name = "alert_candidate" /\ r.signal = g)]
    IN  [signals |-> Cardinality({g \in DOMAIN grouped : grouped[g] > 1}),
         extra |-> SumOver([g \in DOMAIN grouped |-> grouped[g] - 1])]

\* _repeated_episodes: per run and signal, how many alerts beyond the first.
repeated_episodes(rs) ==
    LET grouped == [k \in {<<r.run, r.signal>> : r \in {x \in DOMAIN rs :
                        x.name = "alert_candidate" /\ x.run # None /\ x.signal # None}} |->
                    CountIf(rs, LAMBDA r : /\ r.name = "alert_candidate"
                                           /\ <<r.run, r.signal>> = k)]
    IN  [signals |-> Cardinality({k \in DOMAIN grouped : grouped[k] > 1}),
         extra |-> SumOver([k \in DOMAIN grouped |-> grouped[k] - 1])]

\* The priority counts of _alert_noise; other priorities, and other spellings, are not
\* counted.
priority_counts(rs) ==
    [p \in Priorities |-> CountIf(rs, LAMBDA r : r.name = "alert_candidate" /\ r.priority = p)]

\* _pipeline
pipeline(rs) ==
    [counts |-> [n \in EventNames \cup SignalNames \cup {"alert_presented"} |-> Named(rs, n)],
     clustered_seen |-> Cardinality({r.event : r \in {x \in DOMAIN rs :
                            x.name = "event_clustered" /\ x.event # None}}),
     dedupe_rate |-> ratio(Named(rs, "event_deduped"), Named(rs, "event_generated")),
     suppression_rate |-> ratio(Named(rs, "alert_suppressed"),
                                Named(rs, "alert_candidate") + Named(rs, "alert_suppressed"))]

\* _alert_noise
alert_noise(rs) ==
    LET counts == priority_counts(rs)
    IN  [priorities |-> counts, repeated |-> repeated_episodes(rs),
         important_critical |-> ratio(counts["IMPORTANT"] + counts["CRITICAL"], SumOver(counts)),
         suppression |-> by_reason(rs, "alert_suppressed", SuppressionReasons)]

\* percentile: the nearest rank of a sorted sequence.
percentile(ordered, pct) ==
    IF ordered = <<>> THEN None
    ELSE ordered[Max({1, (pct * Len(ordered) + 99) \div 100})]

\* latency_bundle over the samples of one stage.
latency_bundle(rs, stage) ==
    LET samples == Select(rs, LAMBDA r : /\ r.name = "intelligence_latency"
                                         /\ r.reason = stage /\ r.amount # -1)
        ordered == FoldSet(LAMBDA a, acc : acc \o [i \in 1..CountIf(samples,
                                LAMBDA r : r.amount = a) |-> a],
                           <<>>, {r.amount : r \in DOMAIN samples})
        sorted == SortSeq(ordered, <)
    IN  [count |-> Len(sorted), median |-> percentile(sorted, 50), p95 |-> percentile(sorted, 95)]

\* _intelligence
intelligence(rs) ==
    LET usage == Select(rs, LAMBDA r : r.name = "intelligence_token_usage")
    IN  [counts |-> [n \in IntelligenceNames |-> Named(rs, n)],
         skipped |-> by_reason(rs, "intelligence_skipped", DecisionReasons),
         fallback |-> by_reason(rs, "intelligence_fallback", FallbackReasons),
         latency |-> [stage \in Stages |-> latency_bundle(rs, stage)],
         tokens |-> IF DOMAIN usage = {} THEN unavailable("no_provider_usage")
                    ELSE available_value(SumOver([r \in DOMAIN usage |-> usage[r] * r.amount]), 1)]

\* _host: opening, dismissing and muting have no producer and no value.
host(rs) ==
    [presented |-> Named(rs, "alert_presented"), reset |-> Named(rs, "alert_badge_reset"),
     open_rate |-> unavailable("producer_not_implemented")]

-----------------------------------------------------------------------------
(* Explicit feedback *)

\* _valid_feedback_row
valid_feedback_row(row) ==
    row.run # None /\ row.signal # None /\ row.label \in Labels

ValidIn(fb) == {i \in DOMAIN fb : valid_feedback_row(fb[i])}
KeyOf(row) == <<row.run, row.signal>>
KeysNamed(rs, names) ==
    {KeyOf(r) : r \in {x \in DOMAIN rs : x.name \in names /\ x.run # None /\ x.signal # None}}

\* _explicit_feedback
explicit_feedback(fb, rs) ==
    LET valid == ValidIn(fb)
        presented == KeysNamed(rs, {"alert_presented"})
        answered == {KeyOf(fb[i]) : i \in valid}
        useful == {i \in valid : fb[i].label = "useful"}
    IN  [count |-> Cardinality(valid),
         labels |-> [l \in Labels |-> Cardinality({i \in valid : fb[i].label = l})],
         useful_rate |-> IF valid = {} THEN unavailable("no_explicit_feedback")
                         ELSE available_value(Cardinality(useful), Cardinality(valid)),
         coverage |-> IF presented = {} THEN unavailable("denominator_is_zero")
                      ELSE available_value(Cardinality(answered \cap presented),
                                           Cardinality(presented)),
         invalid |-> Cardinality(DOMAIN fb) - Cardinality(valid)]

\* _joinable_keys
joinable_keys(rs) == KeysNamed(rs, SignalNames)

\* Faulty variant: the last row of the file wins, whatever its time.
LastInFile(fb, is) == Max(is)

\* _sort_key: the latest row of a target, equal times by feedback id.
winner(fb, is) ==
    CHOOSE i \in is : \A j \in is :
        \/ fb[j].created < fb[i].created
        \/ fb[j].created = fb[i].created /\ fb[j].id <= fb[i].id

\* build_tuning_feedback_dataset
build_tuning_feedback_dataset(fb, rs) ==
    LET joined == {i \in ValidIn(fb) : KeyOf(fb[i]) \in joinable_keys(rs)}
        by_target == [k \in {KeyOf(fb[i]) : i \in joined} |-> {i \in joined : KeyOf(fb[i]) = k}]
        winners == {winner(fb, by_target[k]) : k \in DOMAIN by_target}
    IN  [raw |-> Len(fb), valid |-> Cardinality(ValidIn(fb)),
         eligible |-> Cardinality(DOMAIN by_target),
         orphan |-> Cardinality(ValidIn(fb) \ joined),
         superseded |-> SumOver([k \in DOMAIN by_target |-> Cardinality(by_target[k]) - 1]),
         labels |-> [l \in Labels |-> Cardinality({i \in winners : fb[i].label = l})]]

-----------------------------------------------------------------------------
(* The report and the tuning metrics *)

\* The filter of evaluate: all rows, or those of one run.  Feedback keeps its lines.
OfRun(rs, run) == IF run = None THEN rs ELSE Select(rs, LAMBDA r : r.run = run)
FeedbackOfRun(fb, run) ==
    IF run = None THEN fb ELSE RestrictValues(fb, LAMBDA r : r.run = run)

\* evaluate, with _metadata and _data_quality (the files themselves are JsonlSink's).
evaluate(all, fbs, run) ==
    LET rs == OfRun(all, run)
        fb == FeedbackOfRun(fbs, run)
        metrics == market_metrics(rs)
        intel == intelligence(rs)
        noise == alert_noise(rs)
        fbk == explicit_feedback(fb, rs)
    IN  [run_ids |-> DOMAIN group_by_run(rs), market_dates |-> {session_id(t) : t \in Stamps(rs)},
         records_read |-> Size(rs) + Cardinality(DOMAIN fb),
         semantic |-> intel.skipped.unknown + intel.fallback.unknown
                      + noise.suppression.unknown + fbk.invalid,
         market |-> metrics, pipeline |-> pipeline(rs), noise |-> noise, host |-> host(rs),
         intelligence |-> intel, per_symbol |-> per_symbol(rs),
         per_market_date |-> per_market_date(rs), feedback |-> fbk]

\* Telemetry writes priorities in upper case; compare.py takes any case.
lower == [INFO |-> "info", NOTICE |-> "notice", IMPORTANT |-> "important", CRITICAL |-> "critical"]
SpeltAs(priority, p) == priority \in {p, lower[p]}

\* _priority_counts of the tuning comparison
any_case_counts(rs) ==
    [p \in Priorities |-> CountIf(rs, LAMBDA r : r.name = "alert_candidate"
                                                 /\ SpeltAs(r.priority, p))]

\* metrics_from_records: the counts of the tuning comparison and the rate of evaluate.
metrics_from_records(rs) ==
    [counts |-> [n \in EventNames \cup SignalNames |-> Named(rs, n)],
     priorities |-> any_case_counts(rs), repeated |-> repeated_episodes(rs),
     suppression |-> by_reason(rs, "alert_suppressed", SuppressionReasons).counts,
     rate |-> market_metrics(rs).rate]

\* The sum of two rates: never available.
SumOfRates(a, b) ==
    IF ~a.available /\ ~b.available THEN unavailable(a.why)
    ELSE unavailable("incomparable_market_hour")

\* _add_metrics
add_metrics(a, b) ==
    LET Plus(f, g) == [k \in DOMAIN f |-> f[k] + g[k]]
    IN  [counts |-> Plus(a.counts, b.counts), priorities |-> Plus(a.priorities, b.priorities),
         repeated |-> Plus(a.repeated, b.repeated),
         suppression |-> Plus(a.suppression, b.suppression), rate |-> SumOfRates(a.rate, b.rate)]

\* _metric_delta; the scheduler's tick counts need the engine and are left out.
metric_delta(a, b) ==
    LET Minus(f, g) == [k \in DOMAIN f |-> g[k] - f[k]]
    IN  [counts |-> Minus(a.counts, b.counts), priorities |-> Minus(a.priorities, b.priorities),
         repeated |-> Minus(a.repeated, b.repeated),
         suppression |-> Minus(a.suppression, b.suppression), rate |-> SumOfRates(a.rate, b.rate)]

\* compare_artifacts: left[i] and right[i] are the records two configurations produced
\* on the i-th replay of the corpus, which is not empty (run_tuned_replay).
compare_artifacts(left, right) ==
    LET Metrics(records) == [i \in DOMAIN records |-> Once(records[i], metrics_from_records)]
        Total(ms) == FoldLeft(add_metrics, Head(ms), Tail(ms))
        Compared(baseline, candidate) ==
            [per_fixture |-> [i \in DOMAIN baseline |-> metric_delta(baseline[i], candidate[i])],
             baseline |-> Total(baseline), candidate |-> Total(candidate),
             delta |-> metric_delta(Total(baseline), Total(candidate))]
    IN  Once(Metrics(left), LAMBDA b : Once(Metrics(right), LAMBDA c : Compared(b, c)))

-----------------------------------------------------------------------------
(* Properties *)

\* A half hour in which the A-share market trades.
Trading(t) == /\ Weekday(session_id(t)) \in 0..4
              /\ t % DayLen \in (19..22) \cup (26..29)

\* The half hours of trading between the first and the last stamp of a run.
TradedIn(rs) == {t \in Min(Stamps(rs))..(Max(Stamps(rs)) - 1) : Trading(t)}

\* alerts_per_market_hour is honest (_market_metrics): when the report gives a rate,
\* every alert of the log is in a run that saw only A-share symbols and some trading
\* time, the numerator is all alerts, and the denominator is the trading time the
\* runs spanned, counted half hour by half hour.  A date never claims more trading
\* time than the runs did.
RateFailsClosed ==
    LET alerts == {r \in DOMAIN rows : r.name = "alert_candidate"}
        Measured == {run \in Runs : Cardinality(Stamps(OfRun(rows, run))) >= 2}
    IN  \A metrics \in {market_metrics(rows)} : metrics.rate.available =>
        /\ \A r \in alerts : r.run \in Measured /\ TradedIn(OfRun(rows, r.run)) # {}
        /\ \A r \in DOMAIN rows : r.ts # -1 /\ r.run # None =>
                \E x \in DOMAIN rows : x.run = r.run /\ x.ts # -1 /\ x.symbol \in AShares
        /\ \A r \in DOMAIN rows : r.ts # -1 /\ r.run # None => r.symbol \in AShares \cup {None}
        /\ metrics.rate.value =
                <<Named(rows, "alert_candidate"),
                  SumOver([run \in Measured |-> Cardinality(TradedIn(OfRun(rows, run)))])>>
        /\ SumOver([d \in DOMAIN per_market_date(rows) |-> per_market_date(rows)[d].observed])
                <= metrics.observed

\* The views of one log agree: the report of a run filtered out of the log is that
\* run's line in the whole report, the lines of the runs add up to the totals when
\* every row has a run, and every alert of an episode is either its first or counted
\* as extra.  Records split over the replays of a corpus give the tuning metrics of the
\* whole, and the difference of the totals of a comparison is the sum of the differences
\* per replay (evaluate, _repeated_episodes, metrics_from_records, _add_metrics,
\* _metric_delta and compare_artifacts).
ReportAddsUp ==
    LET complete == \A r \in DOMAIN rows : r.run # None
        Counts(m) == [m EXCEPT !.rate = None]
    IN  \A report \in {evaluate(rows, feedback, None)} : \A lines \in {report.market.per_run} :
        /\ \A run \in report.run_ids : \A own \in {evaluate(rows, feedback, run)} :
                /\ own.market.per_run[run] = lines[run]
                /\ own.market.rate = lines[run].rate
                /\ own.semantic <= report.semantic
        /\ report.noise.repeated.extra + Cardinality(KeysNamed(rows, {"alert_candidate"}))
                = CountIf(rows, LAMBDA r : /\ r.name = "alert_candidate"
                                           /\ r.run # None /\ r.signal # None)
        /\ complete => \A n \in FunnelNames :
                report.pipeline.counts[n] = SumOver([run \in DOMAIN lines |-> lines[run].funnel[n]])
        /\ complete /\ Cardinality(Runs) = 2 =>
                \A a \in {CHOOSE run \in Runs : TRUE} :
                \A split \in {[i \in 1..2 |-> Select(rows, LAMBDA r : (r.run = a) <=> (i = 1))]} :
                \A cmp \in {compare_artifacts(split, <<rows, <<>>>>)} :
                    /\ Counts(cmp.baseline) = Counts(cmp.candidate)
                    /\ Counts(cmp.delta) = Counts(add_metrics(cmp.per_fixture[1],
                                                              cmp.per_fixture[2]))

\* What tuning learns from feedback does not depend on the order in which the rows
\* reached the file (build_tuning_feedback_dataset): of several opinions on one
\* signal the latest counts, equal times by id; and every valid row is counted once,
\* as an orphan, as superseded, or as the opinion on its target.
FeedbackOrderIrrelevant ==
    LET data == build_tuning_feedback_dataset(feedback, rows)
    IN  /\ \A p \in Bijection(DOMAIN feedback, DOMAIN feedback) :
                build_tuning_feedback_dataset([i \in DOMAIN feedback |-> feedback[p[i]]], rows)
                    = data
        /\ data.valid = data.orphan + data.superseded + data.eligible
        /\ data.eligible = SumOver(data.labels)
=============================================================================
