----------------------- MODULE StandaloneRuntimeProofs -----------------------
(***************************************************************************)
(* Proofs about MarketEngine and about StandaloneRuntime, which runs it,   *)
(* for every set of symbols, every watchlist, every policy, every bound    *)
(* and every size of the events buffer.                                    *)
(*                                                                         *)
(* The first part is the engine alone: EngineInv is the inductive          *)
(* invariant its safety properties follow from.  In the second part        *)
(* EngineInv survives the runtime's loop, where a cancellation may abandon *)
(* a tick at its await and an exception may end it anywhere.  The tools    *)
(* need two facts more: while the loop lives, what is published of a       *)
(* symbol is its health as it was when the last tick ended, and the buffer *)
(* holds the newest events.                                                *)
(***************************************************************************)
EXTENDS StandaloneRuntime, TLAPS

(* The engine *)

\* A tick in progress fetches enabled symbols only, works on the present
\* watchlist, and does not happen once the source is exhausted.
TickInv ==
    tick # NoTick =>
        tick.due \subseteq tick.enabled /\ tick.enabled = Enabled /\ ~exhausted

\* The recorded freshness is the age of the newest quote; it is younger only
\* when the end of the source has refreshed a symbol without failures.
FreshnessInv ==
    \A s \in Symbols :
        /\ health[s].success_age = Never <=> quote_age[s] = Never
        /\ health[s].success_age # quote_age[s] => exhausted /\ health[s].failures = 0

\* A downgrade is a level change.
DwellInv == \A s \in Symbols : sched[s].change_age <= down_age[s]

EngineInv == TypeOK /\ TickInv /\ FreshnessInv /\ PublishedQuoteIsNewest /\ DwellInv

-----------------------------------------------------------------------------
(* Facts about the operators *)

Sched == [level : Levels, change_age : Age, fetch_age : Age]
Health == [success_age : Age \cup {Never}, failures : 0..DisconnectFailures,
           late : BOOLEAN]
State == [ts : 0..MaxTs, level : Levels, status : FeedStatus]

\* Ageing keeps an age an age, and keeps the order of two ages.
LEMMA OlderType ==
    /\ \A a \in Age : Older(a) \in Age /\ Older(a) # Never
    /\ Older(Never) = Never
    /\ \A a, b \in Age : a <= b => Older(a) <= Older(b)
BY EngineAssumption DEF Older, Age, Never

\* The health record stays well-typed through everything observed.
LEMMA HealthType ==
    /\ \A h \in Health : observe_error(h) \in Health /\ keep_alive(h) \in Health
    /\ \A late \in BOOLEAN : observe_quote(late) \in Health
BY EngineAssumption DEF Health, observe_error, keep_alive, observe_quote, Age, Never

\* A health record always has a status.
LEMMA StatusType == \A h \in Health : status_of(h) \in FeedStatus
BY DEF status_of, FeedStatus

\* The scheduler record stays well-typed through level requests and fetches.
LEMMA SchedType ==
    /\ \A c \in Sched : mark_fetched(c) \in Sched
    /\ \A c \in Sched : \A l \in Levels : set_level(c, l) \in Sched
    /\ \A c \in Sched : \A o \in Outcomes : o.found => process_symbol(c, o) \in Sched
<1>1. \A c \in Sched : mark_fetched(c) \in Sched
  BY EngineAssumption DEF Sched, mark_fetched, Age
<1>2. \A c \in Sched : \A l \in Levels : set_level(c, l) \in Sched
  <2> SUFFICES ASSUME NEW c \in Sched, NEW l \in Levels
               PROVE  set_level(c, l) \in Sched
    OBVIOUS
  <2>1. set_level(c, l) \in {c, [level |-> l, change_age |-> 0, fetch_age |-> c.fetch_age]}
    BY DEF set_level
  <2>2. [level |-> l, change_age |-> 0, fetch_age |-> c.fetch_age] \in Sched
    BY EngineAssumption DEF Sched, Age
  <2> QED BY <2>1, <2>2
<1>3. \A c \in Sched : \A o \in Outcomes : o.found => process_symbol(c, o) \in Sched
  BY <1>2 DEF process_symbol
<1> QED BY <1>1, <1>2, <1>3

\* A level is lowered only after its downgrade dwell, and every level change
\* restarts the dwell.
LEMMA SetLevelDwell ==
    ASSUME NEW c \in Sched, NEW l \in Levels
    PROVE  /\ set_level(c, l).change_age <= c.change_age
           /\ Rank(set_level(c, l).level) < Rank(c.level) =>
                /\ set_level(c, l).change_age = 0
                /\ \/ c.change_age >= HotDowngradeDwellS
                   \/ c.change_age >= WarmDowngradeDwellS
<1>1. CASE l = c.level \/ c.change_age < required_dwell(c.level, l)
  BY <1>1 DEF set_level, Sched, Age, Rank, Levels
<1>2. CASE ~(l = c.level \/ c.change_age < required_dwell(c.level, l))
  <2>1. set_level(c, l) = [level |-> l, change_age |-> 0, fetch_age |-> c.fetch_age]
    BY <1>2 DEF set_level
  <2>2. ASSUME Rank(l) < Rank(c.level)
        PROVE  required_dwell(c.level, l) \in {HotDowngradeDwellS, WarmDowngradeDwellS}
    BY <2>2 DEF required_dwell, Rank, Levels
  <2>3. /\ required_dwell(c.level, l) \in Int
        /\ c.change_age \in Age
    BY EngineAssumption DEF required_dwell, Sched, Age
  <2> QED BY <1>2, <2>1, <2>2, <2>3, EngineAssumption DEF Sched, Age
<1> QED BY <1>1, <1>2

-----------------------------------------------------------------------------
(* The inductive invariant *)

\* The engine starts in a state of the invariant.
LEMMA InitInv == Init => EngineInv
<1> SUFFICES ASSUME Init PROVE EngineInv
  OBVIOUS
<1> USE EngineAssumption DEF Init
<1>1. TypeOK
  BY DEF TypeOK, Levels, FeedStatus, Age, Never
<1>2. TickInv
  BY DEF TickInv
<1>3. FreshnessInv
  BY DEF FreshnessInv
<1>4. PublishedQuoteIsNewest
  BY DEF PublishedQuoteIsNewest
<1>5. DwellInv
  BY DEF DwellInv
<1> QED BY <1>1, <1>2, <1>3, <1>4, <1>5 DEF EngineInv

\* Editing the watchlist happens between ticks and changes nothing else.
LEMMA ReplaceInv ==
    ASSUME EngineInv, NEW items \in [Symbols -> {"absent", "enabled", "disabled"}],
           replace(items)
    PROVE  EngineInv'
<1> USE DEF replace
<1>1. TypeOK'
  BY DEF EngineInv, TypeOK
<1>2. TickInv'
  BY DEF TickInv
<1>3. FreshnessInv' /\ PublishedQuoteIsNewest' /\ DwellInv'
  BY DEF EngineInv, FreshnessInv, PublishedQuoteIsNewest, DwellInv
<1> QED BY <1>1, <1>2, <1>3 DEF EngineInv

\* Time ages every timestamp alike.
LEMMA ClockInv ==
    ASSUME EngineInv, AdvanceClock
    PROVE  EngineInv'
<1> USE DEF AdvanceClock
<1>1. TypeOK'
  <2>1. sched' \in [Symbols -> [level : Levels, change_age : Age, fetch_age : Age]]
    BY OlderType, ZenonT(40) DEF EngineInv, TypeOK
  <2>2. health' \in [Symbols -> [success_age : Age \cup {Never},
                                 failures : 0..DisconnectFailures, late : BOOLEAN]]
    BY OlderType, ZenonT(40) DEF EngineInv, TypeOK
  <2>3. /\ quote_age' \in [Symbols -> Age \cup {Never}]
        /\ down_age' \in [Symbols -> Age]
    BY OlderType DEF EngineInv, TypeOK
  <2> QED BY <2>1, <2>2, <2>3 DEF EngineInv, TypeOK
<1>2. TickInv'
  BY DEF EngineInv, TickInv, Enabled
<1>3. FreshnessInv'
  <2> SUFFICES ASSUME NEW s \in Symbols
               PROVE  /\ health'[s].success_age = Never <=> quote_age'[s] = Never
                      /\ health'[s].success_age # quote_age'[s] =>
                            exhausted' /\ health'[s].failures = 0
    BY DEF FreshnessInv
  <2>1. /\ health'[s].success_age = Older(health[s].success_age)
        /\ health'[s].failures = health[s].failures
        /\ quote_age'[s] = Older(quote_age[s])
        /\ exhausted' = exhausted
        /\ health[s].success_age \in Age \cup {Never}
        /\ quote_age[s] \in Age \cup {Never}
    BY DEF EngineInv, TypeOK
  <2>2. /\ health[s].success_age = Never <=> quote_age[s] = Never
        /\ health[s].success_age # quote_age[s] => exhausted /\ health[s].failures = 0
    BY DEF EngineInv, FreshnessInv
  <2>3. health'[s].success_age = Never <=> quote_age'[s] = Never
    BY <2>1, <2>2, OlderType
  <2>4. health'[s].success_age # quote_age'[s] =>
            health[s].success_age # quote_age[s]
    BY <2>1
  <2>5. exhausted => exhausted'
    OBVIOUS
  <2>6. health'[s].success_age # quote_age'[s] => exhausted' /\ health'[s].failures = 0
    BY <2>1, <2>2, <2>4, <2>5
  <2> QED BY <2>3, <2>6
<1>4. PublishedQuoteIsNewest'
  BY DEF EngineInv, PublishedQuoteIsNewest
<1>5. DwellInv'
  <2> SUFFICES ASSUME NEW s \in Symbols
               PROVE  sched'[s].change_age <= down_age'[s]
    BY DEF DwellInv
  <2>1. /\ sched'[s].change_age = Older(sched[s].change_age)
        /\ down_age'[s] = Older(down_age[s])
        /\ sched[s].change_age \in Age
        /\ down_age[s] \in Age
    BY DEF EngineInv, TypeOK
  <2>2. sched[s].change_age <= down_age[s]
    BY DEF EngineInv, DwellInv
  <2> QED BY <2>1, <2>2, OlderType
<1> QED BY <1>1, <1>2, <1>3, <1>4, <1>5 DEF EngineInv

\* A tick that will fetch fixes its enabled and due symbols.
LEMMA TickBeginsInv ==
    ASSUME EngineInv, TickBegins
    PROVE  EngineInv'
<1> USE DEF TickBegins
<1>1. due_symbols(Enabled) \subseteq Enabled /\ Enabled \subseteq Symbols
  BY DEF due_symbols, Enabled
<1>2. Enabled' = Enabled
  BY DEF Enabled
<1>3. TypeOK'
  BY <1>1 DEF EngineInv, TypeOK, FetchingTick
<1>4. TickInv'
  BY <1>1, <1>2 DEF TickInv
<1>5. FreshnessInv' /\ PublishedQuoteIsNewest' /\ DwellInv'
  BY DEF EngineInv, FreshnessInv, PublishedQuoteIsNewest, DwellInv
<1> QED BY <1>3, <1>4, <1>5 DEF EngineInv

\* A tick that fetches nothing: at the end of the source the due symbols are
\* kept alive, which needs a quote and no failure.
LEMMA TickWithoutFetchInv ==
    ASSUME EngineInv, TickWithoutFetch
    PROVE  EngineInv'
<1> DEFINE due == due_symbols(Enabled)
           h == [s \in Symbols |-> IF s \in due THEN keep_alive(health[s]) ELSE health[s]]
<1>1. /\ health' = h
      /\ sched' = [s \in Symbols |->
                       IF s \in due THEN mark_fetched(sched[s]) ELSE sched[s]]
      /\ state' = [s \in Symbols |->
                       IF s \in Enabled THEN project_health(state[s].ts, sched[s], h[s])
                       ELSE state[s]]
      /\ UNCHANGED <<watch, newest, processed, tick, exhausted, quote_age, down_age>>
      /\ tick = NoTick
      /\ due # {} => exhausted
  BY DEF TickWithoutFetch
<1> HIDE DEF due
<1>2. /\ sched \in [Symbols -> Sched]
      /\ health \in [Symbols -> Health]
      /\ state \in [Symbols -> State]
  BY DEF EngineInv, TypeOK, Sched, Health, State
<1>3. \A s \in Symbols : h[s] \in Health
  BY <1>2, HealthType
<1>4. health' \in [Symbols -> Health]
  BY <1>1, <1>3
<1>5. sched' \in [Symbols -> Sched]
  BY <1>1, <1>2, SchedType
<1>6. state' \in [Symbols -> State]
  <2>1. \A s \in Symbols : project_health(state[s].ts, sched[s], h[s]) \in State
    BY <1>2, <1>3, StatusType DEF project_health, State, Sched
  <2> QED BY <2>1, <1>1, <1>2
<1> HIDE DEF h
<1>7. TypeOK'
  BY <1>1, <1>4, <1>5, <1>6 DEF EngineInv, TypeOK, Sched, Health, State
<1>8. TickInv'
  BY <1>1 DEF TickInv
<1>9. FreshnessInv'
  <2> SUFFICES ASSUME NEW s \in Symbols
               PROVE  /\ health'[s].success_age = Never <=> quote_age'[s] = Never
                      /\ health'[s].success_age # quote_age'[s] =>
                            exhausted' /\ health'[s].failures = 0
    BY DEF FreshnessInv
  <2>1. /\ health[s].success_age = Never <=> quote_age[s] = Never
        /\ health[s].success_age # quote_age[s] => exhausted /\ health[s].failures = 0
    BY DEF EngineInv, FreshnessInv
  <2>2. quote_age'[s] = quote_age[s] /\ (exhausted => exhausted')
    BY <1>1
  <2>3. CASE health'[s] = health[s]
    BY <2>1, <2>2, <2>3
  <2>4. CASE health'[s] # health[s]
    <3>1. s \in due /\ health'[s] = keep_alive(health[s])
      BY <2>4, <1>1 DEF h
    <3>2. exhausted'
      BY <3>1, <1>1, <2>2
    <3>3. /\ health[s].success_age # Never /\ ~(health[s].failures > 0)
          /\ health'[s] = [health[s] EXCEPT !.success_age = 0]
      BY <3>1, <2>4 DEF keep_alive
    <3>4. health'[s].success_age = 0 /\ health'[s].failures = health[s].failures
      BY <3>3, <1>2 DEF Health
    <3>5. health[s].failures = 0
      BY <3>3, <1>2 DEF Health
    <3> QED BY <2>1, <2>2, <3>2, <3>3, <3>4, <3>5 DEF Never
  <2> QED BY <2>3, <2>4
<1>10. PublishedQuoteIsNewest'
  <2> SUFFICES ASSUME NEW s \in Symbols
               PROVE  state'[s].ts = newest'[s] /\ processed'[s] <= newest'[s]
    BY DEF PublishedQuoteIsNewest
  <2>1. state'[s].ts = state[s].ts
    BY <1>1 DEF project_health
  <2> QED BY <2>1, <1>1 DEF EngineInv, PublishedQuoteIsNewest
<1>11. DwellInv'
  <2> SUFFICES ASSUME NEW s \in Symbols
               PROVE  sched'[s].change_age <= down_age'[s]
    BY DEF DwellInv
  <2>1. sched'[s].change_age = sched[s].change_age
    BY <1>1, <1>2 DEF mark_fetched, Sched
  <2> QED BY <2>1, <1>1 DEF EngineInv, DwellInv
<1> QED BY <1>7, <1>8, <1>9, <1>10, <1>11 DEF EngineInv

\* A provider that raises counts one failure of every due symbol.  The source is
\* not exhausted then, so the freshness of a failing symbol is that of its quote.
LEMMA FetchRaisesInv ==
    ASSUME EngineInv, FetchRaises
    PROVE  EngineInv'
<1> DEFINE h == [s \in Symbols |->
                    IF s \in tick.due THEN observe_error(health[s]) ELSE health[s]]
<1>1. /\ health' = h
      /\ sched' = [s \in Symbols |->
                       IF s \in tick.due THEN mark_fetched(sched[s]) ELSE sched[s]]
      /\ state' = [s \in Symbols |->
                       IF s \in Projected(tick)
                       THEN project_health(state[s].ts, sched[s], h[s])
                       ELSE state[s]]
      /\ UNCHANGED <<watch, newest, processed, exhausted, quote_age, down_age>>
      /\ tick # NoTick
      /\ tick' = NoTick
  BY DEF FetchRaises
<1>2. /\ sched \in [Symbols -> Sched]
      /\ health \in [Symbols -> Health]
      /\ state \in [Symbols -> State]
  BY DEF EngineInv, TypeOK, Sched, Health, State
<1>3. \A s \in Symbols : h[s] \in Health
  BY <1>2, HealthType
<1>4. health' \in [Symbols -> Health]
  BY <1>1, <1>3
<1>5. sched' \in [Symbols -> Sched]
  BY <1>1, <1>2, SchedType
<1>6. state' \in [Symbols -> State]
  <2>1. \A s \in Symbols : project_health(state[s].ts, sched[s], h[s]) \in State
    BY <1>2, <1>3, StatusType DEF project_health, State, Sched
  <2> QED BY <2>1, <1>1, <1>2
<1> HIDE DEF h
<1>7. TypeOK'
  BY <1>1, <1>4, <1>5, <1>6 DEF EngineInv, TypeOK, Sched, Health, State
<1>8. TickInv'
  BY <1>1 DEF TickInv
<1>9. FreshnessInv'
  <2> SUFFICES ASSUME NEW s \in Symbols
               PROVE  /\ health'[s].success_age = Never <=> quote_age'[s] = Never
                      /\ health'[s].success_age = quote_age'[s]
    BY DEF FreshnessInv
  <2>1. ~exhausted
    BY <1>1 DEF EngineInv, TickInv
  <2>2. health[s].success_age = quote_age[s]
    BY <2>1 DEF EngineInv, FreshnessInv
  <2>3. health'[s].success_age = health[s].success_age
    BY <1>1, <1>2 DEF h, observe_error, Health
  <2> QED BY <2>2, <2>3, <1>1
<1>10. PublishedQuoteIsNewest'
  <2> SUFFICES ASSUME NEW s \in Symbols
               PROVE  state'[s].ts = newest'[s] /\ processed'[s] <= newest'[s]
    BY DEF PublishedQuoteIsNewest
  <2>1. state'[s].ts = state[s].ts
    BY <1>1 DEF project_health
  <2> QED BY <2>1, <1>1 DEF EngineInv, PublishedQuoteIsNewest
<1>11. DwellInv'
  <2> SUFFICES ASSUME NEW s \in Symbols
               PROVE  sched'[s].change_age <= down_age'[s]
    BY DEF DwellInv
  <2>1. sched'[s].change_age = sched[s].change_age
    BY <1>1, <1>2 DEF mark_fetched, Sched
  <2> QED BY <2>1, <1>1 DEF EngineInv, DwellInv
<1> QED BY <1>7, <1>8, <1>9, <1>10, <1>11 DEF EngineInv

\* A quote that was found has a market time and a latency.
LEMMA FoundOutcome ==
    ASSUME NEW o \in Outcomes, o.found
    PROVE  o.ts \in 1..MaxTs /\ o.late \in BOOLEAN
<1>1. o # Missing
  BY DEF Missing
<1> QED BY <1>1, EngineAssumption DEF Outcomes

\* A fetch, and what the policy asks for after it, changes a level as set_level does.
LEMMA ProcessDwell ==
    ASSUME NEW c \in Sched
    PROVE  /\ mark_fetched(c).change_age = c.change_age /\ mark_fetched(c).level = c.level
           /\ c.change_age \in Int /\ Rank(c.level) \in Int
           /\ \A o \in Outcomes : o.found =>
                LET d == process_symbol(mark_fetched(c), o)
                IN  /\ d.change_age <= c.change_age
                    /\ Rank(d.level) < Rank(c.level) => d.change_age = 0
<1>1. /\ mark_fetched(c) \in Sched
      /\ mark_fetched(c).change_age = c.change_age
      /\ mark_fetched(c).level = c.level
      /\ c.change_age \in Int
      /\ Rank(c.level) \in Int
  BY SchedType DEF mark_fetched, Sched, Age, Rank
<1>2. ASSUME NEW o \in Outcomes, o.found
      PROVE  LET d == process_symbol(mark_fetched(c), o)
             IN  /\ d.change_age <= c.change_age
                 /\ Rank(d.level) < Rank(c.level) => d.change_age = 0
  <2>1. CASE o.reaction \in Levels
    <3>1. process_symbol(mark_fetched(c), o) = set_level(mark_fetched(c), o.reaction)
      BY <2>1 DEF process_symbol
    <3> QED BY <3>1, <1>1, <2>1, SetLevelDwell
  <2>2. CASE o.reaction \notin Levels
    <3>1. process_symbol(mark_fetched(c), o) = mark_fetched(c)
      BY <2>2 DEF process_symbol
    <3> QED BY <3>1, <1>1
  <2> QED BY <2>1, <2>2
<1> QED BY <1>1, <1>2

\* An answer of the provider: every accepted quote becomes the newest, shown and
\* processed one; every other due symbol has a failure.
LEMMA FetchReturnsInv ==
    ASSUME EngineInv, tick # NoTick, NEW outcome \in [tick.due -> Outcomes],
           FetchReturns(outcome), exhausted' \in {exhausted, TRUE}
    PROVE  EngineInv'
<1> DEFINE fresh == {s \in tick.due : accepts(s, outcome[s])}
           h == [s \in Symbols |->
                    IF s \in fresh THEN observe_quote(outcome[s].late)
                    ELSE IF s \in tick.due THEN observe_error(health[s])
                    ELSE health[s]]
           c == [s \in Symbols |->
                    IF s \in fresh THEN process_symbol(mark_fetched(sched[s]), outcome[s])
                    ELSE IF s \in tick.due THEN mark_fetched(sched[s])
                    ELSE sched[s]]
<1>1. /\ health' = h
      /\ sched' = c
      /\ newest' = [s \in Symbols |->
                       IF s \in fresh /\ outcome[s].ts > newest[s]
                       THEN outcome[s].ts ELSE newest[s]]
      /\ processed' = [s \in Symbols |->
                           IF s \in fresh /\ outcome[s].reaction # "features_raise"
                           THEN outcome[s].ts ELSE processed[s]]
      /\ state' = [s \in Symbols |->
                       IF s \in Projected(tick)
                       THEN project_health(IF s \in fresh THEN outcome[s].ts
                                           ELSE state[s].ts, c[s], h[s])
                       ELSE state[s]]
      /\ quote_age' = [s \in Symbols |-> IF s \in fresh THEN 0 ELSE quote_age[s]]
      /\ down_age' = [s \in Symbols |->
                           IF Rank(c[s].level) < Rank(sched[s].level)
                           THEN 0 ELSE down_age[s]]
      /\ tick' = NoTick
      /\ watch' = watch
  BY DEF FetchReturns
<1>2. /\ sched \in [Symbols -> Sched]
      /\ health \in [Symbols -> Health]
      /\ state \in [Symbols -> State]
      /\ newest \in [Symbols -> 0..MaxTs]
      /\ processed \in [Symbols -> 0..MaxTs]
      /\ quote_age \in [Symbols -> Age \cup {Never}]
      /\ down_age \in [Symbols -> Age]
      /\ exhausted \in BOOLEAN
  BY DEF EngineInv, TypeOK, Sched, Health, State
<1>3. ~exhausted /\ tick.due \subseteq Projected(tick)
  BY DEF EngineInv, TickInv, Projected
<1>4. \A s \in fresh : /\ outcome[s] \in Outcomes /\ outcome[s].found
                       /\ outcome[s].ts >= newest[s]
                       /\ s \in Projected(tick)
  BY <1>3 DEF accepts
<1>5. \A s \in fresh : outcome[s].ts \in 1..MaxTs /\ outcome[s].late \in BOOLEAN
  BY <1>4, FoundOutcome
<1>6. \A s \in Symbols : h[s] \in Health
  BY <1>2, <1>5, HealthType
<1>7. \A s \in Symbols : c[s] \in Sched
  BY <1>2, <1>4, SchedType
<1>8. \A s \in Symbols :
        /\ c[s].change_age <= sched[s].change_age
        /\ Rank(c[s].level) < Rank(sched[s].level) => c[s].change_age = 0
  <2> SUFFICES ASSUME NEW s \in Symbols
               PROVE  /\ c[s].change_age <= sched[s].change_age
                      /\ Rank(c[s].level) < Rank(sched[s].level) => c[s].change_age = 0
    OBVIOUS
  <2>1. sched[s] \in Sched
    BY <1>2
  <2>2. CASE s \in fresh
    BY <1>4, <2>1, <2>2, ProcessDwell
  <2>3. CASE s \notin fresh
    <3>1. c[s] \in {mark_fetched(sched[s]), sched[s]}
      BY <2>3
    <3> HIDE DEF c, fresh
    <3> QED BY <3>1, <2>1, ProcessDwell
  <2> QED BY <2>2, <2>3
<1> HIDE DEF fresh, h, c
<1>9. TypeOK'
  <2>1. health' \in [Symbols -> Health]
    BY <1>1, <1>6 DEF h
  <2>2. sched' \in [Symbols -> Sched]
    BY <1>1, <1>7 DEF c
  <2>3. newest' \in [Symbols -> 0..MaxTs] /\ processed' \in [Symbols -> 0..MaxTs]
    BY <1>1, <1>2, <1>5, EngineAssumption
  <2>4. state' \in [Symbols -> State]
    <3>1. \A s \in Symbols : \A t \in 0..MaxTs : project_health(t, c[s], h[s]) \in State
      BY <1>6, <1>7, StatusType DEF project_health, State, Sched
    <3>2. \A s \in Symbols : (IF s \in fresh THEN outcome[s].ts ELSE state[s].ts) \in 0..MaxTs
      BY <1>2, <1>5, EngineAssumption DEF State
    <3> QED BY <1>1, <1>2, <3>1, <3>2
  <2>5. quote_age' \in [Symbols -> Age \cup {Never}] /\ down_age' \in [Symbols -> Age]
    BY <1>1, <1>2, EngineAssumption DEF Age
  <2>6. /\ watch' \in [Symbols -> {"absent", "enabled", "disabled"}]
        /\ tick' \in {NoTick} \cup FetchingTick
    BY <1>1 DEF EngineInv, TypeOK
  <2>7. exhausted' \in BOOLEAN
    BY <1>2
  <2> QED BY <2>1, <2>2, <2>3, <2>4, <2>5, <2>6, <2>7 DEF TypeOK, Sched, Health, State
<1>10. TickInv'
  BY <1>1 DEF TickInv
<1>11. FreshnessInv'
  <2> SUFFICES ASSUME NEW s \in Symbols
               PROVE  health'[s].success_age = quote_age'[s]
    BY DEF FreshnessInv
  <2>1. health[s].success_age = quote_age[s]
    BY <1>3 DEF EngineInv, FreshnessInv
  <2>2. CASE s \in fresh
    BY <2>2, <1>1 DEF h, observe_quote
  <2>3. CASE s \notin fresh
    <3>1. health'[s].success_age = health[s].success_age
      BY <2>3, <1>1, <1>2 DEF h, observe_error, Health
    <3> QED BY <2>1, <2>3, <3>1, <1>1
  <2> QED BY <2>2, <2>3
<1>12. PublishedQuoteIsNewest'
  <2> SUFFICES ASSUME NEW s \in Symbols
               PROVE  state'[s].ts = newest'[s] /\ processed'[s] <= newest'[s]
    BY DEF PublishedQuoteIsNewest
  <2>1. state[s].ts = newest[s] /\ processed[s] <= newest[s]
    BY DEF EngineInv, PublishedQuoteIsNewest
  <2>2. newest[s] \in Int /\ processed[s] \in Int
    BY <1>2
  <2>3. CASE s \in fresh
    <3>1. state'[s].ts = outcome[s].ts
      BY <2>3, <1>1, <1>4 DEF project_health
    <3>2. newest'[s] = outcome[s].ts
      <4>1. newest'[s] = IF outcome[s].ts > newest[s] THEN outcome[s].ts ELSE newest[s]
        BY <2>3, <1>1
      <4>2. outcome[s].ts \in Int /\ outcome[s].ts >= newest[s]
        BY <2>3, <1>4, <1>5
      <4> QED BY <4>1, <4>2, <2>2
    <3>3. processed'[s] \in {outcome[s].ts, processed[s]}
      BY <1>1
    <3> QED BY <2>1, <2>2, <2>3, <3>1, <3>2, <3>3, <1>4, <1>5
  <2>4. CASE s \notin fresh
    <3>1. state'[s].ts = state[s].ts
      BY <2>4, <1>1 DEF project_health
    <3> QED BY <2>1, <2>4, <3>1, <1>1
  <2> QED BY <2>3, <2>4
<1>13. DwellInv'
  <2> SUFFICES ASSUME NEW s \in Symbols
               PROVE  c[s].change_age <= down_age'[s]
    BY <1>1 DEF DwellInv
  <2>1. /\ sched[s].change_age <= down_age[s]
        /\ sched[s].change_age \in Int /\ down_age[s] \in Int /\ c[s].change_age \in Int
    BY <1>2, <1>7 DEF EngineInv, DwellInv, Sched, Age
  <2>2. down_age'[s] = IF Rank(c[s].level) < Rank(sched[s].level) THEN 0 ELSE down_age[s]
    BY <1>1
  <2> QED BY <2>1, <2>2, <1>8
<1> QED BY <1>9, <1>10, <1>11, <1>12, <1>13 DEF EngineInv

\* Every step of the engine preserves the invariant.
LEMMA NextInv == EngineInv /\ [Next]_vars => EngineInv'
<1> SUFFICES ASSUME EngineInv, [Next]_vars PROVE EngineInv'
  OBVIOUS
<1>1. CASE AdvanceClock
  BY <1>1, ClockInv
<1>2. CASE TickBegins
  BY <1>2, TickBeginsInv
<1>3. CASE TickWithoutFetch
  BY <1>3, TickWithoutFetchInv
<1>4. CASE FetchRaises
  BY <1>4, FetchRaisesInv
<1>5. CASE FetchEnds
  <2>1. PICK outcome \in [tick.due -> Outcomes] : FetchReturns(outcome)
    BY <1>5 DEF FetchEnds
  <2> QED BY <2>1, <1>5, FetchReturnsInv DEF FetchEnds
<1>6. CASE \E items \in [Symbols -> {"absent", "enabled", "disabled"}] : replace(items)
  BY <1>6, ReplaceInv
<1>7. CASE UNCHANGED vars
  BY <1>7 DEF vars, EngineInv, TypeOK, TickInv, Enabled, FreshnessInv,
              PublishedQuoteIsNewest, DwellInv
<1> QED BY <1>1, <1>2, <1>3, <1>4, <1>5, <1>6, <1>7 DEF Next, Tick, TickEnds

\* The inductive invariant holds throughout.
THEOREM EngineInvariant == Spec => []EngineInv
<1>1. Init => EngineInv
  BY InitInv
<1>2. EngineInv /\ [Next]_vars => EngineInv'
  BY NextInv
<1> QED BY <1>1, <1>2, PTL DEF Spec

-----------------------------------------------------------------------------
(* What the engine promises *)

\* The state of every component the tick drives is well-typed.
THEOREM TypeCorrect == Spec => []TypeOK
<1>1. EngineInv => TypeOK
  BY DEF EngineInv
<1> QED BY <1>1, EngineInvariant, PTL

\* The recorded freshness makes a usable status honest.
LEMMA FreshnessFollows == EngineInv => FreshnessHonest
<1> SUFFICES ASSUME EngineInv, NEW s \in Symbols,
                    status_of(health[s]) \in {"LIVE", "DELAYED"}
             PROVE  \/ quote_age[s] \in 0..(StaleS - 1)
                    \/ exhausted /\ health[s].failures = 0 /\ quote_age[s] # Never
  BY DEF FreshnessHonest
<1>1. /\ health[s].success_age \in Age \cup {Never}
      /\ StaleS \in Int
  BY EngineAssumption DEF EngineInv, TypeOK
<1>2. health[s].success_age # Never /\ ~(health[s].success_age >= StaleS)
  BY DEF status_of
<1>3. health[s].success_age \in 0..(StaleS - 1)
  BY <1>1, <1>2 DEF Age
<1>4. /\ health[s].success_age = Never <=> quote_age[s] = Never
      /\ health[s].success_age # quote_age[s] => exhausted /\ health[s].failures = 0
  BY DEF EngineInv, FreshnessInv
<1>5. CASE health[s].success_age = quote_age[s]
  BY <1>3, <1>5
<1>6. CASE health[s].success_age # quote_age[s]
  BY <1>2, <1>4, <1>6
<1> QED BY <1>5, <1>6

\* A usable feed status (FeedHealthTracker._compute) has a recent quote behind
\* it, or the end of a replay and no failure.
THEOREM FreshnessIsHonest == Spec => []FreshnessHonest
<1> QED BY FreshnessFollows, EngineInvariant, PTL

\* Hosts are shown the newest buffered quote of every symbol.
THEOREM PublishedIsNewest == Spec => []PublishedQuoteIsNewest
<1>1. EngineInv => PublishedQuoteIsNewest
  BY DEF EngineInv
<1> QED BY <1>1, EngineInvariant, PTL

\* The pipeline runs with a market time that never goes back, because
\* _ingest_snapshot rejects every quote older than the newest one.
THEOREM PipelineTime == Spec => PipelineTimeMonotone
<1>1. EngineInv /\ [Next]_vars => [\A s \in Symbols : processed'[s] >= processed[s]]_vars
  <2> SUFFICES ASSUME EngineInv, Next, NEW s \in Symbols
               PROVE  processed'[s] >= processed[s]
    OBVIOUS
  <2>1. /\ processed[s] \in Int /\ newest[s] \in Int
        /\ processed[s] <= newest[s]
    BY DEF EngineInv, TypeOK, PublishedQuoteIsNewest
  <2>2. CASE processed' = processed
    BY <2>1, <2>2
  <2>3. CASE FetchEnds
    <3>1. PICK outcome \in [tick.due -> Outcomes] : FetchReturns(outcome)
      BY <2>3 DEF FetchEnds
    <3>2. CASE processed'[s] = processed[s]
      BY <2>1, <3>2
    <3>3. CASE processed'[s] # processed[s]
      <4>1. s \in tick.due /\ accepts(s, outcome[s]) /\ processed'[s] = outcome[s].ts
        BY <3>1, <3>3 DEF FetchReturns
      <4>2. outcome[s].ts \in Int /\ outcome[s].ts >= newest[s]
        BY <3>1, <4>1, FoundOutcome DEF accepts
      <4> QED BY <2>1, <4>1, <4>2
    <3> QED BY <3>2, <3>3
  <2> QED BY <2>2, <2>3 DEF Next, Tick, TickEnds, AdvanceClock, TickBegins,
                            TickWithoutFetch, FetchRaises, replace
<1> QED BY <1>1, EngineInvariant, PTL DEF Spec, PipelineTimeMonotone

\* A tick ends with every enabled symbol shown as it is at that moment: the
\* watchlist the tick began with is still the watchlist.
THEOREM ProjectionIsCurrent == Spec => ProjectionCurrent
<1> DEFINE Shown == \A s \in Enabled : /\ state'[s].level = sched'[s].level
                                       /\ state'[s].status = status_of(health'[s])
<1>1. EngineInv /\ [Next]_vars => [(TickWithoutFetch \/ TickEnds) => Shown]_vars
  <2> SUFFICES ASSUME EngineInv, TickWithoutFetch \/ TickEnds, NEW s \in Enabled
               PROVE  /\ state'[s].level = sched'[s].level
                      /\ state'[s].status = status_of(health'[s])
    OBVIOUS
  <2>1. s \in Symbols /\ sched[s] \in Sched
    BY DEF Enabled, EngineInv, TypeOK, Sched
  <2>2. mark_fetched(sched[s]).level = sched[s].level
    BY <2>1 DEF mark_fetched, Sched
  <2>3. tick # NoTick => s \in Projected(tick)
    BY DEF EngineInv, TickInv, Projected
  <2>4. CASE TickWithoutFetch
    BY <2>1, <2>2, <2>4 DEF TickWithoutFetch, project_health
  <2>5. CASE FetchRaises
    BY <2>1, <2>2, <2>3, <2>5 DEF FetchRaises, project_health
  <2>6. CASE FetchEnds
    <3>1. PICK outcome \in [tick.due -> Outcomes] : FetchReturns(outcome)
      BY <2>6 DEF FetchEnds
    <3> QED BY <2>1, <2>3, <2>6, <3>1 DEF FetchEnds, FetchReturns, project_health
  <2> QED BY <2>4, <2>5, <2>6 DEF TickEnds
<1> QED BY <1>1, EngineInvariant, PTL DEF Spec, ProjectionCurrent

\* Downgrades of a symbol are at least a downgrade dwell apart, although the
\* scheduler records level changes of both directions in one timestamp.
THEOREM DowngradesAreSpaced == Spec => DowngradesSpaced
<1> DEFINE Spaced == \A s \in Symbols :
                        Rank(sched'[s].level) < Rank(sched[s].level) =>
                            \/ down_age[s] >= HotDowngradeDwellS
                            \/ down_age[s] >= WarmDowngradeDwellS
<1>1. EngineInv /\ [Next]_vars => [Spaced]_vars
  <2> SUFFICES ASSUME EngineInv, Next, NEW s \in Symbols,
                      Rank(sched'[s].level) < Rank(sched[s].level)
               PROVE  \/ down_age[s] >= HotDowngradeDwellS
                      \/ down_age[s] >= WarmDowngradeDwellS
    OBVIOUS
  <2>1. /\ sched[s] \in Sched /\ down_age[s] \in Int
        /\ sched[s].change_age \in Int
        /\ sched[s].change_age <= down_age[s]
        /\ HotDowngradeDwellS \in Int /\ WarmDowngradeDwellS \in Int
    BY EngineAssumption DEF EngineInv, TypeOK, DwellInv, Sched, Age
  <2>2. /\ mark_fetched(sched[s]) \in Sched
        /\ mark_fetched(sched[s]).change_age = sched[s].change_age
        /\ mark_fetched(sched[s]).level = sched[s].level
        /\ Rank(sched[s].level) \in Int
    BY <2>1, SchedType DEF mark_fetched, Sched, Rank
  <2>3. CASE sched'[s].level = sched[s].level
    BY <2>2, <2>3
  <2>4. CASE FetchEnds
    <3>1. PICK outcome \in [tick.due -> Outcomes] : FetchReturns(outcome)
      BY <2>4 DEF FetchEnds
    <3>2. \/ sched'[s] \in {sched[s], mark_fetched(sched[s])}
          \/ /\ outcome[s].reaction \in Levels
             /\ sched'[s] = set_level(mark_fetched(sched[s]), outcome[s].reaction)
      BY <3>1 DEF FetchReturns, process_symbol
    <3>3. CASE sched'[s] \in {sched[s], mark_fetched(sched[s])}
      BY <3>3, <2>2
    <3>4. CASE /\ outcome[s].reaction \in Levels
               /\ sched'[s] = set_level(mark_fetched(sched[s]), outcome[s].reaction)
      <4>1. \/ sched[s].change_age >= HotDowngradeDwellS
            \/ sched[s].change_age >= WarmDowngradeDwellS
        BY <3>4, <2>2, SetLevelDwell
      <4> QED BY <4>1, <2>1
    <3> QED BY <3>2, <3>3, <3>4
  <2>5. CASE ~FetchEnds
    <3>1. sched'[s].level = sched[s].level
      <4>1. CASE AdvanceClock
        BY <4>1, <2>1 DEF AdvanceClock, Sched
      <4>2. CASE TickWithoutFetch
        BY <4>2, <2>2 DEF TickWithoutFetch
      <4>3. CASE FetchRaises
        BY <4>3, <2>2 DEF FetchRaises
      <4>4. CASE sched' = sched
        BY <4>4
      <4> QED BY <2>5, <4>1, <4>2, <4>3, <4>4
             DEF Next, Tick, TickEnds, TickBegins, replace
    <3> QED BY <3>1, <2>3
  <2> QED BY <2>4, <2>5
<1> QED BY <1>1, EngineInvariant, PTL DEF Spec, DowngradesSpaced

-----------------------------------------------------------------------------
(* The runtime's loop and tools *)

\* The watchlist is fixed, with every symbol enabled.
Watched == \A s \in Symbols : watch[s] = "enabled"

\* While the loop lives, what is published is the health of the last tick.
AsShown == loop # "failed" /\ shown_age # Never => \A s \in Symbols : AsLastTick(s)

\* There is no tick task before start.
NotYet == serving = "new" => loop = "none"

\* The buffer holds the newest events, as many as fit, in the order they were accepted.
NewestBuffered ==
    /\ accepted \in Nat
    /\ events \in Seq([symbol : Symbols, n : Nat])
    /\ Len(events) = IF accepted <= BufferLen THEN accepted ELSE BufferLen
    /\ \A i \in DOMAIN events : events[i].n = accepted - Len(events) + i

\* The inductive invariant.
RuntimeInv ==
    /\ EngineInv /\ Watched /\ NotYet /\ AsShown /\ NewestBuffered
    /\ running \in BOOLEAN /\ shown_age \in Age \cup {Never}

-----------------------------------------------------------------------------
(* Numbers and statuses *)

\* The greater of two numbers.
LEMMA PairMax ==
  ASSUME NEW x \in Int, NEW y \in Int
  PROVE  Max({x, y}) = IF x >= y THEN x ELSE y
BY DEF Max

\* The lesser of two numbers.
LEMMA PairMin ==
  ASSUME NEW x \in Int, NEW y \in Int
  PROVE  Min({x, y}) = IF x <= y THEN x ELSE y
BY DEF Min

\* Severities are numbers.
LEMMA SeverityType == \A x : Severity(x) \in 0..3
BY DEF Severity

\* The aggregate is the worst of the statuses.
LEMMA WorstOf ==
  ASSUME NEW statuses, statuses \subseteq FeedStatus, NEW x \in statuses
  PROVE  Severity(x) <= Severity(worst_of(statuses))
<1> DEFINE Worst(y) == \A z \in statuses : Severity(y) >= Severity(z)
<1>1. \A y \in statuses : Severity(y) \in 0..3
  BY SeverityType
<1>2. \E y \in statuses : Worst(y)
  <2>1. CASE "DISCONNECTED" \in statuses
    BY <2>1 DEF Severity, FeedStatus
  <2>2. CASE "DISCONNECTED" \notin statuses /\ "STALE" \in statuses
    BY <2>2 DEF Severity, FeedStatus
  <2>3. CASE "DISCONNECTED" \notin statuses /\ "STALE" \notin statuses /\ "DELAYED" \in statuses
    BY <2>3 DEF Severity, FeedStatus
  <2>4. CASE "DISCONNECTED" \notin statuses /\ "STALE" \notin statuses /\ "DELAYED" \notin statuses
    BY <2>4 DEF Severity, FeedStatus
  <2> QED
    BY <2>1, <2>2, <2>3, <2>4
<1>3. worst_of(statuses) \in statuses /\ Worst(worst_of(statuses))
  BY <1>2 DEF worst_of
<1> QED
  BY <1>1, <1>3

-----------------------------------------------------------------------------
(* The engine under the loop *)

\* A tick that is abandoned at its await leaves the engine as it was.
LEMMA AbandonedTick ==
  ASSUME EngineInv, tick' = NoTick,
         UNCHANGED <<watch, sched, health, newest, processed, state, exhausted,
                     quote_age, down_age>>
  PROVE  EngineInv'
<1>1. TypeOK'
  BY DEF EngineInv, TypeOK
<1>2. TickInv'
  BY DEF TickInv
<1>3. FreshnessInv' /\ PublishedQuoteIsNewest' /\ DwellInv'
  BY DEF EngineInv, FreshnessInv, PublishedQuoteIsNewest, DwellInv
<1> QED
  BY <1>1, <1>2, <1>3 DEF EngineInv

\* What an exception leaves of a tick, wherever it ends it, keeps the invariant: a quote
\* is published and counted as the newest together, and what was not reached is as it was.
LEMMA BrokenTick ==
  ASSUME EngineInv, exhausted' \in {exhausted, TRUE},
         NEW t, t.due \subseteq t.enabled, t.enabled \subseteq Symbols,
         NEW outcome \in [t.due -> Outcomes], NEW at \in [t.enabled -> 0..4],
         exhausted => \A s \in t.due : ~outcome[s].found,
         Left(t, outcome, at)
  PROVE  EngineInv'
<1> DEFINE fresh(n) == {s \in t.due : at[s] >= n /\ accepts(s, outcome[s])}
           fetched == {s \in t.due : at[s] >= 2}
           h == [s \in Symbols |->
                   IF s \notin fetched THEN health[s]
                   ELSE IF exhausted THEN keep_alive(health[s])
                   ELSE IF s \in fresh(2) THEN observe_quote(outcome[s].late)
                   ELSE observe_error(health[s])]
           c == [s \in Symbols |->
                   IF s \notin fetched THEN sched[s]
                   ELSE IF s \in fresh(3) THEN process_symbol(mark_fetched(sched[s]), outcome[s])
                   ELSE mark_fetched(sched[s])]
           latest == [s \in Symbols |-> IF s \in fresh(1) THEN outcome[s].ts ELSE newest[s]]
           new == fresh(1)
           told == fresh(2)
           piped == fresh(3)
<1>1. /\ health' = h
      /\ sched' = c
      /\ newest' = latest
      /\ processed' = [s \in Symbols |->
                           IF s \in piped /\ outcome[s].reaction # "features_raise"
                           THEN outcome[s].ts ELSE processed[s]]
      /\ state' = [s \in Symbols |->
                       IF s \in t.enabled /\ at[s] = 4 THEN project_health(latest[s], c[s], h[s])
                       ELSE IF s \in new THEN update_latest(s, outcome[s].ts)
                       ELSE state[s]]
      /\ quote_age' = [s \in Symbols |-> IF s \in told THEN 0 ELSE quote_age[s]]
      /\ down_age' = [s \in Symbols |-> IF Rank(c[s].level) < Rank(sched[s].level)
                                        THEN 0 ELSE down_age[s]]
      /\ tick' = NoTick
      /\ watch' = watch
  BY Zenon DEF Left
<1>2. /\ sched \in [Symbols -> Sched]
      /\ health \in [Symbols -> Health]
      /\ state \in [Symbols -> State]
      /\ newest \in [Symbols -> 0..MaxTs]
      /\ processed \in [Symbols -> 0..MaxTs]
      /\ quote_age \in [Symbols -> Age \cup {Never}]
      /\ down_age \in [Symbols -> Age]
      /\ exhausted \in BOOLEAN
  BY DEF EngineInv, TypeOK, Sched, Health, State
<1>3. /\ piped \subseteq told /\ told \subseteq new /\ told \subseteq fetched
      /\ new \subseteq Symbols
  OBVIOUS
<1>4. \A s \in new : /\ outcome[s] \in Outcomes /\ outcome[s].found
                     /\ outcome[s].ts >= newest[s] /\ ~exhausted
  BY DEF accepts
<1>5. \A s \in new : outcome[s].ts \in 1..MaxTs /\ outcome[s].late \in BOOLEAN
  BY <1>4, FoundOutcome
<1>6. \A s \in Symbols : h[s] \in Health
  BY <1>2, <1>3, <1>5, HealthType
<1>7. \A s \in Symbols : c[s] \in Sched
  BY <1>2, <1>3, <1>4, SchedType
<1>8. \A s \in Symbols :
        /\ c[s].change_age <= sched[s].change_age
        /\ Rank(c[s].level) < Rank(sched[s].level) => c[s].change_age = 0
  <2> SUFFICES ASSUME NEW s \in Symbols
               PROVE  /\ c[s].change_age <= sched[s].change_age
                      /\ Rank(c[s].level) < Rank(sched[s].level) => c[s].change_age = 0
    OBVIOUS
  <2>1. sched[s] \in Sched
    BY <1>2
  <2>2. c[s] \in {sched[s], mark_fetched(sched[s])}
        \/ (s \in piped /\ c[s] = process_symbol(mark_fetched(sched[s]), outcome[s]))
    OBVIOUS
  <2>3. s \in piped => outcome[s] \in Outcomes /\ outcome[s].found
    BY <1>3, <1>4
  <2> HIDE DEF c, piped
  <2> QED
    BY <2>1, <2>2, <2>3, ProcessDwell
<1>9. \A s \in Symbols : latest[s] \in 0..MaxTs /\ latest[s] >= newest[s]
  BY <1>2, <1>4, <1>5, EngineAssumption
<1>10. \A s \in Symbols :
         /\ s \in told => h[s].success_age = 0
         /\ ~exhausted /\ s \notin told => h[s].success_age = health[s].success_age
         /\ exhausted => h[s] \in {health[s], keep_alive(health[s])}
  <2> SUFFICES ASSUME NEW s \in Symbols
               PROVE  /\ s \in told => h[s].success_age = 0
                      /\ ~exhausted /\ s \notin told => h[s].success_age = health[s].success_age
                      /\ exhausted => h[s] \in {health[s], keep_alive(health[s])}
    OBVIOUS
  <2>1. s \in told => h[s] = observe_quote(outcome[s].late)
    BY <1>3, <1>4
  <2>2. ~exhausted /\ s \notin told => h[s] \in {health[s], observe_error(health[s])}
    OBVIOUS
  <2>3. exhausted => h[s] \in {health[s], keep_alive(health[s])}
    OBVIOUS
  <2>4. observe_error(health[s]).success_age = health[s].success_age
    BY <1>2 DEF observe_error, Health
  <2> HIDE DEF h, told
  <2> QED
    BY <2>1, <2>2, <2>3, <2>4 DEF observe_quote
<1>11. \A s \in Symbols : state'[s].ts = latest[s]
  <2> SUFFICES ASSUME NEW s \in Symbols
               PROVE  state'[s].ts = latest[s]
    OBVIOUS
  <2>1. state[s].ts = newest[s] /\ state[s] \in State
    BY <1>2 DEF EngineInv, PublishedQuoteIsNewest
  <2>2. update_latest(s, outcome[s].ts).ts = outcome[s].ts
    BY <2>1 DEF update_latest, State
  <2>3. project_health(latest[s], c[s], h[s]).ts = latest[s]
    BY DEF project_health
  <2>4. latest[s] = IF s \in new THEN outcome[s].ts ELSE newest[s]
    OBVIOUS
  <2> HIDE DEF latest, c, h, new
  <2> QED
    BY <1>1, <2>1, <2>2, <2>3, <2>4
<1>12. state' \in [Symbols -> State]
  <2>1. \A s \in Symbols : project_health(latest[s], c[s], h[s]) \in State
    <3> HIDE DEF latest, c, h
    <3> QED
      BY <1>6, <1>7, <1>9, StatusType DEF project_health, State, Sched
  <2>2. \A s \in new : update_latest(s, outcome[s].ts) \in State
    <3> SUFFICES ASSUME NEW s \in new
                 PROVE  update_latest(s, outcome[s].ts) \in State
      OBVIOUS
    <3>1. outcome[s].ts \in 0..MaxTs /\ state[s] \in State
      BY <1>2, <1>3, <1>5, EngineAssumption
    <3> HIDE DEF new
    <3>2. \A ts \in 0..MaxTs : update_latest(s, ts) \in State
      BY <3>1 DEF update_latest, State, FeedStatus
    <3> QED
      BY <3>1, <3>2
  <2> HIDE DEF latest, c, h, new
  <2> QED
    BY <1>1, <1>2, <2>1, <2>2
<1>13. \A s \in Symbols : processed'[s] \in 0..MaxTs /\ processed'[s] <= latest[s]
  <2> SUFFICES ASSUME NEW s \in Symbols
               PROVE  processed'[s] \in 0..MaxTs /\ processed'[s] <= latest[s]
    OBVIOUS
  <2>1. processed[s] <= newest[s] /\ processed[s] \in 0..MaxTs /\ newest[s] \in 0..MaxTs
    BY <1>2 DEF EngineInv, PublishedQuoteIsNewest
  <2>2. s \in piped => latest[s] = outcome[s].ts
    BY <1>3
  <2>3. processed'[s] = processed[s] \/ (s \in piped /\ processed'[s] = outcome[s].ts)
    BY <1>1
  <2>4. latest[s] \in 0..MaxTs /\ latest[s] >= newest[s]
    BY <1>9
  <2> HIDE DEF latest, piped
  <2> QED
    BY <2>1, <2>2, <2>3, <2>4, EngineAssumption
<1> HIDE DEF fresh, fetched, h, c, latest, new, told, piped
<1>14. TypeOK'
  <2>1. health' \in [Symbols -> Health] /\ sched' \in [Symbols -> Sched]
    BY <1>1, <1>6, <1>7 DEF h, c
  <2>2. newest' \in [Symbols -> 0..MaxTs] /\ processed' \in [Symbols -> 0..MaxTs]
    BY <1>1, <1>9, <1>13 DEF latest
  <2>3. quote_age' \in [Symbols -> Age \cup {Never}] /\ down_age' \in [Symbols -> Age]
    BY <1>1, <1>2, EngineAssumption DEF Age
  <2>4. /\ watch' \in [Symbols -> {"absent", "enabled", "disabled"}]
        /\ tick' \in {NoTick} \cup FetchingTick
        /\ exhausted' \in BOOLEAN
    BY <1>1, <1>2 DEF EngineInv, TypeOK
  <2> QED
    BY <1>12, <2>1, <2>2, <2>3, <2>4 DEF TypeOK, Sched, Health, State
<1>15. TickInv'
  BY <1>1 DEF TickInv
<1>16. FreshnessInv'
  <2> SUFFICES ASSUME NEW s \in Symbols
               PROVE  /\ health'[s].success_age = Never <=> quote_age'[s] = Never
                      /\ health'[s].success_age # quote_age'[s] =>
                            exhausted' /\ health'[s].failures = 0
    BY DEF FreshnessInv
  <2>1. /\ health[s].success_age = Never <=> quote_age[s] = Never
        /\ health[s].success_age # quote_age[s] => exhausted /\ health[s].failures = 0
    BY DEF EngineInv, FreshnessInv
  <2>2. health'[s] = h[s] /\ quote_age'[s] = IF s \in told THEN 0 ELSE quote_age[s]
    BY <1>1
  <2>3. CASE ~exhausted
    BY <1>10, <2>1, <2>2, <2>3
  <2>4. CASE exhausted
    <3>1. s \notin told /\ exhausted'
      BY <1>3, <1>4, <2>4
    <3>2. CASE h[s] = health[s]
      BY <2>1, <2>2, <3>1, <3>2
    <3>3. CASE h[s] # health[s]
      <4>1. h[s] = keep_alive(health[s]) /\ health[s] \in Health
        BY <1>2, <1>10, <2>4, <3>3
      <4>2. /\ health[s].success_age # Never /\ ~(health[s].failures > 0)
            /\ h[s] = [health[s] EXCEPT !.success_age = 0]
        BY <4>1, <3>3 DEF keep_alive
      <4>3. h[s].success_age = 0 /\ h[s].failures = 0
        BY <4>1, <4>2 DEF Health
      <4> QED
        BY <2>1, <2>2, <3>1, <4>2, <4>3 DEF Never
    <3> QED
      BY <3>2, <3>3
  <2> QED
    BY <2>3, <2>4
<1>17. PublishedQuoteIsNewest'
  BY <1>1, <1>11, <1>13 DEF PublishedQuoteIsNewest
<1>18. DwellInv'
  <2> SUFFICES ASSUME NEW s \in Symbols
               PROVE  c[s].change_age <= down_age'[s]
    BY <1>1 DEF DwellInv
  <2>1. /\ sched[s].change_age <= down_age[s]
        /\ sched[s].change_age \in Int /\ down_age[s] \in Int /\ c[s].change_age \in Int
    BY <1>2, <1>7 DEF EngineInv, DwellInv, Sched, Age
  <2>2. down_age'[s] = IF Rank(c[s].level) < Rank(sched[s].level) THEN 0 ELSE down_age[s]
    BY <1>1
  <2> QED
    BY <1>8, <2>1, <2>2
<1> QED
  BY <1>14, <1>15, <1>16, <1>17, <1>18 DEF EngineInv

\* The task fails in a tick that fetched, or in one that had nothing to fetch.
LEMMA FailedTick ==
  ASSUME EngineInv, TickFails
  PROVE  EngineInv'
<1>1. CASE loop = "ticking" /\ tick # NoTick
  <2> DEFINE Ats == {at \in [tick.enabled -> 0..4] : Reached(tick, at)}
  <2>1. /\ tick.due \subseteq tick.enabled /\ tick.enabled \subseteq Symbols
        /\ ~exhausted
    BY <1>1 DEF EngineInv, TickInv, Enabled
  <2>2. CASE /\ exhausted' \in {exhausted, TRUE}
             /\ \E at \in Ats, outcome \in [tick.due -> Outcomes] : Left(tick, outcome, at)
    <3>1. PICK at \in Ats, outcome \in [tick.due -> Outcomes] : Left(tick, outcome, at)
      BY <2>2
    <3>2. at \in [tick.enabled -> 0..4]
      OBVIOUS
    <3> HIDE DEF Ats
    <3> QED
      BY <2>1, <2>2, <3>1, <3>2, BrokenTick
  <2>3. CASE loop = "ready"
    BY <1>1, <2>3
  <2> QED
    BY <2>2, <2>3 DEF TickFails
<1>2. CASE loop = "ready"
  <2> DEFINE t == [enabled |-> Enabled, due |-> due_symbols(Enabled)]
             none == [s \in t.due |-> Missing]
  <2>1. \E at \in {at \in [t.enabled -> 0..4] : Reached(t, at)} : Left(t, none, at)
    BY <1>2 DEF TickFails
  <2>2. PICK at \in [t.enabled -> 0..4] : Left(t, none, at)
    BY <2>1
  <2>3. /\ t.due \subseteq t.enabled /\ t.enabled \subseteq Symbols
        /\ none \in [t.due -> Outcomes] /\ \A s \in t.due : ~none[s].found
    BY DEF due_symbols, Enabled, Outcomes, Missing
  <2>4. exhausted' \in {exhausted, TRUE}
    BY <1>2 DEF TickFails
  <2> HIDE DEF t, none
  <2> QED
    BY <2>2, <2>3, <2>4, BrokenTick
<1> QED
  BY <1>1, <1>2 DEF TickFails

\* A symbol that was projected when the tick ended is shown with the health it has.
LEMMA ShownNow ==
  ASSUME EngineInv', shown_age' = 0, NEW s \in Symbols,
         state'[s].status = status_of(health'[s])
  PROVE  AsLastTick(s)'
<1> DEFINE a == health'[s].success_age
<1>1. health'[s] \in Health
  BY DEF EngineInv, TypeOK, Health
<1>2. CASE a = Never
  BY <1>2 DEF AsLastTick, peek_status
<1>3. CASE a # Never
  <2>1. a \in Age /\ a \in Int /\ AgeCap \in Int /\ a <= AgeCap
    BY <1>1, <1>3, EngineAssumption DEF Health, Age
  <2>2. [health'[s] EXCEPT !.success_age = a] = health'[s]
    BY <1>1 DEF Health
  <2> HIDE DEF a
  <2>3. a + 0 \in Int /\ Min({a + 0, AgeCap}) = a
    BY <2>1, PairMin
  <2>4. a = Min({a + shown_age', AgeCap})
    BY <2>3
  <2> QED
    BY <1>3, <2>1, <2>2, <2>4 DEF AsLastTick, a
<1> QED
  BY <1>2, <1>3

\* A tick that ends projects every symbol, whatever became of its fetch.
LEMMA TickShows ==
  ASSUME EngineInv, Watched, TickWithoutFetch \/ FetchRaises \/ FetchEnds, shown_age' = 0
  PROVE  EngineInv' /\ Watched' /\ \A s \in Symbols : AsLastTick(s)'
<1>1. EngineInv'
  BY NextInv DEF Next, Tick, TickEnds
<1>2. Enabled = Symbols
  BY DEF Watched, Enabled
<1>3. tick # NoTick => Projected(tick) = Symbols
  BY <1>2 DEF EngineInv, TickInv, Projected
<1>4. Watched'
  BY DEF Watched, TickWithoutFetch, FetchRaises, FetchEnds, FetchReturns
<1>5. \A s \in Symbols : state'[s].status = status_of(health'[s])
  <2>1. CASE TickWithoutFetch
    BY <1>2, <2>1 DEF TickWithoutFetch, project_health
  <2>2. CASE FetchRaises
    BY <1>3, <2>2 DEF FetchRaises, project_health
  <2>3. CASE FetchEnds
    <3>1. PICK outcome \in [tick.due -> Outcomes] : FetchReturns(outcome)
      BY <2>3 DEF FetchEnds
    <3> QED
      BY <1>3, <3>1 DEF FetchReturns, project_health
  <2> QED
    BY <2>1, <2>2, <2>3
<1> QED
  BY <1>1, <1>4, <1>5, ShownNow

\* Time that passes ages the last tick and the quotes alike.
LEMMA ClockShows ==
  ASSUME EngineInv, AdvanceClock, shown_age \in Age, shown_age' = Older(shown_age),
         NEW s \in Symbols, AsLastTick(s)
  PROVE  AsLastTick(s)'
<1>1. health[s] \in Health
  BY DEF EngineInv, TypeOK, Health
<1>2. state' = state /\ health'[s] = [health[s] EXCEPT !.success_age = Older(@)]
  BY DEF AdvanceClock
<1>3. /\ health'[s].success_age = Older(health[s].success_age)
      /\ health[s].success_age \in Age \cup {Never}
  BY <1>1, <1>2 DEF Health
<1>4. CASE health[s].success_age = Never
  <2>1. health'[s].success_age = Never /\ health'[s] = health[s]
    BY <1>1, <1>2, <1>3, <1>4, OlderType DEF Health
  <2> QED
    BY <1>2, <1>4, <2>1 DEF AsLastTick, peek_status
<1>5. CASE health[s].success_age # Never
  <2>1. PICK a \in Age : /\ health[s].success_age = Min({a + shown_age, AgeCap})
                         /\ state[s].status = status_of([health[s] EXCEPT !.success_age = a])
    BY <1>5 DEF AsLastTick
  <2>2. health'[s].success_age # Never
    BY <1>3, <1>5, OlderType
  <2>3. [health'[s] EXCEPT !.success_age = a] = [health[s] EXCEPT !.success_age = a]
    BY <1>1, <1>2 DEF Health
  <2>4. /\ a \in Nat /\ shown_age \in Nat /\ AgeCap \in Nat /\ shown_age <= AgeCap
        /\ shown_age' = IF shown_age = AgeCap THEN shown_age ELSE shown_age + 1
    BY EngineAssumption DEF Age, Older, Never
  <2>5. /\ a + shown_age \in Int /\ a + shown_age' \in Int /\ AgeCap \in Int
        /\ a + shown_age' = IF shown_age = AgeCap THEN a + shown_age ELSE a + shown_age + 1
    BY <2>4
  <2>6. health'[s].success_age = Min({a + shown_age', AgeCap})
    <3>1. /\ Min({a + shown_age, AgeCap}) =
                IF a + shown_age <= AgeCap THEN a + shown_age ELSE AgeCap
          /\ Min({a + shown_age', AgeCap}) =
                IF a + shown_age' <= AgeCap THEN a + shown_age' ELSE AgeCap
      BY <2>5, PairMin
    <3>2. health'[s].success_age = IF health[s].success_age = AgeCap THEN AgeCap
                                   ELSE health[s].success_age + 1
      BY <1>3, <1>5 DEF Older
    <3> QED
      BY <2>1, <2>4, <2>5, <3>1, <3>2
  <2> QED
    BY <1>2, <2>1, <2>2, <2>3, <2>6 DEF AsLastTick
<1> QED
  BY <1>4, <1>5

-----------------------------------------------------------------------------
(* The buffer of events *)

\* Two sequences one after the other.
LEMMA Joined ==
  ASSUME NEW E, NEW a \in Seq(E), NEW b \in Seq(E)
  PROVE  /\ a \o b \in Seq(E) /\ Len(a \o b) = Len(a) + Len(b)
         /\ \A i \in 1..Len(a) : (a \o b)[i] = a[i]
         /\ \A i \in 1..Len(b) : (a \o b)[Len(a) + i] = b[i]
<1>1. a \o b \in Seq(E)
  OBVIOUS
<1>2. Len(a \o b) = Len(a) + Len(b) /\ Len(a) \in Nat /\ Len(b) \in Nat
  OBVIOUS
<1>3. \A i \in 1..Len(a) : (a \o b)[i] = a[i]
  BY <1>2
<1>4. \A i \in 1..Len(b) : (a \o b)[Len(a) + i] = b[i]
  BY <1>2
<1> QED
  BY <1>1, <1>2, <1>3, <1>4

\* The end of a sequence, from its m-th element.
LEMMA Suffix ==
  ASSUME NEW E, NEW a \in Seq(E), NEW m \in 1..(Len(a) + 1)
  PROVE  /\ SubSeq(a, m, Len(a)) \in Seq(E)
         /\ Len(SubSeq(a, m, Len(a))) = Len(a) - m + 1
         /\ \A i \in 1..(Len(a) - m + 1) : SubSeq(a, m, Len(a))[i] = a[m + i - 1]
<1>1. Len(a) \in Nat /\ m \in Nat /\ \A i \in 1..Len(a) : a[i] \in E
  OBVIOUS
<1>2. Len(SubSeq(a, m, Len(a))) = Len(a) - m + 1
  BY <1>1
<1>3. \A i \in 1..(Len(a) - m + 1) : SubSeq(a, m, Len(a))[i] = a[m + i - 1]
  BY <1>1
<1>4. SubSeq(a, m, Len(a)) \in Seq(E)
  BY <1>1
<1> QED
  BY <1>2, <1>3, <1>4

\* observe_tick numbers the events it adds, and drops the oldest that do not fit.
LEMMA ObserveKeepsNewest ==
  ASSUME NewestBuffered, NEW new \in Seq(Symbols), observe_tick(new)
  PROVE  NewestBuffered'
<1> DEFINE more == [i \in DOMAIN new |-> [symbol |-> new[i], n |-> accepted + i]]
           all == events \o more
           from == Max({1, Len(all) - BufferLen + 1})
<1>1. new \in Seq(Symbols) /\ Len(new) \in Nat
  OBVIOUS
<1>2. /\ accepted \in Nat /\ events \in Seq([symbol : Symbols, n : Nat]) /\ Len(events) \in Nat
      /\ BufferLen \in Nat \ {0}
      /\ Len(events) = IF accepted <= BufferLen THEN accepted ELSE BufferLen
      /\ \A i \in 1..Len(events) : events[i].n = accepted - Len(events) + i
  <2>1. /\ accepted \in Nat /\ events \in Seq([symbol : Symbols, n : Nat])
        /\ Len(events) = IF accepted <= BufferLen THEN accepted ELSE BufferLen
        /\ \A i \in DOMAIN events : events[i].n = accepted - Len(events) + i
    BY Zenon DEF NewestBuffered
  <2>2. Len(events) \in Nat /\ DOMAIN events = 1..Len(events)
    BY <2>1
  <2> QED
    BY <2>1, <2>2, RuntimeAssumption, Zenon
<1>3. DOMAIN new = 1..Len(new)
  BY <1>1
<1>4. \A i \in 1..Len(new) : [symbol |-> new[i], n |-> accepted + i] \in [symbol : Symbols, n : Nat]
  BY <1>1, <1>2
<1>5. /\ more \in Seq([symbol : Symbols, n : Nat]) /\ Len(more) = Len(new)
      /\ \A i \in 1..Len(new) : more[i].n = accepted + i
  BY <1>1, <1>3, <1>4
<1> HIDE DEF more
<1>6. /\ all \in Seq([symbol : Symbols, n : Nat]) /\ Len(all) = Len(events) + Len(new)
      /\ \A i \in 1..Len(events) : all[i] = events[i]
      /\ \A i \in 1..Len(new) : all[Len(events) + i] = more[i]
  <2> DEFINE E == [symbol : Symbols, n : Nat]
  <2>1. events \in Seq(E) /\ more \in Seq(E)
    BY <1>2, <1>5
  <2> HIDE DEF E
  <2>2. /\ events \o more \in Seq(E) /\ Len(events \o more) = Len(events) + Len(more)
        /\ \A i \in 1..Len(events) : (events \o more)[i] = events[i]
        /\ \A i \in 1..Len(more) : (events \o more)[Len(events) + i] = more[i]
    BY <2>1, Joined
  <2> QED
    BY <1>5, <2>2, Zenon DEF E
<1>8. accepted' = accepted + Len(new) /\ events' = SubSeq(all, from, Len(all))
  BY DEF observe_tick, more
<1> HIDE DEF all
<1> DEFINE size == Len(all)
<1>size. size \in Nat /\ size = Len(events) + Len(new)
  BY <1>1, <1>2, <1>6
<1>7. \A i \in 1..size : all[i].n = accepted - Len(events) + i
  <2> SUFFICES ASSUME NEW i \in 1..size
               PROVE  all[i].n = accepted - Len(events) + i
    OBVIOUS
  <2>1. CASE i <= Len(events)
    <3>1. i \in 1..Len(events)
      BY <1>2, <1>size, <2>1
    <3>2. all[i] = events[i] /\ events[i].n = accepted - Len(events) + i
      BY <1>2, <1>6, <3>1
    <3> QED
      BY <3>2
  <2>2. CASE i > Len(events)
    <3> DEFINE j == i - Len(events)
    <3>1. j \in 1..Len(new) /\ i = Len(events) + j
      BY <1>1, <1>2, <1>size, <2>2
    <3> HIDE DEF j
    <3>2. all[i] = more[j] /\ more[j].n = accepted + j
      BY <1>5, <1>6, <3>1
    <3> QED
      BY <1>2, <3>1, <3>2
  <2> QED
    BY <1>2, <2>1, <2>2
<1>9. from = IF size <= BufferLen THEN 1 ELSE size - BufferLen + 1
  <2>1. size - BufferLen + 1 \in Int /\ 1 \in Int
    BY <1>2, <1>size
  <2>2. from = IF 1 >= size - BufferLen + 1 THEN 1 ELSE size - BufferLen + 1
    BY <2>1, PairMax
  <2> HIDE DEF from, size
  <2> QED
    BY <1>2, <1>size, <2>2
<1>10. from \in 1..(size + 1)
  <2> HIDE DEF from, size
  <2> QED
    BY <1>2, <1>size, <1>9
<1> HIDE DEF from
<1>11. /\ events' \in Seq([symbol : Symbols, n : Nat])
       /\ Len(events') = size - from + 1
       /\ \A i \in 1..(size - from + 1) : events'[i] = all[from + i - 1]
  <2> DEFINE E == [symbol : Symbols, n : Nat]
             end == SubSeq(all, from, Len(all))
  <2>1. all \in Seq(E)
    BY <1>6
  <2> HIDE DEF E
  <2>2. /\ end \in Seq(E) /\ Len(end) = Len(all) - from + 1
        /\ \A i \in 1..(Len(all) - from + 1) : end[i] = all[from + i - 1]
    BY <1>10, <2>1, Suffix
  <2>3. events' = end
    BY <1>8, Zenon
  <2> HIDE DEF end
  <2> QED
    BY <2>2, <2>3, Zenon DEF E
<1> HIDE DEF size
<1>12. accepted' \in Nat /\ Len(events') = IF accepted' <= BufferLen THEN accepted' ELSE BufferLen
  <2> DEFINE old == Len(events)
             added == Len(new)
             now == Len(events')
  <2>1. /\ accepted \in Nat /\ BufferLen \in Nat \ {0} /\ added \in Nat /\ size = old + added
        /\ old = IF accepted <= BufferLen THEN accepted ELSE BufferLen
        /\ accepted' = accepted + added /\ now = size - from + 1
    BY <1>1, <1>2, <1>8, <1>11, <1>size
  <2> HIDE DEF old, added, now
  <2>2. accepted' \in Nat /\ now = IF accepted' <= BufferLen THEN accepted' ELSE BufferLen
    BY <1>9, <2>1
  <2> QED
    BY <2>2 DEF now
<1>13. \A i \in 1..Len(events') : events'[i].n = accepted' - Len(events') + i
  <2> DEFINE old == Len(events)
             now == Len(events')
  <2> SUFFICES ASSUME NEW i \in 1..now
               PROVE  events'[i].n = accepted' - now + i
    OBVIOUS
  <2>1. now = size - from + 1 /\ now \in Int /\ old \in Nat /\ from \in Int
    BY <1>2, <1>size, <1>10, <1>11
  <2>2. events'[i] = all[from + i - 1]
    BY <1>11, <2>1
  <2>3. from + i - 1 \in 1..size
    BY <1>10, <1>size, <2>1
  <2>4. events'[i].n = accepted - old + (from + i - 1)
    BY <1>7, <2>2, <2>3
  <2>5. accepted' = accepted + (size - old)
    BY <1>2, <1>1, <1>8, <1>size
  <2>6. accepted \in Nat /\ size \in Nat
    BY <1>2, <1>size
  <2> HIDE DEF old, now
  <2>7. accepted - old + (from + i - 1) = accepted' - now + i
    BY <2>1, <2>5, <2>6
  <2> QED
    BY <2>4, <2>7
<1>14. DOMAIN events' = 1..Len(events')
  BY <1>11
<1> QED
  BY <1>11, <1>12, <1>13, <1>14 DEF NewestBuffered

-----------------------------------------------------------------------------
(* The invariant *)

\* A process that has not started: no tick was run and no event accepted.
LEMMA RuntimeStarts == RuntimeInit => RuntimeInv
<1> SUFFICES ASSUME RuntimeInit
             PROVE  RuntimeInv
  OBVIOUS
<1>1. EngineInv
  BY InitInv DEF RuntimeInit
<1>2. Watched /\ NotYet /\ AsShown
  BY DEF RuntimeInit, Watched, NotYet, AsShown
<1>3. NewestBuffered
  BY RuntimeAssumption DEF RuntimeInit, NewestBuffered
<1> QED
  BY <1>1, <1>2, <1>3 DEF RuntimeInv, RuntimeInit

\* A step that accepts no event.
LEMMA EngineSteps ==
  ASSUME RuntimeInv, UNCHANGED <<events, accepted>>, running' \in BOOLEAN,
         shown_age' \in Age \cup {Never}, EngineInv', Watched', NotYet', AsShown'
  PROVE  RuntimeInv'
<1>1. NewestBuffered'
  BY DEF RuntimeInv, NewestBuffered
<1> QED
  BY <1>1 DEF RuntimeInv

\* The events a tick hands to observe_tick are a sequence of symbols.
LEMMA AcceptedType ==
  ASSUME NEW symbols \in SUBSET Symbols, NEW new \in Accepted(symbols)
  PROVE  new \in Seq(Symbols)
<1>1. PICK n \in 0..MaxEvents : new \in [1..n -> symbols]
  BY DEF Accepted
<1>2. n \in Nat
  BY RuntimeAssumption
<1> QED
  BY <1>1, <1>2

\* observe_tick after a tick that fetched.
LEMMA Observed ==
  ASSUME EngineInv, NewestBuffered, tick # NoTick, NEW outcome,
         NEW new \in Accepted(Piped(outcome)), observe_tick(new)
  PROVE  NewestBuffered'
<1>1. Piped(outcome) \in SUBSET Symbols
  BY DEF Piped, EngineInv, TypeOK, FetchingTick
<1> QED
  BY <1>1, AcceptedType, ObserveKeepsNewest

\* Every step of the process keeps the invariant.
LEMMA RuntimeStep == RuntimeInv /\ [RuntimeNext]_allvars => RuntimeInv'
<1> SUFFICES ASSUME RuntimeInv, [RuntimeNext]_allvars
             PROVE  RuntimeInv'
  OBVIOUS
<1>1. /\ EngineInv /\ Watched /\ NotYet /\ AsShown /\ NewestBuffered
      /\ running \in BOOLEAN /\ shown_age \in Age \cup {Never}
  BY DEF RuntimeInv
<1>2. ASSUME UNCHANGED <<vars, shown_age>>, loop' # "failed" => loop # "failed"
      PROVE  EngineInv' /\ Watched' /\ AsShown' /\ shown_age' \in Age \cup {Never}
  <2>1. EngineInv'
    BY <1>1, <1>2, NextInv
  <2>2. Watched' /\ shown_age' \in Age \cup {Never}
    BY <1>1, <1>2 DEF vars, Watched
  <2>3. AsShown'
    BY <1>1, <1>2 DEF vars, AsShown, AsLastTick, peek_status
  <2> QED
    BY <2>1, <2>2, <2>3
<1>0. 0 \in Age /\ NotYet'
  <2>1. NotYet'
    BY <1>1 DEF NotYet, RuntimeNext, LoopRuns, start, StartFails, ClientLeaves, TaskCancelled,
                StopEnds, TimePasses, TickStarts, TickFinishes, TickFails, Wakes, allvars, runtime
  <2> QED
    BY <2>1, EngineAssumption DEF Age
<1>3. CASE start
  BY <1>0, <1>1, <1>2, <1>3, EngineSteps DEF start, NotYet
<1>4. CASE StartFails
  BY <1>0, <1>1, <1>2, <1>4, EngineSteps DEF StartFails
<1>5. CASE ClientLeaves
  BY <1>0, <1>2, <1>5, EngineSteps DEF ClientLeaves
<1>6. CASE TaskCancelled
  <2>1. EngineInv'
    BY <1>1, <1>6, AbandonedTick DEF TaskCancelled
  <2>2. Watched' /\ AsShown'
    BY <1>1, <1>6 DEF TaskCancelled, Watched, AsShown, AsLastTick, peek_status
  <2> QED
    BY <1>0, <1>1, <1>6, <2>1, <2>2, EngineSteps DEF TaskCancelled
<1>7. CASE StopEnds
  BY <1>0, <1>1, <1>2, <1>7, EngineSteps DEF StopEnds
<1>8. CASE TimePasses
  <2>1. EngineInv' /\ Watched'
    BY <1>1, <1>8, ClockInv DEF TimePasses, AdvanceClock, Watched
  <2>2. shown_age' = Older(shown_age) /\ AdvanceClock /\ loop' = loop
    BY <1>8 DEF TimePasses
  <2>3. shown_age' \in Age \cup {Never} /\ (shown_age' # Never => shown_age \in Age)
    BY <1>1, <2>2, OlderType
  <2>4. AsShown'
    <3> SUFFICES ASSUME loop' # "failed", shown_age' # Never, NEW s \in Symbols
                 PROVE  AsLastTick(s)'
      BY DEF AsShown
    <3>1. shown_age \in Age /\ shown_age # Never
      BY <2>3, OlderType DEF Age, Never
    <3>2. AsLastTick(s)
      BY <1>1, <2>2, <3>1 DEF AsShown
    <3> QED
      BY <1>1, <2>2, <3>1, <3>2, ClockShows
  <2> QED
    BY <1>0, <1>1, <1>8, <2>1, <2>3, <2>4, EngineSteps DEF TimePasses
<1>9. CASE TickStarts
  <2>1. CASE TickBegins /\ loop' = "ticking" /\ UNCHANGED shown_age
    <3>1. EngineInv'
      BY <1>1, <2>1, TickBeginsInv
    <3>2. Watched' /\ AsShown'
      BY <1>1, <1>9, <2>1 DEF TickStarts, TickBegins, Watched, AsShown, AsLastTick, peek_status
    <3> QED
      BY <1>0, <1>1, <1>9, <2>1, <3>1, <3>2, EngineSteps DEF TickStarts
  <2>2. CASE TickWithoutFetch /\ shown_age' = 0
    <3>1. EngineInv' /\ Watched' /\ AsShown'
      BY <1>1, <2>2, TickShows DEF AsShown
    <3> QED
      BY <1>0, <1>1, <1>9, <2>2, <3>1, EngineSteps DEF TickStarts
  <2> QED
    BY <1>9, <2>1, <2>2 DEF TickStarts
<1>10. CASE TickFinishes
  <2>1. FetchRaises \/ FetchEnds
    BY <1>10 DEF TickFinishes, FetchEnds, FetchReturns
  <2>2. EngineInv' /\ Watched' /\ AsShown' /\ shown_age' = 0 /\ running' \in BOOLEAN
    BY <1>1, <1>10, <2>1, TickShows DEF TickFinishes, AsShown
  <2>3. CASE UNCHANGED <<events, accepted>>
    BY <1>0, <2>2, <2>3, EngineSteps
  <2>4. CASE \E outcome \in [tick.due -> Outcomes] :
                \E new \in Accepted(Piped(outcome)) : observe_tick(new)
    <3>0. tick # NoTick
      BY <2>1 DEF FetchRaises, FetchEnds
    <3>1. NewestBuffered'
      BY <1>1, <2>4, <3>0, Observed
    <3> QED
      BY <1>0, <2>2, <3>1 DEF RuntimeInv
  <2> QED
    BY <1>10, <2>3, <2>4 DEF TickFinishes
<1>11. CASE TickFails
  <2>1. EngineInv'
    BY <1>1, <1>11, FailedTick
  <2>2. Watched'
    BY <1>1, <1>11 DEF TickFails, Left, Watched
  <2>3. AsShown' /\ shown_age' = shown_age /\ running' = running
    BY <1>11 DEF TickFails, AsShown
  <2>4. CASE UNCHANGED <<events, accepted>>
    BY <1>0, <1>1, <2>1, <2>2, <2>3, <2>4, EngineSteps
  <2>5. CASE tick # NoTick /\ \E outcome \in [tick.due -> Outcomes] :
                \E new \in Accepted(Piped(outcome)) : observe_tick(new)
    <3>1. NewestBuffered'
      BY <1>1, <2>5, Observed
    <3> QED
      BY <1>0, <1>1, <2>1, <2>2, <2>3, <3>1 DEF RuntimeInv
  <2> QED
    BY <1>11, <2>4, <2>5 DEF TickFails
<1>12. CASE Wakes
  BY <1>0, <1>1, <1>2, <1>12, EngineSteps DEF Wakes
<1>13. CASE UNCHANGED allvars
  BY <1>0, <1>1, <1>2, <1>13, EngineSteps DEF allvars, runtime
<1> QED
  BY <1>3, <1>4, <1>5, <1>6, <1>7, <1>8, <1>9, <1>10, <1>11, <1>12, <1>13
  DEF RuntimeNext, LoopRuns

\* The invariant holds throughout the life of the process.
LEMMA RuntimeInvariant == RuntimeSpec => []RuntimeInv
<1> QED
  BY RuntimeStarts, RuntimeStep, PTL DEF RuntimeSpec

-----------------------------------------------------------------------------
(* The tools *)

\* What is said of the health of now is true, and the quote shown is the newest.
LEMMA HealthTools ==
  ASSUME RuntimeInv, running
  PROVE  /\ \A s \in Symbols :
            {get_feed_health.data.symbols[s], get_market_state.data.feed_status}
                \cap {"LIVE", "DELAYED"} # {}
            => exhausted \/ quote_age[s] \in 0..(StaleS - 1)
         /\ get_market_state.data.last_market_timestamp = Max({newest[s] : s \in Symbols})
<1> DEFINE statuses == {status_of(health[s]) : s \in Symbols}
           usable == {"LIVE", "DELAYED"}
<1>1. \A s \in Symbols : get_feed_health.data.symbols[s] = status_of(health[s])
  BY DEF get_feed_health, answer, peek_status
<1>2. /\ get_market_state.data.feed_status = worst_of(statuses)
      /\ get_market_state.data.last_market_timestamp = Max({state[s].ts : s \in Symbols})
  BY DEF get_market_state, answer, map_symbol_state
<1>3. FreshnessHonest
  BY FreshnessFollows DEF RuntimeInv
<1>4. {state[s].ts : s \in Symbols} = {newest[s] : s \in Symbols}
  BY DEF RuntimeInv, EngineInv, PublishedQuoteIsNewest
<1>5. \A s \in Symbols : worst_of(statuses) \in usable => status_of(health[s]) \in usable
  <2> SUFFICES ASSUME NEW s \in Symbols, worst_of(statuses) \in usable
               PROVE  status_of(health[s]) \in usable
    OBVIOUS
  <2>1. statuses \subseteq FeedStatus /\ status_of(health[s]) \in statuses
    BY StatusType DEF RuntimeInv, EngineInv, TypeOK, Health
  <2>2. Severity(status_of(health[s])) <= Severity(worst_of(statuses))
    BY <2>1, WorstOf
  <2> HIDE DEF statuses
  <2>3. Severity(worst_of(statuses)) \in {0, 1}
    BY DEF Severity
  <2>4. status_of(health[s]) \in {"STALE", "DISCONNECTED"}
            => Severity(status_of(health[s])) \in {2, 3}
    BY DEF Severity
  <2>5. status_of(health[s]) \notin {"STALE", "DISCONNECTED"}
    <3> DEFINE a == Severity(status_of(health[s]))
               b == Severity(worst_of(statuses))
    <3>1. a <= b /\ b \in {0, 1} /\ (status_of(health[s]) \in {"STALE", "DISCONNECTED"} => a \in {2, 3})
      BY <2>2, <2>3, <2>4
    <3> HIDE DEF a, b
    <3> QED
      BY <3>1
  <2> QED
    BY <2>1, <2>5 DEF FeedStatus
<1> HIDE DEF statuses
<1>6. \A s \in Symbols : status_of(health[s]) \in usable
                            => exhausted \/ quote_age[s] \in 0..(StaleS - 1)
  BY <1>3 DEF FreshnessHonest
<1> QED
  BY <1>1, <1>2, <1>4, <1>5, <1>6

\* get_recent_events answers with the last events accepted.
LEMMA EventTools ==
  ASSUME RuntimeInv, NEW l \in 1..BufferLen, running
  PROVE  LET all == get_recent_events("any", l)
         IN  /\ all.data = [i \in 1..Min({l, accepted}) |->
                                events[Len(events) - Min({l, accepted}) + i]]
             /\ \A i \in DOMAIN all.data : all.data[i].n = accepted - Len(all.data) + i
<1> DEFINE E == [symbol : Symbols, n : Nat]
           size == Len(events)
           m == Min({l, accepted})
           from == Max({1, size - l + 1})
           data == get_recent_events("any", l).data
<1>1. data = SubSeq(events, from, size)
  BY DEF get_recent_events, answer
<1>2. /\ accepted \in Nat /\ BufferLen \in Nat \ {0} /\ l \in Nat \ {0} /\ l <= BufferLen
      /\ events \in Seq(E) /\ size \in Nat
      /\ size = IF accepted <= BufferLen THEN accepted ELSE BufferLen
      /\ \A i \in 1..size : events[i].n = accepted - size + i
  <2>1. /\ accepted \in Nat /\ events \in Seq(E)
        /\ size = IF accepted <= BufferLen THEN accepted ELSE BufferLen
        /\ \A i \in DOMAIN events : events[i].n = accepted - size + i
    BY DEF RuntimeInv, NewestBuffered
  <2>2. BufferLen \in Nat \ {0}
    BY RuntimeAssumption
  <2>3. l \in Nat \ {0} /\ l <= BufferLen
    BY <2>2
  <2>4. size \in Nat /\ DOMAIN events = 1..size
    BY <2>1
  <2> HIDE DEF E, size
  <2> QED
    BY <2>1, <2>2, <2>3, <2>4
<1> HIDE DEF E, data
<1>3. m = (IF l <= accepted THEN l ELSE accepted)
      /\ from = (IF 1 >= size - l + 1 THEN 1 ELSE size - l + 1)
  <2>1. l \in Int /\ accepted \in Int /\ 1 \in Int /\ size - l + 1 \in Int
    BY <1>2
  <2> QED
    BY <2>1, PairMin, PairMax
<1> HIDE DEF m, from
<1>4. /\ data \in Seq(E) /\ Len(data) = size - from + 1
      /\ \A i \in 1..(size - from + 1) : data[i] = events[from + i - 1]
  <2>1. from \in 1..(size + 1)
    <3> HIDE DEF size
    <3> QED
      BY <1>2, <1>3
  <2> QED
    BY <1>1, <1>2, <2>1, Suffix
<1> HIDE DEF size
<1>5. size - from + 1 = m /\ from = size - m + 1 /\ m \in Nat /\ m <= size /\ from \in Int
  BY <1>2, <1>3
<1>6. DOMAIN data = 1..m /\ Len(data) = m /\ \A i \in 1..m : data[i] = events[size - m + i]
  <2>1. Len(data) = m /\ DOMAIN data = 1..m
    BY <1>4, <1>5
  <2>2. ASSUME NEW i \in 1..m
        PROVE  data[i] = events[size - m + i]
    <3>1. data[i] = events[from + i - 1]
      BY <1>4, <1>5
    <3>2. from + i - 1 = size - m + i
      BY <1>2, <1>5
    <3> QED
      BY <3>1, <3>2
  <2> QED
    BY <2>1, <2>2
<1>7. data = [i \in 1..m |-> events[size - m + i]]
  <2>1. data = [i \in DOMAIN data |-> data[i]]
    BY <1>4
  <2> QED
    BY <1>6, <2>1
<1>8. \A i \in 1..m : data[i].n = accepted - m + i
  <2> SUFFICES ASSUME NEW i \in 1..m
               PROVE  data[i].n = accepted - m + i
    OBVIOUS
  <2>1. size - m + i \in 1..size
    BY <1>2, <1>5
  <2>2. events[size - m + i].n = accepted - size + (size - m + i)
    BY <1>2, <2>1
  <2>3. accepted - size + (size - m + i) = accepted - m + i
    BY <1>2, <1>5
  <2> QED
    BY <1>6, <2>2, <2>3
<1> QED
  BY <1>6, <1>7, <1>8 DEF data, m, size

\* The health tool and the aggregate are true of the feed whenever they are asked, the
\* status shown of one symbol is the one of the last tick as long as the loop lives, and
\* the events are the last accepted ones (get_feed_health, get_market_state,
\* get_symbol_state, get_recent_events).
THEOREM ToolsAreHonest == RuntimeSpec => []ToolsHonest
<1>1. ASSUME RuntimeInv, running, NEW l \in 1..BufferLen
      PROVE  LET all == get_recent_events("any", l)
             IN  /\ all.data = [i \in 1..Min({l, accepted}) |->
                                    events[Len(events) - Min({l, accepted}) + i]]
                 /\ \A i \in DOMAIN all.data : all.data[i].n = accepted - Len(all.data) + i
  BY <1>1, EventTools
<1>2. RuntimeInv => ToolsHonest
  <2> SUFFICES ASSUME RuntimeInv, running
               PROVE  ToolsHonest
    BY DEF ToolsHonest
  <2>1. loop # "failed" /\ shown_age # Never => \A s \in Symbols : AsLastTick(s)
    BY DEF RuntimeInv, AsShown
  <2> QED
    BY <1>1, <2>1, HealthTools, Zenon DEF ToolsHonest
<1> QED
  BY <1>2, RuntimeInvariant, PTL

\* The loop does not cost the engine its promises: they hold although a cancellation can
\* abandon a tick at its await and an exception can end it anywhere (_tick_loop and stop).
THEOREM EngineUnderLoop == RuntimeSpec => [](FreshnessHonest /\ PublishedQuoteIsNewest)
<1>1. RuntimeInv => FreshnessHonest /\ PublishedQuoteIsNewest
  BY FreshnessFollows DEF RuntimeInv, EngineInv
<1> QED
  BY <1>1, RuntimeInvariant, PTL
=============================================================================
