--------------------------- MODULE QuoteFeedProofs ---------------------------
(***************************************************************************)
(* Proofs about QuoteFeed for every set of callers, every retention,       *)
(* window, lag, session length and bar length, and any number of quotes.   *)
(*                                                                         *)
(* The provider and the quotes are two separate arguments.  The provider's *)
(* rests on the lock: only its holder creates a context or requests.  That *)
(* of the quotes rests on two facts: the buffer is exactly the part of the *)
(* history that is not older than the retention (KeepsRecent), and the     *)
(* largest element that every look-up asks for exists (Topped, Extremed),  *)
(* since a quote is never older than the quotes before it.                 *)
(***************************************************************************)
EXTENDS QuoteFeed, FiniteSetTheorems, TLAPS

-----------------------------------------------------------------------------
(* The provider *)

ProviderTypeOK ==
    /\ phase \in [Callers -> {"idle", "waiting", "creating", "quoting"}]
    /\ using \in [Callers -> {"none", "kept", "discarded"}]
    /\ client \in BOOLEAN
    /\ flight \in Callers \cup {None}
    /\ waiters \in Seq(Callers)

\* The queue of the lock holds callers that wait, each once.
QueueWaits ==
    /\ \A i \in DOMAIN waiters : phase[waiters[i]] = "waiting"
    /\ \A i, j \in DOMAIN waiters : waiters[i] = waiters[j] => i = j

\* The holder of the lock is the one caller that creates or requests.
HolderAlone == \A c \in Callers : phase[c] \in {"creating", "quoting"} <=> flight = c

\* A request runs on the context that is kept.
OnKept == \A c \in Callers : phase[c] = "quoting" => using[c] = "kept" /\ client

\* The inductive invariant of the provider.
ProviderInv == ProviderTypeOK /\ QueueWaits /\ HolderAlone /\ OnKept

\* The provider starts with the lock free and no context.
LEMMA ProviderInit == Init => ProviderInv
<1> SUFFICES ASSUME Init
             PROVE  ProviderInv
  OBVIOUS
<1>1. client \in BOOLEAN
  BY Zenon DEF Init
<1>2. ProviderTypeOK
  BY <1>1 DEF Init, ProviderTypeOK
<1>3. QueueWaits /\ HolderAlone /\ OnKept
  BY NoneAssumption DEF Init, QueueWaits, HolderAlone, OnKept
<1> QED
  BY <1>2, <1>3 DEF ProviderInv

\* A cancelled waiter leaves the others in the queue, each once.
LEMMA WithoutKeeps ==
  ASSUME NEW s \in Seq(Callers), NEW i \in DOMAIN s,
         \A j, k \in DOMAIN s : s[j] = s[k] => j = k
  PROVE  LET w == Without(s, i)
         IN  /\ w \in Seq(Callers)
             /\ \A j \in DOMAIN w : \E k \in DOMAIN s : w[j] = s[k] /\ k # i
             /\ \A j, k \in DOMAIN w : w[j] = w[k] => j = k
<1> DEFINE w == Without(s, i)
           At(j) == IF j < i THEN j ELSE j + 1
<1>1. Len(s) \in Nat /\ DOMAIN s = 1..Len(s) /\ Len(s) >= 1
  OBVIOUS
<1>2. DOMAIN w = 1..Len(s) - 1 /\ \A j \in 1..Len(s) - 1 : w[j] = s[At(j)]
  BY DEF Without
<1>3. \A j \in 1..Len(s) - 1 : At(j) \in DOMAIN s /\ At(j) # i
  BY <1>1
<1>4. \A j, k \in 1..Len(s) - 1 : At(j) = At(k) => j = k
  BY <1>1
<1>5. w \in Seq(Callers)
  <2>1. \A j \in 1..Len(s) - 1 : w[j] \in Callers
    BY <1>2, <1>3
  <2>2. Len(s) - 1 \in Nat
    BY <1>1
  <2> QED
    BY <2>1, <2>2, <1>2 DEF Without
<1> HIDE DEF w, At
<1> QED
  BY <1>2, <1>3, <1>4, <1>5 DEF w

\* The lock covers the creation, the request and the invalidation.
LEMMA ProviderStep == ProviderInv /\ [Next]_vars => ProviderInv'
<1> SUFFICES ASSUME ProviderInv, [Next]_vars
             PROVE  ProviderInv'
  OBVIOUS
<1> USE NoneAssumption DEF ProviderInv, ProviderTypeOK, QueueWaits, HolderAlone, OnKept
<1>1. ASSUME NEW c \in Callers, Begin(c)
      PROVE  ProviderInv'
  <2>1. waiters' = Append(waiters, c) /\ phase' = [phase EXCEPT ![c] = "waiting"]
        /\ phase[c] = "idle"
    BY <1>1 DEF Begin
  <2>2. QueueWaits'
    BY <2>1
  <2> QED
    BY <1>1, <2>2 DEF Begin
<1>2. ASSUME NEW c \in Callers, Acquire(c)
      PROVE  ProviderInv'
  <2>1. waiters # <<>> /\ c = waiters[1] /\ waiters' = Tail(waiters) /\ flight' = c
        /\ flight = None /\ client' = client
    BY <1>2 DEF Acquire
  <2>2. phase' = [phase EXCEPT ![c] = IF client THEN "quoting" ELSE "creating"]
        /\ using' = [using EXCEPT ![c] = IF client THEN "kept" ELSE "none"]
    BY <1>2 DEF Acquire
  <2>3. ProviderTypeOK'
    BY <2>1, <2>2
  <2>4. Len(waiters) >= 1 /\ DOMAIN waiters = 1..Len(waiters)
        /\ DOMAIN waiters' = 1..Len(waiters) - 1
        /\ \A i \in DOMAIN waiters' : waiters'[i] = waiters[i + 1] /\ i + 1 \in DOMAIN waiters
    BY <2>1
  <2>5. \A i \in DOMAIN waiters' : waiters'[i] # c /\ waiters'[i] \in Callers
    BY <2>1, <2>4
  <2>6. QueueWaits'
    BY <2>2, <2>4, <2>5
  <2>7. HolderAlone' /\ OnKept'
    BY <2>1, <2>2
  <2> QED
    BY <2>3, <2>6, <2>7
<1>3. ASSUME NEW c \in Callers, ContextCreated(c)
      PROVE  ProviderInv'
  <2>1. client' = TRUE /\ flight' = flight /\ waiters' = waiters /\ phase[c] = "creating"
        /\ phase' = [phase EXCEPT ![c] = "quoting"] /\ using' = [using EXCEPT ![c] = "kept"]
    BY <1>3 DEF ContextCreated
  <2>2. client' \in BOOLEAN
    BY <2>1, Zenon
  <2>3. QueueWaits'
    BY <2>1
  <2>4. HolderAlone'
    BY <2>1
  <2>5. OnKept'
    <3>1. \A d \in Callers : phase'[d] = "quoting" => using'[d] = "kept"
      BY <2>1
    <3> QED
      BY <3>1, <2>1, Zenon
  <2> QED
    BY <2>1, <2>2, <2>3, <2>4, <2>5
<1>4. ASSUME NEW c \in Callers, CreateFails(c)
      PROVE  ProviderInv'
  BY <1>4 DEF CreateFails, Leaves
<1>5. ASSUME NEW c \in Callers, RequestBreaks(c)
      PROVE  ProviderInv'
  <2>1. client' = FALSE /\ waiters' = waiters /\ phase[c] = "quoting"
        /\ phase' = [phase EXCEPT ![c] = "idle"]
        /\ flight' = IF flight = c THEN None ELSE flight
    BY <1>5 DEF RequestBreaks, Leaves, InvalidateSdk
  <2>2. client' \in BOOLEAN
    BY <2>1, Zenon
  <2>3. using' \in [Callers -> {"none", "kept", "discarded"}]
    BY <1>5 DEF RequestBreaks, InvalidateSdk
  <2>4. QueueWaits' /\ HolderAlone'
    BY <2>1
  <2>5. \A d \in Callers : phase'[d] # "quoting"
    BY <2>1
  <2> QED
    BY <2>1, <2>2, <2>3, <2>4, <2>5
<1>6. ASSUME NEW c \in Callers, RequestRefused(c)
      PROVE  ProviderInv'
  BY <1>6 DEF RequestRefused, Leaves
<1>7. ASSUME NEW c \in Callers, RequestAnswered(c)
      PROVE  ProviderInv'
  BY <1>7 DEF RequestAnswered, Ingested, Leaves
<1>8. ASSUME NEW c \in Callers, Cancelled(c)
      PROVE  ProviderInv'
  <2>1. phase' = [phase EXCEPT ![c] = "idle"] /\ client' = client
        /\ using' = [using EXCEPT ![c] = "none"]
        /\ flight' = IF flight = c THEN None ELSE flight
    BY <1>8 DEF Cancelled, Leaves
  <2>2. CASE phase[c] # "waiting" /\ UNCHANGED waiters
    BY <2>1, <2>2
  <2>3. CASE \E i \in DOMAIN waiters : waiters[i] = c /\ waiters' = Without(waiters, i)
    <3>1. PICK i \in DOMAIN waiters : waiters[i] = c /\ waiters' = Without(waiters, i)
      BY <2>3
    <3>2. /\ waiters' \in Seq(Callers)
          /\ \A j \in DOMAIN waiters' : \E k \in DOMAIN waiters : waiters'[j] = waiters[k] /\ k # i
          /\ \A j, k \in DOMAIN waiters' : waiters'[j] = waiters'[k] => j = k
      BY <3>1, WithoutKeeps
    <3>3. QueueWaits'
      BY <2>1, <3>1, <3>2
    <3> QED
      BY <2>1, <3>2, <3>3
  <2> QED
    BY <1>8, <2>2, <2>3 DEF Cancelled
<1>9. CASE UNCHANGED vars
  BY <1>9 DEF vars
<1> QED
  BY <1>1, <1>2, <1>3, <1>4, <1>5, <1>6, <1>7, <1>8, <1>9 DEF Next

\* No request runs on a context that was discarded, and no context is created beside
\* another: however the calls, their failures and cancellations interleave, only the
\* holder of the lock creates, requests and invalidates (fetch_quotes).
THEOREM ContextsAreKept == Spec => []RequestsOnKeptContext
<1>1. ProviderInv => RequestsOnKeptContext
  BY DEF ProviderInv, ProviderTypeOK, HolderAlone, OnKept, RequestsOnKeptContext
<1> QED
  BY <1>1, ProviderInit, ProviderStep, PTL DEF Spec

-----------------------------------------------------------------------------
(* The quotes *)

Quote == [ts : Nat, price : Nat, high : Nat, low : Nat, volume : Nat]

\* Every quote of a history stands at its time.
WellFormed(h) ==
    /\ DOMAIN h \subseteq Nat
    /\ \A t \in DOMAIN h : h[t] \in Quote /\ h[t] # None /\ h[t].ts = t

\* Every part of a history has a quote with the highest high and one with the lowest low.
HighestOf(h, S) ==
    \E m \in S : \A u \in S : session_extreme_high(h[u]) <= session_extreme_high(h[m])
LowestOf(h, S) ==
    \E m \in S : \A u \in S : session_extreme_low(h[m]) <= session_extreme_low(h[u])
Extremed(h) == \A S \in SUBSET DOMAIN h : S # {} => HighestOf(h, S) /\ LowestOf(h, S)

\* Every part of the history has a latest time.
Topped(D) == \A S \in SUBSET D : S # {} => \E m \in S : \A u \in S : u <= m

\* The part of a history that is not older than the retention.
RecentTimes(h) == {t \in DOMAIN h : t >= Max(DOMAIN h) - Retention}
Recent(h) == Restrict(h, RecentTimes(h))

\* The buffer holds exactly the recent part of the history.
KeepsRecent ==
    \/ seen = <<>> /\ buffer = <<>>
    \/ DOMAIN seen # {} /\ buffer = Recent(seen)

\* The inductive invariant of the quotes.
QuotesInv == WellFormed(seen) /\ Extremed(seen) /\ Topped(DOMAIN seen) /\ KeepsRecent

\* The largest element of a set of numbers is the one that no other exceeds.
LEMMA MaxIs ==
  ASSUME NEW S \in SUBSET Int, NEW m \in S, \A u \in S : u <= m
  PROVE  Max(S) = m
<1>1. \A x \in S : (\A y \in S : x >= y) => x = m
  OBVIOUS
<1>2. m \in S /\ \A y \in S : m >= y
  OBVIOUS
<1> QED
  BY <1>1, <1>2 DEF Max

\* The smallest, likewise.
LEMMA MinIs ==
  ASSUME NEW S \in SUBSET Int, NEW m \in S, \A u \in S : m <= u
  PROVE  Min(S) = m
<1>1. \A x \in S : (\A y \in S : x =< y) => x = m
  OBVIOUS
<1>2. m \in S /\ \A y \in S : m =< y
  OBVIOUS
<1> QED
  BY <1>1, <1>2 DEF Min

\* In a history every non-empty set of times has its largest element.
LEMMA LatestTime ==
  ASSUME NEW D \in SUBSET Nat, Topped(D), NEW S \in SUBSET D, S # {}
  PROVE  Max(S) \in S /\ \A u \in S : u <= Max(S)
<1>1. PICK m \in S : \A u \in S : u <= m
  BY DEF Topped
<1>2. Max(S) = m
  BY <1>1, MaxIs
<1> QED
  BY <1>1, <1>2

\* The quotient does not decrease.
LEMMA DivMonotone ==
  ASSUME NEW n \in Nat \ {0}, NEW t \in Int, NEW u \in Int, t <= u
  PROVE  t \div n \in Int /\ u \div n \in Int /\ t \div n <= u \div n
  OBVIOUS

\* What fetch_quotes returns has its types, whatever the vendor says.
LEMMA AnswerTyped ==
  ASSUME NEW q \in Snapshots, q # None
  PROVE  q \in Quote
<1>1. PICK v \in VendorQuotes : q = Snapshot(v)
  BY DEF Snapshots
<1>2. vendor_quote_to_raw(v) # None /\ q = normalize_snapshot(v)
  BY <1>1 DEF Snapshot, vendor_quote_to_raw
<1>3. v.ts \in Nat /\ v.high # None /\ v.low # None
  BY <1>2 DEF vendor_quote_to_raw, vendor_timestamp_to_unix
<1>4. v.price # None /\ v.volume # None /\ ~(v.price <= 0 \/ v.volume < 0)
      /\ q = [ts |-> v.ts, price |-> v.price, high |-> v.high, low |-> v.low, volume |-> v.volume]
  BY <1>2 DEF normalize_snapshot
<1>5. v.price \in Nat /\ v.high \in Nat /\ v.low \in Nat /\ v.volume \in Nat
  <2>1. /\ v.price \in Prices \cup {0, None} /\ v.high \in Prices \cup {0, None}
        /\ v.low \in Prices \cup {0, None} /\ v.volume \in (-1..MaxVolume) \cup {None}
    BY DEF VendorQuotes
  <2>2. Prices \subseteq Nat /\ -1..MaxVolume \subseteq Int
    BY FeedAssumption
  <2>3. v.price \in Nat /\ v.high \in Nat /\ v.low \in Nat
    <3>1. \A x \in Prices \cup {0, None} : x # None => x \in Nat
      BY <2>2
    <3>2. v.price # None /\ v.high # None /\ v.low # None
      BY <1>3, <1>4
    <3> QED
      BY <3>1, <3>2, <2>1, Zenon
  <2>4. v.volume \in Int /\ ~(v.volume < 0)
    BY <2>1, <2>2, <1>4
  <2> QED
    BY <2>3, <2>4
<1> QED
  BY <1>3, <1>4, <1>5 DEF Quote

\* Of two numbers.
LEMMA PairMax ==
  ASSUME NEW x \in Int, NEW y \in Int, x <= y
  PROVE  Max({x, y}) = y
  BY MaxIs

\* The lesser of two numbers.
LEMMA PairMin ==
  ASSUME NEW x \in Int, NEW y \in Int, y <= x
  PROVE  Min({x, y}) = y
  BY MinIs

\* The extremes of a quote are prices.
LEMMA ExtremesTyped ==
  ASSUME NEW q \in Quote
  PROVE  session_extreme_high(q) \in Nat /\ session_extreme_low(q) \in Nat
<1>1. q.price \in Nat /\ q.high \in Nat /\ q.low \in Nat
  BY DEF Quote
<1>2. \A x, y \in Nat : Max({x, y}) \in Nat /\ Min({x, y}) \in Nat
  <2> SUFFICES ASSUME NEW x \in Nat, NEW y \in Nat
               PROVE  Max({x, y}) \in Nat /\ Min({x, y}) \in Nat
    OBVIOUS
  <2>1. {x, y} = {y, x}
    OBVIOUS
  <2>2. CASE x <= y
    <3>1. Max({x, y}) = y /\ Min({y, x}) = x
      BY <2>2, PairMax, PairMin
    <3> QED
      BY <3>1, <2>1, Zenon
  <2>3. CASE y <= x
    <3>1. Max({y, x}) = x /\ Min({x, y}) = y
      BY <2>3, PairMax, PairMin
    <3> QED
      BY <3>1, <2>1, Zenon
  <2> QED
    BY <2>2, <2>3
<1> QED
  BY <1>1, <1>2 DEF session_extreme_high, session_extreme_low

\* The recent part of a history that has a quote.
LEMMA RecentIs ==
  ASSUME NEW h
  PROVE  /\ DOMAIN Recent(h) = RecentTimes(h)
         /\ \A t \in RecentTimes(h) : Recent(h)[t] = h[t]
  BY DEF Recent, Restrict

\* Appending a quote that is not older: the buffer forgets exactly what has become
\* older than the retention, and max_size never cuts off more.
LEMMA AppendRecent ==
  ASSUME NEW q, q.ts \in Nat,
         NEW h, DOMAIN h \subseteq Nat, \A t \in DOMAIN h : t <= q.ts,
         NEW b, DOMAIN b \subseteq DOMAIN h, \A t \in DOMAIN b : b[t] = h[t],
         \A t \in DOMAIN h : t >= q.ts - Retention => t \in DOMAIN b
  PROVE  /\ append(b, q) = Recent(Inserted(h, q))
         /\ Max(DOMAIN Inserted(h, q)) = q.ts
<1> DEFINE B == Inserted(b, q)
           H == Inserted(h, q)
           young == {t \in DOMAIN B : t >= Max(DOMAIN B) - Retention}
<1>1. DOMAIN B = DOMAIN b \cup {q.ts} /\ DOMAIN H = DOMAIN h \cup {q.ts}
  BY DEF Inserted
<1>2. Max(DOMAIN B) = q.ts
  <2>1. DOMAIN B \in SUBSET Int /\ q.ts \in DOMAIN B /\ \A u \in DOMAIN B : u <= q.ts
    BY <1>1
  <2> QED
    BY <2>1, MaxIs
<1>3. Max(DOMAIN H) = q.ts
  <2>1. DOMAIN H \in SUBSET Int /\ q.ts \in DOMAIN H /\ \A u \in DOMAIN H : u <= q.ts
    BY <1>1
  <2> QED
    BY <2>1, MaxIs
<1>4. young = RecentTimes(H)
  BY <1>1, <1>2, <1>3 DEF RecentTimes
<1>5. \A t \in young : B[t] = H[t]
  BY <1>1 DEF Inserted
<1>6. ASSUME NEW t \in young
      PROVE  Cardinality({u \in young : u > t}) < MaxSize
  <2> DEFINE later == {u \in young : u > t}
             span == (q.ts - Retention + 1)..q.ts
  <2>1. later \in SUBSET span
    BY <1>1, <1>2, FeedAssumption
  <2>2. IsFiniteSet(span) /\ Cardinality(span) = Retention
    <3>1. q.ts - Retention + 1 \in Int /\ q.ts \in Int
      BY FeedAssumption
    <3>2. IsFiniteSet(span)
          /\ Cardinality(span) = IF q.ts - Retention + 1 > q.ts THEN 0
                                 ELSE q.ts - (q.ts - Retention + 1) + 1
      BY <3>1, FS_Interval
    <3> QED
      BY <3>2, FeedAssumption
  <2>3. IsFiniteSet(later) /\ Cardinality(later) <= Retention
    <3> HIDE DEF later, span
    <3> QED
      BY <2>1, <2>2, FS_Subset
  <2>4. Cardinality(later) \in Nat
    BY <2>3, FS_CardinalityType
  <2> QED
    BY <2>3, <2>4, FeedAssumption
<1>7. {t \in young : Cardinality({u \in young : u > t}) < MaxSize} = young
  BY <1>6
<1>8. append(b, q) = Restrict(B, young)
  BY <1>7 DEF append, evict
<1>9. Restrict(B, young) = Restrict(H, young)
  BY <1>5 DEF Restrict
<1> QED
  BY <1>3, <1>4, <1>8, <1>9 DEF Recent

\* Before the first quote the history and the buffer are empty.
LEMMA QuotesInit == Init => QuotesInv
  BY DEF Init, QuotesInv, WellFormed, Extremed, Topped, KeepsRecent

\* What the invariant says once there is a quote.
LEMMA HistoryFacts ==
  ASSUME QuotesInv, seen # <<>>
  PROVE  /\ DOMAIN seen # {} /\ DOMAIN seen \in SUBSET Nat
         /\ Max(DOMAIN seen) \in DOMAIN seen /\ Max(DOMAIN seen) \in Nat
         /\ \A u \in DOMAIN seen : u <= Max(DOMAIN seen)
         /\ DOMAIN buffer = RecentTimes(seen)
         /\ \A t \in DOMAIN buffer : buffer[t] = seen[t] /\ t \in DOMAIN seen
         /\ latest(seen).ts = Max(DOMAIN seen)
<1>1. DOMAIN seen # {} /\ DOMAIN seen \in SUBSET Nat /\ buffer = Recent(seen)
  BY DEF QuotesInv, WellFormed, KeepsRecent
<1>2. Max(DOMAIN seen) \in DOMAIN seen /\ \A u \in DOMAIN seen : u <= Max(DOMAIN seen)
  BY <1>1, LatestTime DEF QuotesInv
<1>3. /\ DOMAIN buffer = RecentTimes(seen)
      /\ \A t \in DOMAIN buffer : buffer[t] = seen[t]
  BY <1>1, RecentIs
<1>4. RecentTimes(seen) \subseteq DOMAIN seen
  BY DEF RecentTimes
<1>5. latest(seen).ts = Max(DOMAIN seen)
  BY <1>2 DEF latest, QuotesInv, WellFormed
<1> QED
  BY <1>1, <1>2, <1>3, <1>4, <1>5

\* The buffer and the history have the same latest quote.
LEMMA SameLatest ==
  ASSUME QuotesInv, seen # <<>>
  PROVE  /\ latest(buffer) = latest(seen)
         /\ Max(DOMAIN seen) \in DOMAIN buffer
<1> DEFINE m == Max(DOMAIN seen)
<1>1. m \in DOMAIN buffer
  BY HistoryFacts, FeedAssumption DEF RecentTimes
<1>2. Max(DOMAIN buffer) = m
  <2>1. DOMAIN buffer \in SUBSET Int /\ \A u \in DOMAIN buffer : u <= m
    BY HistoryFacts
  <2> QED
    BY <1>1, <2>1, MaxIs
<1> QED
  BY <1>1, <1>2, HistoryFacts DEF latest

\* A quote that reaches the buffer keeps the invariant.
LEMMA QuoteArrives ==
  ASSUME QuotesInv, NEW q \in Snapshots, q # None,
         ~(buffer # <<>> /\ q.ts < latest(buffer).ts),
         buffer' = append(buffer, q), seen' = Inserted(seen, q)
  PROVE  QuotesInv'
<1> DEFINE D == DOMAIN seen
<1>1. q \in Quote
  BY AnswerTyped
<1>2. q.ts \in Nat
  BY <1>1 DEF Quote
<1>3. DOMAIN seen' = D \cup {q.ts} /\ seen'[q.ts] = q
      /\ \A t \in D : t # q.ts => seen'[t] = seen[t]
  BY DEF Inserted
<1>4. D \subseteq Nat /\ WellFormed(seen) /\ Extremed(seen) /\ Topped(D)
  BY DEF QuotesInv, WellFormed
<1>5. \A t \in D : t <= q.ts
  <2>1. CASE seen = <<>>
    BY <2>1
  <2>2. CASE seen # <<>>
    <3>1. /\ latest(buffer).ts = Max(D) /\ Max(D) \in DOMAIN buffer /\ Max(D) \in Nat
          /\ \A t \in D : t <= Max(D) /\ t \in Nat
      BY <2>2, HistoryFacts, SameLatest
    <3>2. buffer # <<>>
      BY <3>1
    <3> QED
      BY <3>1, <3>2, <1>2
  <2> QED
    BY <2>1, <2>2
<1>6. WellFormed(seen')
  BY <1>1, <1>2, <1>3, <1>4 DEF WellFormed
<1>7. Topped(DOMAIN seen')
  <2> SUFFICES ASSUME NEW S \in SUBSET DOMAIN seen', S # {}
               PROVE  \E m \in S : \A u \in S : u <= m
    BY DEF Topped
  <2>1. CASE q.ts \in S
    BY <2>1, <1>2, <1>3, <1>5
  <2>2. CASE q.ts \notin S
    BY <2>2, <1>3, <1>4 DEF Topped
  <2> QED
    BY <2>1, <2>2
<1>8. Extremed(seen')
  <2> SUFFICES ASSUME NEW S \in SUBSET DOMAIN seen', S # {}
               PROVE  HighestOf(seen', S) /\ LowestOf(seen', S)
    BY DEF Extremed
  <2> DEFINE R == S \ {q.ts}
             High(t) == session_extreme_high(seen'[t])
             Low(t) == session_extreme_low(seen'[t])
  <2>1. R \in SUBSET D /\ (\A t \in R : seen'[t] = seen[t]) /\ seen'[q.ts] = q
    BY <1>3
  <2>2. \A t \in S : High(t) \in Int /\ Low(t) \in Int
    BY <1>6, ExtremesTyped DEF WellFormed
  <2>3. CASE R = {}
    <3>1. S = {q.ts}
      BY <2>3
    <3> QED
      BY <3>1, <2>2 DEF HighestOf, LowestOf
  <2>4. CASE R # {}
    <3>1. HighestOf(seen, R) /\ LowestOf(seen, R)
      BY <2>1, <2>4, <1>4 DEF Extremed
    <3>2. PICK m \in R : \A u \in R : High(u) <= High(m)
      BY <3>1, <2>1 DEF HighestOf
    <3>3. PICK n \in R : \A u \in R : Low(n) <= Low(u)
      BY <3>1, <2>1 DEF LowestOf
    <3> HIDE DEF High, Low
    <3>4. \E k \in S : \A u \in S : High(u) <= High(k)
      <4>1. CASE q.ts \in S /\ High(q.ts) > High(m)
        <5>1. \A u \in S : High(u) <= High(q.ts)
          BY <4>1, <3>2, <2>2
        <5> QED
          BY <4>1, <5>1
      <4>2. CASE ~(q.ts \in S /\ High(q.ts) > High(m))
        <5>1. \A u \in S : High(u) <= High(m)
          BY <4>2, <3>2, <2>2
        <5> QED
          BY <5>1
      <4> QED
        BY <4>1, <4>2
    <3>5. \E k \in S : \A u \in S : Low(k) <= Low(u)
      <4>1. CASE q.ts \in S /\ Low(q.ts) < Low(n)
        <5>1. \A u \in S : Low(q.ts) <= Low(u)
          BY <4>1, <3>3, <2>2
        <5> QED
          BY <4>1, <5>1
      <4>2. CASE ~(q.ts \in S /\ Low(q.ts) < Low(n))
        <5>1. \A u \in S : Low(n) <= Low(u)
          BY <4>2, <3>3, <2>2
        <5> QED
          BY <5>1
      <4> QED
        BY <4>1, <4>2
    <3> QED
      BY <3>4, <3>5 DEF HighestOf, LowestOf, High, Low
  <2> QED
    BY <2>3, <2>4
<1>9. KeepsRecent'
  <2>1. DOMAIN buffer \subseteq D /\ \A t \in DOMAIN buffer : buffer[t] = seen[t]
    <3>1. CASE seen = <<>>
      BY <3>1 DEF QuotesInv, KeepsRecent
    <3>2. CASE seen # <<>>
      BY <3>2, HistoryFacts
    <3> QED
      BY <3>1, <3>2
  <2>2. \A t \in D : t >= q.ts - Retention => t \in DOMAIN buffer
    <3>1. CASE seen = <<>>
      BY <3>1
    <3>2. CASE seen # <<>>
      BY <3>2, <1>2, <1>4, <1>5, HistoryFacts, FeedAssumption DEF RecentTimes
    <3> QED
      BY <3>1, <3>2
  <2>3. append(buffer, q) = Recent(Inserted(seen, q))
    BY <2>1, <2>2, <1>2, <1>4, <1>5, AppendRecent
  <2>4. DOMAIN seen' # {}
    BY <1>3
  <2> QED
    BY <2>3, <2>4 DEF KeepsRecent
<1> QED
  BY <1>6, <1>7, <1>8, <1>9 DEF QuotesInv

\* Every other step leaves the quotes alone.
LEMMA QuotesStep == QuotesInv /\ [Next]_vars => QuotesInv'
<1> SUFFICES ASSUME QuotesInv, [Next]_vars
             PROVE  QuotesInv'
  OBVIOUS
<1>1. CASE UNCHANGED <<seen, buffer>>
  BY <1>1 DEF QuotesInv, WellFormed, Extremed, HighestOf, LowestOf, Topped, KeepsRecent
<1>2. ASSUME NEW c \in Callers, RequestAnswered(c)
      PROVE  QuotesInv'
  <2>1. PICK q \in Snapshots :
            IF q = None \/ (buffer # <<>> /\ q.ts < latest(buffer).ts)
            THEN UNCHANGED quotes
            ELSE buffer' = append(buffer, q) /\ seen' = Inserted(seen, q)
    BY <1>2 DEF RequestAnswered, Ingested
  <2>2. CASE q = None \/ (buffer # <<>> /\ q.ts < latest(buffer).ts)
    BY <2>1, <2>2, <1>1 DEF quotes
  <2>3. CASE ~(q = None \/ (buffer # <<>> /\ q.ts < latest(buffer).ts))
    BY <2>1, <2>3, QuoteArrives
  <2> QED
    BY <2>2, <2>3
<1>3. (\E c \in Callers : RequestAnswered(c)) \/ UNCHANGED <<seen, buffer>>
  BY DEF Next, vars, quotes, Begin, Acquire, ContextCreated, CreateFails, RequestBreaks,
         RequestRefused, Cancelled
<1> QED
  BY <1>1, <1>2, <1>3

-----------------------------------------------------------------------------
(* Looking back *)

\* A look-up whose lag stays within the retention finds in the buffer what it would
\* find in the whole history.
LEMMA SnapshotAgrees ==
  ASSUME QuotesInv, seen # <<>>, NEW q, NEW t \in Int,
         t - MaxLag >= Max(DOMAIN seen) - Retention
  PROVE  /\ snapshot_as_of(buffer, t, q) = snapshot_as_of(seen, t, q)
         /\ snapshot_as_of(seen, t, q) # None =>
                /\ snapshot_as_of(seen, t, q).ts \in Int
                /\ snapshot_as_of(seen, t, q).ts >= t - MaxLag
<1> DEFINE S == {u \in DOMAIN seen : u <= t}
           B == {u \in DOMAIN buffer : u <= t}
<1>1. S \in SUBSET DOMAIN seen /\ B \in SUBSET S /\ S \in SUBSET Int
      /\ MaxLag \in Nat /\ Retention \in Nat
  BY HistoryFacts, FeedAssumption
<1>2. CASE S = {}
  BY <1>1, <1>2 DEF snapshot_as_of, at_or_before
<1>3. CASE S # {}
  <2> DEFINE m == Max(S)
  <2>1. m \in S /\ \A u \in S : u <= m
    BY <1>1, <1>3, HistoryFacts, LatestTime DEF QuotesInv
  <2>2. at_or_before(seen, t) = seen[m]
    BY <1>3 DEF at_or_before
  <2>3. seen[m].ts = m /\ seen[m] # None /\ m \in Nat
    BY <2>1, <1>1 DEF QuotesInv, WellFormed
  <2>4. CASE m >= Max(DOMAIN seen) - Retention
    <3>1. m \in B
      BY <2>1, <2>4, <1>1, HistoryFacts DEF RecentTimes
    <3>2. Max(B) = m
      BY <3>1, <2>1, <1>1, MaxIs
    <3>3. at_or_before(buffer, t) = buffer[m] /\ buffer[m] = seen[m]
      BY <3>1, <3>2, HistoryFacts DEF at_or_before
    <3> HIDE DEF m
    <3> QED
      BY <2>2, <2>3, <3>3, <1>1 DEF snapshot_as_of
  <2>5. CASE ~(m >= Max(DOMAIN seen) - Retention)
    <3>1. B = {}
      <4> SUFFICES ASSUME NEW u \in B
                   PROVE  FALSE
        OBVIOUS
      <4>1. u \in S /\ u <= m /\ u \in Nat
        BY <2>1, <1>1, HistoryFacts
      <4>2. u >= Max(DOMAIN seen) - Retention
        BY HistoryFacts DEF RecentTimes
      <4> QED
        BY <4>1, <4>2, <2>3, <2>5, <1>1, HistoryFacts
    <3>2. ~(t - m <= MaxLag)
      BY <2>3, <2>5, <1>1, HistoryFacts
    <3>3. at_or_before(buffer, t) = None
      BY <3>1 DEF at_or_before
    <3> HIDE DEF m
    <3> QED
      BY <2>2, <2>3, <3>2, <3>3 DEF snapshot_as_of
  <2> QED
    BY <2>4, <2>5
<1> QED
  BY <1>2, <1>3

\* So do the anchors of the windows of a quote that is not too old.
LEMMA AnchorAgrees ==
  ASSUME QuotesInv, seen # <<>>, NEW q, q.ts \in Int, NEW w \in Windows,
         q.ts - Long - MaxLag >= Max(DOMAIN seen) - Retention
  PROVE  resolve_anchor(buffer, q, w) = resolve_anchor(seen, q, w)
<1>1. w \in Nat /\ w <= Long /\ q.ts - w \in Int
  BY FeedAssumption DEF Windows
<1>2. q.ts - w - MaxLag >= Max(DOMAIN seen) - Retention
  <2>1. Max(DOMAIN seen) \in Int
    BY HistoryFacts
  <2>2. MaxLag \in Int /\ Long \in Int /\ Retention \in Int
    BY FeedAssumption
  <2> QED
    BY <1>1, <2>1, <2>2
<1>3. snapshot_as_of(buffer, q.ts - w, q) = snapshot_as_of(seen, q.ts - w, q)
  BY <1>1, <1>2, SnapshotAgrees
<1> QED
  BY <1>3 DEF resolve_anchor

\* And the samples of the volume ratio.
LEMMA SamplesAgree ==
  ASSUME QuotesInv, seen # <<>>, NEW w \in Windows
  PROVE  historical_volume_deltas(buffer, latest(seen), w)
             = historical_volume_deltas(seen, latest(seen), w)
<1> DEFINE q == latest(seen)
           AsOf(b) == [s \in 1..Lookback |-> snapshot_as_of(b, q.ts - s * SampleStep, q)]
           Samples(b) == [s \in 1..Lookback |->
                            IF AsOf(b)[s] = None THEN None ELSE volume_delta(b, AsOf(b)[s], w)]
<1>1. q.ts = Max(DOMAIN seen) /\ q.ts \in Nat
  BY HistoryFacts
<1>2. ASSUME NEW s \in 1..Lookback
      PROVE  /\ AsOf(buffer)[s] = AsOf(seen)[s]
             /\ AsOf(seen)[s] # None =>
                    volume_delta(buffer, AsOf(seen)[s], w) = volume_delta(seen, AsOf(seen)[s], w)
  <2> DEFINE back == s * SampleStep
  <2>0. /\ back \in Nat /\ Retention >= back + Long + 2 * MaxLag
        /\ Retention \in Nat /\ Long \in Nat /\ MaxLag \in Nat
    BY FeedAssumption
  <2> HIDE DEF back
  <2>1. q.ts - back \in Int /\ q.ts - back - MaxLag >= Max(DOMAIN seen) - Retention
    BY <1>1, <2>0
  <2> DEFINE a == snapshot_as_of(seen, q.ts - back, q)
  <2>2. /\ snapshot_as_of(buffer, q.ts - back, q) = a
        /\ a # None => a.ts \in Int /\ a.ts >= q.ts - back - MaxLag
    BY <2>1, SnapshotAgrees
  <2>3. AsOf(buffer)[s] = a /\ AsOf(seen)[s] = a
    BY <2>2 DEF back
  <2> HIDE DEF a, AsOf
  <2>4. a # None => a.ts - Long - MaxLag >= Max(DOMAIN seen) - Retention
    BY <2>0, <2>2, <1>1
  <2>5. a # None => resolve_anchor(buffer, a, w) = resolve_anchor(seen, a, w)
    BY <2>2, <2>4, AnchorAgrees
  <2> QED
    BY <2>3, <2>5 DEF volume_delta
<1> HIDE DEF AsOf
<1>3. Samples(buffer) = Samples(seen)
  BY <1>2
<1> HIDE DEF Samples
<1>4. \A b : historical_volume_deltas(b, q, w)
                 = IF \E s \in 1..Lookback : Samples(b)[s] = None THEN None ELSE Samples(b)
  BY DEF historical_volume_deltas, Samples, AsOf
<1> QED
  BY <1>3, <1>4

\* The features of the windows are those of the whole history.
LEMMA WindowsAgree ==
  ASSUME QuotesInv, seen # <<>>, NEW w \in Windows
  PROVE  LET q == latest(seen)
         IN  /\ price_change(buffer, q, w) = price_change(seen, q, w)
             /\ volume_delta(buffer, q, w) = volume_delta(seen, q, w)
             /\ volume_ratio(buffer, q, w) = volume_ratio(seen, q, w)
<1> DEFINE q == latest(seen)
<1>1. q.ts \in Int /\ q.ts - Long - MaxLag >= Max(DOMAIN seen) - Retention
  <2>1. Retention >= SampleStep + Long + 2 * MaxLag /\ SampleStep \in Nat
    BY FeedAssumption
  <2> QED
    BY <2>1, HistoryFacts, FeedAssumption
<1>2. resolve_anchor(buffer, q, w) = resolve_anchor(seen, q, w)
  BY <1>1, AnchorAgrees
<1>3. historical_volume_deltas(buffer, q, w) = historical_volume_deltas(seen, q, w)
  BY SamplesAgree
<1> HIDE DEF q
<1>4. volume_delta(buffer, q, w) = volume_delta(seen, q, w)
  BY <1>2 DEF volume_delta
<1>5. price_change(buffer, q, w) = price_change(seen, q, w)
  BY <1>2 DEF price_change
<1>6. volume_ratio(buffer, q, w) = volume_ratio(seen, q, w)
  BY <1>3, <1>4 DEF volume_ratio
<1> QED
  BY <1>4, <1>5, <1>6 DEF q

\* The times of the quotes of bar k, and the bars, of the session of time t.
BarTimes(b, t, k) == {u \in DOMAIN b : u \div BarLen = k /\ is_same_session(u, t)}
Buckets(b, t) ==
    {u \div BarLen : u \in {v \in DOMAIN b : is_same_session(v, t)}} \ {t \div BarLen}

\* The completed bars and their closes.
LEMMA BarsAre ==
  ASSUME NEW b, NEW q
  PROVE  /\ DOMAIN completed_minute_bars(b, q) = Buckets(b, q.ts)
         /\ \A k \in Buckets(b, q.ts) :
                completed_minute_bars(b, q)[k].close = b[Max(BarTimes(b, q.ts, k))].price
  BY DEF completed_minute_bars, Buckets, BarTimes

\* A bar that the buffer knows has its last close, and one that it has forgotten lies
\* before all that it knows.
LEMMA BarsAgree ==
  ASSUME QuotesInv, seen # <<>>
  PROVE  LET q == latest(seen)
             f == completed_minute_bars(buffer, q)
             g == completed_minute_bars(seen, q)
         IN  \A k \in DOMAIN g :
                \/ k \in DOMAIN f /\ f[k].close = g[k].close
                \/ k \notin DOMAIN f /\ \A j \in DOMAIN f : j > k
<1> DEFINE t == latest(seen).ts
           cutoff == Max(DOMAIN seen) - Retention
<1> HIDE DEF t, cutoff
<1>0. cutoff \in Int
  BY HistoryFacts, FeedAssumption DEF cutoff
<1>1. DOMAIN seen \in SUBSET Nat /\ DOMAIN buffer \in SUBSET DOMAIN seen
      /\ \A u \in DOMAIN buffer : u >= cutoff /\ buffer[u] = seen[u]
  BY HistoryFacts DEF RecentTimes, cutoff
<1>2. \A u \in DOMAIN seen : u >= cutoff => u \in DOMAIN buffer
  BY HistoryFacts DEF RecentTimes, cutoff
<1>3. ASSUME NEW k \in Buckets(seen, t), k \in Buckets(buffer, t)
      PROVE  buffer[Max(BarTimes(buffer, t, k))] = seen[Max(BarTimes(seen, t, k))]
  <2> DEFINE S == BarTimes(seen, t, k)
             B == BarTimes(buffer, t, k)
             m == Max(S)
  <2>1. B \in SUBSET S /\ S \in SUBSET DOMAIN seen /\ B # {}
    BY <1>1, <1>3 DEF BarTimes, Buckets
  <2>2. m \in S /\ \A u \in S : u <= m
    BY <2>1, <1>1, LatestTime DEF QuotesInv
  <2>3. m \in DOMAIN buffer
    <3>1. PICK u \in B : TRUE
      BY <2>1
    <3>2. u >= cutoff /\ u <= m /\ u \in Nat /\ m \in Nat
      BY <3>1, <2>1, <2>2, <1>1 DEF BarTimes
    <3> QED
      BY <3>2, <2>1, <2>2, <1>0, <1>2
  <2>4. m \in B
    BY <2>2, <2>3 DEF BarTimes
  <2>5. Max(B) = m
    BY <2>1, <2>2, <2>4, <1>1, MaxIs
  <2> QED
    BY <2>3, <2>5, <1>1
<1>4. ASSUME NEW k \in Buckets(seen, t), k \notin Buckets(buffer, t), NEW j \in Buckets(buffer, t)
      PROVE  j > k
  <2>1. PICK u \in DOMAIN seen : is_same_session(u, t) /\ k = u \div BarLen
    BY DEF Buckets
  <2>2. PICK v \in DOMAIN buffer : is_same_session(v, t) /\ j = v \div BarLen
    BY DEF Buckets
  <2>3. u \notin DOMAIN buffer
    BY <2>1, <1>4 DEF Buckets
  <2>4. u \in Int /\ v \in Int /\ u <= v
    BY <2>2, <2>3, <1>0, <1>1, <1>2
  <2>5. k \in Int /\ j \in Int /\ k <= j
    BY <2>1, <2>2, <2>4, FeedAssumption, DivMonotone
  <2> QED
    BY <2>5, <1>4
<1> QED
  BY <1>3, <1>4, BarsAre DEF t

\* Forgetting quotes is invisible to the rolling features, the rules on them and the
\* closes of the bars: every look-back, with its samples and its lags, ends within the
\* retention (RingBuffer._evict, rolling.py, bars.py).
THEOREM EvictionIsInvisible == Spec => []EvictionInvisible
<1>1. QuotesInv => EvictionInvisible
  <2> SUFFICES ASSUME QuotesInv, buffer # seen
               PROVE  EvictionInvisible
    BY DEF EvictionInvisible
  <2>0. seen # <<>>
    BY DEF QuotesInv, KeepsRecent
  <2> DEFINE f == compute(buffer)
             g == compute(seen)
             q == latest(seen)
  <2>1. latest(buffer) = q
    BY <2>0, SameLatest
  <2>2. \A w \in Windows : /\ price_change(buffer, q, w) = price_change(seen, q, w)
                           /\ volume_delta(buffer, q, w) = volume_delta(seen, q, w)
                           /\ volume_ratio(buffer, q, w) = volume_ratio(seen, q, w)
    BY <2>0, WindowsAgree
  <2> HIDE DEF q
  <2>3. f.change = g.change /\ f.volume = g.volume /\ f.ratio = g.ratio
    BY <2>1, <2>2 DEF compute, q
  <2>4. f.bars = completed_minute_bars(buffer, q) /\ g.bars = completed_minute_bars(seen, q)
    BY <2>1 DEF compute, q
  <2> HIDE DEF f, g
  <2>5. \A w : window_severity(f, w) = window_severity(g, w)
    BY <2>3 DEF window_severity
  <2>6. rapid_move_severity(f) = rapid_move_severity(g)
    BY <2>5 DEF rapid_move_severity
  <2>7. \A s : move_direction(f, s) = move_direction(g, s)
    BY <2>3, <2>5 DEF move_direction
  <2>8. rapid_move(f) = rapid_move(g)
    BY <2>6, <2>7 DEF rapid_move
  <2>9. volume_spike(f) = volume_spike(g)
    BY <2>3 DEF volume_spike
  <2>10. \A k \in DOMAIN g.bars :
            \/ k \in DOMAIN f.bars /\ f.bars[k].close = g.bars[k].close
            \/ k \notin DOMAIN f.bars /\ \A j \in DOMAIN f.bars : j > k
    BY <2>0, <2>4, BarsAgree DEF q
  <2> QED
    BY <2>3, <2>8, <2>9, <2>10 DEF EvictionInvisible, f, g
<1> QED
  BY <1>1, QuotesInit, QuotesStep, PTL DEF Spec

-----------------------------------------------------------------------------
(* Breakouts *)

\* The times of the earlier quotes of the session of time t.
EarlierTimes(b, t) == {u \in DOMAIN b : u < t /\ is_same_session(u, t)}

\* The buffer remembers the earlier quotes of the session that are not older than the
\* retention; if there is one, the last of them is the last of the session.
LEMMA Remembered ==
  ASSUME QuotesInv, seen # <<>>, NEW q, q = latest(seen)
  PROVE  /\ EarlierTimes(buffer, q.ts)
                = {t \in EarlierTimes(seen, q.ts) : t >= q.ts - Retention}
         /\ EarlierTimes(buffer, q.ts) # {} =>
                \E m \in EarlierTimes(buffer, q.ts) :
                    \A t \in EarlierTimes(seen, q.ts) : t <= m
<1> DEFINE E == EarlierTimes(buffer, q.ts)
           S == EarlierTimes(seen, q.ts)
<1>1. q.ts = Max(DOMAIN seen) /\ q.ts \in Nat /\ DOMAIN seen \in SUBSET Nat
      /\ DOMAIN buffer = RecentTimes(seen) /\ Retention \in Nat
  BY HistoryFacts, FeedAssumption
<1>2. E = {t \in S : t >= q.ts - Retention}
  BY <1>1 DEF EarlierTimes, RecentTimes
<1>3. ASSUME E # {}
      PROVE  \E m \in E : \A t \in S : t <= m
  <2>1. S \in SUBSET DOMAIN seen /\ S # {} /\ S \in SUBSET Nat
    BY <1>1, <1>2, <1>3 DEF EarlierTimes
  <2>2. PICK m \in S : \A t \in S : t <= m
    BY <2>1 DEF QuotesInv, Topped
  <2>3. PICK t \in E : TRUE
    BY <1>3
  <2>4. m \in E
    BY <1>1, <1>2, <2>1, <2>2, <2>3
  <2> QED
    BY <2>2, <2>4
<1> QED
  BY <1>2, <1>3

\* The references are the extremes of what the buffer remembers of the session.
LEMMA RefsAre ==
  ASSUME QuotesInv, seen # <<>>, NEW q, q = latest(seen),
         NEW E, E = EarlierTimes(buffer, q.ts), E # {}
  PROVE  \E m, n \in E :
            /\ session_refs(buffer, q) = [high |-> session_extreme_high(seen[m]),
                                          low |-> session_extreme_low(seen[n])]
            /\ \A t \in E : /\ session_extreme_high(seen[t]) <= session_extreme_high(seen[m])
                            /\ session_extreme_low(seen[n]) <= session_extreme_low(seen[t])
<1> DEFINE High(t) == session_extreme_high(seen[t])
           Low(t) == session_extreme_low(seen[t])
<1>1. E \in SUBSET DOMAIN seen /\ \A t \in E : buffer[t] = seen[t] /\ t \in DOMAIN buffer
  BY HistoryFacts DEF EarlierTimes
<1>2. HighestOf(seen, E) /\ LowestOf(seen, E)
  BY <1>1 DEF QuotesInv, Extremed
<1>3. PICK m \in E : \A t \in E : High(t) <= High(m)
  BY <1>2 DEF HighestOf
<1>4. PICK n \in E : \A t \in E : Low(n) <= Low(t)
  BY <1>2 DEF LowestOf
<1>5. \A t \in E : High(t) \in Int /\ Low(t) \in Int
  BY <1>1, ExtremesTyped DEF QuotesInv, WellFormed
<1>6. Earlier(buffer, q) = {seen[t] : t \in E}
  BY <1>1 DEF Earlier, EarlierTimes
<1>7. {session_extreme_high(s) : s \in Earlier(buffer, q)} = {High(t) : t \in E}
      /\ {session_extreme_low(s) : s \in Earlier(buffer, q)} = {Low(t) : t \in E}
  BY <1>6
<1>8. Earlier(buffer, q) # {}
  BY <1>6
<1> HIDE DEF High, Low
<1>9. Max({High(t) : t \in E}) = High(m)
  <2> DEFINE H == {High(t) : t \in E}
  <2>1. H \in SUBSET Int /\ High(m) \in H /\ \A x \in H : x <= High(m)
    BY <1>3, <1>5
  <2> HIDE DEF H
  <2>2. Max(H) = High(m)
    BY <2>1, MaxIs
  <2> QED
    BY <2>2 DEF H
<1>10. Min({Low(t) : t \in E}) = Low(n)
  <2> DEFINE L == {Low(t) : t \in E}
  <2>1. L \in SUBSET Int /\ Low(n) \in L /\ \A x \in L : Low(n) <= x
    BY <1>4, <1>5
  <2> HIDE DEF L
  <2>2. Min(L) = Low(n)
    BY <2>1, MinIs
  <2> QED
    BY <2>2 DEF L
<1>11. session_refs(buffer, q) = [high |-> High(m), low |-> Low(n)]
  BY <1>7, <1>8, <1>9, <1>10 DEF session_refs
<1> QED
  BY <1>3, <1>4, <1>11 DEF High, Low

\* Whatever the vendor says, a breakout is a new extreme of what the retention keeps of
\* the session, and one of the whole session if the extremes before it only widened
\* (_session_refs, DayHighBreakoutRule, DayLowBreakdownRule, RingBuffer._evict).
THEOREM BreakoutsAreExact == Spec => []BreakoutExact
<1>1. QuotesInv => BreakoutExact
  <2> SUFFICES ASSUME QuotesInv, seen # <<>>
               PROVE  BreakoutExact
    BY DEF BreakoutExact
  <2> DEFINE q == latest(seen)
             earlier == Earlier(seen, q)
             recent == {s \in earlier : s.ts >= q.ts - Retention}
             High(s) == Max({s.price, s.high})
             Low(s) == Min({s.price, s.low})
             Above(S) == S # {} /\ \A s \in S : High(q) > High(s)
             Below(S) == S # {} /\ \A s \in S : Low(q) < Low(s)
             Widen == \A s, u \in earlier :
                        s.ts <= u.ts => High(s) <= High(u) /\ Low(u) <= Low(s)
             S == EarlierTimes(seen, q.ts)
             E == EarlierTimes(buffer, q.ts)
  <2>1. latest(buffer) = q
    BY SameLatest
  <2>2. earlier = {seen[t] : t \in S}
    BY DEF Earlier, EarlierTimes
  <2>3. \A t \in DOMAIN seen : seen[t].ts = t /\ seen[t] \in Quote
    BY DEF QuotesInv, WellFormed
  <2>4. S \in SUBSET DOMAIN seen /\ E = {t \in S : t >= q.ts - Retention}
    BY Remembered DEF EarlierTimes
  <2>5. recent = {seen[t] : t \in E}
    BY <2>2, <2>3, <2>4
  <2>6. \A s : session_extreme_high(s) = High(s) /\ session_extreme_low(s) = Low(s)
    BY DEF session_extreme_high, session_extreme_low
  <2>7. \A t \in DOMAIN seen : High(seen[t]) \in Nat /\ Low(seen[t]) \in Nat
    BY <2>3, <2>6, ExtremesTyped
  <2>8. High(q) \in Nat /\ Low(q) \in Nat
    BY <2>7, HistoryFacts DEF latest
  <2>9. CASE E = {}
    <3>1. session_refs(buffer, q) = None
      BY <2>9 DEF session_refs, Earlier, EarlierTimes
    <3>2. recent = {}
      BY <2>5, <2>9
    <3> QED
      BY <2>1, <3>1, <3>2 DEF BreakoutExact, day_high_breakout, day_low_breakdown
  <2>10. CASE E # {}
    <3>1. PICK m \in E, n \in E :
            /\ session_refs(buffer, q) = [high |-> session_extreme_high(seen[m]),
                                          low |-> session_extreme_low(seen[n])]
            /\ \A t \in E : /\ session_extreme_high(seen[t]) <= session_extreme_high(seen[m])
                            /\ session_extreme_low(seen[n]) <= session_extreme_low(seen[t])
      BY <2>10, RefsAre
    <3>2. PICK l \in E : \A t \in S : t <= l
      BY <2>10, Remembered
    <3> DEFINE refs == session_refs(buffer, q)
    <3>3. /\ refs = [high |-> High(seen[m]), low |-> Low(seen[n])]
          /\ \A t \in E : High(seen[t]) <= High(seen[m]) /\ Low(seen[n]) <= Low(seen[t])
      BY <3>1, <2>6
    <3> HIDE DEF q, E, S, High, Low, refs
    <3>4. refs # None /\ refs.high = High(seen[m]) /\ refs.low = Low(seen[n])
      <4>1. High(seen[m]) \in Int /\ Low(seen[n]) \in Int
        BY <2>4, <2>7
      <4> QED
        BY <3>3, <4>1, NoneAssumption
    <3>5. /\ day_high_breakout(buffer) <=> High(q) > High(seen[m])
          /\ day_low_breakdown(buffer) <=> Low(q) < Low(seen[n])
      BY <2>1, <2>6, <3>4 DEF day_high_breakout, day_low_breakdown, refs
    <3>6. m \in DOMAIN seen /\ n \in DOMAIN seen /\ l \in DOMAIN seen
          /\ \A t \in E : t \in DOMAIN seen
      BY <2>4
    <3>7. Above(recent) <=> High(q) > High(seen[m])
      <4> HIDE DEF recent
      <4>1. Above(recent) <=> \A t \in E : High(q) > High(seen[t])
        BY <2>5, <2>10
      <4>2. (\A t \in E : High(q) > High(seen[t])) <=> High(q) > High(seen[m])
        BY <2>7, <2>8, <3>3, <3>6
      <4> QED
        BY <4>1, <4>2
    <3>8. Below(recent) <=> Low(q) < Low(seen[n])
      <4> HIDE DEF recent
      <4>1. Below(recent) <=> \A t \in E : Low(q) < Low(seen[t])
        BY <2>5, <2>10
      <4>2. (\A t \in E : Low(q) < Low(seen[t])) <=> Low(q) < Low(seen[n])
        BY <2>7, <2>8, <3>3, <3>6
      <4> QED
        BY <4>1, <4>2
    <3>9. ASSUME Widen
          PROVE  \A t \in S : High(seen[t]) <= High(seen[m]) /\ Low(seen[n]) <= Low(seen[t])
      <4> SUFFICES ASSUME NEW t \in S
                   PROVE  High(seen[t]) <= High(seen[m]) /\ Low(seen[n]) <= Low(seen[t])
        OBVIOUS
      <4>1. t \in DOMAIN seen /\ l \in S /\ seen[t].ts <= seen[l].ts
        BY <2>3, <2>4, <3>2
      <4>2. High(seen[t]) <= High(seen[l]) /\ Low(seen[l]) <= Low(seen[t])
        BY <4>1, <2>2, <3>9
      <4>3. High(seen[l]) <= High(seen[m]) /\ Low(seen[n]) <= Low(seen[l])
        BY <3>3
      <4> QED
        BY <4>1, <4>2, <4>3, <2>7, <3>6
    <3>10. ASSUME Widen
           PROVE  /\ Above(earlier) <=> High(q) > High(seen[m])
                  /\ Below(earlier) <=> Low(q) < Low(seen[n])
      BY <3>9, <3>10, <2>2, <2>4, <2>7, <2>8, <3>6
    <3>11. /\ day_high_breakout(buffer) <=> Above(recent)
           /\ day_low_breakdown(buffer) <=> Below(recent)
           /\ Widen => /\ day_high_breakout(buffer) <=> Above(earlier)
                       /\ day_low_breakdown(buffer) <=> Below(earlier)
      BY <3>5, <3>7, <3>8, <3>10
    <3> QED
      BY <3>11 DEF BreakoutExact, q, High, Low
  <2> QED
    BY <2>9, <2>10
<1> QED
  BY <1>1, QuotesInit, QuotesStep, PTL DEF Spec
=============================================================================
