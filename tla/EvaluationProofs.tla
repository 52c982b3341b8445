-------------------------- MODULE EvaluationProofs --------------------------
(* Theorems about the offline evaluation: what build_tuning_feedback_dataset     *)
(* counts is independent of the order of the rows, the market rate of evaluate   *)
(* fails closed, and the report adds up, for every log of rows and feedback.     *)
(* Sums over sets are unrolled with Sums; counts of rows are weights of bags, and *)
(* trading time is the cardinality of a set of half hours.                       *)
EXTENDS Evaluation, FiniteSetTheorems, FunctionTheorems, SequenceTheorems,
        WellFoundedInduction, TLAPS

-----------------------------------------------------------------------------
(* Finite induction and sums *)

\* Every set of naturals that is not empty has a least element.
LEMMA LeastNatural ==
  ASSUME NEW T, T \subseteq Nat, T # {}
  PROVE  \E x \in T : \A y \in T : x <= y
<1> DEFINE R == {p \in Nat \X Nat : p[1] < p[2]}
<1>1. OpToRel(<, Nat) = R
  BY DEF OpToRel
<1>2. IsWellFoundedOn(R, Nat)
  BY <1>1, NatLessThanWellFounded
<1>3. \A x, y \in Nat : <<y, x>> \in R <=> y < x
  OBVIOUS
<1> HIDE DEF R
<1>4. PICK x \in T : \A y \in T : ~(<<y, x>> \in R)
  BY <1>2, WFMin
<1>5. x \in Nat /\ \A y \in T : y \in Nat /\ ~(y < x)
  BY <1>3, <1>4
<1>6. \A y \in T : x <= y
  BY <1>5
<1> QED
  BY <1>6

\* Induction over the parts of a finite set.
LEMMA PartByPart ==
  ASSUME NEW S, NEW G, IsFiniteSet(S), {} \in G,
         \A s \in SUBSET S : s # {} /\ (\A x \in s : s \ {x} \in G) => s \in G
  PROVE  \A s \in SUBSET S : s \in G
<1> DEFINE Bad == {s \in SUBSET S : s \notin G}
           Sizes == {Cardinality(s) : s \in Bad}
<1>1. \A s \in SUBSET S : IsFiniteSet(s) /\ Cardinality(s) \in Nat
  BY FS_Subset, FS_CardinalityType
<1> SUFFICES ASSUME Bad # {}
             PROVE  FALSE
  OBVIOUS
<1>2. Sizes \subseteq Nat /\ Sizes # {}
  BY <1>1
<1>3. PICK n \in Sizes : \A m \in Sizes : n <= m
  <2> HIDE DEF Sizes
  <2> QED
    BY <1>2, LeastNatural
<1>4. PICK s \in Bad : n = Cardinality(s)
  BY <1>3
<1>5. PICK x \in s : s \ {x} \notin G
  BY <1>4
<1> DEFINE r == s \ {x}
<1>6. Cardinality(r) = Cardinality(s) - 1 /\ Cardinality(s) \in Nat
  <2>1. IsFiniteSet(s) /\ Cardinality(s) \in Nat
    BY <1>1, <1>4
  <2> QED
    BY <1>5, <2>1, FS_RemoveElement, Zenon
<1>7. Cardinality(r) \in Sizes
  BY <1>4, <1>5
<1> HIDE DEF Sizes, r
<1> QED
  BY <1>3, <1>4, <1>6, <1>7

\* H is what f sums to over every part of S.
Sums(f, S, H) ==
    /\ IsFiniteSet(S) /\ (\A x \in S : f[x] \in Int) /\ H \in [SUBSET S -> Int] /\ H[{}] = 0
    /\ \A s \in SUBSET S : \A x \in s : H[s] = f[x] + H[s \ {x}]

\* The function by which MapThenSumSet adds up f.
Added_up(f, S) ==
    CHOOSE g : g = [s \in SUBSET S |->
        IF s = {} THEN 0 ELSE f[CHOOSE x \in s : TRUE] + g[s \ {CHOOSE x \in s : TRUE}]]

\* SumOver is that function at the whole domain.
LEMMA SumIter ==
  ASSUME NEW f, NEW S, DOMAIN f = S
  PROVE  SumOver(f) = Added_up(f, S)[S]
  BY Zenon DEF SumOver, MapThenSumSet, MapThenFoldSet, Added_up

\* A sum is what adds up like one.
LEMMA SumIs ==
  ASSUME NEW f, NEW S, NEW H, DOMAIN f = S, Sums(f, S, H)
  PROVE  SumOver(f) = H[S]
<1> DEFINE C(s) == CHOOSE x \in s : TRUE
           Body(g) == [s \in SUBSET S |-> IF s = {} THEN 0 ELSE f[C(s)] + g[s \ {C(s)}]]
           A == Added_up(f, S)
<1>1. /\ IsFiniteSet(S) /\ H \in [SUBSET S -> Int] /\ H[{}] = 0
      /\ \A s \in SUBSET S : \A x \in s : H[s] = f[x] + H[s \ {x}]
  BY DEF Sums
<1>2. \A s \in SUBSET S : s # {} => C(s) \in s /\ s \ {C(s)} \in SUBSET S
  OBVIOUS
<1>3. A = CHOOSE g : g = Body(g)
  BY Zenon DEF Added_up
<1> HIDE DEF C, A
<1>4. H = Body(H)
  <2>1. \A s \in SUBSET S : H[s] = IF s = {} THEN 0 ELSE f[C(s)] + H[s \ {C(s)}]
    BY <1>1, <1>2
  <2>2. H = [s \in SUBSET S |-> H[s]]
    BY <1>1
  <2> QED
    BY <2>1, <2>2
<1>5. A = Body(A)
  <2> HIDE DEF Body
  <2> QED
    BY <1>3, <1>4
<1>6. \A s \in SUBSET S : A[s] = IF s = {} THEN 0 ELSE f[C(s)] + A[s \ {C(s)}]
  BY <1>5
<1> HIDE DEF Body
<1> DEFINE G == {s \in SUBSET S : A[s] = H[s]}
<1>7. {} \in G
  BY <1>1, <1>6
<1>8. ASSUME NEW s \in SUBSET S, s # {}, \A x \in s : s \ {x} \in G
      PROVE  s \in G
  BY <1>1, <1>2, <1>6, <1>8
<1>9. S \in SUBSET S /\ A[S] = H[S]
  <2> HIDE DEF G
  <2>1. \A s \in SUBSET S : s \in G
    BY <1>1, <1>7, <1>8, PartByPart
  <2> QED
    BY <2>1 DEF G
<1> QED
  BY <1>9, SumIter DEF A

\* Every function on a finite set can be summed.
LEMMA SumExists ==
  ASSUME NEW f, NEW S, IsFiniteSet(S), \A x \in S : f[x] \in Int
  PROVE  \E H : Sums(f, S, H)
<1> DEFINE G == {s \in SUBSET S : \E H : Sums(f, s, H)}
<1>1. \A s \in SUBSET S : IsFiniteSet(s)
  BY FS_Subset
<1>2. {} \in G
  <2> DEFINE H == [s \in SUBSET {} |-> 0]
  <2>1. Sums(f, {}, H)
    BY FS_EmptySet DEF Sums
  <2> QED
    BY <2>1
<1>3. ASSUME NEW s \in SUBSET S, s # {}, \A x \in s : s \ {x} \in G
      PROVE  s \in G
  <2>1. PICK y \in s : TRUE
    BY <1>3
  <2> DEFINE r == s \ {y}
  <2>2. PICK H : Sums(f, r, H)
    BY <1>3
  <2>3. /\ H \in [SUBSET r -> Int] /\ H[{}] = 0
        /\ \A t \in SUBSET r : \A x \in t : H[t] = f[x] + H[t \ {x}]
    BY <2>2 DEF Sums
  <2> DEFINE K == [t \in SUBSET s |-> IF y \in t THEN f[y] + H[t \ {y}] ELSE H[t]]
  <2>4. f[y] \in Int
    OBVIOUS
  <2>5. \A t \in SUBSET s : t \ {y} \in SUBSET r /\ (y \notin t => t \in SUBSET r)
    OBVIOUS
  <2>6. \A t \in SUBSET r : H[t] \in Int
    BY <2>3
  <2> HIDE DEF r
  <2>7. K \in [SUBSET s -> Int] /\ K[{}] = 0
    BY <2>3, <2>4, <2>5, <2>6
  <2>8. ASSUME NEW t \in SUBSET s, NEW x \in t
        PROVE  K[t] = f[x] + K[t \ {x}]
    <3>1. CASE x = y
      BY <2>5, <3>1
    <3>2. CASE x # y /\ y \notin t
      <4>1. t \in SUBSET r /\ t \ {x} \in SUBSET s /\ y \notin t \ {x}
        BY <2>5, <3>2
      <4> QED
        BY <2>3, <3>2, <4>1
    <3>3. CASE x # y /\ y \in t
      <4> DEFINE u == t \ {y}
      <4>1. u \in SUBSET r /\ x \in u /\ y \in t \ {x} /\ t \ {x} \in SUBSET s
        BY <2>5, <3>3
      <4>2. (t \ {x}) \ {y} = u \ {x} /\ u \ {x} \in SUBSET r
        BY <4>1
      <4>3. K[t] = f[y] + H[u] /\ K[t \ {x}] = f[y] + H[u \ {x}]
        BY <3>3, <4>1, <4>2
      <4>4. H[u] = f[x] + H[u \ {x}]
        BY <2>3, <4>1
      <4>5. f[x] \in Int /\ H[u \ {x}] \in Int
        BY <2>6, <4>2
      <4> HIDE DEF u, K
      <4> QED
        BY <2>4, <4>3, <4>4, <4>5
    <3> QED
      BY <3>1, <3>2, <3>3
  <2> HIDE DEF K
  <2>9. Sums(f, s, K)
    BY <1>1, <2>7, <2>8 DEF Sums
  <2> QED
    BY <2>9
<1> HIDE DEF G
<1>4. S \in G
  BY <1>2, <1>3, PartByPart
<1> QED
  BY <1>4 DEF G

\* A sum of integers is one.
LEMMA SumInt ==
  ASSUME NEW f, NEW S, IsFiniteSet(S), DOMAIN f = S, \A x \in S : f[x] \in Int
  PROVE  SumOver(f) \in Int
<1>1. PICK H : Sums(f, S, H)
  BY SumExists
<1>2. H[S] \in Int
  BY <1>1 DEF Sums
<1> QED
  BY <1>1, <1>2, SumIs

\* The sum of two functions.
LEMMA SumPlus ==
  ASSUME NEW f, NEW g, NEW h, NEW S, IsFiniteSet(S), DOMAIN f = S, DOMAIN g = S, DOMAIN h = S,
         \A x \in S : f[x] \in Int /\ g[x] \in Int /\ h[x] = f[x] + g[x]
  PROVE  SumOver(h) = SumOver(f) + SumOver(g)
<1>1. PICK F : Sums(f, S, F)
  BY SumExists
<1>2. PICK G : Sums(g, S, G)
  BY SumExists
<1> DEFINE H == [s \in SUBSET S |-> F[s] + G[s]]
<1>3. \A s \in SUBSET S : F[s] \in Int /\ G[s] \in Int
  BY <1>1, <1>2 DEF Sums
<1>4. ASSUME NEW s \in SUBSET S, NEW x \in s
      PROVE  H[s] = h[x] + H[s \ {x}]
  <2>1. F[s] = f[x] + F[s \ {x}] /\ G[s] = g[x] + G[s \ {x}]
    BY <1>1, <1>2 DEF Sums
  <2>2. s \ {x} \in SUBSET S /\ x \in S
    OBVIOUS
  <2> QED
    BY <1>3, <2>1, <2>2
<1>5. H \in [SUBSET S -> Int]
  BY <1>3
<1>6. H[{}] = 0
  BY <1>1, <1>2 DEF Sums
<1>7. \A x \in S : h[x] \in Int
  OBVIOUS
<1>8. H[S] = F[S] + G[S]
  OBVIOUS
<1> HIDE DEF H
<1>9. Sums(h, S, H)
  BY <1>4, <1>5, <1>6, <1>7 DEF Sums
<1>10. SumOver(h) = H[S] /\ SumOver(f) = F[S] /\ SumOver(g) = G[S]
  BY <1>1, <1>2, <1>9, SumIs
<1> QED
  BY <1>8, <1>10

\* A sum of naturals is at least each of them.
LEMMA SumNat ==
  ASSUME NEW f, NEW S, IsFiniteSet(S), DOMAIN f = S, \A x \in S : f[x] \in Nat
  PROVE  SumOver(f) \in Nat /\ \A x \in S : f[x] <= SumOver(f)
<1>1. PICK H : Sums(f, S, H)
  BY SumExists
<1> DEFINE G == {s \in SUBSET S : H[s] \in Nat}
<1>2. {} \in G
  BY <1>1 DEF Sums
<1>3. ASSUME NEW s \in SUBSET S, s # {}, \A x \in s : s \ {x} \in G
      PROVE  s \in G
  <2>1. PICK x \in s : TRUE
    BY <1>3
  <2>2. H[s] = f[x] + H[s \ {x}] /\ H[s \ {x}] \in Nat /\ f[x] \in Nat
    BY <1>1, <1>3, <2>1 DEF Sums
  <2> QED
    BY <2>2
<1>4. \A s \in SUBSET S : H[s] \in Nat
  <2> HIDE DEF G
  <2>1. \A s \in SUBSET S : s \in G
    BY <1>2, <1>3, PartByPart
  <2> QED
    BY <2>1 DEF G
<1>5. SumOver(f) = H[S]
  BY <1>1, SumIs
<1>6. ASSUME NEW x \in S
      PROVE  f[x] <= H[S]
  <2>1. H[S] = f[x] + H[S \ {x}] /\ H[S \ {x}] \in Nat
    BY <1>1, <1>4 DEF Sums
  <2> QED
    BY <2>1
<1> QED
  BY <1>4, <1>5, <1>6

\* Larger terms give a larger sum.
LEMMA SumLess ==
  ASSUME NEW f, NEW g, NEW S, IsFiniteSet(S), DOMAIN f = S, DOMAIN g = S,
         \A x \in S : f[x] \in Int /\ g[x] \in Int /\ f[x] <= g[x]
  PROVE  SumOver(f) <= SumOver(g)
<1> DEFINE d == [x \in S |-> g[x] - f[x]]
<1>1. \A x \in S : d[x] \in Nat /\ d[x] \in Int /\ g[x] = f[x] + d[x]
  OBVIOUS
<1>2. DOMAIN d = S
  OBVIOUS
<1> HIDE DEF d
<1>3. SumOver(g) = SumOver(f) + SumOver(d)
  BY <1>1, <1>2, SumPlus
<1>4. SumOver(d) \in Nat /\ SumOver(f) \in Int
  BY <1>1, <1>2, SumNat, SumInt
<1> QED
  BY <1>3, <1>4

\* Sets that have no element in common.
Disjoint(B, S) == \A x, y \in S : x # y => B[x] \cap B[y] = {}

\* All of them.
Joint(B, s) == UNION {B[x] : x \in s}

\* The sizes of disjoint sets add up to that of their union.
LEMMA SumSizes ==
  ASSUME NEW B, NEW S, NEW U, IsFiniteSet(S), IsFiniteSet(U), \A x \in S : B[x] \subseteq U,
         Disjoint(B, S), NEW f, DOMAIN f = S, \A x \in S : f[x] = Cardinality(B[x])
  PROVE  SumOver(f) = Cardinality(Joint(B, S))
<1> DEFINE H == [s \in SUBSET S |-> Cardinality(Joint(B, s))]
<1>1. ASSUME NEW s \in SUBSET S
      PROVE  IsFiniteSet(Joint(B, s)) /\ Cardinality(Joint(B, s)) \in Nat
  <2>1. Joint(B, s) \in SUBSET U
    BY DEF Joint
  <2> QED
    BY <2>1, FS_Subset, FS_CardinalityType
<1>2. ASSUME NEW x \in S
      PROVE  IsFiniteSet(B[x]) /\ Cardinality(B[x]) \in Nat
  <2>1. B[x] \in SUBSET U
    OBVIOUS
  <2> QED
    BY <2>1, FS_Subset, FS_CardinalityType
<1>3. ASSUME NEW s \in SUBSET S, NEW x \in s
      PROVE  H[s] = f[x] + H[s \ {x}]
  <2> DEFINE r == s \ {x}
             a == B[x]
             b == Joint(B, r)
  <2>1. Joint(B, s) = a \cup b
    BY Zenon DEF Joint
  <2>2. a \cap b = {}
    <3> SUFFICES ASSUME NEW e \in a, e \in b
                 PROVE  FALSE
      OBVIOUS
    <3>1. PICK y \in r : e \in B[y]
      BY DEF Joint
    <3>2. y \in S /\ x \in S /\ y # x
      OBVIOUS
    <3> QED
      BY <3>1, <3>2 DEF Disjoint
  <2>3. IsFiniteSet(a) /\ IsFiniteSet(b) /\ Cardinality(a) \in Nat /\ Cardinality(b) \in Nat
    BY <1>1, <1>2
  <2>4. f[x] = Cardinality(a) /\ H[s] = Cardinality(Joint(B, s)) /\ H[s \ {x}] = Cardinality(b)
    OBVIOUS
  <2> HIDE DEF a, b, H
  <2>5. Cardinality(a \cup b) = Cardinality(a) + Cardinality(b) - Cardinality({})
    <3>1. Cardinality(a \cup b) = Cardinality(a) + Cardinality(b) - Cardinality(a \cap b)
      BY <2>3, FS_Union
    <3> QED
      BY <2>2, <3>1, Zenon
  <2>6. Cardinality({}) = 0
    BY FS_EmptySet
  <2> QED
    BY <2>1, <2>3, <2>4, <2>5, <2>6
<1>4. H \in [SUBSET S -> Int]
  BY <1>1
<1>5. H[{}] = 0
  <2>1. Joint(B, {}) = {}
    BY DEF Joint
  <2> QED
    BY <2>1, FS_EmptySet
<1>6. \A x \in S : f[x] \in Int
  BY <1>2
<1>7. H[S] = Cardinality(Joint(B, S))
  OBVIOUS
<1> HIDE DEF H
<1>8. Sums(f, S, H)
  BY <1>3, <1>4, <1>5, <1>6 DEF Sums
<1> QED
  BY <1>7, <1>8, SumIs

\* One for each.
LEMMA SumOnes ==
  ASSUME NEW S, IsFiniteSet(S)
  PROVE  SumOver([x \in S |-> 1]) = Cardinality(S)
<1> DEFINE B == [x \in S |-> {x}]
           f == [x \in S |-> 1]
<1>1. \A x \in S : B[x] \subseteq S /\ f[x] = Cardinality(B[x])
  BY FS_Singleton
<1>2. Disjoint(B, S)
  BY DEF Disjoint
<1>3. Joint(B, S) = S
  BY Zenon DEF Joint
<1>4. DOMAIN f = S
  OBVIOUS
<1> HIDE DEF B, f
<1>5. SumOver(f) = Cardinality(Joint(B, S))
  BY <1>1, <1>2, <1>4, SumSizes
<1> QED
  BY <1>3, <1>5 DEF f

-----------------------------------------------------------------------------
(* Feedback: every valid row counted once *)

\* The rows of the feedback file.
Opinions == [id : Nat, run : Runs \cup {None}, signal : Signals \cup {None},
             label : Labels, created : Nat]

\* Feedback whose ids are all different.
Distinct(fb) ==
    /\ fb \in Seq(Opinions)
    /\ \A i, j \in DOMAIN fb : fb[i].id = fb[j].id => i = j

\* What tuning makes of it: the rows with a known signal, their targets, the rows on a
\* target, and the row that counts for each.
JoinedIn(fb, rs) == {i \in ValidIn(fb) : KeyOf(fb[i]) \in joinable_keys(rs)}
TargetsIn(fb, rs) == {KeyOf(fb[i]) : i \in JoinedIn(fb, rs)}
OnTarget(fb, rs, k) == {i \in JoinedIn(fb, rs) : KeyOf(fb[i]) = k}
WinnersIn(fb, rs) == {winner(fb, OnTarget(fb, rs, k)) : k \in TargetsIn(fb, rs)}
Labelled(fb, rs, l) == {i \in WinnersIn(fb, rs) : fb[i].label = l}

\* The dataset, in these words.
LEMMA DatasetIs ==
  ASSUME NEW fb, NEW rs
  PROVE  build_tuning_feedback_dataset(fb, rs) =
            [raw |-> Len(fb), valid |-> Cardinality(ValidIn(fb)),
             eligible |-> Cardinality(TargetsIn(fb, rs)),
             orphan |-> Cardinality(ValidIn(fb) \ JoinedIn(fb, rs)),
             superseded |-> SumOver([k \in TargetsIn(fb, rs) |->
                                        Cardinality(OnTarget(fb, rs, k)) - 1]),
             labels |-> [l \in Labels |-> Cardinality(Labelled(fb, rs, l))]]
<1> DEFINE by_target == [k \in TargetsIn(fb, rs) |-> OnTarget(fb, rs, k)]
           winners == {winner(fb, by_target[k]) : k \in DOMAIN by_target}
<1>1. DOMAIN by_target = TargetsIn(fb, rs)
  OBVIOUS
<1>2. \A k \in TargetsIn(fb, rs) : by_target[k] = OnTarget(fb, rs, k)
  OBVIOUS
<1>3. build_tuning_feedback_dataset(fb, rs) =
            [raw |-> Len(fb), valid |-> Cardinality(ValidIn(fb)),
             eligible |-> Cardinality(DOMAIN by_target),
             orphan |-> Cardinality(ValidIn(fb) \ JoinedIn(fb, rs)),
             superseded |-> SumOver([k \in DOMAIN by_target |-> Cardinality(by_target[k]) - 1]),
             labels |-> [l \in Labels |-> Cardinality({i \in winners : fb[i].label = l})]]
  BY Zenon DEF build_tuning_feedback_dataset, JoinedIn, TargetsIn, OnTarget
<1> HIDE DEF by_target
<1>4. winners = WinnersIn(fb, rs)
  BY <1>1, <1>2, Zenon DEF WinnersIn
<1>5. [k \in DOMAIN by_target |-> Cardinality(by_target[k]) - 1]
        = [k \in TargetsIn(fb, rs) |-> Cardinality(OnTarget(fb, rs, k)) - 1]
  BY <1>1, <1>2, Zenon
<1> HIDE DEF winners
<1>6. [l \in Labels |-> Cardinality({i \in winners : fb[i].label = l})]
        = [l \in Labels |-> Cardinality(Labelled(fb, rs, l))]
  BY <1>4, Zenon DEF Labelled
<1> QED
  BY <1>1, <1>3, <1>5, <1>6, Zenon

\* Row i of a target counts before row j.
Beats(fb, i, j) ==
    \/ fb[j].created < fb[i].created
    \/ fb[j].created = fb[i].created /\ fb[j].id <= fb[i].id

\* Of the rows on a target exactly one counts before all others.
LEMMA WinnerIs ==
  ASSUME NEW fb, Distinct(fb), NEW is, is \subseteq DOMAIN fb, is # {}
  PROVE  /\ winner(fb, is) \in is /\ \A j \in is : Beats(fb, winner(fb, is), j)
         /\ \A i \in is : (\A j \in is : Beats(fb, i, j)) => i = winner(fb, is)
<1>1. /\ \A i \in DOMAIN fb : fb[i].id \in Nat /\ fb[i].created \in Nat
      /\ DOMAIN fb = 1..Len(fb) /\ Len(fb) \in Nat
  <2>1. fb \in Seq(Opinions)
    BY DEF Distinct
  <2>2. DOMAIN fb = 1..Len(fb) /\ Len(fb) \in Nat /\ \A i \in DOMAIN fb : fb[i] \in Opinions
    BY <2>1
  <2> QED
    BY <2>2 DEF Opinions
<1>2. IsFiniteSet(is)
  <2>1. IsFiniteSet(1..Len(fb))
    BY <1>1, FS_Interval
  <2> QED
    BY <1>1, <2>1, FS_Subset
<1> DEFINE G == {s \in SUBSET is : s = {} \/ \E i \in s : \A j \in s : Beats(fb, i, j)}
<1>3. {} \in G
  OBVIOUS
<1>4. ASSUME NEW s \in SUBSET is, s # {}, \A x \in s : s \ {x} \in G
      PROVE  s \in G
  <2>1. PICK x \in s : TRUE
    BY <1>4
  <2>2. Beats(fb, x, x)
    BY <1>1 DEF Beats
  <2>3. CASE s \ {x} = {}
    BY <2>2, <2>3
  <2>4. CASE s \ {x} # {}
    <3>1. PICK i \in s \ {x} : \A j \in s \ {x} : Beats(fb, i, j)
      BY <1>4, <2>4
    <3>2. CASE Beats(fb, i, x)
      BY <3>1, <3>2
    <3>3. CASE ~Beats(fb, i, x)
      <4>1. \A j \in s \ {x} : Beats(fb, x, j)
        BY <1>1, <3>1, <3>3 DEF Beats
      <4> QED
        BY <2>2, <4>1
    <3> QED
      BY <3>2, <3>3
  <2> QED
    BY <2>3, <2>4
<1>5. is \in G
  <2> HIDE DEF G
  <2>1. \A s \in SUBSET is : s # {} /\ (\A x \in s : s \ {x} \in G) => s \in G
    BY <1>4
  <2>2. \A s \in SUBSET is : s \in G
    BY <1>2, <1>3, <2>1, PartByPart, Zenon
  <2> QED
    BY <2>2, Zenon
<1>6. PICK w \in is : \A j \in is : Beats(fb, w, j)
  BY <1>5
<1>7. \A i \in is : (\A j \in is : Beats(fb, i, j)) => i = w
  <2> SUFFICES ASSUME NEW i \in is, \A j \in is : Beats(fb, i, j)
               PROVE  i = w
    OBVIOUS
  <2>1. Beats(fb, i, w) /\ Beats(fb, w, i)
    BY <1>6
  <2>2. fb[i].id = fb[w].id
    BY <1>1, <2>1 DEF Beats
  <2> QED
    BY <2>2 DEF Distinct
<1>8. winner(fb, is) = CHOOSE i \in is : \A j \in is : Beats(fb, i, j)
  BY Zenon DEF winner, Beats
<1>9. winner(fb, is) \in is /\ \A j \in is : Beats(fb, winner(fb, is), j)
  BY <1>6, <1>8, Zenon
<1> QED
  BY <1>7, <1>9

\* g is the feedback fb in another order.
Reordered(g, fb, p) ==
    /\ Distinct(fb) /\ p \in Bijection(DOMAIN fb, DOMAIN fb)
    /\ g = [i \in DOMAIN fb |-> fb[p[i]]]

\* Where the rows T of fb are after the reordering p.
Before(fb, p, T) == {i \in DOMAIN fb : p[i] \in T}

\* The reordered feedback has the same rows.
LEMMA ReorderedRows ==
  ASSUME NEW fb, NEW g, NEW p, Reordered(g, fb, p)
  PROVE  /\ Distinct(g) /\ DOMAIN g = DOMAIN fb /\ Len(g) = Len(fb)
         /\ \A i \in DOMAIN fb : p[i] \in DOMAIN fb /\ g[i] = fb[p[i]]
         /\ \A i, j \in DOMAIN fb : p[i] = p[j] => i = j
         /\ \A j \in DOMAIN fb : \E i \in DOMAIN fb : p[i] = j
         /\ IsFiniteSet(DOMAIN fb)
<1> DEFINE D == DOMAIN fb
<1>1. Distinct(fb) /\ p \in Bijection(D, D) /\ g = [i \in D |-> fb[p[i]]]
  BY DEF Reordered
<1>2. /\ p \in [D -> D] /\ \A i, j \in D : p[i] = p[j] => i = j
      /\ \A j \in D : \E i \in D : p[i] = j
  BY <1>1 DEF Bijection, Injection, Surjection, IsInjective
<1>3. fb \in Seq(Opinions) /\ \A i, j \in D : fb[i].id = fb[j].id => i = j
  BY <1>1 DEF Distinct
<1>4. D = 1..Len(fb) /\ Len(fb) \in Nat /\ \A i \in D : fb[i] \in Opinions
  BY <1>3
<1> HIDE DEF D
<1>5. \A i \in D : p[i] \in D /\ g[i] = fb[p[i]]
  BY <1>1, <1>2
<1>6. g \in [1..Len(fb) -> Opinions]
  BY <1>1, <1>4, <1>5
<1>7. g \in Seq(Opinions) /\ Len(g) = Len(fb) /\ DOMAIN g = D
  BY <1>4, <1>6
<1>8. \A i, j \in D : g[i].id = g[j].id => i = j
  BY <1>2, <1>3, <1>5
<1>9. Distinct(g)
  BY <1>7, <1>8 DEF Distinct
<1>10. IsFiniteSet(D)
  BY <1>4, FS_Interval
<1> QED
  BY <1>2, <1>5, <1>7, <1>9, <1>10 DEF D

\* They are as many as before.
LEMMA BeforeCount ==
  ASSUME NEW fb, NEW g, NEW p, Reordered(g, fb, p), NEW T, T \subseteq DOMAIN fb
  PROVE  Cardinality(Before(fb, p, T)) = Cardinality(T)
<1> DEFINE D == DOMAIN fb
           S == Before(fb, p, T)
           f == [i \in S |-> p[i]]
<1>1. /\ \A i \in D : p[i] \in D
      /\ \A i, j \in D : p[i] = p[j] => i = j
      /\ \A j \in D : \E i \in D : p[i] = j
      /\ IsFiniteSet(D)
  BY ReorderedRows
<1>2. f \in [S -> T] /\ S \subseteq D
  BY DEF Before
<1>3. \A i, j \in S : f[i] = f[j] => i = j
  BY <1>1, <1>2
<1>4. \A j \in T : \E i \in S : f[i] = j
  <2> SUFFICES ASSUME NEW j \in T
               PROVE  \E i \in S : f[i] = j
    OBVIOUS
  <2>1. PICK i \in D : p[i] = j
    BY <1>1
  <2>2. i \in S
    BY <2>1 DEF Before
  <2> QED
    BY <2>1, <2>2
<1>5. IsFiniteSet(S)
  BY <1>1, <1>2, FS_Subset
<1> HIDE DEF f, S
<1>6. f \in Bijection(S, T)
  BY <1>2, <1>3, <1>4, Fun_IsBij
<1>7. ExistsBijection(S, T)
  BY <1>6 DEF ExistsBijection
<1>8. Cardinality(T) = Cardinality(S)
  BY <1>5, <1>7, FS_Bijection
<1> QED
  BY <1>8 DEF S

\* Reordering moves the valid rows, the joined ones and those on each target.
LEMMA ReorderedJoined ==
  ASSUME NEW fb, NEW g, NEW p, NEW rs, Reordered(g, fb, p)
  PROVE  /\ ValidIn(g) = Before(fb, p, ValidIn(fb)) /\ ValidIn(fb) \subseteq DOMAIN fb
         /\ JoinedIn(g, rs) = Before(fb, p, JoinedIn(fb, rs)) /\ JoinedIn(fb, rs) \subseteq DOMAIN fb
         /\ TargetsIn(g, rs) = TargetsIn(fb, rs)
         /\ \A k : /\ OnTarget(g, rs, k) = Before(fb, p, OnTarget(fb, rs, k))
                   /\ OnTarget(fb, rs, k) \subseteq DOMAIN fb
<1> DEFINE D == DOMAIN fb
<1>1. /\ DOMAIN g = D /\ \A i \in D : p[i] \in D /\ g[i] = fb[p[i]]
      /\ \A j \in D : \E i \in D : p[i] = j
  BY ReorderedRows
<1>2. ValidIn(g) = Before(fb, p, ValidIn(fb)) /\ ValidIn(fb) \subseteq D
  BY <1>1 DEF ValidIn, Before
<1>3. JoinedIn(g, rs) = Before(fb, p, JoinedIn(fb, rs)) /\ JoinedIn(fb, rs) \subseteq D
  BY <1>1, <1>2 DEF JoinedIn, Before
<1>4. TargetsIn(g, rs) = TargetsIn(fb, rs)
  <2>1. ASSUME NEW i \in JoinedIn(g, rs)
        PROVE  \E j \in JoinedIn(fb, rs) : KeyOf(g[i]) = KeyOf(fb[j])
    <3>1. i \in D /\ p[i] \in JoinedIn(fb, rs) /\ g[i] = fb[p[i]]
      BY <1>1, <1>3 DEF Before
    <3> QED
      BY <3>1
  <2>2. ASSUME NEW j \in JoinedIn(fb, rs)
        PROVE  \E i \in JoinedIn(g, rs) : KeyOf(g[i]) = KeyOf(fb[j])
    <3>1. PICK i \in D : p[i] = j
      BY <1>1, <1>3
    <3>2. i \in JoinedIn(g, rs) /\ g[i] = fb[j]
      BY <1>1, <1>3, <3>1 DEF Before
    <3> QED
      BY <3>2
  <2>3. TargetsIn(g, rs) \subseteq TargetsIn(fb, rs)
    BY <2>1 DEF TargetsIn
  <2>4. TargetsIn(fb, rs) \subseteq TargetsIn(g, rs)
    BY <2>2 DEF TargetsIn
  <2> QED
    BY <2>3, <2>4
<1>5. ASSUME NEW k
      PROVE  /\ OnTarget(g, rs, k) = Before(fb, p, OnTarget(fb, rs, k))
             /\ OnTarget(fb, rs, k) \subseteq D
  <2>1. \A i \in JoinedIn(g, rs) : i \in D /\ p[i] \in JoinedIn(fb, rs) /\ g[i] = fb[p[i]]
    BY <1>1, <1>3 DEF Before
  <2>2. \A i \in D : p[i] \in JoinedIn(fb, rs) => i \in JoinedIn(g, rs)
    BY <1>3 DEF Before
  <2> QED
    BY <1>3, <2>1, <2>2 DEF OnTarget, Before
<1> QED
  BY <1>2, <1>3, <1>4, <1>5, Zenon

\* The rows on a target.
LEMMA TargetRows ==
  ASSUME NEW fb, NEW rs, NEW k \in TargetsIn(fb, rs)
  PROVE  OnTarget(fb, rs, k) # {} /\ OnTarget(fb, rs, k) \subseteq DOMAIN fb
  BY DEF TargetsIn, OnTarget, JoinedIn, ValidIn

\* The same row counts wherever it is.
LEMMA ReorderedWinner ==
  ASSUME NEW fb, NEW g, NEW p, Reordered(g, fb, p), NEW is, is \subseteq DOMAIN fb, is # {}
  PROVE  winner(g, Before(fb, p, is)) \in DOMAIN fb /\ p[winner(g, Before(fb, p, is))] = winner(fb, is)
<1> DEFINE D == DOMAIN fb
           S == Before(fb, p, is)
           w == winner(g, S)
<1>1. /\ Distinct(g) /\ DOMAIN g = D /\ \A i \in D : p[i] \in D /\ g[i] = fb[p[i]]
      /\ \A j \in D : \E i \in D : p[i] = j
  BY ReorderedRows
<1>2. S \subseteq D /\ S # {} /\ \A i \in S : p[i] \in is
  BY <1>1 DEF Before
<1>3. \A j \in is : \E i \in S : p[i] = j
  BY <1>1 DEF Before
<1> HIDE DEF S
<1>4. w \in S /\ \A j \in S : Beats(g, w, j)
  BY <1>1, <1>2, WinnerIs
<1> HIDE DEF w
<1>5. ASSUME NEW j \in is
      PROVE  Beats(fb, p[w], j)
  <2>1. PICK i \in S : p[i] = j
    BY <1>3
  <2>2. Beats(g, w, i) /\ g[w] = fb[p[w]] /\ g[i] = fb[j]
    BY <1>1, <1>2, <1>4, <2>1
  <2> QED
    BY <2>2 DEF Beats
<1>6. p[w] \in is /\ w \in D
  BY <1>2, <1>4
<1>7. Distinct(fb)
  BY DEF Reordered
<1>8. p[w] = winner(fb, is)
  BY <1>5, <1>6, <1>7, WinnerIs
<1> QED
  BY <1>6, <1>8 DEF w, S

\* So the rows that count, and those of each label among them, only move.
LEMMA ReorderedWinners ==
  ASSUME NEW fb, NEW g, NEW p, NEW rs, Reordered(g, fb, p)
  PROVE  /\ WinnersIn(g, rs) = Before(fb, p, WinnersIn(fb, rs))
         /\ \A l : /\ Labelled(g, rs, l) = Before(fb, p, Labelled(fb, rs, l))
                   /\ Labelled(fb, rs, l) \subseteq DOMAIN fb
<1> DEFINE D == DOMAIN fb
           K == TargetsIn(fb, rs)
           W(k) == winner(fb, OnTarget(fb, rs, k))
           V(k) == winner(g, OnTarget(g, rs, k))
<1>1. /\ Distinct(g) /\ DOMAIN g = D /\ \A i \in D : p[i] \in D /\ g[i] = fb[p[i]]
      /\ \A i, j \in D : p[i] = p[j] => i = j
      /\ \A j \in D : \E i \in D : p[i] = j
  BY ReorderedRows
<1>2. ASSUME NEW k \in K
      PROVE  V(k) \in D /\ p[V(k)] = W(k) /\ W(k) \in D
  <2> DEFINE is == OnTarget(fb, rs, k)
             S == OnTarget(g, rs, k)
  <2>1. is # {} /\ is \subseteq DOMAIN fb
    BY TargetRows
  <2>2. S = Before(fb, p, is)
    <3> HIDE DEF D, K, W, V
    <3> QED
      BY ReorderedJoined
  <2> HIDE DEF is, S
  <2>3. winner(g, S) \in DOMAIN fb /\ p[winner(g, S)] = winner(fb, is)
    BY <2>1, <2>2, ReorderedWinner
  <2>4. p[winner(g, S)] \in DOMAIN fb
    BY <1>1, <2>3
  <2> QED
    BY <2>3, <2>4, Zenon DEF is, S
<1>3. TargetsIn(g, rs) = K
  BY ReorderedJoined
<1> HIDE DEF W, V, K
<1>4. WinnersIn(g, rs) = {V(k) : k \in K} /\ WinnersIn(fb, rs) = {W(k) : k \in K}
  BY <1>3, Zenon DEF WinnersIn, W, V, K
<1>5. {V(k) : k \in K} \subseteq {i \in D : p[i] \in {W(k) : k \in K}}
  BY <1>2
<1>6. {i \in D : p[i] \in {W(k) : k \in K}} \subseteq {V(k) : k \in K}
  <2> SUFFICES ASSUME NEW i \in D, NEW k \in K, p[i] = W(k)
               PROVE  i \in {V(m) : m \in K}
    OBVIOUS
  <2>1. i = V(k)
    BY <1>1, <1>2
  <2> QED
    BY <2>1
<1>7. WinnersIn(g, rs) = Before(fb, p, WinnersIn(fb, rs))
  BY <1>4, <1>5, <1>6 DEF Before
<1>8. WinnersIn(fb, rs) \subseteq D
  BY <1>2, <1>4
<1>9. ASSUME NEW l
      PROVE  /\ Labelled(g, rs, l) = Before(fb, p, Labelled(fb, rs, l))
             /\ Labelled(fb, rs, l) \subseteq D
  <2>1. \A i \in WinnersIn(g, rs) : i \in D /\ p[i] \in WinnersIn(fb, rs) /\ g[i] = fb[p[i]]
    BY <1>1, <1>7 DEF Before
  <2>2. \A i \in D : p[i] \in WinnersIn(fb, rs) => i \in WinnersIn(g, rs)
    BY <1>7 DEF Before
  <2> QED
    BY <1>8, <2>1, <2>2 DEF Labelled, Before
<1> QED
  BY <1>7, <1>9, Zenon

\* The dataset of reordered feedback.
LEMMA ReorderedDataset ==
  ASSUME NEW fb, NEW g, NEW p, NEW rs, Reordered(g, fb, p)
  PROVE  build_tuning_feedback_dataset(g, rs) = build_tuning_feedback_dataset(fb, rs)
<1>1. Len(g) = Len(fb)
  BY ReorderedRows
<1>2. Cardinality(ValidIn(g)) = Cardinality(ValidIn(fb)) /\ TargetsIn(g, rs) = TargetsIn(fb, rs)
  <2> DEFINE T == ValidIn(fb)
  <2>1. ValidIn(g) = Before(fb, p, T) /\ T \subseteq DOMAIN fb /\ TargetsIn(g, rs) = TargetsIn(fb, rs)
    BY ReorderedJoined, Zenon
  <2> HIDE DEF T
  <2>2. Cardinality(Before(fb, p, T)) = Cardinality(T)
    BY <2>1, BeforeCount
  <2> QED
    BY <2>1, <2>2, Zenon DEF T
<1>3. Cardinality(ValidIn(g) \ JoinedIn(g, rs)) = Cardinality(ValidIn(fb) \ JoinedIn(fb, rs))
  <2> DEFINE T == ValidIn(fb) \ JoinedIn(fb, rs)
  <2>1. ValidIn(g) \ JoinedIn(g, rs) = Before(fb, p, T) /\ T \subseteq DOMAIN fb
    <3>1. Before(fb, p, ValidIn(fb)) \ Before(fb, p, JoinedIn(fb, rs)) = Before(fb, p, T)
      BY DEF Before
    <3> QED
      BY <3>1, ReorderedJoined
  <2> HIDE DEF T
  <2>2. Cardinality(Before(fb, p, T)) = Cardinality(T)
    BY <2>1, BeforeCount
  <2> QED
    BY <2>1, <2>2, Zenon DEF T
<1>4. \A k : Cardinality(OnTarget(g, rs, k)) = Cardinality(OnTarget(fb, rs, k))
  <2> SUFFICES ASSUME NEW k
               PROVE  Cardinality(OnTarget(g, rs, k)) = Cardinality(OnTarget(fb, rs, k))
    OBVIOUS
  <2> DEFINE T == OnTarget(fb, rs, k)
  <2>1. OnTarget(g, rs, k) = Before(fb, p, T) /\ T \subseteq DOMAIN fb
    BY ReorderedJoined
  <2> HIDE DEF T
  <2>2. Cardinality(Before(fb, p, T)) = Cardinality(T)
    BY <2>1, BeforeCount
  <2> QED
    BY <2>1, <2>2, Zenon DEF T
<1>5. \A l : Cardinality(Labelled(g, rs, l)) = Cardinality(Labelled(fb, rs, l))
  <2> SUFFICES ASSUME NEW l
               PROVE  Cardinality(Labelled(g, rs, l)) = Cardinality(Labelled(fb, rs, l))
    OBVIOUS
  <2> DEFINE T == Labelled(fb, rs, l)
  <2>1. Labelled(g, rs, l) = Before(fb, p, T) /\ T \subseteq DOMAIN fb
    BY ReorderedWinners
  <2> HIDE DEF T
  <2>2. Cardinality(Before(fb, p, T)) = Cardinality(T)
    BY <2>1, BeforeCount
  <2> QED
    BY <2>1, <2>2, Zenon DEF T
<1>6. [k \in TargetsIn(g, rs) |-> Cardinality(OnTarget(g, rs, k)) - 1]
        = [k \in TargetsIn(fb, rs) |-> Cardinality(OnTarget(fb, rs, k)) - 1]
  BY <1>2, <1>4, Zenon
<1>7. [l \in Labels |-> Cardinality(Labelled(g, rs, l))]
        = [l \in Labels |-> Cardinality(Labelled(fb, rs, l))]
  BY <1>5, Zenon
<1> QED
  BY <1>1, <1>2, <1>3, <1>6, <1>7, DatasetIs, Zenon

\* The labels can be counted.
LEMMA LabelsFinite == IsFiniteSet(Labels)
<1>1. IsFiniteSet({"useful"}) /\ IsFiniteSet({"not_useful"}) /\ IsFiniteSet({"too_noisy"})
      /\ IsFiniteSet({"too_late"})
  BY FS_Singleton
<1>2. IsFiniteSet({"useful"} \cup {"not_useful"}) /\ IsFiniteSet({"too_noisy"} \cup {"too_late"})
  BY <1>1, FS_Union
<1>3. IsFiniteSet(({"useful"} \cup {"not_useful"}) \cup ({"too_noisy"} \cup {"too_late"}))
  BY <1>2, FS_Union
<1>4. Labels = ({"useful"} \cup {"not_useful"}) \cup ({"too_noisy"} \cup {"too_late"})
  BY DEF Labels
<1> QED
  BY <1>3, <1>4

\* The rows, and the targets.
LEMMA FeedbackSets ==
  ASSUME NEW fb, NEW rs, Distinct(fb)
  PROVE  /\ IsFiniteSet(ValidIn(fb)) /\ IsFiniteSet(JoinedIn(fb, rs)) /\ IsFiniteSet(TargetsIn(fb, rs))
         /\ JoinedIn(fb, rs) \subseteq ValidIn(fb) /\ ValidIn(fb) \subseteq DOMAIN fb
<1>1. fb \in Seq(Opinions)
  BY DEF Distinct
<1>2. DOMAIN fb = 1..Len(fb) /\ Len(fb) \in Nat
  BY <1>1
<1>3. IsFiniteSet(DOMAIN fb)
  BY <1>2, FS_Interval
<1>4. JoinedIn(fb, rs) \subseteq ValidIn(fb) /\ ValidIn(fb) \subseteq DOMAIN fb
  BY DEF JoinedIn, ValidIn
<1>5. IsFiniteSet(ValidIn(fb)) /\ IsFiniteSet(JoinedIn(fb, rs))
  BY <1>3, <1>4, FS_Subset
<1> DEFINE J == JoinedIn(fb, rs)
           f == [i \in J |-> KeyOf(fb[i])]
<1>6. f \in [J -> TargetsIn(fb, rs)] /\ \A k \in TargetsIn(fb, rs) : \E i \in J : f[i] = k
  BY DEF TargetsIn
<1> HIDE DEF f, J
<1>7. f \in Surjection(J, TargetsIn(fb, rs))
  BY <1>6, Fun_IsSurj
<1>8. IsFiniteSet(TargetsIn(fb, rs))
  BY <1>5, <1>7, FS_Surjection DEF J
<1> QED
  BY <1>4, <1>5, <1>8

\* Every valid row is an orphan, or superseded, or the opinion on its target.
LEMMA RowsCounted ==
  ASSUME NEW fb, NEW rs, Distinct(fb)
  PROVE  Cardinality(ValidIn(fb)) =
            Cardinality(ValidIn(fb) \ JoinedIn(fb, rs))
            + SumOver([k \in TargetsIn(fb, rs) |-> Cardinality(OnTarget(fb, rs, k)) - 1])
            + Cardinality(TargetsIn(fb, rs))
<1> DEFINE V == ValidIn(fb)
           J == JoinedIn(fb, rs)
           K == TargetsIn(fb, rs)
           B == [k \in K |-> OnTarget(fb, rs, k)]
           h == [k \in K |-> Cardinality(OnTarget(fb, rs, k))]
           f == [k \in K |-> Cardinality(OnTarget(fb, rs, k)) - 1]
           o == [k \in K |-> 1]
<1>1. IsFiniteSet(V) /\ IsFiniteSet(J) /\ IsFiniteSet(K) /\ J \subseteq V
  BY FeedbackSets
<1>2. \A k \in K : B[k] \subseteq J /\ h[k] = Cardinality(B[k]) /\ f[k] = h[k] - 1 /\ o[k] = 1
  BY DEF OnTarget
<1>3. \A k \in K : h[k] \in Nat
  BY <1>1, <1>2, FS_Subset, FS_CardinalityType
<1>4. Disjoint(B, K)
  BY DEF Disjoint, OnTarget
<1>5. Joint(B, K) = J
  <2>1. Joint(B, K) \subseteq J
    BY <1>2 DEF Joint
  <2>2. ASSUME NEW i \in J
        PROVE  i \in Joint(B, K)
    <3>1. KeyOf(fb[i]) \in K /\ i \in B[KeyOf(fb[i])]
      BY DEF TargetsIn, OnTarget
    <3> HIDE DEF B
    <3> QED
      BY <3>1 DEF Joint
  <2> QED
    BY <2>1, <2>2
<1>6. DOMAIN h = K /\ DOMAIN f = K /\ DOMAIN o = K
  OBVIOUS
<1>7. SumOver(o) = Cardinality(K)
  <2> HIDE DEF K
  <2> QED
    BY <1>1, SumOnes
<1> HIDE DEF V, J, K, B, h, f, o
<1>8. SumOver(h) = Cardinality(J)
  BY <1>1, <1>2, <1>4, <1>5, <1>6, SumSizes
<1>9. \A k \in K : f[k] \in Int /\ o[k] \in Int /\ h[k] = f[k] + o[k]
  BY <1>2, <1>3
<1>10. SumOver(h) = SumOver(f) + SumOver(o)
  BY <1>1, <1>6, <1>9, SumPlus
<1>11. SumOver(f) \in Int /\ Cardinality(K) \in Nat /\ Cardinality(V \ J) \in Nat /\ IsFiniteSet(V \ J)
       /\ Cardinality(J) \in Nat
  BY <1>1, <1>6, <1>9, SumInt, FS_CardinalityType, FS_Difference
<1>12. Cardinality(V) = Cardinality(V \ J) + Cardinality(J)
  <2>1. (V \ J) \cup J = V /\ (V \ J) \cap J = {}
    BY <1>1
  <2>2. Cardinality((V \ J) \cup J) = Cardinality(V \ J) + Cardinality(J) - Cardinality((V \ J) \cap J)
    BY <1>1, <1>11, FS_Union
  <2>3. Cardinality({}) = 0
    BY FS_EmptySet
  <2>4. Cardinality(V) = Cardinality(V \ J) + Cardinality(J) - 0
    BY <2>1, <2>2, <2>3, Zenon
  <2> QED
    BY <1>11, <2>4
<1>13. Cardinality(V) = Cardinality(V \ J) + SumOver(f) + Cardinality(K)
  <2>1. Cardinality(J) = SumOver(f) + Cardinality(K)
    BY <1>7, <1>8, <1>10, Zenon
  <2> DEFINE v == Cardinality(V)
             d == Cardinality(V \ J)
             j == Cardinality(J)
             c == Cardinality(K)
             x == SumOver(f)
  <2>2. d \in Nat /\ c \in Nat /\ x \in Int /\ v = d + j /\ j = x + c
    BY <1>11, <1>12, <2>1, Zenon
  <2> HIDE DEF v, d, j, c, x
  <2>3. v = d + x + c
    BY <2>2
  <2> QED
    BY <2>3, Zenon DEF v, d, c, x
<1> QED
  BY <1>13, Zenon DEF V, J, K, f

\* Every target has one opinion, and it has a label.
LEMMA TargetsCounted ==
  ASSUME NEW fb, NEW rs, Distinct(fb)
  PROVE  Cardinality(TargetsIn(fb, rs)) =
            SumOver([l \in Labels |-> Cardinality(Labelled(fb, rs, l))])
<1> DEFINE K == TargetsIn(fb, rs)
           W == WinnersIn(fb, rs)
           b == [k \in K |-> winner(fb, OnTarget(fb, rs, k))]
           B == [l \in Labels |-> Labelled(fb, rs, l)]
           f == [l \in Labels |-> Cardinality(Labelled(fb, rs, l))]
<1>1. IsFiniteSet(K)
  BY FeedbackSets
<1>2. ASSUME NEW k \in K
      PROVE  b[k] \in DOMAIN fb /\ KeyOf(fb[b[k]]) = k
  <2>1. OnTarget(fb, rs, k) # {} /\ OnTarget(fb, rs, k) \subseteq DOMAIN fb
    BY TargetRows
  <2>2. winner(fb, OnTarget(fb, rs, k)) \in OnTarget(fb, rs, k)
    BY <2>1, WinnerIs
  <2> QED
    BY <2>1, <2>2 DEF OnTarget
<1>3. b \in [K -> W] /\ \A w \in W : \E k \in K : b[k] = w
  BY DEF WinnersIn
<1>4. W \subseteq DOMAIN fb
  BY <1>2, <1>3
<1> HIDE DEF b, K
<1>5. \A k, m \in K : b[k] = b[m] => k = m
  BY <1>2
<1>6. b \in Bijection(K, W)
  <2> HIDE DEF W
  <2> QED
    BY <1>3, <1>5, Fun_IsBij
<1>7. IsFiniteSet(W) /\ Cardinality(W) = Cardinality(K)
  <2> HIDE DEF W
  <2>1. ExistsBijection(K, W)
    BY <1>6 DEF ExistsBijection
  <2> QED
    BY <1>1, <2>1, FS_Bijection
<1>8. \A i \in DOMAIN fb : fb[i].label \in Labels
  <2>1. fb \in Seq(Opinions)
    BY DEF Distinct
  <2>2. \A i \in DOMAIN fb : fb[i] \in Opinions
    BY <2>1
  <2> QED
    BY <2>2 DEF Opinions
<1>9. \A l \in Labels : B[l] \subseteq W /\ f[l] = Cardinality(B[l])
  BY DEF Labelled
<1>10. Disjoint(B, Labels)
  BY DEF Disjoint, Labelled
<1>11. Joint(B, Labels) = W
  <2>1. Joint(B, Labels) \subseteq W
    BY <1>9 DEF Joint
  <2>2. ASSUME NEW i \in W
        PROVE  i \in Joint(B, Labels)
    <3>1. fb[i].label \in Labels /\ i \in B[fb[i].label]
      BY <1>4, <1>8 DEF Labelled
    <3> HIDE DEF B
    <3> QED
      BY <3>1 DEF Joint
  <2> QED
    BY <2>1, <2>2
<1>12. DOMAIN f = Labels
  OBVIOUS
<1> HIDE DEF B, f, W
<1>13. SumOver(f) = Cardinality(W)
  BY <1>7, <1>9, <1>10, <1>11, <1>12, SumSizes, LabelsFinite
<1> QED
  BY <1>7, <1>13, Zenon DEF f, K

\* Opinions that name their run name their signal.
Attributed(fb) == \A i \in DOMAIN fb : fb[i].run # None => fb[i].signal # None

\* The invariant.
FeedbackInv == Distinct(feedback) /\ Attributed(feedback)

\* It holds of the empty file, and every record_feedback keeps it.
LEMMA FeedbackStep ==
  /\ Init => FeedbackInv
  /\ FeedbackInv /\ [Next]_vars => FeedbackInv'
<1>1. Init => FeedbackInv
  <2> SUFFICES ASSUME Init
               PROVE  Distinct(feedback) /\ Attributed(feedback)
    BY DEF FeedbackInv
  <2>1. feedback = <<>>
    BY DEF Init
  <2>2. feedback \in Seq(Opinions) /\ Len(feedback) = 0 /\ DOMAIN feedback = {}
    BY <2>1
  <2> QED
    BY <2>2 DEF Distinct, Attributed
<1>2. ASSUME FeedbackInv, [Next]_vars
      PROVE  FeedbackInv'
  <2>1. ASSUME NEW r \in Opinions, feedback' = Append(feedback, r),
               \A i \in DOMAIN feedback : feedback[i].id # r.id, r.run # None => r.signal # None
        PROVE  FeedbackInv'
    <3>1. feedback \in Seq(Opinions) /\ Len(feedback) \in Nat /\ DOMAIN feedback = 1..Len(feedback)
          /\ (\A i, j \in DOMAIN feedback : feedback[i].id = feedback[j].id => i = j)
          /\ \A i \in DOMAIN feedback : feedback[i].run # None => feedback[i].signal # None
      BY <1>2 DEF FeedbackInv, Distinct, Attributed
    <3>2. /\ feedback' \in Seq(Opinions) /\ Len(feedback') = Len(feedback) + 1
          /\ feedback'[Len(feedback) + 1] = r /\ \A i \in 1..Len(feedback) : feedback'[i] = feedback[i]
      BY <2>1, <3>1, AppendProperties
    <3>3. DOMAIN feedback' = 1..Len(feedback) + 1
      BY <3>2
    <3>4. \A i \in DOMAIN feedback' : i \in DOMAIN feedback \/ i = Len(feedback) + 1
      BY <3>1, <3>3
    <3>5. \A i, j \in DOMAIN feedback' : feedback'[i].id = feedback'[j].id => i = j
      BY <2>1, <3>1, <3>2, <3>4
    <3>6. \A i \in DOMAIN feedback' : feedback'[i].run # None => feedback'[i].signal # None
      BY <2>1, <3>1, <3>2, <3>4
    <3> QED
      BY <3>2, <3>5, <3>6 DEF FeedbackInv, Distinct, Attributed
  <2>2. CASE UNCHANGED feedback
    BY <1>2, <2>2 DEF FeedbackInv
  <2>3. CASE \E r \in Produced : emit(r)
    BY <2>2, <2>3 DEF emit
  <2>4. CASE \E r \in Foreign : left_by_others(r)
    BY <2>2, <2>4 DEF left_by_others
  <2>5. CASE \E id \in FeedbackIds, run \in Runs, c \in FeedbackCommands : record_feedback(id, run, c)
    <3>1. PICK id \in FeedbackIds, run \in Runs, c \in FeedbackCommands : record_feedback(id, run, c)
      BY <2>5
    <3> DEFINE r == [id |-> id, run |-> run, signal |-> c.signal, label |-> c.label, created |-> c.created]
    <3>2. /\ feedback' = Append(feedback, r)
          /\ \A i \in DOMAIN feedback : feedback[i].id # id
          /\ \A x \in DOMAIN c : c[x] # None
      BY <3>1 DEF record_feedback, parse_user_feedback
    <3>3. /\ c.label \in Labels \cup {None} /\ c.signal \in Signals \cup {None}
          /\ c.created \in Created \cup {None} /\ c.label # None /\ c.created # None
          /\ c.signal # None
      BY <3>2 DEF FeedbackCommands
    <3>4. r \in Opinions /\ r.id = id /\ r.signal # None
      BY <3>3, EvaluationAssumption DEF Opinions
    <3> HIDE DEF r
    <3> QED
      BY <2>1, <3>2, <3>4
  <2>6. CASE \E id \in FeedbackIds, g \in Signals : feedback_left_by_others(id, g)
    <3>1. PICK id \in FeedbackIds, g \in Signals : feedback_left_by_others(id, g)
      BY <2>6
    <3> DEFINE r == [id |-> id, run |-> None, signal |-> g, label |-> "useful", created |-> 0]
    <3>2. feedback' = Append(feedback, r) /\ \A i \in DOMAIN feedback : feedback[i].id # id
      BY <3>1 DEF feedback_left_by_others
    <3>3. r \in Opinions /\ r.id = id /\ r.run = None
      BY EvaluationAssumption DEF Opinions, Labels
    <3> HIDE DEF r
    <3> QED
      BY <2>1, <3>2, <3>3
  <2>7. CASE UNCHANGED vars
    BY <2>2, <2>7 DEF vars
  <2> QED
    BY <1>2, <2>3, <2>4, <2>5, <2>6, <2>7 DEF Next
<1> QED
  BY <1>1, <1>2

\* The invariant gives the property.
LEMMA FeedbackMeans == FeedbackInv => FeedbackOrderIrrelevant
<1> SUFFICES ASSUME FeedbackInv
             PROVE  FeedbackOrderIrrelevant
  OBVIOUS
<1> DEFINE data == build_tuning_feedback_dataset(feedback, rows)
<1>1. Distinct(feedback)
  BY DEF FeedbackInv
<1>2. ASSUME NEW p \in Bijection(DOMAIN feedback, DOMAIN feedback)
      PROVE  build_tuning_feedback_dataset([i \in DOMAIN feedback |-> feedback[p[i]]], rows) = data
  <2> DEFINE g == [i \in DOMAIN feedback |-> feedback[p[i]]]
  <2>1. Reordered(g, feedback, p)
    BY <1>1 DEF Reordered
  <2> HIDE DEF g
  <2>2. build_tuning_feedback_dataset(g, rows) = data
    BY <2>1, ReorderedDataset
  <2> QED
    BY <2>2 DEF g
<1>3. data.valid = data.orphan + data.superseded + data.eligible
  <2>1. /\ data.valid = Cardinality(ValidIn(feedback))
        /\ data.orphan = Cardinality(ValidIn(feedback) \ JoinedIn(feedback, rows))
        /\ data.superseded = SumOver([k \in TargetsIn(feedback, rows) |->
                                        Cardinality(OnTarget(feedback, rows, k)) - 1])
        /\ data.eligible = Cardinality(TargetsIn(feedback, rows))
    BY DatasetIs
  <2> QED
    BY <1>1, <2>1, RowsCounted, Zenon
<1>4. data.eligible = SumOver(data.labels)
  <2>1. /\ data.eligible = Cardinality(TargetsIn(feedback, rows))
        /\ data.labels = [l \in Labels |-> Cardinality(Labelled(feedback, rows, l))]
    BY DatasetIs
  <2> HIDE DEF data
  <2>2. Cardinality(TargetsIn(feedback, rows)) =
           SumOver([l \in Labels |-> Cardinality(Labelled(feedback, rows, l))])
    BY <1>1, TargetsCounted
  <2>3. SumOver(data.labels) = SumOver([l \in Labels |-> Cardinality(Labelled(feedback, rows, l))])
    BY <2>1
  <2> QED
    BY <2>1, <2>2, <2>3
<1> QED
  BY <1>2, <1>3, <1>4, Zenon DEF FeedbackOrderIrrelevant

\* What build_tuning_feedback_dataset learns does not depend on the order in which
\* the rows reached feedback.jsonl, and every valid row is counted once, as an orphan,
\* as superseded, or as the opinion on its target.
THEOREM FeedbackOrder == Spec => []FeedbackOrderIrrelevant
  BY FeedbackStep, FeedbackMeans, PTL DEF Spec

-----------------------------------------------------------------------------
(* Trading time, half hour by half hour *)

\* The parts of a quotient.
LEMMA DayOf ==
  ASSUME NEW t \in Nat
  PROVE  /\ session_id(t) \in Nat /\ t % DayLen \in 0..47
         /\ t = session_id(t) * 48 + (t % DayLen)
  BY DEF session_id, DayLen

\* The day of a time is the only one it lies in.
LEMMA DayIs ==
  ASSUME NEW t \in Nat, NEW d \in Nat, d * 48 <= t, t < d * 48 + 48
  PROVE  session_id(t) = d /\ t % DayLen = t - d * 48
<1> DEFINE s == session_id(t)
           m == t % DayLen
<1>1. s \in Nat /\ m \in 0..47 /\ t = s * 48 + m
  BY DayOf
<1> HIDE DEF s, m
<1>2. s = d
  <2>1. s * 48 < d * 48 + 48 /\ d * 48 < s * 48 + 48
    BY <1>1
  <2> QED
    BY <1>1, <2>1
<1>3. m = t - d * 48
  BY <1>1, <1>2
<1> QED
  BY <1>2, <1>3 DEF s, m

\* Days come in the order of their times.
LEMMA DayOrder ==
  ASSUME NEW a \in Nat, NEW b \in Nat, a <= b
  PROVE  session_id(a) <= session_id(b)
<1>1. /\ session_id(a) \in Nat /\ a % DayLen \in 0..47 /\ a = session_id(a) * 48 + (a % DayLen)
      /\ session_id(b) \in Nat /\ b % DayLen \in 0..47 /\ b = session_id(b) * 48 + (b % DayLen)
  BY DayOf
<1> QED
  BY <1>1

\* Max and Min of two numbers.
LEMMA MaxIs ==
  ASSUME NEW a \in Int, NEW b \in Int
  PROVE  Max({a, b}) \in {a, b} /\ Max({a, b}) >= a /\ Max({a, b}) >= b
<1>1. \E x \in {a, b} : \A y \in {a, b} : x >= y
  OBVIOUS
<1>2. Max({a, b}) \in {a, b} /\ \A y \in {a, b} : Max({a, b}) >= y
  BY <1>1, Zenon DEF Max
<1> QED
  BY <1>2

\* Min of two numbers.
LEMMA MinIs ==
  ASSUME NEW a \in Int, NEW b \in Int
  PROVE  Min({a, b}) \in {a, b} /\ Min({a, b}) <= a /\ Min({a, b}) <= b
<1>1. \E x \in {a, b} : \A y \in {a, b} : x <= y
  OBVIOUS
<1>2. Min({a, b}) \in {a, b} /\ \A y \in {a, b} : Min({a, b}) <= y
  BY <1>1, Zenon DEF Min
<1> QED
  BY <1>2

\* The part of a window inside [from, to], and the half hours in it.
Part(from, to, day, w) ==
    Max({0, Min({to, day * DayLen + w[2]}) - Max({from, day * DayLen + w[1]})})
\* The half hours of a window that lie in a span.
InWindow(from, to, day, w) ==
    {t \in from..(to - 1) : day * 48 + w[1] <= t /\ t < day * 48 + w[2]}

\* A window of a day overlaps a span by as many half hours as lie in both.
LEMMA PartCounted ==
  ASSUME NEW from \in Nat, NEW to \in Nat, NEW day \in Nat, NEW w \in Nat \X Nat
  PROVE  /\ Part(from, to, day, w) = Cardinality(InWindow(from, to, day, w))
         /\ Part(from, to, day, w) \in Nat
<1> DEFINE p == day * DayLen + w[1]
           q == day * DayLen + w[2]
           lo == Max({from, p})
           hi == Min({to, q})
           e == Max({0, hi - lo})
<1>1. w[1] \in Nat /\ w[2] \in Nat
  OBVIOUS
<1>2. p \in Int /\ q \in Int /\ p = day * 48 + w[1] /\ q = day * 48 + w[2]
  BY <1>1 DEF DayLen
<1> HIDE DEF p, q
<1>3. lo \in {from, p} /\ lo >= from /\ lo >= p
  BY <1>2, MaxIs
<1>4. hi \in {to, q} /\ hi <= to /\ hi <= q
  <2>1. to \in Int
    OBVIOUS
  <2> QED
    BY <1>2, <2>1, MinIs, Zenon
<1> HIDE DEF lo, hi
<1>5. lo \in Int /\ hi \in Int
  BY <1>2, <1>3, <1>4
<1>6. e \in {0, hi - lo} /\ e >= 0 /\ e >= hi - lo
  <2>1. 0 \in Int /\ hi - lo \in Int
    BY <1>5
  <2> QED
    BY <2>1, MaxIs
<1> HIDE DEF e
<1>7. InWindow(from, to, day, w) = lo..(hi - 1)
  <2>1. \A t \in Int : (from <= t /\ t <= to - 1 /\ day * 48 + w[1] <= t /\ t < day * 48 + w[2])
                        <=> (lo <= t /\ t <= hi - 1)
    BY <1>1, <1>2, <1>3, <1>4, <1>5
  <2>2. \A t : t \in InWindow(from, to, day, w) <=>
               t \in Int /\ from <= t /\ t <= to - 1 /\ day * 48 + w[1] <= t /\ t < day * 48 + w[2]
    BY DEF InWindow
  <2>3. \A t : t \in lo..(hi - 1) <=> t \in Int /\ lo <= t /\ t <= hi - 1
    BY <1>5
  <2> QED
    BY <2>1, <2>2, <2>3
<1>8. Cardinality(lo..(hi - 1)) = IF lo > hi - 1 THEN 0 ELSE (hi - 1) - lo + 1
  BY <1>5, FS_Interval
<1>9. e = Cardinality(lo..(hi - 1)) /\ e \in Nat
  BY <1>5, <1>6, <1>8
<1>10. Part(from, to, day, w) = e
  BY Zenon DEF Part, e, lo, hi, p, q
<1> QED
  BY <1>7, <1>9, <1>10

\* The half hours of trading of a day inside [from, to].
TradedOn(from, to, day) == {t \in from..(to - 1) : Trading(t) /\ session_id(t) = day}

\* What the windows of a weekday add up to.
LEMMA WindowsCounted ==
  ASSUME NEW from \in Nat, NEW to \in Nat, NEW day \in Nat, Weekday(day) < 5
  PROVE  SumOver([w \in CashWindows |-> Part(from, to, day, w)])
            = Cardinality(TradedOn(from, to, day))
<1> DEFINE f == [w \in CashWindows |-> Part(from, to, day, w)]
           B == [w \in CashWindows |-> InWindow(from, to, day, w)]
           U == from..(to - 1)
<1>1. CashWindows \subseteq Nat \X Nat /\ IsFiniteSet(CashWindows)
  <2>1. CashWindows = {<<19, 23>>} \cup {<<26, 30>>}
    BY DEF CashWindows
  <2>2. IsFiniteSet({<<19, 23>>} \cup {<<26, 30>>})
    BY FS_Singleton, FS_Union
  <2> QED
    BY <2>1, <2>2
<1>2. IsFiniteSet(U)
  BY FS_Interval
<1>3. \A w \in CashWindows : f[w] = Cardinality(B[w]) /\ B[w] \subseteq U
  <2> SUFFICES ASSUME NEW w \in CashWindows
               PROVE  f[w] = Cardinality(B[w]) /\ B[w] \subseteq U
    OBVIOUS
  <2>1. w \in Nat \X Nat
    BY <1>1
  <2>2. Part(from, to, day, w) = Cardinality(InWindow(from, to, day, w))
    BY <2>1, PartCounted
  <2>3. InWindow(from, to, day, w) \subseteq U
    BY DEF InWindow
  <2> QED
    BY <2>2, <2>3
<1>4. Disjoint(B, CashWindows)
  <2> SUFFICES ASSUME NEW x \in CashWindows, NEW y \in CashWindows, x # y
               PROVE  B[x] \cap B[y] = {}
    BY DEF Disjoint
  <2>1. (x = <<19, 23>> /\ y = <<26, 30>>) \/ (x = <<26, 30>> /\ y = <<19, 23>>)
    BY DEF CashWindows
  <2>2. (x[1] = 19 /\ x[2] = 23 /\ y[1] = 26 /\ y[2] = 30)
        \/ (x[1] = 26 /\ x[2] = 30 /\ y[1] = 19 /\ y[2] = 23)
    BY <2>1
  <2>3. \A t \in Int : ~(day * 48 + x[1] <= t /\ t < day * 48 + x[2]
                         /\ day * 48 + y[1] <= t /\ t < day * 48 + y[2])
    BY <2>2
  <2> QED
    BY <2>3 DEF InWindow
<1>5. Joint(B, CashWindows) = TradedOn(from, to, day)
  <2>1. ASSUME NEW t \in U
        PROVE  (\E w \in CashWindows : t \in InWindow(from, to, day, w))
                  <=> Trading(t) /\ session_id(t) = day
    <3>1. t \in Nat
      OBVIOUS
    <3> DEFINE s == session_id(t)
               m == t % DayLen
               low == day * 48 + 19 <= t /\ t < day * 48 + 23
               high == day * 48 + 26 <= t /\ t < day * 48 + 30
    <3>2. s \in Nat /\ m \in 0..47 /\ t = s * 48 + m
      BY <3>1, DayOf
    <3>3. low \/ high => s = day /\ m = t - day * 48
      BY <3>1, DayIs
    <3>4. (\E w \in CashWindows : t \in InWindow(from, to, day, w)) <=> low \/ high
      BY DEF CashWindows, InWindow
    <3>5. Weekday(day) \in 0..4
      BY DEF Weekday
    <3>6. Trading(t) /\ s = day <=> s = day /\ m \in (19..22) \cup (26..29)
      BY <3>5 DEF Trading
    <3> HIDE DEF s, m
    <3>7. low \/ high <=> s = day /\ m \in (19..22) \cup (26..29)
      <4>1. ASSUME low \/ high
            PROVE  s = day /\ m \in (19..22) \cup (26..29)
        BY <3>1, <3>2, <3>3, <4>1
      <4>2. ASSUME s = day, m \in (19..22) \cup (26..29)
            PROVE  low \/ high
        BY <3>1, <3>2, <4>2
      <4> QED
        BY <4>1, <4>2
    <3> QED
      BY <3>4, <3>6, <3>7 DEF s
  <2>2. \A t : t \in Joint(B, CashWindows) <=> \E w \in CashWindows : t \in InWindow(from, to, day, w)
    BY DEF Joint
  <2>3. \A w \in CashWindows : InWindow(from, to, day, w) \subseteq U
    BY DEF InWindow
  <2> QED
    BY <2>1, <2>2, <2>3 DEF TradedOn
<1>6. DOMAIN f = CashWindows
  OBVIOUS
<1> HIDE DEF f, B, U
<1>7. SumOver(f) = Cardinality(Joint(B, CashWindows))
  BY <1>1, <1>2, <1>3, <1>4, <1>6, SumSizes
<1> QED
  BY <1>5, <1>7 DEF f

\* Half hours of trading inside [from, to].
HoursIn(from, to) == {t \in from..(to - 1) : Trading(t)}

\* cash_session_overlap counts the half hours of trading.
LEMMA OverlapCounted ==
  ASSUME NEW from \in Nat, NEW to \in Nat, from <= to
  PROVE  /\ cash_session_overlap(from, to) = Cardinality(HoursIn(from, to))
         /\ IsFiniteSet(HoursIn(from, to)) /\ Cardinality(HoursIn(from, to)) \in Nat
<1> DEFINE D == session_id(from)..session_id(to)
           B == [day \in D |-> TradedOn(from, to, day)]
           W(day) == SumOver([w \in CashWindows |-> Part(from, to, day, w)])
           f == [day \in D |-> IF Weekday(day) < 5 THEN W(day) ELSE 0]
           U == from..(to - 1)
<1>1. cash_session_overlap(from, to) = SumOver(f)
  BY Zenon DEF cash_session_overlap, Part
<1>2. session_id(from) \in Nat /\ session_id(to) \in Nat
  BY DayOf
<1>3. IsFiniteSet(D) /\ D \subseteq Nat /\ IsFiniteSet(U)
  <2>1. D \subseteq Nat
    BY <1>2
  <2>2. IsFiniteSet(D)
    BY <1>2, FS_Interval
  <2>3. IsFiniteSet(U)
    BY FS_Interval
  <2> QED
    BY <2>1, <2>2, <2>3
<1>4. \A day \in D : f[day] = Cardinality(B[day]) /\ B[day] \subseteq U
  <2> SUFFICES ASSUME NEW day \in D
               PROVE  f[day] = Cardinality(B[day]) /\ B[day] \subseteq U
    OBVIOUS
  <2>1. day \in Nat
    BY <1>3
  <2>2. B[day] = TradedOn(from, to, day) /\ B[day] \subseteq U
    BY DEF TradedOn
  <2>3. CASE Weekday(day) < 5
    <3>1. W(day) = Cardinality(TradedOn(from, to, day))
      BY <2>1, <2>3, WindowsCounted
    <3>2. f[day] = W(day)
      BY <2>3
    <3> QED
      BY <2>2, <3>1, <3>2
  <2>4. CASE ~(Weekday(day) < 5)
    <3>1. Weekday(day) \in 0..6
      BY <2>1 DEF Weekday
    <3>2. TradedOn(from, to, day) = {}
      BY <2>4, <3>1 DEF TradedOn, Trading
    <3>3. f[day] = 0
      BY <2>4
    <3> QED
      BY <2>2, <3>2, <3>3, FS_EmptySet
  <2> QED
    BY <2>3, <2>4
<1>5. Disjoint(B, D)
  BY DEF Disjoint, TradedOn
<1>6. Joint(B, D) = HoursIn(from, to)
  <2>1. ASSUME NEW t \in U
        PROVE  session_id(t) \in D
    <3>1. t \in Nat /\ from <= t /\ t <= to
      OBVIOUS
    <3>2. session_id(from) <= session_id(t) /\ session_id(t) <= session_id(to) /\ session_id(t) \in Nat
      BY <3>1, DayOrder, DayOf
    <3> QED
      BY <1>2, <3>2
  <2>2. \A t : t \in Joint(B, D) <=> \E day \in D : t \in TradedOn(from, to, day)
    BY DEF Joint
  <2> QED
    BY <2>1, <2>2 DEF TradedOn, HoursIn
<1>7. DOMAIN f = D
  OBVIOUS
<1>8. HoursIn(from, to) \in SUBSET U
  BY DEF HoursIn
<1> HIDE DEF f, B, D, U
<1>9. SumOver(f) = Cardinality(Joint(B, D))
  BY <1>3, <1>4, <1>5, <1>7, SumSizes
<1>10. IsFiniteSet(HoursIn(from, to)) /\ Cardinality(HoursIn(from, to)) \in Nat
  BY <1>3, <1>8, FS_Subset, FS_CardinalityType
<1> QED
  BY <1>1, <1>6, <1>9, <1>10

\* A finite set of integers has a least and a largest element.
LEMMA Bounds ==
  ASSUME NEW S, IsFiniteSet(S), S # {}, S \subseteq Nat
  PROVE  /\ Min(S) \in S /\ Max(S) \in S /\ \A x \in S : Min(S) <= x /\ x <= Max(S)
         /\ Min(S) <= Max(S) /\ Min(S) \in Nat /\ Max(S) \in Nat
<1>1. \E x \in S : \A y \in S : x <= y
  BY LeastNatural
<1> DEFINE G == {s \in SUBSET S : s = {} \/ \E x \in s : \A y \in s : x >= y}
<1>2. {} \in G
  OBVIOUS
<1>3. ASSUME NEW s \in SUBSET S, s # {}, \A x \in s : s \ {x} \in G
      PROVE  s \in G
  <2>1. PICK x \in s : TRUE
    BY <1>3
  <2>2. x \in Nat /\ \A y \in s : y \in Nat
    OBVIOUS
  <2>3. CASE s \ {x} = {}
    BY <2>2, <2>3
  <2>4. CASE s \ {x} # {}
    <3>1. PICK z \in s \ {x} : \A y \in s \ {x} : z >= y
      BY <1>3, <2>4
    <3>2. (\A y \in s : z >= y) \/ (\A y \in s : x >= y)
      BY <2>2, <3>1
    <3> QED
      BY <3>1, <3>2
  <2> QED
    BY <2>3, <2>4
<1>4. S \in G
  <2> HIDE DEF G
  <2> QED
    BY <1>2, <1>3, PartByPart
<1>5. \E x \in S : \A y \in S : x >= y
  BY <1>4
<1>6. Min(S) \in S /\ \A y \in S : Min(S) <= y
  BY <1>1, Zenon DEF Min
<1>7. Max(S) \in S /\ \A y \in S : Max(S) >= y
  BY <1>5, Zenon DEF Max
<1> QED
  BY <1>6, <1>7

-----------------------------------------------------------------------------
(* Bags of rows and what they weigh *)

\* A bag of rows.
Bag(rs) ==
    /\ rs = [x \in DOMAIN rs |-> rs[x]] /\ IsFiniteSet(DOMAIN rs)
    /\ \A x \in DOMAIN rs : rs[x] \in Nat /\ rs[x] > 0

\* How many of its rows are in T.
Weight(rs, T) == SumOver([x \in T |-> rs[x]])

\* A weight is a number, and not zero unless there are no rows.
LEMMA WeightNat ==
  ASSUME NEW rs, Bag(rs), NEW T, T \subseteq DOMAIN rs
  PROVE  /\ Weight(rs, T) \in Nat
         /\ T = {} => Weight(rs, T) = 0
         /\ T # {} => Weight(rs, T) > 0
<1> DEFINE f == [x \in T |-> rs[x]]
<1>1. IsFiniteSet(T) /\ DOMAIN f = T /\ \A x \in T : f[x] \in Nat /\ f[x] > 0
  BY FS_Subset DEF Bag
<1> HIDE DEF f
<1>2. SumOver(f) \in Nat /\ \A x \in T : f[x] <= SumOver(f)
  BY <1>1, SumNat
<1>3. ASSUME T = {}
      PROVE  SumOver(f) = 0
  <2>1. PICK H : Sums(f, T, H)
    BY <1>1, SumExists
  <2>2. SumOver(f) = H[T]
    BY <1>1, <2>1, SumIs
  <2>3. H[{}] = 0
    BY <2>1 DEF Sums
  <2> QED
    BY <1>3, <2>2, <2>3
<1>4. ASSUME T # {}
      PROVE  SumOver(f) > 0
  BY <1>1, <1>2, <1>4
<1> QED
  BY <1>2, <1>3, <1>4 DEF Weight, f

\* What f sums to over two parts.
LEMMA SumsJoin ==
  ASSUME NEW f, NEW S, NEW H, Sums(f, S, H), NEW a, NEW b, a \subseteq S, b \subseteq S,
         a \cap b = {}
  PROVE  H[a \cup b] = H[a] + H[b]
<1>1. /\ IsFiniteSet(S) /\ (\A x \in S : f[x] \in Int) /\ H \in [SUBSET S -> Int] /\ H[{}] = 0
      /\ \A s \in SUBSET S : \A x \in s : H[s] = f[x] + H[s \ {x}]
  BY DEF Sums
<1> DEFINE G == {s \in SUBSET a : H[s \cup b] = H[s] + H[b]}
<1>2. \A s \in SUBSET S : H[s] \in Int
  BY <1>1
<1>3. {} \in G
  <2>1. {} \cup b = b
    OBVIOUS
  <2>2. H[{} \cup b] = H[{}] + H[b]
    BY <1>1, <1>2, <2>1
  <2> QED
    BY <2>2
<1>4. ASSUME NEW s \in SUBSET a, s # {}, \A x \in s : s \ {x} \in G
      PROVE  s \in G
  <2>1. PICK x \in s : TRUE
    BY <1>4
  <2> DEFINE r == s \ {x}
             u == s \cup b
  <2>2. H[r \cup b] = H[r] + H[b]
    BY <1>4, <2>1
  <2>3. u \ {x} = r \cup b /\ u \in SUBSET S /\ s \in SUBSET S /\ x \in u /\ x \in S
        /\ r \in SUBSET S
    BY <2>1
  <2>4. H[u] = f[x] + H[r \cup b] /\ H[s] = f[x] + H[r]
    <3>1. H[u] = f[x] + H[u \ {x}]
      BY <1>1, <2>3
    <3>2. H[s] = f[x] + H[s \ {x}]
      BY <1>1, <2>1, <2>3
    <3> QED
      BY <2>3, <3>1, <3>2
  <2>5. f[x] \in Int /\ H[r] \in Int /\ H[b] \in Int
    BY <1>1, <1>2, <2>3
  <2>6. H[u] = H[s] + H[b]
    <3> HIDE DEF u, r
    <3> QED
      BY <2>2, <2>4, <2>5
  <2> QED
    BY <2>6
<1>5. a \in G
  <2>1. IsFiniteSet(a)
    BY <1>1, FS_Subset
  <2> HIDE DEF G
  <2> QED
    BY <1>3, <1>4, <2>1, PartByPart
<1> QED
  BY <1>5

\* The part of a sum over a part.
LEMMA SumPart ==
  ASSUME NEW f, NEW S, NEW H, Sums(f, S, H), NEW T, T \subseteq S, NEW g, DOMAIN g = T,
         \A x \in T : g[x] = f[x]
  PROVE  SumOver(g) = H[T]
<1> DEFINE K == [s \in SUBSET T |-> H[s]]
<1>1. /\ IsFiniteSet(S) /\ (\A x \in S : f[x] \in Int) /\ H \in [SUBSET S -> Int] /\ H[{}] = 0
      /\ \A s \in SUBSET S : \A x \in s : H[s] = f[x] + H[s \ {x}]
  BY DEF Sums
<1>2. IsFiniteSet(T)
  BY <1>1, FS_Subset
<1>3. \A s \in SUBSET T : s \in SUBSET S /\ H[s] \in Int /\ K[s] = H[s]
  BY <1>1
<1>4. K \in [SUBSET T -> Int] /\ K[{}] = 0
  BY <1>1, <1>3
<1>5. ASSUME NEW s \in SUBSET T, NEW x \in s
      PROVE  K[s] = g[x] + K[s \ {x}]
  <2>1. s \ {x} \in SUBSET T /\ x \in T
    OBVIOUS
  <2>2. H[s] = f[x] + H[s \ {x}]
    BY <1>1, <1>3
  <2> HIDE DEF K
  <2> QED
    BY <1>3, <2>1, <2>2
<1>6. \A x \in T : g[x] \in Int
  BY <1>1
<1>7. K[T] = H[T]
  OBVIOUS
<1> HIDE DEF K
<1>8. Sums(g, T, K)
  BY <1>2, <1>4, <1>5, <1>6 DEF Sums
<1> QED
  BY <1>7, <1>8, SumIs

\* Two parts of a bag.
LEMMA WeightSplit ==
  ASSUME NEW rs, Bag(rs), NEW a, NEW b, a \subseteq DOMAIN rs, b \subseteq DOMAIN rs, a \cap b = {}
  PROVE  Weight(rs, a \cup b) = Weight(rs, a) + Weight(rs, b)
<1> DEFINE U == DOMAIN rs
<1>1. IsFiniteSet(U) /\ \A x \in U : rs[x] \in Int
  BY DEF Bag
<1>2. PICK W : Sums(rs, U, W)
  <2> HIDE DEF U
  <2> QED
    BY <1>1, SumExists
<1>3. ASSUME NEW T \in SUBSET U
      PROVE  Weight(rs, T) = W[T]
  <2> DEFINE g == [x \in T |-> rs[x]]
  <2>1. DOMAIN g = T /\ \A x \in T : g[x] = rs[x]
    OBVIOUS
  <2> HIDE DEF g, U
  <2>2. SumOver(g) = W[T]
    BY <1>2, <2>1, SumPart
  <2> QED
    BY <2>2 DEF Weight, g
<1>4. a \in SUBSET U /\ b \in SUBSET U /\ a \cup b \in SUBSET U
  OBVIOUS
<1> HIDE DEF U
<1>5. W[a \cup b] = W[a] + W[b]
  BY <1>2, <1>4, SumsJoin
<1>6. Weight(rs, a \cup b) = W[a \cup b] /\ Weight(rs, a) = W[a] /\ Weight(rs, b) = W[b]
  BY <1>3, <1>4
<1> QED
  BY <1>5, <1>6, Zenon

\* The weights of disjoint parts add up.
LEMMA WeightParts ==
  ASSUME NEW rs, Bag(rs), NEW B, NEW S, IsFiniteSet(S), \A x \in S : B[x] \subseteq DOMAIN rs,
         Disjoint(B, S), NEW f, DOMAIN f = S, \A x \in S : f[x] = Weight(rs, B[x])
  PROVE  SumOver(f) = Weight(rs, Joint(B, S))
<1> DEFINE H == [s \in SUBSET S |-> Weight(rs, Joint(B, s))]
<1>1. \A s \in SUBSET S : Joint(B, s) \subseteq DOMAIN rs
  BY DEF Joint
<1>2. \A s \in SUBSET S : H[s] = Weight(rs, Joint(B, s)) /\ Weight(rs, Joint(B, s)) \in Nat
  BY <1>1, WeightNat
<1>3. H \in [SUBSET S -> Int]
  <2>1. \A s \in SUBSET S : Weight(rs, Joint(B, s)) \in Int
    <3>1. \A n \in Nat : n \in Int
      OBVIOUS
    <3> QED
      BY <1>2, <3>1, Zenon
  <2> QED
    BY <2>1, Zenon
<1>4. H[{}] = 0
  <2>1. Joint(B, {}) = {}
    BY DEF Joint
  <2> QED
    BY <2>1, WeightNat
<1> HIDE DEF H
<1>5. ASSUME NEW s \in SUBSET S, NEW x \in s
      PROVE  H[s] = f[x] + H[s \ {x}]
  <2> DEFINE r == s \ {x}
             a == B[x]
             b == Joint(B, r)
  <2>1. Joint(B, s) = a \cup b
    BY Zenon DEF Joint
  <2>2. a \cap b = {}
    <3> SUFFICES ASSUME NEW e \in a, e \in b
                 PROVE  FALSE
      OBVIOUS
    <3>1. PICK y \in r : e \in B[y]
      BY DEF Joint
    <3>2. y \in S /\ x \in S /\ y # x
      OBVIOUS
    <3> QED
      BY <3>1, <3>2 DEF Disjoint
  <2>3. r \in SUBSET S /\ x \in S
    OBVIOUS
  <2>4. a \subseteq DOMAIN rs /\ b \subseteq DOMAIN rs
    BY <1>1, <2>3
  <2>5. f[x] = Weight(rs, a)
    BY <2>3
  <2>6. H[s] = Weight(rs, Joint(B, s)) /\ H[r] = Weight(rs, b)
    BY <1>2, <2>3
  <2> HIDE DEF a, b
  <2>7. Weight(rs, a \cup b) = Weight(rs, a) + Weight(rs, b)
    BY <2>2, <2>4, WeightSplit
  <2> QED
    BY <2>1, <2>5, <2>6, <2>7, Zenon
<1>6. \A x \in S : f[x] \in Int
  BY WeightNat
<1>7. Sums(f, S, H)
  BY <1>3, <1>4, <1>5, <1>6 DEF Sums
<1>8. SumOver(f) = H[S]
  BY <1>7, SumIs
<1> QED
  BY <1>2, <1>8

\* A part weighs no more than the whole.
LEMMA WeightLess ==
  ASSUME NEW rs, Bag(rs), NEW a, NEW b, a \subseteq b, b \subseteq DOMAIN rs
  PROVE  Weight(rs, a) <= Weight(rs, b)
<1> DEFINE c == b \ a
<1>1. a \cup c = b /\ a \cap c = {} /\ c \subseteq DOMAIN rs /\ a \subseteq DOMAIN rs
  OBVIOUS
<1> HIDE DEF c
<1>2. Weight(rs, a \cup c) = Weight(rs, a) + Weight(rs, c)
  BY <1>1, WeightSplit
<1>3. Weight(rs, a) \in Nat /\ Weight(rs, c) \in Nat
  BY <1>1, WeightNat
<1>4. Weight(rs, b) = Weight(rs, a) + Weight(rs, c)
  BY <1>1, <1>2, Zenon
<1> QED
  BY <1>3, <1>4

\* Terms that are zero do not count.
LEMMA SumZero ==
  ASSUME NEW f, NEW S, IsFiniteSet(S), DOMAIN f = S, \A x \in S : f[x] \in Int,
         NEW T, T \subseteq S, \A x \in S \ T : f[x] = 0, NEW g, DOMAIN g = T,
         \A x \in T : g[x] = f[x]
  PROVE  SumOver(f) = SumOver(g)
<1>1. PICK H : Sums(f, S, H)
  BY SumExists
<1>2. /\ H \in [SUBSET S -> Int] /\ H[{}] = 0
      /\ \A s \in SUBSET S : \A x \in s : H[s] = f[x] + H[s \ {x}]
  BY <1>1 DEF Sums
<1> DEFINE Z == S \ T
           G == {s \in SUBSET Z : H[s] = 0}
<1>3. {} \in G
  BY <1>2
<1>4. ASSUME NEW s \in SUBSET Z, s # {}, \A x \in s : s \ {x} \in G
      PROVE  s \in G
  <2>1. PICK x \in s : TRUE
    BY <1>4
  <2>2. H[s] = f[x] + H[s \ {x}] /\ f[x] = 0 /\ H[s \ {x}] = 0
    BY <1>2, <1>4, <2>1
  <2> QED
    BY <2>2
<1>5. H[Z] = 0
  <2>1. IsFiniteSet(Z)
    BY FS_Subset
  <2> HIDE DEF G, Z
  <2>2. Z \in G
    BY <1>3, <1>4, <2>1, PartByPart
  <2> QED
    BY <2>2 DEF G
<1>6. T \cap Z = {} /\ Z \subseteq S /\ T \cup Z = S
  OBVIOUS
<1> HIDE DEF Z, G
<1>7. H[T \cup Z] = H[T] + H[Z]
  BY <1>1, <1>6, SumsJoin
<1>8. SumOver(f) = H[S]
  BY <1>1, SumIs
<1>9. SumOver(g) = H[T]
  BY <1>1, SumPart
<1>10. H[T] \in Int
  BY <1>2
<1>11. H[S] = H[T] + H[Z]
  BY <1>6, <1>7, Zenon
<1> QED
  BY <1>5, <1>8, <1>9, <1>10, <1>11

\* The rows in T, the rows of a name and of a run, and the runs.
Within(rs, T) == [x \in T |-> rs[x]]
OfName(rs, n) == {x \in DOMAIN rs : x.name = n}
InRun(rs, run) == {x \in DOMAIN rs : x.run = run}
RunsOf(rs) == {r.run : r \in DOMAIN rs} \ {None}

\* What the operators of the report count.
LEMMA NamedIs ==
  ASSUME NEW rs, NEW n
  PROVE  Named(rs, n) = Weight(rs, OfName(rs, n))
<1> DEFINE T == {x \in DOMAIN rs : x.name = n}
           f == [x \in T |-> rs[x]]
<1>1. Named(rs, n) = MapThenSumSet(LAMBDA r : f[r], DOMAIN f)
  BY Zenon DEF Named, CountIf, Size, Select, RestrictDomain, Restrict
<1> QED
  BY <1>1, Zenon DEF Weight, SumOver, OfName

\* The rows evaluate keeps for a run.
LEMMA OfRunIs ==
  ASSUME NEW rs, NEW run, run # None
  PROVE  OfRun(rs, run) = Within(rs, InRun(rs, run))
  BY Zenon DEF OfRun, Select, RestrictDomain, Restrict, Within, InRun

\* group_by_run gives every run its rows.
LEMMA GroupsAre ==
  ASSUME NEW rs
  PROVE  group_by_run(rs) = [run \in RunsOf(rs) |-> Within(rs, InRun(rs, run))]
  BY Zenon DEF group_by_run, Select, RestrictDomain, Restrict, Within, InRun, RunsOf

\* A part of a bag is a bag.
LEMMA WithinBag ==
  ASSUME NEW rs, Bag(rs), NEW T, T \subseteq DOMAIN rs
  PROVE  Bag(Within(rs, T)) /\ DOMAIN Within(rs, T) = T
<1>1. IsFiniteSet(T)
  BY FS_Subset DEF Bag
<1> QED
  BY <1>1 DEF Bag, Within

\* Weights in a part of a bag.
LEMMA WithinWeight ==
  ASSUME NEW rs, NEW T, NEW V, V \subseteq T
  PROVE  Weight(Within(rs, T), V) = Weight(rs, V)
<1>1. [x \in V |-> Within(rs, T)[x]] = [x \in V |-> rs[x]]
  BY DEF Within
<1> QED
  BY <1>1, Zenon DEF Weight

\* The invariant of the telemetry rows.
RowsInv == Bag(rows) /\ DOMAIN rows \subseteq Rows

\* RowsInv is inductive.
LEMMA RowsStep ==
  /\ Init => RowsInv
  /\ RowsInv /\ [Next]_vars => RowsInv'
<1>1. Init => RowsInv
  <2> SUFFICES ASSUME Init
               PROVE  RowsInv
    OBVIOUS
  <2>1. rows = <<>>
    BY DEF Init
  <2>2. DOMAIN rows = {} /\ rows = [x \in DOMAIN rows |-> rows[x]]
    BY <2>1
  <2> QED
    BY <2>2, FS_EmptySet DEF RowsInv, Bag
<1>2. ASSUME RowsInv, [Next]_vars
      PROVE  RowsInv'
  <2>1. ASSUME NEW r \in Rows, rows' = Added(rows, r)
        PROVE  RowsInv'
    <3> DEFINE S == DOMAIN rows \cup {r}
    <3>1. rows' = [x \in S |-> IF x \in DOMAIN rows THEN rows[x] + (IF x = r THEN 1 ELSE 0) ELSE 1]
      BY <2>1, Zenon DEF Added
    <3>2. DOMAIN rows' = S /\ rows' = [x \in DOMAIN rows' |-> rows'[x]]
      BY <3>1
    <3>3. IsFiniteSet(S) /\ S \subseteq Rows
      <4>1. IsFiniteSet(DOMAIN rows) /\ DOMAIN rows \subseteq Rows
        BY <1>2 DEF RowsInv, Bag
      <4>2. IsFiniteSet({r})
        BY FS_Singleton
      <4> QED
        BY <4>1, <4>2, FS_Union
    <3>4. \A x \in S : rows'[x] \in Nat /\ rows'[x] > 0
      BY <1>2, <3>1 DEF RowsInv, Bag
    <3> HIDE DEF S
    <3>5. Bag(rows')
      BY <3>2, <3>3, <3>4, Zenon DEF Bag
    <3> QED
      BY <3>2, <3>3, <3>5, Zenon DEF RowsInv
  <2>2. CASE UNCHANGED rows
    BY <1>2, <2>2 DEF RowsInv
  <2>3. ASSUME NEW r \in Produced, emit(r)
        PROVE  RowsInv'
    <3>1. r \in Rows
      BY EvaluationAssumption
    <3>2. host_row(r) \in Rows
      <4> DEFINE g == IF r.name = "alert_badge_reset" THEN None ELSE r.signal
      <4>1. host_row(r) = r \/ host_row(r) = [r EXCEPT !.symbol = None, !.ts = -1, !.signal = g]
        BY Zenon DEF host_row
      <4>2. None \in Values("symbol") /\ None \in Values("signal") /\ -1 \in Nat \cup {-1}
        BY DEF Values
      <4>3. r.signal \in Values("signal")
        BY <3>1 DEF Rows
      <4>4. g \in Values("signal")
        BY <4>2, <4>3
      <4> HIDE DEF g
      <4>5. [r EXCEPT !.symbol = None, !.ts = -1, !.signal = g] \in Rows
        BY <3>1, <4>2, <4>4 DEF Rows
      <4> QED
        BY <3>1, <4>1, <4>5
    <3> QED
      BY <2>1, <2>3, <3>2 DEF emit
  <2>4. ASSUME NEW r \in Foreign, left_by_others(r)
        PROVE  RowsInv'
    <3>1. r \in Rows
      BY EvaluationAssumption
    <3> QED
      BY <2>1, <2>4, <3>1 DEF left_by_others
  <2>5. CASE \E id \in FeedbackIds, run \in Runs, c \in FeedbackCommands : record_feedback(id, run, c)
    BY <2>2, <2>5 DEF record_feedback
  <2>6. CASE \E id \in FeedbackIds, g \in Signals : feedback_left_by_others(id, g)
    BY <2>2, <2>6 DEF feedback_left_by_others
  <2>7. CASE UNCHANGED vars
    BY <2>2, <2>7 DEF vars
  <2> QED
    BY <1>2, <2>3, <2>4, <2>5, <2>6, <2>7 DEF Next
<1> QED
  BY <1>1, <1>2

-----------------------------------------------------------------------------
(* The rate of alerts *)

\* The exposure of every run.
Own(rs, run) == Within(rs, InRun(rs, run))
ExposureOf(rs) == [run \in RunsOf(rs) |-> run_exposure(Own(rs, run))]

\* The metrics are those over the exposure of every run.
LEMMA MetricsOf ==
  ASSUME NEW rs
  PROVE  market_metrics(rs) = MetricsOver(rs, ExposureOf(rs))
<1> DEFINE G == group_by_run(rs)
           E(groups) == [run \in DOMAIN groups |-> run_exposure(groups[run])]
<1>1. \A a : (CHOOSE y \in {a} : TRUE) = a
  BY Zenon
<1>2. \A v : Once(v, run_exposure) = run_exposure(v)
  <2> SUFFICES ASSUME NEW v
               PROVE  Once(v, run_exposure) = run_exposure(v)
    OBVIOUS
  <2>1. {run_exposure(x) : x \in {v}} = {run_exposure(v)}
    BY Zenon
  <2>2. Once(v, run_exposure) = CHOOSE y \in {run_exposure(x) : x \in {v}} : TRUE
    BY Zenon DEF Once
  <2> QED
    BY <1>1, <2>1, <2>2, Zenon
<1>3. \A groups : [run \in DOMAIN groups |-> Once(groups[run], run_exposure)] = E(groups)
  BY <1>2, Zenon
<1>4. \A groups : Once([run \in DOMAIN groups |-> Once(groups[run], run_exposure)],
                       LAMBDA exposure : MetricsOver(rs, exposure))
                  = MetricsOver(rs, E(groups))
  <2> SUFFICES ASSUME NEW groups
               PROVE  Once([run \in DOMAIN groups |-> Once(groups[run], run_exposure)],
                           LAMBDA exposure : MetricsOver(rs, exposure))
                      = MetricsOver(rs, E(groups))
    OBVIOUS
  <2> DEFINE v == [run \in DOMAIN groups |-> Once(groups[run], run_exposure)]
  <2>1. v = E(groups)
    BY <1>3
  <2>2. {MetricsOver(rs, x) : x \in {v}} = {MetricsOver(rs, v)}
    BY Zenon
  <2>3. Once(v, LAMBDA exposure : MetricsOver(rs, exposure))
           = CHOOSE y \in {MetricsOver(rs, x) : x \in {v}} : TRUE
    BY Zenon DEF Once
  <2> HIDE DEF v, E
  <2>4. Once(v, LAMBDA exposure : MetricsOver(rs, exposure)) = MetricsOver(rs, v)
    BY <1>1, <2>2, <2>3, Zenon
  <2> QED
    BY <2>1, <2>4, Zenon DEF v
<1>5. market_metrics(rs) = MetricsOver(rs, E(G))
  <2> DEFINE F(groups) == Once([run \in DOMAIN groups |-> Once(groups[run], run_exposure)],
                               LAMBDA exposure : MetricsOver(rs, exposure))
  <2>1. market_metrics(rs) = CHOOSE y \in {F(x) : x \in {G}} : TRUE
    BY Zenon DEF market_metrics, Once
  <2>2. F(G) = MetricsOver(rs, E(G))
    BY <1>4
  <2> HIDE DEF F, G, E
  <2>3. {F(x) : x \in {G}} = {F(G)}
    BY Zenon
  <2> QED
    BY <1>1, <2>1, <2>2, <2>3, Zenon
<1>6. G = [run \in RunsOf(rs) |-> Own(rs, run)]
  BY GroupsAre, Zenon DEF Own
<1> HIDE DEF G
<1>7. E(G) = ExposureOf(rs)
  <2>1. DOMAIN G = RunsOf(rs) /\ \A run \in RunsOf(rs) : G[run] = Own(rs, run)
    BY <1>6
  <2> QED
    BY <2>1, Zenon DEF ExposureOf
<1> QED
  BY <1>5, <1>7, Zenon

\* Alerts that belong to no run; the runs no rate can be given for.
Orphans(rs) == {x \in DOMAIN rs : x.name = "alert_candidate" /\ x.run = None}
Unsupported(e) == {run \in DOMAIN e : e[run].scope = "unsupported"}
Insufficient(e) ==
    {run \in DOMAIN e \ Unsupported(e) : e[run].candidates > 0 /\ ~e[run].ok}
Observed(e) == SumOver([run \in DOMAIN e |-> e[run].observed])
Candidates(e) == SumOver([run \in DOMAIN e |-> e[run].candidates])
RateOf(rs, e) ==
    IF Unsupported(e) # {} THEN unavailable("unsupported_market_scope")
    ELSE IF Insufficient(e) # {} \/ Weight(rs, Orphans(rs)) > 0 \/ Observed(e) = 0
         THEN unavailable("insufficient_market_time_evidence")
    ELSE available_value(Candidates(e) + Weight(rs, Orphans(rs)), Observed(e))

\* The metrics, in these words.
LEMMA MetricsAre ==
  ASSUME NEW rs, NEW e
  PROVE  /\ MetricsOver(rs, e).rate = RateOf(rs, e)
         /\ MetricsOver(rs, e).observed = IF RateOf(rs, e).available THEN Observed(e) ELSE 0
         /\ MetricsOver(rs, e).per_run = e
<1>1. CountIf(rs, LAMBDA r : r.name = "alert_candidate" /\ r.run = None) = Weight(rs, Orphans(rs))
  <2> DEFINE T == {x \in DOMAIN rs : x.name = "alert_candidate" /\ x.run = None}
             f == [x \in T |-> rs[x]]
  <2>1. CountIf(rs, LAMBDA r : r.name = "alert_candidate" /\ r.run = None)
           = MapThenSumSet(LAMBDA r : f[r], DOMAIN f)
    BY Zenon DEF CountIf, Size, Select, RestrictDomain, Restrict
  <2> QED
    BY <2>1, Zenon DEF Weight, SumOver, Orphans
<1> DEFINE orphans == CountIf(rs, LAMBDA r : r.name = "alert_candidate" /\ r.run = None)
           rate == IF Unsupported(e) # {} THEN unavailable("unsupported_market_scope")
                   ELSE IF Insufficient(e) # {} \/ orphans > 0 \/ Observed(e) = 0
                        THEN unavailable("insufficient_market_time_evidence")
                   ELSE available_value(Candidates(e) + orphans, Observed(e))
<1>2. MetricsOver(rs, e) =
         [rate |-> rate, observed |-> IF rate.available THEN Observed(e) ELSE 0,
          per_run |-> e, unsupported |-> Unsupported(e), insufficient |-> Insufficient(e)]
  BY Zenon DEF MetricsOver, Unsupported, Insufficient, Observed, Candidates
<1>3. rate = RateOf(rs, e)
  <2>1. orphans = Weight(rs, Orphans(rs))
    BY <1>1
  <2> HIDE DEF orphans
  <2> QED
    BY <2>1, Zenon DEF RateOf
<1> HIDE DEF rate
<1> QED
  BY <1>2, <1>3

\* A rate is given only when every alert is in a run that can be measured.
LEMMA RateGiven ==
  ASSUME NEW rs, NEW e
  PROVE  /\ RateOf(rs, e).available \in BOOLEAN
         /\ RateOf(rs, e).available =>
            /\ Unsupported(e) = {} /\ Insufficient(e) = {}
            /\ ~(Weight(rs, Orphans(rs)) > 0) /\ Observed(e) # 0
            /\ RateOf(rs, e).value = <<Candidates(e) + Weight(rs, Orphans(rs)), Observed(e)>>
<1> DEFINE a == Candidates(e) + Weight(rs, Orphans(rs))
           b == Observed(e)
           p == Unsupported(e) # {}
           q == Insufficient(e) # {} \/ Weight(rs, Orphans(rs)) > 0 \/ Observed(e) = 0
<1>1. /\ p => RateOf(rs, e) = unavailable("unsupported_market_scope")
      /\ ~p /\ q => RateOf(rs, e) = unavailable("insufficient_market_time_evidence")
      /\ ~p /\ ~q => RateOf(rs, e) = available_value(a, b)
  BY Zenon DEF RateOf
<1>2. ~p /\ ~q => Unsupported(e) = {} /\ Insufficient(e) = {}
                  /\ ~(Weight(rs, Orphans(rs)) > 0) /\ Observed(e) # 0
  OBVIOUS
<1> HIDE DEF a, b, p, q
<1>3. /\ \A w : unavailable(w).available = FALSE
      /\ available_value(a, b).available = TRUE /\ available_value(a, b).value = <<a, b>>
  BY DEF unavailable, available_value
<1>4. /\ RateOf(rs, e).available \in BOOLEAN
      /\ RateOf(rs, e).available => ~p /\ ~q /\ RateOf(rs, e).value = <<a, b>>
  BY <1>1, <1>3
<1> QED
  BY <1>2, <1>4, Zenon DEF a, b

\* The half hours of trading that the stamps of a bag span.
HoursOf(rs) ==
    IF Cardinality(Stamps(rs)) < 2 THEN {} ELSE HoursIn(Min(Stamps(rs)), Max(Stamps(rs)))

\* Rows whose times are absent or numbers.
Timed(rs) == \A x \in DOMAIN rs : x.ts \in Nat \cup {-1}

\* The stamps of a bag are finitely many naturals.
LEMMA StampsFinite ==
  ASSUME NEW rs, Bag(rs), Timed(rs)
  PROVE  IsFiniteSet(Stamps(rs)) /\ Stamps(rs) \subseteq Nat /\ Cardinality(Stamps(rs)) \in Nat
<1> DEFINE D == DOMAIN rs
           T == {r.ts : r \in D}
           f == [r \in D |-> r.ts]
<1>1. IsFiniteSet(D)
  BY DEF Bag
<1>2. f \in [D -> T] /\ \A t \in T : \E r \in D : f[r] = t
  OBVIOUS
<1>3. Stamps(rs) \subseteq T /\ Stamps(rs) \subseteq Nat
  BY DEF Stamps, Timed
<1> HIDE DEF f, D, T
<1>4. f \in Surjection(D, T)
  BY <1>2, Fun_IsSurj
<1>5. IsFiniteSet(T)
  BY <1>1, <1>4, FS_Surjection
<1> QED
  BY <1>3, <1>5, FS_Subset, FS_CardinalityType

\* The half hours a bag spans are finitely many.
LEMMA HoursFinite ==
  ASSUME NEW rs, Bag(rs), Timed(rs)
  PROVE  /\ IsFiniteSet(HoursOf(rs)) /\ Cardinality(HoursOf(rs)) \in Nat
         /\ Cardinality(Stamps(rs)) >= 2 =>
            /\ HoursOf(rs) = HoursIn(Min(Stamps(rs)), Max(Stamps(rs)))
            /\ cash_session_overlap(Min(Stamps(rs)), Max(Stamps(rs))) = Cardinality(HoursOf(rs))
         /\ ~(Cardinality(Stamps(rs)) >= 2) => HoursOf(rs) = {}
<1> DEFINE S == Stamps(rs)
           n == Cardinality(S)
<1>1. IsFiniteSet(S) /\ S \subseteq Nat /\ n \in Nat
  BY StampsFinite
<1>2. HoursOf(rs) = IF n < 2 THEN {} ELSE HoursIn(Min(S), Max(S))
  BY Zenon DEF HoursOf
<1>3. CASE ~(n >= 2)
  <2>1. HoursOf(rs) = {}
    BY <1>1, <1>2, <1>3
  <2> QED
    BY <1>3, <2>1, FS_EmptySet
<1>4. CASE n >= 2
  <2>1. S # {}
    <3> SUFFICES ASSUME S = {}
                 PROVE  FALSE
      OBVIOUS
    <3>1. n = 0
      BY FS_EmptySet, Zenon
    <3> QED
      BY <1>4, <3>1
  <2>2. Min(S) \in Nat /\ Max(S) \in Nat /\ Min(S) <= Max(S)
    <3> HIDE DEF S
    <3> QED
      BY <1>1, <2>1, Bounds
  <2>3. HoursOf(rs) = HoursIn(Min(S), Max(S))
    <3> HIDE DEF n
    <3> QED
      BY <1>1, <1>2, <1>4
  <2> HIDE DEF S
  <2>4. /\ cash_session_overlap(Min(S), Max(S)) = Cardinality(HoursIn(Min(S), Max(S)))
        /\ IsFiniteSet(HoursIn(Min(S), Max(S))) /\ Cardinality(HoursIn(Min(S), Max(S))) \in Nat
    BY <2>2, OverlapCounted
  <2> QED
    BY <1>4, <2>3, <2>4, Zenon DEF S
<1> QED
  BY <1>3, <1>4

\* The trading time a run is credited with.
TimeOf(rs) == IF market_scope(rs) = "unsupported" THEN 0 ELSE Cardinality(HoursOf(rs))

\* The exposure of a run, in these words.
LEMMA ExposureIs ==
  ASSUME NEW rs, Bag(rs), Timed(rs)
  PROVE  /\ run_exposure(rs).scope = market_scope(rs)
         /\ run_exposure(rs).observed = TimeOf(rs) /\ TimeOf(rs) \in Nat
         /\ run_exposure(rs).ok = (TimeOf(rs) > 0)
         /\ run_exposure(rs).candidates = Weight(rs, OfName(rs, "alert_candidate"))
         /\ run_exposure(rs).funnel = funnel(rs)
         /\ run_exposure(rs).rate =
               IF market_scope(rs) = "unsupported" THEN unavailable("unsupported_market_scope")
               ELSE IF TimeOf(rs) = 0 THEN unavailable("insufficient_market_time_evidence")
               ELSE available_value(Weight(rs, OfName(rs, "alert_candidate")), TimeOf(rs))
<1> DEFINE scope == market_scope(rs)
           few == Cardinality(Stamps(rs)) < 2
           c == Named(rs, "alert_candidate")
           o == IF scope = "unsupported" \/ few THEN 0
                ELSE cash_session_overlap(Min(Stamps(rs)), Max(Stamps(rs)))
           rate(s, n, m) == IF s = "unsupported" THEN unavailable("unsupported_market_scope")
                            ELSE IF m = 0 THEN unavailable("insufficient_market_time_evidence")
                            ELSE available_value(n, m)
<1>1. run_exposure(rs) = [observed |-> o, ok |-> o > 0, scope |-> scope, candidates |-> c,
                          funnel |-> funnel(rs), rate |-> rate(scope, c, o)]
  BY Zenon DEF run_exposure
<1>2. c = Weight(rs, OfName(rs, "alert_candidate"))
  BY NamedIs
<1>3. o = TimeOf(rs) /\ TimeOf(rs) \in Nat
  <2> DEFINE n == Cardinality(Stamps(rs))
             h == Cardinality(HoursOf(rs))
             w == cash_session_overlap(Min(Stamps(rs)), Max(Stamps(rs)))
  <2>1. n \in Nat /\ h \in Nat
    BY StampsFinite, HoursFinite
  <2>2. n >= 2 => w = h
    BY HoursFinite
  <2>3. ~(n >= 2) => h = 0
    BY HoursFinite, FS_EmptySet
  <2>4. o = (IF scope = "unsupported" \/ n < 2 THEN 0 ELSE w)
        /\ TimeOf(rs) = (IF scope = "unsupported" THEN 0 ELSE h)
    BY Zenon DEF TimeOf
  <2> HIDE DEF n, h, w, o, scope
  <2>5. CASE scope = "unsupported"
    <3>1. o = 0 /\ TimeOf(rs) = 0
      BY <2>4, <2>5, Zenon
    <3> QED
      BY <3>1
  <2>6. CASE scope # "unsupported" /\ n < 2
    <3>1. o = 0 /\ TimeOf(rs) = h
      BY <2>4, <2>6, Zenon
    <3>2. h = 0
      BY <2>1, <2>3, <2>6
    <3> QED
      BY <3>1, <3>2
  <2>7. CASE scope # "unsupported" /\ ~(n < 2)
    <3>1. o = w /\ TimeOf(rs) = h
      BY <2>4, <2>7, Zenon
    <3>2. w = h
      BY <2>1, <2>2, <2>7
    <3> QED
      BY <2>1, <3>1, <3>2
  <2> QED
    BY <2>5, <2>6, <2>7
<1> HIDE DEF o, c, rate, scope
<1>4. /\ run_exposure(rs).scope = scope /\ run_exposure(rs).observed = o
      /\ run_exposure(rs).ok = (o > 0) /\ run_exposure(rs).candidates = c
      /\ run_exposure(rs).funnel = funnel(rs) /\ run_exposure(rs).rate = rate(scope, c, o)
  BY <1>1
<1> QED
  BY <1>2, <1>3, <1>4, Zenon DEF scope, rate

\* What market_scope says.
LEMMA ScopeIs ==
  ASSUME NEW rs, market_scope(rs) # "unsupported", NEW r \in DOMAIN rs, r.ts # -1
  PROVE  /\ \E x \in DOMAIN rs : x.ts # -1 /\ x.symbol \in AShares
         /\ r.symbol \in AShares \cup {None}
<1>1. r.ts \in Stamps(rs)
  BY DEF Stamps
<1>2. StampedSymbols(rs) # {} /\ StampedSymbols(rs) \subseteq AShares
  BY <1>1 DEF market_scope
<1>3. PICK s \in StampedSymbols(rs) : s \in AShares
  BY <1>2
<1>4. \E x \in DOMAIN rs : x.ts # -1 /\ x.symbol = s
  BY <1>3 DEF StampedSymbols
<1>5. r.symbol = None \/ r.symbol \in StampedSymbols(rs)
  BY DEF StampedSymbols
<1> QED
  BY <1>2, <1>3, <1>4, <1>5

\* The runs of a bag, and the exposure of each.
LEMMA RunsFinite ==
  ASSUME NEW rs, Bag(rs)
  PROVE  IsFiniteSet(RunsOf(rs))
<1> DEFINE D == DOMAIN rs
           T == {r.run : r \in D}
           f == [r \in D |-> r.run]
<1>1. IsFiniteSet(D)
  BY DEF Bag
<1>2. f \in [D -> T] /\ \A t \in T : \E r \in D : f[r] = t
  OBVIOUS
<1>3. RunsOf(rs) \subseteq T
  BY DEF RunsOf
<1> HIDE DEF f, D, T
<1>4. f \in Surjection(D, T)
  BY <1>2, Fun_IsSurj
<1>5. IsFiniteSet(T)
  BY <1>1, <1>4, FS_Surjection
<1> QED
  BY <1>3, <1>5, FS_Subset

\* The rows of a run are a bag of timed rows.
LEMMA OwnIs ==
  ASSUME NEW rs, Bag(rs), Timed(rs), NEW run
  PROVE  /\ Bag(Own(rs, run)) /\ Timed(Own(rs, run)) /\ DOMAIN Own(rs, run) = InRun(rs, run)
         /\ InRun(rs, run) \subseteq DOMAIN rs
<1>1. InRun(rs, run) \subseteq DOMAIN rs
  BY DEF InRun
<1>2. Bag(Own(rs, run)) /\ DOMAIN Own(rs, run) = InRun(rs, run)
  BY <1>1, WithinBag DEF Own
<1> QED
  BY <1>1, <1>2 DEF Timed

\* Rows of a name without a run.
Runless(rs, n) == {x \in OfName(rs, n) : x.run = None}

\* The rows of a name in the runs and those without a run are all rows of the name.
LEMMA NamesCounted ==
  ASSUME NEW rs, Bag(rs), Timed(rs), NEW n
  PROVE  /\ SumOver([run \in RunsOf(rs) |-> Named(Own(rs, run), n)]) + Weight(rs, Runless(rs, n))
               = Weight(rs, OfName(rs, n))
         /\ SumOver([run \in RunsOf(rs) |-> Named(Own(rs, run), n)]) \in Nat
<1> DEFINE D == RunsOf(rs)
           A == OfName(rs, n)
           N == Runless(rs, n)
           f == [run \in D |-> Named(Own(rs, run), n)]
           B == [run \in D |-> {x \in A : x.run = run}]
<1>1. IsFiniteSet(D)
  BY RunsFinite
<1>2. A \subseteq DOMAIN rs /\ \A run \in D : B[run] \subseteq DOMAIN rs
  BY DEF OfName
<1>3. \A run \in D : f[run] = Weight(rs, B[run])
  <2> SUFFICES ASSUME NEW run \in D
               PROVE  f[run] = Weight(rs, B[run])
    OBVIOUS
  <2> DEFINE o == Own(rs, run)
             T == OfName(o, n)
  <2>1. Bag(o) /\ Timed(o) /\ DOMAIN o = InRun(rs, run)
    BY OwnIs
  <2>2. T = B[run] /\ T \subseteq InRun(rs, run)
    BY <2>1 DEF OfName, InRun
  <2>3. f[run] = Weight(o, T)
    BY NamedIs
  <2> HIDE DEF T, B, f
  <2>4. Weight(o, T) = Weight(rs, T)
    BY <2>2, WithinWeight DEF o, Own
  <2> QED
    BY <2>2, <2>3, <2>4, Zenon
<1>4. Disjoint(B, D)
  BY DEF Disjoint
<1>5. Joint(B, D) \cup N = A /\ Joint(B, D) \cap N = {}
      /\ N \subseteq DOMAIN rs /\ Joint(B, D) \subseteq DOMAIN rs
  <2>1. \A x : x \in Joint(B, D) <=> x \in A /\ x.run \in D
    BY DEF Joint
  <2>2. \A x : x \in N <=> x \in A /\ x.run = None
    BY DEF Runless
  <2>3. \A x \in A : x.run \in D <=> x.run # None
    BY DEF OfName, RunsOf
  <2> HIDE DEF A, D, B, N
  <2> QED
    BY <1>2, <2>1, <2>2, <2>3
<1>6. DOMAIN f = D
  OBVIOUS
<1> HIDE DEF D, A, N, f, B
<1>7. SumOver(f) = Weight(rs, Joint(B, D))
  BY <1>1, <1>2, <1>3, <1>4, <1>6, WeightParts
<1>8. Weight(rs, Joint(B, D) \cup N) = Weight(rs, Joint(B, D)) + Weight(rs, N)
  BY <1>5, WeightSplit
<1>9. Weight(rs, Joint(B, D)) \in Nat
  BY <1>5, WeightNat
<1> QED
  BY <1>5, <1>7, <1>8, <1>9, Zenon DEF A, D, N, f

\* The alerts of the runs and those without one are all alerts.
LEMMA AlertsCounted ==
  ASSUME NEW rs, Bag(rs), Timed(rs)
  PROVE  /\ Candidates(ExposureOf(rs)) + Weight(rs, Orphans(rs))
               = Weight(rs, OfName(rs, "alert_candidate"))
         /\ Candidates(ExposureOf(rs)) \in Nat
<1> DEFINE D == RunsOf(rs)
           e == ExposureOf(rs)
<1>1. DOMAIN e = D /\ \A run \in D : e[run] = run_exposure(Own(rs, run))
  BY DEF ExposureOf
<1>2. \A run \in D : e[run].candidates = Named(Own(rs, run), "alert_candidate")
  BY <1>1, OwnIs, ExposureIs, NamedIs
<1>3. Candidates(e) = SumOver([run \in D |-> Named(Own(rs, run), "alert_candidate")])
  BY <1>1, <1>2, Zenon DEF Candidates
<1>4. Orphans(rs) = Runless(rs, "alert_candidate")
  BY DEF Orphans, Runless, OfName
<1> QED
  BY <1>3, <1>4, NamesCounted, Zenon

\* The half hours of trading of the runs, run by run.
HoursOfRun(rs, run) == {run} \X HoursOf(Own(rs, run))
RunHours(rs) == UNION {HoursOfRun(rs, run) : run \in RunsOf(rs)}

\* The half hours of the runs are finitely many.
LEMMA RunHoursFinite ==
  ASSUME NEW rs, Bag(rs), Timed(rs)
  PROVE  /\ IsFiniteSet(RunHours(rs)) /\ Cardinality(RunHours(rs)) \in Nat
         /\ \A run \in RunsOf(rs) :
               Cardinality(HoursOfRun(rs, run)) = Cardinality(HoursOf(Own(rs, run)))
         /\ SumOver([run \in RunsOf(rs) |-> Cardinality(HoursOf(Own(rs, run)))])
               = Cardinality(RunHours(rs))
<1> DEFINE D == RunsOf(rs)
           B == [run \in D |-> HoursOfRun(rs, run)]
           f == [run \in D |-> Cardinality(HoursOf(Own(rs, run)))]
           F == {HoursOfRun(rs, run) : run \in D}
<1>1. IsFiniteSet(D)
  BY RunsFinite
<1>2. ASSUME NEW run \in D
      PROVE  IsFiniteSet(HoursOfRun(rs, run))
             /\ Cardinality(HoursOfRun(rs, run)) = Cardinality(HoursOf(Own(rs, run)))
  <2> DEFINE h == HoursOf(Own(rs, run))
  <2>1. Bag(Own(rs, run)) /\ Timed(Own(rs, run))
    BY OwnIs
  <2>2. IsFiniteSet(h) /\ Cardinality(h) \in Nat
    BY <2>1, HoursFinite
  <2> HIDE DEF h
  <2>3. IsFiniteSet({run}) /\ Cardinality({run}) = 1
    BY FS_Singleton
  <2>4. IsFiniteSet({run} \X h) /\ Cardinality({run} \X h) = Cardinality({run}) * Cardinality(h)
    BY <2>2, <2>3, FS_Product
  <2>5. Cardinality({run}) * Cardinality(h) = Cardinality(h)
    BY <2>2, <2>3
  <2> QED
    BY <2>4, <2>5, Zenon DEF HoursOfRun, h
<1>3. B \in [D -> F] /\ \A b \in F : \E run \in D : B[run] = b
  OBVIOUS
<1>4. \A b \in F : IsFiniteSet(b)
  BY <1>2
<1>5. RunHours(rs) = UNION F
  BY Zenon DEF RunHours
<1>6. RunHours(rs) = Joint(B, D)
  BY Zenon DEF RunHours, Joint
<1>7. Disjoint(B, D)
  BY DEF Disjoint, HoursOfRun
<1>8. \A run \in D : f[run] = Cardinality(B[run])
  BY <1>2
<1>9. DOMAIN f = D
  OBVIOUS
<1> HIDE DEF F, B, D, f
<1>10. B \in Surjection(D, F)
  BY <1>3, Fun_IsSurj
<1>11. IsFiniteSet(F)
  BY <1>1, <1>10, FS_Surjection
<1>12. IsFiniteSet(UNION F)
  BY <1>4, <1>11, FS_UNION
<1>13. IsFiniteSet(RunHours(rs)) /\ Cardinality(RunHours(rs)) \in Nat
  BY <1>5, <1>12, FS_CardinalityType
<1>14. \A run \in D : B[run] \subseteq RunHours(rs)
  BY <1>6 DEF Joint
<1>15. SumOver(f) = Cardinality(Joint(B, D))
  BY <1>1, <1>7, <1>8, <1>9, <1>13, <1>14, SumSizes
<1> QED
  BY <1>2, <1>6, <1>13, <1>15, Zenon DEF f, D

\* The runs are credited with no more than these, and with all of them when no run is
\* unsupported.
LEMMA ObservedIs ==
  ASSUME NEW rs, Bag(rs), Timed(rs)
  PROVE  /\ Observed(ExposureOf(rs)) \in Nat
         /\ Observed(ExposureOf(rs)) <= Cardinality(RunHours(rs))
         /\ Unsupported(ExposureOf(rs)) = {} =>
               Observed(ExposureOf(rs)) = Cardinality(RunHours(rs))
<1> DEFINE D == RunsOf(rs)
           e == ExposureOf(rs)
           g == [run \in D |-> e[run].observed]
           f == [run \in D |-> Cardinality(HoursOf(Own(rs, run)))]
<1>1. IsFiniteSet(D)
  BY RunsFinite
<1>2. DOMAIN e = D /\ \A run \in D : e[run] = run_exposure(Own(rs, run))
  BY DEF ExposureOf
<1>3. Observed(e) = SumOver(g)
  BY <1>2, Zenon DEF Observed
<1>4. ASSUME NEW run \in D
      PROVE  /\ g[run] \in Nat /\ f[run] \in Nat /\ g[run] <= f[run]
             /\ run \notin Unsupported(e) => g[run] = f[run]
  <2> DEFINE o == Own(rs, run)
             h == Cardinality(HoursOf(o))
  <2>1. Bag(o) /\ Timed(o)
    BY OwnIs
  <2>2. h \in Nat
    BY <2>1, HoursFinite
  <2>3. e[run].scope = market_scope(o) /\ e[run].observed = TimeOf(o) /\ TimeOf(o) \in Nat
    BY <1>2, <2>1, ExposureIs
  <2>4. TimeOf(o) = IF market_scope(o) = "unsupported" THEN 0 ELSE h
    BY Zenon DEF TimeOf
  <2>5. g[run] = TimeOf(o) /\ f[run] = h
    BY <2>3
  <2>6. run \notin Unsupported(e) => market_scope(o) # "unsupported"
    BY <1>2, <2>3 DEF Unsupported
  <2> HIDE DEF h, o, g, f, e
  <2> QED
    BY <2>2, <2>3, <2>4, <2>5, <2>6
<1>5. SumOver(f) = Cardinality(RunHours(rs))
  BY RunHoursFinite
<1>6. DOMAIN f = D /\ DOMAIN g = D
  OBVIOUS
<1>7. f = [run \in D |-> f[run]] /\ g = [run \in D |-> g[run]]
  OBVIOUS
<1> HIDE DEF f, g, D, e
<1>8. SumOver(g) \in Nat
  BY <1>1, <1>4, <1>6, SumNat
<1>9. SumOver(g) <= SumOver(f)
  BY <1>1, <1>4, <1>6, SumLess
<1>10. ASSUME Unsupported(e) = {}
       PROVE  SumOver(g) = SumOver(f)
  <2>1. \A run \in D : g[run] = f[run]
    BY <1>4, <1>10
  <2>2. g = f
    BY <1>7, <2>1
  <2> QED
    BY <2>2
<1> QED
  BY <1>3, <1>5, <1>8, <1>9, <1>10 DEF e

\* The rows of a date.
DayRows(rs, date) == {r \in DOMAIN rs : r.ts # -1 /\ session_id(r.ts) = date}
Day(rs, date) == Within(rs, DayRows(rs, date))
Dates(rs) == {session_id(t) : t \in Stamps(rs)}

\* The dates of the report, and the trading time of each.
LEMMA DatesAre ==
  ASSUME NEW rs
  PROVE  /\ DOMAIN per_market_date(rs) = Dates(rs)
         /\ \A d \in Dates(rs) :
               per_market_date(rs)[d].observed = market_metrics(Day(rs, d)).observed
<1> DEFINE L(day, m) == [funnel |-> funnel(day), observed |-> m.observed, rate |-> m.rate]
           I(day) == Once(market_metrics(day), LAMBDA metrics : L(day, metrics))
<1>1. \A a : (CHOOSE y \in {a} : TRUE) = a
  BY Zenon
<1>2. \A day : I(day) = L(day, market_metrics(day))
  <2> SUFFICES ASSUME NEW day
               PROVE  I(day) = L(day, market_metrics(day))
    OBVIOUS
  <2> DEFINE v == market_metrics(day)
  <2>1. I(day) = CHOOSE y \in {L(day, x) : x \in {v}} : TRUE
    BY Zenon DEF Once
  <2> HIDE DEF v, L
  <2>2. {L(day, x) : x \in {v}} = {L(day, v)}
    BY Zenon
  <2>3. (CHOOSE y \in {L(day, x) : x \in {v}} : TRUE) = L(day, v)
    BY <1>1, <2>2, Zenon
  <2> QED
    BY <2>1, <2>3, Zenon DEF v
<1>3. per_market_date(rs) = [date \in Dates(rs) |->
                               CHOOSE y \in {I(x) : x \in {Day(rs, date)}} : TRUE]
  BY Zenon DEF per_market_date, Dates, Day, DayRows, Within, Select, RestrictDomain, Restrict, Once
<1> HIDE DEF I
<1>4. \A date : (CHOOSE y \in {I(x) : x \in {Day(rs, date)}} : TRUE) = I(Day(rs, date))
  <2> SUFFICES ASSUME NEW date
               PROVE  (CHOOSE y \in {I(x) : x \in {Day(rs, date)}} : TRUE) = I(Day(rs, date))
    OBVIOUS
  <2>1. {I(x) : x \in {Day(rs, date)}} = {I(Day(rs, date))}
    BY Zenon
  <2> QED
    BY <1>1, <2>1, Zenon
<1>5. per_market_date(rs) = [date \in Dates(rs) |-> I(Day(rs, date))]
  BY <1>3, <1>4, Zenon
<1>6. \A day, m : L(day, m).observed = m.observed
  OBVIOUS
<1> HIDE DEF L
<1>7. DOMAIN per_market_date(rs) = Dates(rs)
      /\ \A d \in Dates(rs) : per_market_date(rs)[d] = I(Day(rs, d))
  BY <1>5
<1> QED
  BY <1>2, <1>6, <1>7, Zenon

\* The rows of a date are rows of the log.
LEMMA DayIsBag ==
  ASSUME NEW rs, Bag(rs), Timed(rs), NEW date
  PROVE  /\ Bag(Day(rs, date)) /\ Timed(Day(rs, date)) /\ DOMAIN Day(rs, date) = DayRows(rs, date)
         /\ DayRows(rs, date) \subseteq DOMAIN rs
<1>1. DayRows(rs, date) \subseteq DOMAIN rs
  BY DEF DayRows
<1>2. Bag(Day(rs, date)) /\ DOMAIN Day(rs, date) = DayRows(rs, date)
  BY <1>1, WithinBag DEF Day
<1> QED
  BY <1>1, <1>2 DEF Timed

\* More stamps span more trading time; stamps of one date span trading time of that date.
LEMMA HoursGrow ==
  ASSUME NEW a, Bag(a), Timed(a), NEW b, Bag(b), Timed(b), Stamps(a) \subseteq Stamps(b)
  PROVE  /\ HoursOf(a) \subseteq HoursOf(b)
         /\ \A t \in HoursOf(a) : \E x, y \in Stamps(a) : t \in x..y
<1> DEFINE S == Stamps(a)
           T == Stamps(b)
           n == Cardinality(S)
           m == Cardinality(T)
<1>1. IsFiniteSet(S) /\ S \subseteq Nat /\ n \in Nat /\ IsFiniteSet(T) /\ T \subseteq Nat /\ m \in Nat
  BY StampsFinite
<1>2. n <= m
  BY <1>1, FS_Subset
<1>3. CASE ~(n >= 2)
  <2>1. HoursOf(a) = {}
    BY <1>3, HoursFinite
  <2> QED
    BY <2>1
<1>4. CASE n >= 2
  <2>1. m >= 2
    <3> HIDE DEF n, m
    <3> QED
      BY <1>1, <1>2, <1>4
  <2>2. HoursOf(a) = HoursIn(Min(S), Max(S)) /\ HoursOf(b) = HoursIn(Min(T), Max(T))
    BY <1>4, <2>1, HoursFinite
  <2>3. S # {}
    <3> SUFFICES ASSUME S = {}
                 PROVE  FALSE
      OBVIOUS
    <3>1. n = 0
      BY FS_EmptySet, Zenon
    <3> QED
      BY <1>4, <3>1
  <2>4. S \subseteq T
    OBVIOUS
  <2> HIDE DEF S, T, n, m
  <2>5. /\ Min(S) \in S /\ Max(S) \in S /\ Min(S) \in Nat /\ Max(S) \in Nat
    BY <1>1, <2>3, Bounds
  <2>6. /\ Min(T) \in Nat /\ Max(T) \in Nat /\ \A x \in T : Min(T) <= x /\ x <= Max(T)
    BY <1>1, <2>3, <2>4, Bounds
  <2>7. Min(T) <= Min(S) /\ Max(S) <= Max(T)
    BY <2>4, <2>5, <2>6
  <2>8. HoursIn(Min(S), Max(S)) \subseteq HoursIn(Min(T), Max(T))
    BY <2>5, <2>6, <2>7 DEF HoursIn
  <2>9. \A t \in HoursIn(Min(S), Max(S)) : t \in Min(S)..Max(S)
    BY <2>5 DEF HoursIn
  <2> QED
    BY <2>2, <2>5, <2>8, <2>9 DEF S
<1> QED
  BY <1>3, <1>4

\* The trading time of a date is part of that of the log, and of no other date.
LEMMA DayHours ==
  ASSUME NEW rs, Bag(rs), Timed(rs), NEW date
  PROVE  /\ RunHours(Day(rs, date)) \subseteq RunHours(rs)
         /\ \A p \in RunHours(Day(rs, date)) : session_id(p[2]) = date
<1> DEFINE day == Day(rs, date)
<1>1. Bag(day) /\ Timed(day) /\ DOMAIN day = DayRows(rs, date)
  BY DayIsBag
<1>2. \A r \in DOMAIN day : r \in DOMAIN rs /\ session_id(r.ts) = date
  BY <1>1 DEF DayRows
<1> HIDE DEF day
<1>3. ASSUME NEW p \in RunHours(day)
      PROVE  p \in RunHours(rs) /\ session_id(p[2]) = date
  <2>1. PICK run \in RunsOf(day) : p \in HoursOfRun(day, run)
    BY <1>3 DEF RunHours
  <2> DEFINE a == Own(day, run)
             b == Own(rs, run)
  <2>2. Bag(a) /\ Timed(a) /\ DOMAIN a = InRun(day, run)
    BY <1>1, OwnIs
  <2>3. Bag(b) /\ Timed(b) /\ DOMAIN b = InRun(rs, run)
    BY OwnIs
  <2>4. DOMAIN a \subseteq DOMAIN b /\ \A r \in DOMAIN a : session_id(r.ts) = date
    BY <1>2, <2>2, <2>3 DEF InRun
  <2>5. run \in RunsOf(rs)
    BY <1>2 DEF RunsOf
  <2>6. PICK t \in HoursOf(a) : p = <<run, t>>
    BY <2>1 DEF HoursOfRun
  <2> HIDE DEF a, b
  <2>7. Stamps(a) \subseteq Stamps(b) /\ \A x \in Stamps(a) : session_id(x) = date
    BY <2>4 DEF Stamps
  <2>8. t \in HoursOf(b) /\ \E x, y \in Stamps(a) : t \in x..y
    BY <2>2, <2>3, <2>6, <2>7, HoursGrow
  <2>9. PICK x \in Stamps(a), y \in Stamps(a) : t \in x..y
    BY <2>8
  <2>10. x \in Nat /\ y \in Nat /\ t \in Nat /\ x <= t /\ t <= y
    <3>1. Stamps(a) \subseteq Nat
      BY <2>2, StampsFinite
    <3> QED
      BY <2>9, <3>1
  <2>11. session_id(x) <= session_id(t) /\ session_id(t) <= session_id(y) /\ session_id(t) \in Nat
    BY <2>10, DayOrder, DayOf
  <2>12. session_id(x) = date /\ session_id(y) = date /\ session_id(x) \in Nat
    BY <2>7, <2>10, DayOf
  <2>13. session_id(t) = date
    BY <2>11, <2>12
  <2>14. p \in HoursOfRun(rs, run)
    BY <2>6, <2>8 DEF HoursOfRun, b
  <2>15. p \in RunHours(rs)
    BY <2>5, <2>14 DEF RunHours
  <2>16. p[2] = t
    BY <2>6
  <2> QED
    BY <2>13, <2>15, <2>16
<1> QED
  BY <1>3 DEF day

\* The dates claim no more trading time than the runs span.
LEMMA DatesClaim ==
  ASSUME NEW rs, Bag(rs), Timed(rs)
  PROVE  SumOver([d \in DOMAIN per_market_date(rs) |-> per_market_date(rs)[d].observed])
            <= Cardinality(RunHours(rs))
<1> DEFINE D == Dates(rs)
           f == [d \in D |-> market_metrics(Day(rs, d)).observed]
           B == [d \in D |-> RunHours(Day(rs, d))]
           g == [d \in D |-> Cardinality(RunHours(Day(rs, d)))]
           s == [t \in Stamps(rs) |-> session_id(t)]
<1>1. [d \in DOMAIN per_market_date(rs) |-> per_market_date(rs)[d].observed] = f
  BY DatesAre, Zenon
<1>2. IsFiniteSet(D)
  <2>1. s \in [Stamps(rs) -> D] /\ \A d \in D : \E t \in Stamps(rs) : s[t] = d
    BY DEF Dates
  <2>2. IsFiniteSet(Stamps(rs))
    BY StampsFinite
  <2> HIDE DEF D, s
  <2>3. s \in Surjection(Stamps(rs), D)
    BY <2>1, Fun_IsSurj
  <2> QED
    BY <2>2, <2>3, FS_Surjection
<1>3. ASSUME NEW d \in D
      PROVE  /\ B[d] \subseteq RunHours(rs) /\ g[d] = Cardinality(B[d])
             /\ f[d] \in Int /\ g[d] \in Int /\ f[d] <= g[d]
  <2> DEFINE day == Day(rs, d)
             e == ExposureOf(day)
             c == Cardinality(RunHours(day))
  <2>1. Bag(day) /\ Timed(day)
    BY DayIsBag
  <2>2. B[d] = RunHours(day) /\ g[d] = c /\ f[d] = market_metrics(day).observed
    OBVIOUS
  <2>3. RunHours(day) \subseteq RunHours(rs)
    BY DayHours
  <2> HIDE DEF day, f, g, B
  <2>4. c \in Nat
    BY <2>1, RunHoursFinite
  <2>5. Observed(e) \in Nat /\ Observed(e) <= c
    BY <2>1, ObservedIs
  <2>6. market_metrics(day).observed = IF RateOf(day, e).available THEN Observed(e) ELSE 0
    BY MetricsOf, MetricsAre
  <2>7. f[d] = Observed(e) \/ f[d] = 0
    BY <2>2, <2>6
  <2> HIDE DEF e, c
  <2> QED
    BY <2>2, <2>3, <2>4, <2>5, <2>7 DEF c
<1>4. Disjoint(B, D)
  <2> SUFFICES ASSUME NEW c \in D, NEW d \in D, c # d, NEW p \in B[c], p \in B[d]
               PROVE  FALSE
    BY DEF Disjoint
  <2>1. p \in RunHours(Day(rs, c)) /\ p \in RunHours(Day(rs, d))
    OBVIOUS
  <2>2. session_id(p[2]) = c /\ session_id(p[2]) = d
    BY <2>1, DayHours
  <2> QED
    BY <2>2
<1>5. DOMAIN f = D /\ DOMAIN g = D
  OBVIOUS
<1> HIDE DEF D, f, g, B
<1>6. IsFiniteSet(RunHours(rs))
  BY RunHoursFinite
<1>7. SumOver(f) <= SumOver(g)
  BY <1>2, <1>3, <1>5, SumLess
<1>8. SumOver(g) = Cardinality(Joint(B, D))
  BY <1>2, <1>3, <1>4, <1>5, <1>6, SumSizes
<1>9. Joint(B, D) \in SUBSET RunHours(rs)
  BY <1>3 DEF Joint
<1>10. Cardinality(Joint(B, D)) <= Cardinality(RunHours(rs))
       /\ Cardinality(Joint(B, D)) \in Nat /\ Cardinality(RunHours(rs)) \in Nat
  BY <1>6, <1>9, FS_Subset, FS_CardinalityType
<1>11. SumOver(f) \in Int
  BY <1>2, <1>3, <1>5, SumInt
<1>12. SumOver(f) <= Cardinality(RunHours(rs))
  BY <1>7, <1>8, <1>10, <1>11
<1> QED
  BY <1>1, <1>12, Zenon

\* What the definition of the property calls measured.
MeasuredRuns(rs) == {run \in Runs : Cardinality(Stamps(OfRun(rs, run))) >= 2}

\* The runs that were measured are runs of the log, and the others span no trading time.
LEMMA MeasuredAre ==
  ASSUME NEW rs, Bag(rs), Timed(rs), RunsOf(rs) \subseteq Runs
  PROVE  /\ MeasuredRuns(rs) \subseteq RunsOf(rs)
         /\ \A run \in MeasuredRuns(rs) : TradedIn(OfRun(rs, run)) = HoursOf(Own(rs, run))
         /\ \A run \in RunsOf(rs) \ MeasuredRuns(rs) : HoursOf(Own(rs, run)) = {}
         /\ \A run \in Runs : OfRun(rs, run) = Own(rs, run)
<1>1. \A run \in Runs : OfRun(rs, run) = Own(rs, run) /\ run # None
  BY OfRunIs, EvaluationAssumption DEF Own
<1>2. \A run : Bag(Own(rs, run)) /\ Timed(Own(rs, run)) /\ DOMAIN Own(rs, run) = InRun(rs, run)
  BY OwnIs
<1>3. ASSUME NEW run \in MeasuredRuns(rs)
      PROVE  run \in RunsOf(rs) /\ TradedIn(OfRun(rs, run)) = HoursOf(Own(rs, run))
  <2> DEFINE o == Own(rs, run)
             S == Stamps(o)
  <2>1. run \in Runs /\ OfRun(rs, run) = o /\ run # None /\ Cardinality(S) >= 2
    BY <1>1 DEF MeasuredRuns
  <2>2. HoursOf(o) = HoursIn(Min(S), Max(S))
    BY <1>2, <2>1, HoursFinite
  <2>3. TradedIn(o) = HoursIn(Min(S), Max(S))
    BY Zenon DEF TradedIn, HoursIn
  <2>4. S # {}
    <3> SUFFICES ASSUME S = {}
                 PROVE  FALSE
      OBVIOUS
    <3>1. Cardinality(S) = 0
      BY FS_EmptySet, Zenon
    <3> QED
      BY <2>1, <3>1
  <2>5. InRun(rs, run) # {}
    BY <1>2, <2>4 DEF Stamps
  <2>6. run \in RunsOf(rs)
    BY <2>1, <2>5 DEF InRun, RunsOf
  <2> QED
    BY <2>1, <2>2, <2>3, <2>6, Zenon
<1>4. ASSUME NEW run \in RunsOf(rs) \ MeasuredRuns(rs)
      PROVE  HoursOf(Own(rs, run)) = {}
  <2>1. run \in Runs /\ OfRun(rs, run) = Own(rs, run)
    BY <1>1
  <2>2. ~(Cardinality(Stamps(Own(rs, run))) >= 2)
    BY <2>1, Zenon DEF MeasuredRuns
  <2> QED
    BY <1>2, <2>2, HoursFinite
<1> QED
  BY <1>1, <1>3, <1>4

\* The trading time of the measured runs is all there is.
LEMMA MeasuredCounted ==
  ASSUME NEW rs, Bag(rs), Timed(rs), RunsOf(rs) \subseteq Runs
  PROVE  SumOver([run \in MeasuredRuns(rs) |-> Cardinality(TradedIn(OfRun(rs, run)))])
            = Cardinality(RunHours(rs))
<1> DEFINE D == RunsOf(rs)
           M == MeasuredRuns(rs)
           g == [run \in M |-> Cardinality(TradedIn(OfRun(rs, run)))]
           f == [run \in D |-> Cardinality(HoursOf(Own(rs, run)))]
<1>1. IsFiniteSet(D) /\ M \subseteq D
  BY RunsFinite, MeasuredAre
<1>2. \A run \in M : g[run] = f[run]
  BY <1>1, MeasuredAre
<1>3. \A run \in D \ M : f[run] = 0
  BY MeasuredAre, FS_EmptySet
<1>4. \A run \in D : f[run] \in Int
  <2> SUFFICES ASSUME NEW run \in D
               PROVE  f[run] \in Int
    OBVIOUS
  <2>1. Bag(Own(rs, run)) /\ Timed(Own(rs, run))
    BY OwnIs
  <2>2. Cardinality(HoursOf(Own(rs, run))) \in Nat
    BY <2>1, HoursFinite
  <2> QED
    BY <2>2
<1>5. SumOver(f) = Cardinality(RunHours(rs))
  BY RunHoursFinite
<1>6. DOMAIN f = D /\ DOMAIN g = M
  OBVIOUS
<1> HIDE DEF D, M, f, g
<1>7. SumOver(f) = SumOver(g)
  BY <1>1, <1>2, <1>3, <1>4, <1>6, SumZero
<1> QED
  BY <1>5, <1>7, Zenon DEF g, M

\* What a rate that is given says about the runs.
LEMMA RateSays ==
  ASSUME NEW rs, Bag(rs), Timed(rs), RunsOf(rs) \subseteq Runs, market_metrics(rs).rate.available
  PROVE  /\ market_metrics(rs).rate.value =
               <<Named(rs, "alert_candidate"), Cardinality(RunHours(rs))>>
         /\ market_metrics(rs).observed = Cardinality(RunHours(rs))
         /\ \A run \in RunsOf(rs) : market_scope(Own(rs, run)) # "unsupported"
         /\ \A r \in OfName(rs, "alert_candidate") :
               r.run \in RunsOf(rs) /\ HoursOf(Own(rs, r.run)) # {}
<1> DEFINE e == ExposureOf(rs)
           D == RunsOf(rs)
           w == Weight(rs, Orphans(rs))
<1>1. market_metrics(rs).rate = RateOf(rs, e)
      /\ market_metrics(rs).observed = IF RateOf(rs, e).available THEN Observed(e) ELSE 0
  BY MetricsOf, MetricsAre
<1>2. /\ Unsupported(e) = {} /\ Insufficient(e) = {} /\ ~(w > 0) /\ Observed(e) # 0
      /\ RateOf(rs, e).value = <<Candidates(e) + w, Observed(e)>>
  BY <1>1, RateGiven
<1>3. DOMAIN e = D /\ \A run \in D : e[run] = run_exposure(Own(rs, run))
  BY DEF ExposureOf
<1>4. Observed(e) = Cardinality(RunHours(rs))
  BY <1>2, ObservedIs
<1>5. Candidates(e) + w = Named(rs, "alert_candidate")
  BY AlertsCounted, NamedIs, Zenon
<1> HIDE DEF e
<1>6. \A run \in D : market_scope(Own(rs, run)) # "unsupported"
  <2> SUFFICES ASSUME NEW run \in D
               PROVE  market_scope(Own(rs, run)) # "unsupported"
    OBVIOUS
  <2>1. Bag(Own(rs, run)) /\ Timed(Own(rs, run))
    BY OwnIs
  <2>2. e[run].scope = market_scope(Own(rs, run))
    BY <1>3, <2>1, ExposureIs
  <2> QED
    BY <1>2, <1>3, <2>2 DEF Unsupported
<1>7. ASSUME NEW r \in OfName(rs, "alert_candidate")
      PROVE  r.run \in D /\ HoursOf(Own(rs, r.run)) # {}
  <2>1. r \in DOMAIN rs /\ r.name = "alert_candidate"
    BY DEF OfName
  <2>2. r.run # None
    <3> SUFFICES ASSUME r.run = None
                 PROVE  FALSE
      OBVIOUS
    <3>1. Orphans(rs) # {} /\ Orphans(rs) \subseteq DOMAIN rs
      BY <2>1 DEF Orphans
    <3>2. w > 0
      BY <3>1, WeightNat
    <3> QED
      BY <1>2, <3>2
  <2>3. r.run \in D
    BY <2>1, <2>2 DEF RunsOf
  <2> DEFINE o == Own(rs, r.run)
             T == OfName(o, "alert_candidate")
  <2>4. Bag(o) /\ Timed(o) /\ DOMAIN o = InRun(rs, r.run)
    BY OwnIs
  <2>5. r \in T /\ T \subseteq DOMAIN o
    BY <2>1, <2>4 DEF OfName, InRun
  <2> HIDE DEF o
  <2>6. Weight(o, T) > 0
    BY <2>4, <2>5, WeightNat
  <2>7. /\ e[r.run].scope = market_scope(o) /\ e[r.run].ok = (TimeOf(o) > 0)
        /\ e[r.run].candidates = Weight(o, T)
    BY <1>3, <2>3, <2>4, ExposureIs DEF o
  <2>8. e[r.run].ok
    <3>1. r.run \in DOMAIN e \ Unsupported(e)
      BY <1>2, <1>3, <2>3
    <3>2. e[r.run].candidates > 0
      BY <2>6, <2>7, Zenon
    <3>3. r.run \notin Insufficient(e)
      BY <1>2
    <3> QED
      BY <3>1, <3>2, <3>3, Zenon DEF Insufficient
  <2>9. TimeOf(o) > 0
    BY <2>7, <2>8, Zenon
  <2>10. HoursOf(o) # {}
    <3> SUFFICES ASSUME HoursOf(o) = {}
                 PROVE  FALSE
      OBVIOUS
    <3>1. TimeOf(o) = 0
      BY FS_EmptySet, Zenon DEF TimeOf
    <3> QED
      BY <2>9, <3>1
  <2> QED
    BY <2>3, <2>10 DEF o
<1>8. market_metrics(rs).rate.value = <<Named(rs, "alert_candidate"), Cardinality(RunHours(rs))>>
  BY <1>1, <1>2, <1>4, <1>5, Zenon
<1>9. market_metrics(rs).observed = Cardinality(RunHours(rs))
  BY <1>1, <1>4
<1> QED
  BY <1>6, <1>7, <1>8, <1>9

\* The rate is honest on every log of rows.
LEMMA RateMeans == RowsInv => RateFailsClosed
<1> SUFFICES ASSUME RowsInv, market_metrics(rows).rate.available
             PROVE
        /\ \A r \in {r \in DOMAIN rows : r.name = "alert_candidate"} :
                r.run \in MeasuredRuns(rows) /\ TradedIn(OfRun(rows, r.run)) # {}
        /\ \A r \in DOMAIN rows : r.ts # -1 /\ r.run # None =>
                \E x \in DOMAIN rows : x.run = r.run /\ x.ts # -1 /\ x.symbol \in AShares
        /\ \A r \in DOMAIN rows : r.ts # -1 /\ r.run # None => r.symbol \in AShares \cup {None}
        /\ market_metrics(rows).rate.value =
                <<Named(rows, "alert_candidate"),
                  SumOver([run \in MeasuredRuns(rows) |-> Cardinality(TradedIn(OfRun(rows, run)))])>>
        /\ SumOver([d \in DOMAIN per_market_date(rows) |-> per_market_date(rows)[d].observed])
                <= market_metrics(rows).observed
  BY Zenon DEF RateFailsClosed, MeasuredRuns
<1>1. Bag(rows) /\ DOMAIN rows \subseteq Rows
  BY DEF RowsInv
<1>2. \A r \in DOMAIN rows : r.run \in Runs \cup {None} /\ r.ts \in Nat \cup {-1}
  BY <1>1 DEF Rows
<1>3. Timed(rows) /\ RunsOf(rows) \subseteq Runs
  BY <1>2 DEF Timed, RunsOf
<1>4. /\ market_metrics(rows).rate.value =
            <<Named(rows, "alert_candidate"), Cardinality(RunHours(rows))>>
      /\ market_metrics(rows).observed = Cardinality(RunHours(rows))
      /\ \A run \in RunsOf(rows) : market_scope(Own(rows, run)) # "unsupported"
      /\ \A r \in OfName(rows, "alert_candidate") :
            r.run \in RunsOf(rows) /\ HoursOf(Own(rows, r.run)) # {}
  BY <1>1, <1>3, RateSays
<1>5. ASSUME NEW r \in {r \in DOMAIN rows : r.name = "alert_candidate"}
      PROVE  r.run \in MeasuredRuns(rows) /\ TradedIn(OfRun(rows, r.run)) # {}
  <2>1. r.run \in RunsOf(rows) /\ HoursOf(Own(rows, r.run)) # {}
    BY <1>4 DEF OfName
  <2>2. r.run \in MeasuredRuns(rows)
    BY <1>1, <1>3, <2>1, MeasuredAre
  <2>3. TradedIn(OfRun(rows, r.run)) = HoursOf(Own(rows, r.run))
    BY <1>1, <1>3, <2>2, MeasuredAre
  <2> QED
    BY <2>1, <2>2, <2>3
<1>6. ASSUME NEW r \in DOMAIN rows, r.ts # -1, r.run # None
      PROVE  /\ \E x \in DOMAIN rows : x.run = r.run /\ x.ts # -1 /\ x.symbol \in AShares
             /\ r.symbol \in AShares \cup {None}
  <2> DEFINE o == Own(rows, r.run)
  <2>1. DOMAIN o = InRun(rows, r.run)
    BY <1>1, <1>3, OwnIs
  <2>2. r \in DOMAIN o
    BY <2>1 DEF InRun
  <2>3. market_scope(o) # "unsupported"
    BY <1>4, <1>6 DEF RunsOf
  <2> HIDE DEF o
  <2>4. /\ \E x \in DOMAIN o : x.ts # -1 /\ x.symbol \in AShares
        /\ r.symbol \in AShares \cup {None}
    BY <1>6, <2>2, <2>3, ScopeIs
  <2> QED
    BY <2>1, <2>4 DEF InRun
<1>7. SumOver([run \in MeasuredRuns(rows) |-> Cardinality(TradedIn(OfRun(rows, run)))])
         = Cardinality(RunHours(rows))
  BY <1>1, <1>3, MeasuredCounted
<1>8. SumOver([d \in DOMAIN per_market_date(rows) |-> per_market_date(rows)[d].observed])
         <= Cardinality(RunHours(rows))
  BY <1>1, <1>3, DatesClaim
<1>9. SumOver([d \in DOMAIN per_market_date(rows) |-> per_market_date(rows)[d].observed])
         <= market_metrics(rows).observed
  BY <1>4, <1>8, Zenon
<1>10. market_metrics(rows).rate.value =
          <<Named(rows, "alert_candidate"),
            SumOver([run \in MeasuredRuns(rows) |-> Cardinality(TradedIn(OfRun(rows, run)))])>>
  BY <1>4, <1>7, Zenon
<1> QED
  BY <1>5, <1>6, <1>9, <1>10

\* When _market_metrics gives a rate, every alert is in a run that saw only A-share
\* symbols and some trading time, the numerator is all alerts, and the denominator
\* from cash_session_overlap_s is the trading time the runs spanned, counted half hour
\* by half hour; the dates claim no more than that.
THEOREM RateFailsClosedAlways == Spec => []RateFailsClosed
  BY RowsStep, RateMeans, PTL DEF Spec

-----------------------------------------------------------------------------
(* Parts of the report *)

\* A sum of one term.
LEMMA SumSingle ==
  ASSUME NEW f, NEW x, DOMAIN f = {x}, f[x] \in Int
  PROVE  SumOver(f) = f[x]
<1>1. IsFiniteSet({x}) /\ \A y \in {x} : f[y] \in Int
  BY FS_Singleton
<1>2. PICK H : Sums(f, {x}, H)
  BY <1>1, SumExists
<1>3. SumOver(f) = H[{x}]
  BY <1>2, SumIs
<1>4. H[{}] = 0 /\ H[{x}] = f[x] + H[{x} \ {x}]
  BY <1>2 DEF Sums
<1>5. {x} \ {x} = {}
  OBVIOUS
<1>6. SumOver(f) = f[x] + 0
  BY <1>3, <1>4, <1>5, Zenon
<1> QED
  BY <1>6

\* The log of one run has that run, and all its rows.
LEMMA OwnOwn ==
  ASSUME NEW rs, Bag(rs), Timed(rs), NEW run \in RunsOf(rs)
  PROVE  /\ RunsOf(Own(rs, run)) = {run} /\ run # None
         /\ Own(Own(rs, run), run) = Own(rs, run)
         /\ Orphans(Own(rs, run)) = {}
<1> DEFINE o == Own(rs, run)
<1>1. DOMAIN o = InRun(rs, run) /\ Bag(o)
  BY OwnIs
<1>2. run # None /\ \E x \in DOMAIN rs : x.run = run
  BY DEF RunsOf
<1>3. DOMAIN o # {} /\ \A x \in DOMAIN o : x.run = run
  BY <1>1, <1>2 DEF InRun
<1> HIDE DEF o
<1>4. RunsOf(o) = {run}
  BY <1>2, <1>3 DEF RunsOf
<1>5. InRun(o, run) = DOMAIN o
  BY <1>3 DEF InRun
<1>6. o = [x \in DOMAIN o |-> o[x]]
  BY <1>1 DEF Bag
<1>7. Own(o, run) = o
  BY <1>5, <1>6, Zenon DEF Own, Within
<1>8. Orphans(o) = {}
  BY <1>2, <1>3 DEF Orphans
<1> QED
  BY <1>2, <1>4, <1>7, <1>8 DEF o

\* The report of one run is its line in the report of all.
LEMMA OwnLine ==
  ASSUME NEW rs, Bag(rs), Timed(rs), NEW run \in RunsOf(rs)
  PROVE  /\ market_metrics(Own(rs, run)).per_run[run] = ExposureOf(rs)[run]
         /\ market_metrics(Own(rs, run)).rate = ExposureOf(rs)[run].rate
<1> DEFINE o == Own(rs, run)
           e == ExposureOf(o)
           x == run_exposure(o)
           t == TimeOf(o)
           c == Weight(o, OfName(o, "alert_candidate"))
<1>1. Bag(o) /\ Timed(o)
  BY OwnIs
<1>2. RunsOf(o) = {run} /\ Own(o, run) = o /\ Orphans(o) = {}
  BY OwnOwn
<1>3. ExposureOf(rs)[run] = x
  BY DEF ExposureOf
<1> HIDE DEF o
<1>4. DOMAIN e = {run} /\ e[run] = x
  BY <1>2 DEF ExposureOf
<1>5. market_metrics(o).per_run = e /\ market_metrics(o).rate = RateOf(o, e)
  BY MetricsOf, MetricsAre
<1> HIDE DEF e, x, t
<1>6. /\ x.scope = market_scope(o) /\ x.observed = t /\ t \in Nat /\ x.ok = (t > 0)
      /\ x.candidates = c
      /\ x.rate = IF market_scope(o) = "unsupported" THEN unavailable("unsupported_market_scope")
                  ELSE IF t = 0 THEN unavailable("insufficient_market_time_evidence")
                  ELSE available_value(c, t)
  BY <1>1, ExposureIs DEF x, t
<1>7. c \in Nat
  <2>1. OfName(o, "alert_candidate") \subseteq DOMAIN o
    BY DEF OfName
  <2> QED
    BY <1>1, <2>1, WeightNat
<1> HIDE DEF c
<1>8. Observed(e) = t
  <2> DEFINE f == [r \in DOMAIN e |-> e[r].observed]
  <2>1. DOMAIN f = {run} /\ f[run] = t /\ t \in Int
    BY <1>4, <1>6
  <2> HIDE DEF f
  <2>2. SumOver(f) = t
    BY <2>1, SumSingle
  <2> QED
    BY <2>2, Zenon DEF Observed, f
<1>9. Candidates(e) = c
  <2> DEFINE f == [r \in DOMAIN e |-> e[r].candidates]
  <2>1. DOMAIN f = {run} /\ f[run] = c /\ c \in Int
    BY <1>4, <1>6, <1>7
  <2> HIDE DEF f
  <2>2. SumOver(f) = c
    BY <2>1, SumSingle
  <2> QED
    BY <2>2, Zenon DEF Candidates, f
<1>10. Weight(o, Orphans(o)) = 0
  BY <1>1, <1>2, WeightNat
<1> DEFINE p == market_scope(o) = "unsupported"
<1>11. Unsupported(e) # {} <=> p
  BY <1>4, <1>6 DEF Unsupported
<1>12. Insufficient(e) # {} => t = 0
  <2> SUFFICES ASSUME Insufficient(e) # {}
               PROVE  t = 0
    OBVIOUS
  <2>1. ~x.ok
    BY <1>4 DEF Insufficient
  <2>2. ~(t > 0)
    BY <1>6, <2>1, Zenon
  <2> QED
    BY <1>6, <2>2
<1>13. RateOf(o, e) = x.rate
  <2>1. c + 0 = c /\ ~(0 > 0)
    BY <1>7
  <2>2. RateOf(o, e) =
           IF p THEN unavailable("unsupported_market_scope")
           ELSE IF Insufficient(e) # {} \/ 0 > 0 \/ t = 0
                THEN unavailable("insufficient_market_time_evidence")
           ELSE available_value(c + 0, t)
    BY <1>8, <1>9, <1>10, <1>11, Zenon DEF RateOf
  <2> HIDE DEF p
  <2>3. RateOf(o, e) = IF p THEN unavailable("unsupported_market_scope")
                       ELSE IF t = 0 THEN unavailable("insufficient_market_time_evidence")
                       ELSE available_value(c, t)
    BY <1>12, <2>1, <2>2, Zenon
  <2> QED
    BY <1>6, <2>3, Zenon DEF p
<1> QED
  BY <1>3, <1>4, <1>5, <1>13 DEF o

\* Rows of a name whose reason is not among the known ones.
UnknownIn(rs, name, known) == {x \in DOMAIN rs : x.name = name /\ x.reason \notin known}

\* The rows of a kind with a reason that is not known are counted once each.
LEMMA UnknownIs ==
  ASSUME NEW rs, NEW name, NEW known
  PROVE  by_reason(rs, name, known).unknown = Weight(rs, UnknownIn(rs, name, known))
<1> DEFINE T == {x \in DOMAIN rs : x.name = name /\ x.reason \notin known}
           f == [x \in T |-> rs[x]]
           u == CountIf(rs, LAMBDA r : r.name = name /\ r.reason \notin known)
           c == [k \in known |-> CountIf(rs, LAMBDA r : r.name = name /\ r.reason = k)]
<1>1. u = MapThenSumSet(LAMBDA r : f[r], DOMAIN f)
  BY Zenon DEF CountIf, Size, Select, RestrictDomain, Restrict
<1>2. u = Weight(rs, UnknownIn(rs, name, known))
  BY <1>1, Zenon DEF Weight, SumOver, UnknownIn
<1>3. by_reason(rs, name, known) = [counts |-> c, unknown |-> u]
  BY Zenon DEF by_reason
<1> HIDE DEF u, c
<1> QED
  BY <1>2, <1>3

\* A run has no more rows of unknown reason than the log.
LEMMA UnknownLess ==
  ASSUME NEW rs, Bag(rs), Timed(rs), NEW run, NEW name, NEW known
  PROVE  /\ by_reason(Own(rs, run), name, known).unknown <= by_reason(rs, name, known).unknown
         /\ by_reason(Own(rs, run), name, known).unknown \in Nat
         /\ by_reason(rs, name, known).unknown \in Nat
<1> DEFINE o == Own(rs, run)
           S == UnknownIn(o, name, known)
           T == UnknownIn(rs, name, known)
<1>1. Bag(o) /\ DOMAIN o = InRun(rs, run) /\ InRun(rs, run) \subseteq DOMAIN rs
  BY OwnIs
<1>2. S \subseteq InRun(rs, run) /\ S \subseteq T /\ T \subseteq DOMAIN rs
  BY <1>1 DEF UnknownIn
<1> HIDE DEF S, T
<1>3. Weight(o, S) = Weight(rs, S)
  BY <1>2, WithinWeight DEF Own
<1>4. Weight(rs, S) <= Weight(rs, T)
  BY <1>2, WeightLess
<1>5. Weight(rs, S) \in Nat /\ Weight(rs, T) \in Nat
  BY <1>1, <1>2, WeightNat
<1>6. by_reason(o, name, known).unknown = Weight(o, S)
      /\ by_reason(rs, name, known).unknown = Weight(rs, T)
  BY UnknownIs DEF S, T
<1> QED
  BY <1>3, <1>4, <1>5, <1>6

\* What the report takes from its parts.
LEMMA EvaluateIs ==
  ASSUME NEW all, NEW fbs, NEW run
  PROVE  /\ evaluate(all, fbs, run).run_ids = RunsOf(OfRun(all, run))
         /\ evaluate(all, fbs, run).market = market_metrics(OfRun(all, run))
         /\ evaluate(all, fbs, run).pipeline = pipeline(OfRun(all, run))
         /\ evaluate(all, fbs, run).noise = alert_noise(OfRun(all, run))
         /\ evaluate(all, fbs, run).semantic =
               intelligence(OfRun(all, run)).skipped.unknown
               + intelligence(OfRun(all, run)).fallback.unknown
               + alert_noise(OfRun(all, run)).suppression.unknown
               + explicit_feedback(FeedbackOfRun(fbs, run), OfRun(all, run)).invalid
<1> DEFINE rs == OfRun(all, run)
           fb == FeedbackOfRun(fbs, run)
           ids == DOMAIN group_by_run(rs)
           dates == {session_id(t) : t \in Stamps(rs)}
           read == Size(rs) + Cardinality(DOMAIN fb)
           sem == intelligence(rs).skipped.unknown + intelligence(rs).fallback.unknown
                  + alert_noise(rs).suppression.unknown + explicit_feedback(fb, rs).invalid
           a == market_metrics(rs)
           b == pipeline(rs)
           c == alert_noise(rs)
           d == host(rs)
           e == intelligence(rs)
           f == per_symbol(rs)
           g == per_market_date(rs)
           h == explicit_feedback(fb, rs)
<1>1. evaluate(all, fbs, run) =
         [run_ids |-> ids, market_dates |-> dates, records_read |-> read, semantic |-> sem,
          market |-> a, pipeline |-> b, noise |-> c, host |-> d, intelligence |-> e,
          per_symbol |-> f, per_market_date |-> g, feedback |-> h]
  BY Zenon DEF evaluate
<1>2. ids = RunsOf(rs)
  BY GroupsAre
<1> HIDE DEF ids, dates, read, sem, a, b, c, d, e, f, g, h
<1>3. /\ evaluate(all, fbs, run).run_ids = ids /\ evaluate(all, fbs, run).market = a
      /\ evaluate(all, fbs, run).pipeline = b /\ evaluate(all, fbs, run).noise = c
      /\ evaluate(all, fbs, run).semantic = sem
  BY <1>1
<1> QED
  BY <1>2, <1>3, Zenon DEF sem, a, b, c

\* The counts of rows that are not understood.
LEMMA UnknownsAre ==
  ASSUME NEW rs
  PROVE  /\ intelligence(rs).skipped = by_reason(rs, "intelligence_skipped", DecisionReasons)
         /\ intelligence(rs).fallback = by_reason(rs, "intelligence_fallback", FallbackReasons)
         /\ alert_noise(rs).suppression = by_reason(rs, "alert_suppressed", SuppressionReasons)
         /\ alert_noise(rs).repeated = repeated_episodes(rs)
<1> DEFINE usage == Select(rs, LAMBDA r : r.name = "intelligence_token_usage")
           a == [n \in IntelligenceNames |-> Named(rs, n)]
           b == by_reason(rs, "intelligence_skipped", DecisionReasons)
           c == by_reason(rs, "intelligence_fallback", FallbackReasons)
           d == [stage \in Stages |-> latency_bundle(rs, stage)]
           e == IF DOMAIN usage = {} THEN unavailable("no_provider_usage")
                ELSE available_value(SumOver([r \in DOMAIN usage |-> usage[r] * r.amount]), 1)
           p == priority_counts(rs)
           q == repeated_episodes(rs)
           i == ratio(priority_counts(rs)["IMPORTANT"] + priority_counts(rs)["CRITICAL"],
                      SumOver(priority_counts(rs)))
           s == by_reason(rs, "alert_suppressed", SuppressionReasons)
<1>1. intelligence(rs) = [counts |-> a, skipped |-> b, fallback |-> c, latency |-> d, tokens |-> e]
  BY Zenon DEF intelligence
<1>2. alert_noise(rs) = [priorities |-> p, repeated |-> q, important_critical |-> i, suppression |-> s]
  BY Zenon DEF alert_noise
<1> HIDE DEF usage, a, b, c, d, e, p, q, i, s
<1>3. intelligence(rs).skipped = b /\ intelligence(rs).fallback = c
  BY <1>1
<1>4. alert_noise(rs).suppression = s /\ alert_noise(rs).repeated = q
  BY <1>2
<1> QED
  BY <1>3, <1>4, Zenon DEF b, c, q, s

\* The counts of the pipeline.
LEMMA PipelineIs ==
  ASSUME NEW rs, NEW n \in FunnelNames
  PROVE  pipeline(rs).counts[n] = Named(rs, n)
<1> DEFINE a == [m \in EventNames \cup SignalNames \cup {"alert_presented"} |-> Named(rs, m)]
           b == Cardinality({r.event : r \in {x \in DOMAIN rs :
                            x.name = "event_clustered" /\ x.event # None}})
           c == ratio(Named(rs, "event_deduped"), Named(rs, "event_generated"))
           d == ratio(Named(rs, "alert_suppressed"),
                      Named(rs, "alert_candidate") + Named(rs, "alert_suppressed"))
<1>1. pipeline(rs) = [counts |-> a, clustered_seen |-> b, dedupe_rate |-> c, suppression_rate |-> d]
  BY Zenon DEF pipeline
<1>2. a[n] = Named(rs, n)
  BY DEF FunnelNames, EventNames, SignalNames
<1> HIDE DEF a, b, c, d
<1>3. pipeline(rs).counts = a
  BY <1>1
<1> QED
  BY <1>2, <1>3

\* Feedback rows that are not valid.
LEMMA InvalidIs ==
  ASSUME NEW fb, NEW rs
  PROVE  explicit_feedback(fb, rs).invalid = Cardinality(DOMAIN fb) - Cardinality(ValidIn(fb))
<1> DEFINE valid == ValidIn(fb)
           presented == KeysNamed(rs, {"alert_presented"})
           answered == {KeyOf(fb[i]) : i \in valid}
           useful == {i \in valid : fb[i].label = "useful"}
           a == Cardinality(valid)
           b == [l \in Labels |-> Cardinality({i \in valid : fb[i].label = l})]
           c == IF valid = {} THEN unavailable("no_explicit_feedback")
                ELSE available_value(Cardinality(useful), Cardinality(valid))
           d == IF presented = {} THEN unavailable("denominator_is_zero")
                ELSE available_value(Cardinality(answered \cap presented), Cardinality(presented))
           e == Cardinality(DOMAIN fb) - Cardinality(valid)
<1>1. explicit_feedback(fb, rs) =
         [count |-> a, labels |-> b, useful_rate |-> c, coverage |-> d, invalid |-> e]
  BY Zenon DEF explicit_feedback
<1> HIDE DEF a, b, c, d, e
<1>2. explicit_feedback(fb, rs).invalid = e
  BY <1>1
<1> QED
  BY <1>2, Zenon DEF e

\* No feedback row of a run is invalid.
LEMMA InvalidLess ==
  ASSUME NEW fb, Distinct(fb), Attributed(fb), NEW run, run # None, NEW rs, NEW os
  PROVE  /\ explicit_feedback(FeedbackOfRun(fb, run), os).invalid = 0
         /\ explicit_feedback(fb, rs).invalid \in Nat
<1> DEFINE g == FeedbackOfRun(fb, run)
           D == {i \in DOMAIN fb : fb[i].run = run}
<1>1. fb \in Seq(Opinions)
  BY DEF Distinct
<1>2. IsFiniteSet(DOMAIN fb) /\ \A i \in DOMAIN fb : fb[i].label \in Labels
  <2>1. DOMAIN fb = 1..Len(fb) /\ Len(fb) \in Nat /\ \A i \in DOMAIN fb : fb[i] \in Opinions
    BY <1>1
  <2>2. IsFiniteSet(1..Len(fb))
    BY <2>1, FS_Interval
  <2> QED
    BY <2>1, <2>2 DEF Opinions
<1>3. g = [i \in D |-> fb[i]]
  BY Zenon DEF FeedbackOfRun, RestrictValues, Restrict
<1>4. DOMAIN g = D /\ \A i \in D : g[i] = fb[i]
  BY <1>3
<1> HIDE DEF g
<1>5. ValidIn(g) = DOMAIN g
  BY <1>2, <1>4 DEF ValidIn, valid_feedback_row, Attributed
<1>6. IsFiniteSet(DOMAIN g)
  BY <1>2, <1>4, FS_Subset
<1>7. explicit_feedback(g, os).invalid = 0
  <2>1. explicit_feedback(g, os).invalid = Cardinality(DOMAIN g) - Cardinality(DOMAIN g)
    BY <1>5, InvalidIs
  <2>2. Cardinality(DOMAIN g) \in Nat
    BY <1>6, FS_CardinalityType
  <2> QED
    BY <2>1, <2>2
<1>8. explicit_feedback(fb, rs).invalid \in Nat
  <2>1. ValidIn(fb) \in SUBSET DOMAIN fb
    BY DEF ValidIn
  <2>2. Cardinality(ValidIn(fb)) \in Nat /\ Cardinality(DOMAIN fb) \in Nat
        /\ Cardinality(ValidIn(fb)) <= Cardinality(DOMAIN fb)
    BY <1>2, <2>1, FS_Subset, FS_CardinalityType
  <2>3. explicit_feedback(fb, rs).invalid = Cardinality(DOMAIN fb) - Cardinality(ValidIn(fb))
    BY InvalidIs
  <2> QED
    BY <2>2, <2>3
<1> QED
  BY <1>7, <1>8 DEF g

\* The report of a run misunderstands no more than the report of all.
LEMMA SemanticLess ==
  ASSUME NEW rs, Bag(rs), Timed(rs), NEW fb, Distinct(fb), Attributed(fb), NEW run, run # None
  PROVE  evaluate(rs, fb, run).semantic <= evaluate(rs, fb, None).semantic
<1> DEFINE o == Own(rs, run)
           a(b) == by_reason(b, "intelligence_skipped", DecisionReasons).unknown
           c(b) == by_reason(b, "intelligence_fallback", FallbackReasons).unknown
           d(b) == by_reason(b, "alert_suppressed", SuppressionReasons).unknown
           e == explicit_feedback(FeedbackOfRun(fb, run), o).invalid
           f == explicit_feedback(fb, rs).invalid
<1>1. OfRun(rs, run) = o /\ OfRun(rs, None) = rs /\ FeedbackOfRun(fb, None) = fb
  BY OfRunIs DEF Own, OfRun, FeedbackOfRun
<1>2. a(o) <= a(rs) /\ a(o) \in Nat /\ a(rs) \in Nat
  BY UnknownLess
<1>3. c(o) <= c(rs) /\ c(o) \in Nat /\ c(rs) \in Nat
  BY UnknownLess
<1>4. d(o) <= d(rs) /\ d(o) \in Nat /\ d(rs) \in Nat
  BY UnknownLess
<1>5. e = 0 /\ f \in Nat
  BY InvalidLess
<1>6. evaluate(rs, fb, run).semantic = a(o) + c(o) + d(o) + e
  <2>1. evaluate(rs, fb, run).semantic =
           intelligence(OfRun(rs, run)).skipped.unknown
           + intelligence(OfRun(rs, run)).fallback.unknown
           + alert_noise(OfRun(rs, run)).suppression.unknown
           + explicit_feedback(FeedbackOfRun(fb, run), OfRun(rs, run)).invalid
    BY EvaluateIs
  <2>2. /\ intelligence(o).skipped.unknown = a(o) /\ intelligence(o).fallback.unknown = c(o)
        /\ alert_noise(o).suppression.unknown = d(o)
    BY UnknownsAre
  <2> HIDE DEF a, c, d, o
  <2> QED
    BY <1>1, <2>1, <2>2, Zenon
<1>7. evaluate(rs, fb, None).semantic = a(rs) + c(rs) + d(rs) + f
  <2>1. evaluate(rs, fb, None).semantic =
           intelligence(OfRun(rs, None)).skipped.unknown
           + intelligence(OfRun(rs, None)).fallback.unknown
           + alert_noise(OfRun(rs, None)).suppression.unknown
           + explicit_feedback(FeedbackOfRun(fb, None), OfRun(rs, None)).invalid
    BY EvaluateIs
  <2>2. /\ intelligence(rs).skipped.unknown = a(rs) /\ intelligence(rs).fallback.unknown = c(rs)
        /\ alert_noise(rs).suppression.unknown = d(rs)
    BY UnknownsAre
  <2> HIDE DEF a, c, d, o
  <2> QED
    BY <1>1, <2>1, <2>2, Zenon
<1> HIDE DEF a, c, d, e, f, o
<1> QED
  BY <1>2, <1>3, <1>4, <1>5, <1>6, <1>7

-----------------------------------------------------------------------------
(* Episodes *)

\* A sum over two parts.
LEMMA SumSplit ==
  ASSUME NEW f, NEW g, NEW h, NEW a, NEW b, IsFiniteSet(a \cup b), a \cap b = {},
         DOMAIN f = a \cup b, DOMAIN g = a, DOMAIN h = b, \A x \in a \cup b : f[x] \in Int,
         \A x \in a : g[x] = f[x], \A x \in b : h[x] = f[x]
  PROVE  SumOver(f) = SumOver(g) + SumOver(h)
<1> DEFINE S == a \cup b
<1>1. a \subseteq S /\ b \subseteq S
  OBVIOUS
<1>2. IsFiniteSet(S) /\ DOMAIN f = S /\ \A x \in S : f[x] \in Int
  OBVIOUS
<1> HIDE DEF S
<1>3. PICK H : Sums(f, S, H)
  BY <1>2, SumExists
<1>4. SumOver(f) = H[S]
  BY <1>2, <1>3, SumIs
<1>5. SumOver(g) = H[a]
  BY <1>1, <1>3, SumPart
<1>6. SumOver(h) = H[b]
  BY <1>1, <1>3, SumPart
<1>7. H[a \cup b] = H[a] + H[b]
  BY <1>1, <1>3, SumsJoin
<1> QED
  BY <1>4, <1>5, <1>6, <1>7, Zenon DEF S

\* The alerts of an episode, the episodes, and the alerts that have one.
AlertsOn(rs, k) ==
    {x \in DOMAIN rs : x.name = "alert_candidate" /\ <<x.run, x.signal>> = k}
Episodes(rs) == KeysNamed(rs, {"alert_candidate"})
Episodic(rs) ==
    {x \in DOMAIN rs : x.name = "alert_candidate" /\ x.run # None /\ x.signal # None}
Repeated(rs) == {k \in Episodes(rs) : Weight(rs, AlertsOn(rs, k)) > 1}
Extra(rs) == [k \in Episodes(rs) |-> Weight(rs, AlertsOn(rs, k)) - 1]

\* What repeated_episodes counts.
LEMMA RepeatedIs ==
  ASSUME NEW rs
  PROVE  repeated_episodes(rs) =
            [signals |-> Cardinality(Repeated(rs)), extra |-> SumOver(Extra(rs))]
<1> DEFINE K == {<<r.run, r.signal>> : r \in {x \in DOMAIN rs :
                        x.name = "alert_candidate" /\ x.run # None /\ x.signal # None}}
           n(k) == CountIf(rs, LAMBDA r : /\ r.name = "alert_candidate"
                                          /\ <<r.run, r.signal>> = k)
           grouped == [k \in K |-> n(k)]
<1>1. repeated_episodes(rs) =
         [signals |-> Cardinality({k \in DOMAIN grouped : grouped[k] > 1}),
          extra |-> SumOver([k \in DOMAIN grouped |-> grouped[k] - 1])]
  BY Zenon DEF repeated_episodes
<1>2. K = Episodes(rs)
  BY DEF Episodes, KeysNamed, KeyOf
<1>3. ASSUME NEW k
      PROVE  n(k) = Weight(rs, AlertsOn(rs, k))
  <2> DEFINE T == {x \in DOMAIN rs : x.name = "alert_candidate" /\ <<x.run, x.signal>> = k}
             f == [x \in T |-> rs[x]]
  <2>1. n(k) = MapThenSumSet(LAMBDA r : f[r], DOMAIN f)
    BY Zenon DEF CountIf, Size, Select, RestrictDomain, Restrict
  <2> QED
    BY <2>1, Zenon DEF Weight, SumOver, AlertsOn
<1> HIDE DEF n, K
<1>4. DOMAIN grouped = Episodes(rs)
      /\ \A k \in Episodes(rs) : grouped[k] = Weight(rs, AlertsOn(rs, k))
  BY <1>2, <1>3
<1> HIDE DEF grouped
<1>5. {k \in DOMAIN grouped : grouped[k] > 1} = Repeated(rs)
  BY <1>4, Zenon DEF Repeated
<1>6. [k \in DOMAIN grouped |-> grouped[k] - 1] = Extra(rs)
  BY <1>4, Zenon DEF Extra
<1> QED
  BY <1>1, <1>5, <1>6, Zenon

\* The episodes are finitely many, and each has an alert.
LEMMA EpisodesFinite ==
  ASSUME NEW rs, Bag(rs)
  PROVE  /\ IsFiniteSet(Episodes(rs))
         /\ \A k \in Episodes(rs) : /\ AlertsOn(rs, k) \subseteq DOMAIN rs
                                    /\ Weight(rs, AlertsOn(rs, k)) \in Nat
                                    /\ Weight(rs, AlertsOn(rs, k)) > 0
         /\ IsFiniteSet(Repeated(rs)) /\ Cardinality(Repeated(rs)) \in Nat
         /\ DOMAIN Extra(rs) = Episodes(rs) /\ \A k \in Episodes(rs) : Extra(rs)[k] \in Int
         /\ SumOver(Extra(rs)) \in Int
<1> DEFINE E == Episodic(rs)
           K == Episodes(rs)
           f == [x \in E |-> KeyOf(x)]
<1>1. E \in SUBSET DOMAIN rs
  BY DEF Episodic
<1>2. IsFiniteSet(E)
  BY <1>1, FS_Subset DEF Bag
<1>3. f \in [E -> K] /\ \A k \in K : \E x \in E : f[x] = k
  BY DEF Episodes, KeysNamed, Episodic
<1> HIDE DEF f, E, K
<1>4. f \in Surjection(E, K)
  BY <1>3, Fun_IsSurj
<1>5. IsFiniteSet(K)
  BY <1>2, <1>4, FS_Surjection
<1>6. ASSUME NEW k \in K
      PROVE  /\ AlertsOn(rs, k) \subseteq DOMAIN rs
             /\ Weight(rs, AlertsOn(rs, k)) \in Nat /\ Weight(rs, AlertsOn(rs, k)) > 0
  <2>1. AlertsOn(rs, k) \subseteq DOMAIN rs /\ AlertsOn(rs, k) # {}
    BY DEF AlertsOn, K, Episodes, KeysNamed, KeyOf
  <2> QED
    BY <2>1, WeightNat
<1>7. Repeated(rs) \in SUBSET K
  BY DEF Repeated, K
<1>8. IsFiniteSet(Repeated(rs)) /\ Cardinality(Repeated(rs)) \in Nat
  BY <1>5, <1>7, FS_Subset, FS_CardinalityType
<1>9. DOMAIN Extra(rs) = K /\ \A k \in K : Extra(rs)[k] = Weight(rs, AlertsOn(rs, k)) - 1
  BY DEF Extra, K
<1>10. \A k \in K : Extra(rs)[k] \in Int
  BY <1>6, <1>9
<1>11. SumOver(Extra(rs)) \in Int
  BY <1>5, <1>9, <1>10, SumInt
<1> QED
  BY <1>5, <1>6, <1>8, <1>9, <1>10, <1>11 DEF K

\* Every alert of an episode is its first or an extra one.
LEMMA ExtraCounted ==
  ASSUME NEW rs, Bag(rs)
  PROVE  SumOver(Extra(rs)) + Cardinality(Episodes(rs)) = Weight(rs, Episodic(rs))
<1> DEFINE K == Episodes(rs)
           B == [k \in K |-> AlertsOn(rs, k)]
           g == [k \in K |-> Weight(rs, AlertsOn(rs, k))]
           f == Extra(rs)
           o == [k \in K |-> 1]
<1>1. IsFiniteSet(K) /\ DOMAIN f = K /\ DOMAIN g = K /\ DOMAIN o = K
  BY EpisodesFinite
<1>2. \A k \in K : B[k] \subseteq DOMAIN rs /\ g[k] = Weight(rs, B[k]) /\ g[k] \in Nat
  BY EpisodesFinite
<1>3. \A k \in K : f[k] = g[k] - 1 /\ o[k] = 1
  BY DEF Extra
<1>4. Disjoint(B, K)
  BY DEF Disjoint, AlertsOn
<1>5. Joint(B, K) = Episodic(rs)
  <2>1. \A x : x \in Joint(B, K) <=> \E k \in K : x \in AlertsOn(rs, k)
    BY DEF Joint
  <2>2. ASSUME NEW x \in Episodic(rs)
        PROVE  \E k \in K : x \in AlertsOn(rs, k)
    BY DEF Episodic, AlertsOn, Episodes, KeysNamed, KeyOf
  <2>3. ASSUME NEW k \in K, NEW x \in AlertsOn(rs, k)
        PROVE  x \in Episodic(rs)
    <3>1. PICK y \in Episodic(rs) : k = <<y.run, y.signal>>
      BY DEF Episodic, Episodes, KeysNamed, KeyOf
    <3>2. x \in DOMAIN rs /\ x.name = "alert_candidate" /\ <<x.run, x.signal>> = k
      BY DEF AlertsOn
    <3>3. x.run = y.run /\ x.signal = y.signal
      BY <3>1, <3>2
    <3> QED
      BY <3>1, <3>2, <3>3 DEF Episodic
  <2> QED
    BY <2>1, <2>2, <2>3
<1>6. SumOver(o) = Cardinality(K)
  <2> HIDE DEF K
  <2> QED
    BY <1>1, SumOnes
<1> HIDE DEF K, B, g, f, o
<1>7. SumOver(g) = Weight(rs, Joint(B, K))
  BY <1>1, <1>2, <1>4, WeightParts
<1>8. \A k \in K : f[k] \in Int /\ o[k] \in Int /\ g[k] = f[k] + o[k]
  BY <1>2, <1>3
<1>9. SumOver(g) = SumOver(f) + SumOver(o)
  BY <1>1, <1>8, SumPlus
<1> QED
  BY <1>5, <1>6, <1>7, <1>9, Zenon DEF K, f

-----------------------------------------------------------------------------
(* A log cut in two *)

\* The rows that are not of a run.
Others(rs, run) == Within(rs, {x \in DOMAIN rs : x.run # run})

\* The two halves of a bag are bags.
LEMMA HalvesAre ==
  ASSUME NEW rs, Bag(rs), NEW run
  PROVE  /\ Bag(Own(rs, run)) /\ Bag(Others(rs, run))
         /\ DOMAIN Own(rs, run) = {x \in DOMAIN rs : x.run = run}
         /\ DOMAIN Others(rs, run) = {x \in DOMAIN rs : x.run # run}
<1> DEFINE P == {x \in DOMAIN rs : x.run = run}
           Q == {x \in DOMAIN rs : x.run # run}
<1>1. P \subseteq DOMAIN rs /\ Q \subseteq DOMAIN rs
  OBVIOUS
<1>2. Own(rs, run) = Within(rs, P) /\ Others(rs, run) = Within(rs, Q)
  BY Zenon DEF Own, InRun, Others
<1> HIDE DEF P, Q
<1>3. Bag(Within(rs, P)) /\ DOMAIN Within(rs, P) = P /\ Bag(Within(rs, Q)) /\ DOMAIN Within(rs, Q) = Q
  BY <1>1, WithinBag
<1> QED
  BY <1>2, <1>3 DEF P, Q

\* Rows counted in the two halves are counted once.
LEMMA HalvesWeigh ==
  ASSUME NEW rs, Bag(rs), NEW run, NEW T, T \subseteq DOMAIN rs,
         NEW P, P = {x \in T : x.run = run}, NEW Q, Q = {x \in T : x.run # run}
  PROVE  Weight(Own(rs, run), P) + Weight(Others(rs, run), Q) = Weight(rs, T)
<1> DEFINE U == {x \in DOMAIN rs : x.run = run}
           V == {x \in DOMAIN rs : x.run # run}
<1>1. /\ P \subseteq U /\ Q \subseteq V /\ P \subseteq DOMAIN rs /\ Q \subseteq DOMAIN rs
      /\ P \cap Q = {} /\ P \cup Q = T
  OBVIOUS
<1>2. Own(rs, run) = Within(rs, U) /\ Others(rs, run) = Within(rs, V)
  BY Zenon DEF Own, InRun, Others
<1> HIDE DEF U, V
<1>3. Weight(Within(rs, U), P) = Weight(rs, P) /\ Weight(Within(rs, V), Q) = Weight(rs, Q)
  BY <1>1, WithinWeight
<1>4. Weight(rs, P \cup Q) = Weight(rs, P) + Weight(rs, Q)
  BY <1>1, WeightSplit
<1> QED
  BY <1>1, <1>2, <1>3, <1>4, Zenon

\* Rows of a name are counted in one half or the other.
LEMMA NamedHalves ==
  ASSUME NEW rs, Bag(rs), NEW run, NEW n
  PROVE  /\ Named(Own(rs, run), n) + Named(Others(rs, run), n) = Named(rs, n)
         /\ Named(rs, n) \in Nat
<1>1. OfName(Own(rs, run), n) = {x \in OfName(rs, n) : x.run = run}
      /\ OfName(Others(rs, run), n) = {x \in OfName(rs, n) : x.run # run}
  <2>1. /\ DOMAIN Own(rs, run) = {x \in DOMAIN rs : x.run = run}
        /\ DOMAIN Others(rs, run) = {x \in DOMAIN rs : x.run # run}
    BY HalvesAre
  <2> QED
    BY <2>1 DEF OfName
<1>2. OfName(rs, n) \subseteq DOMAIN rs
  BY DEF OfName
<1>3. Weight(Own(rs, run), OfName(Own(rs, run), n))
        + Weight(Others(rs, run), OfName(Others(rs, run), n)) = Weight(rs, OfName(rs, n))
  BY <1>1, <1>2, HalvesWeigh
<1>4. Weight(rs, OfName(rs, n)) \in Nat
  BY <1>2, WeightNat
<1> QED
  BY <1>3, <1>4, NamedIs, Zenon

\* The alerts of a priority.
OfPriority(rs, p) == {x \in DOMAIN rs : x.name = "alert_candidate" /\ SpeltAs(x.priority, p)}

\* What any_case_counts counts.
LEMMA PrioritiesAre ==
  ASSUME NEW rs
  PROVE  any_case_counts(rs) = [p \in Priorities |-> Weight(rs, OfPriority(rs, p))]
<1> DEFINE n(p) == CountIf(rs, LAMBDA r : r.name = "alert_candidate" /\ SpeltAs(r.priority, p))
<1>1. ASSUME NEW p
      PROVE  n(p) = Weight(rs, OfPriority(rs, p))
  <2> DEFINE T == {x \in DOMAIN rs : x.name = "alert_candidate" /\ SpeltAs(x.priority, p)}
             f == [x \in T |-> rs[x]]
  <2>1. n(p) = MapThenSumSet(LAMBDA r : f[r], DOMAIN f)
    BY Zenon DEF CountIf, Size, Select, RestrictDomain, Restrict
  <2> QED
    BY <2>1, Zenon DEF Weight, SumOver, OfPriority
<1>2. any_case_counts(rs) = [p \in Priorities |-> n(p)]
  BY Zenon DEF any_case_counts
<1> HIDE DEF n
<1> QED
  BY <1>1, <1>2, Zenon

\* Alerts of a priority are counted in one half or the other.
LEMMA PriorityHalves ==
  ASSUME NEW rs, Bag(rs), NEW run, NEW p \in Priorities
  PROVE  /\ any_case_counts(Own(rs, run))[p] + any_case_counts(Others(rs, run))[p]
               = any_case_counts(rs)[p]
         /\ any_case_counts(rs)[p] \in Nat
<1>1. OfPriority(Own(rs, run), p) = {x \in OfPriority(rs, p) : x.run = run}
      /\ OfPriority(Others(rs, run), p) = {x \in OfPriority(rs, p) : x.run # run}
  <2>1. /\ DOMAIN Own(rs, run) = {x \in DOMAIN rs : x.run = run}
        /\ DOMAIN Others(rs, run) = {x \in DOMAIN rs : x.run # run}
    BY HalvesAre
  <2> QED
    BY <2>1 DEF OfPriority
<1>2. OfPriority(rs, p) \subseteq DOMAIN rs
  BY DEF OfPriority
<1>3. Weight(Own(rs, run), OfPriority(Own(rs, run), p))
        + Weight(Others(rs, run), OfPriority(Others(rs, run), p)) = Weight(rs, OfPriority(rs, p))
  BY <1>1, <1>2, HalvesWeigh
<1>4. Weight(rs, OfPriority(rs, p)) \in Nat
  BY <1>2, WeightNat
<1>5. \A b : any_case_counts(b)[p] = Weight(b, OfPriority(b, p))
  BY PrioritiesAre
<1> QED
  BY <1>3, <1>4, <1>5, Zenon

\* The suppressed alerts of a reason.
OfReason(rs, k) == {x \in DOMAIN rs : x.name = "alert_suppressed" /\ x.reason = k}
Suppressed(rs) == by_reason(rs, "alert_suppressed", SuppressionReasons).counts

\* What by_reason counts of the suppressed alerts.
LEMMA ReasonsAre ==
  ASSUME NEW rs
  PROVE  Suppressed(rs) = [k \in SuppressionReasons |-> Weight(rs, OfReason(rs, k))]
<1> DEFINE n(k) == CountIf(rs, LAMBDA r : r.name = "alert_suppressed" /\ r.reason = k)
           c == [k \in SuppressionReasons |-> n(k)]
           u == CountIf(rs, LAMBDA r : r.name = "alert_suppressed" /\ r.reason \notin SuppressionReasons)
<1>1. ASSUME NEW k
      PROVE  n(k) = Weight(rs, OfReason(rs, k))
  <2> DEFINE T == {x \in DOMAIN rs : x.name = "alert_suppressed" /\ x.reason = k}
             f == [x \in T |-> rs[x]]
  <2>1. n(k) = MapThenSumSet(LAMBDA r : f[r], DOMAIN f)
    BY Zenon DEF CountIf, Size, Select, RestrictDomain, Restrict
  <2> QED
    BY <2>1, Zenon DEF Weight, SumOver, OfReason
<1>2. by_reason(rs, "alert_suppressed", SuppressionReasons) = [counts |-> c, unknown |-> u]
  BY Zenon DEF by_reason
<1> HIDE DEF n, u
<1>3. c = [k \in SuppressionReasons |-> Weight(rs, OfReason(rs, k))]
  BY <1>1, Zenon
<1> HIDE DEF c
<1>4. Suppressed(rs) = c
  BY <1>2 DEF Suppressed
<1> QED
  BY <1>3, <1>4, Zenon

\* Suppressed alerts of a reason are counted in one half or the other.
LEMMA ReasonHalves ==
  ASSUME NEW rs, Bag(rs), NEW run, NEW k \in SuppressionReasons
  PROVE  /\ Suppressed(Own(rs, run))[k] + Suppressed(Others(rs, run))[k] = Suppressed(rs)[k]
         /\ Suppressed(rs)[k] \in Nat
<1>1. OfReason(Own(rs, run), k) = {x \in OfReason(rs, k) : x.run = run}
      /\ OfReason(Others(rs, run), k) = {x \in OfReason(rs, k) : x.run # run}
  <2>1. /\ DOMAIN Own(rs, run) = {x \in DOMAIN rs : x.run = run}
        /\ DOMAIN Others(rs, run) = {x \in DOMAIN rs : x.run # run}
    BY HalvesAre
  <2> QED
    BY <2>1 DEF OfReason
<1>2. OfReason(rs, k) \subseteq DOMAIN rs
  BY DEF OfReason
<1>3. Weight(Own(rs, run), OfReason(Own(rs, run), k))
        + Weight(Others(rs, run), OfReason(Others(rs, run), k)) = Weight(rs, OfReason(rs, k))
  BY <1>1, <1>2, HalvesWeigh
<1>4. Weight(rs, OfReason(rs, k)) \in Nat
  BY <1>2, WeightNat
<1>5. \A b : Suppressed(b)[k] = Weight(b, OfReason(b, k))
  BY ReasonsAre
<1> QED
  BY <1>3, <1>4, <1>5, Zenon

\* The episodes of the halves are those of the log, each in one half.
LEMMA EpisodeHalves ==
  ASSUME NEW rs, Bag(rs), NEW run
  PROVE  /\ Cardinality(Repeated(Own(rs, run))) + Cardinality(Repeated(Others(rs, run)))
               = Cardinality(Repeated(rs))
         /\ SumOver(Extra(Own(rs, run))) + SumOver(Extra(Others(rs, run))) = SumOver(Extra(rs))
<1> DEFINE A == Own(rs, run)
           B == Others(rs, run)
           a == Episodes(A)
           b == Episodes(B)
<1>1. /\ Bag(A) /\ Bag(B) /\ DOMAIN A = {x \in DOMAIN rs : x.run = run}
      /\ DOMAIN B = {x \in DOMAIN rs : x.run # run}
  BY HalvesAre
<1> HIDE DEF A, B
<1>2. (\A k \in a : k[1] = run) /\ (\A k \in b : k[1] # run)
  BY <1>1 DEF Episodes, KeysNamed, KeyOf
<1>3. a \cup b = Episodes(rs) /\ a \cap b = {}
  <2>1. a \cup b = Episodes(rs)
    BY <1>1 DEF Episodes, KeysNamed, KeyOf
  <2> HIDE DEF a, b
  <2> QED
    BY <1>2, <2>1
<1>4. ASSUME NEW k \in a
      PROVE  Weight(A, AlertsOn(A, k)) = Weight(rs, AlertsOn(rs, k))
  <2> DEFINE T == AlertsOn(rs, k)
  <2>1. k[1] = run
    BY <1>2
  <2>2. T \subseteq DOMAIN rs /\ T = {x \in T : x.run = run}
    BY <2>1 DEF AlertsOn
  <2>3. AlertsOn(A, k) = {x \in T : x.run = run}
    BY <1>1 DEF AlertsOn
  <2> HIDE DEF T
  <2>4. Weight(A, AlertsOn(A, k)) = Weight(rs, AlertsOn(A, k))
    <3> DEFINE N == AlertsOn(A, k)
               U == {x \in DOMAIN rs : x.run = run}
    <3>1. N \subseteq U
      BY <2>2, <2>3
    <3>2. A = Within(rs, U)
      BY Zenon DEF A, Own, InRun
    <3> HIDE DEF N, U
    <3>3. Weight(Within(rs, U), N) = Weight(rs, N)
      BY <3>1, WithinWeight
    <3> QED
      BY <3>2, <3>3, Zenon DEF N
  <2> QED
    BY <2>2, <2>3, <2>4, Zenon DEF T
<1>5. ASSUME NEW k \in b
      PROVE  Weight(B, AlertsOn(B, k)) = Weight(rs, AlertsOn(rs, k))
  <2> DEFINE T == AlertsOn(rs, k)
  <2>1. k[1] # run
    BY <1>2
  <2>2. T \subseteq DOMAIN rs /\ T = {x \in T : x.run # run}
    BY <2>1 DEF AlertsOn
  <2>3. AlertsOn(B, k) = {x \in T : x.run # run}
    BY <1>1 DEF AlertsOn
  <2> HIDE DEF T
  <2>4. Weight(B, AlertsOn(B, k)) = Weight(rs, AlertsOn(B, k))
    <3> DEFINE N == AlertsOn(B, k)
               U == {x \in DOMAIN rs : x.run # run}
    <3>1. N \subseteq U
      BY <2>2, <2>3
    <3>2. B = Within(rs, U)
      BY Zenon DEF B, Others
    <3> HIDE DEF N, U
    <3>3. Weight(Within(rs, U), N) = Weight(rs, N)
      BY <3>1, WithinWeight
    <3> QED
      BY <3>2, <3>3, Zenon DEF N
  <2> QED
    BY <2>2, <2>3, <2>4, Zenon DEF T
<1>6. Repeated(A) \cup Repeated(B) = Repeated(rs) /\ Repeated(A) \cap Repeated(B) = {}
  <2>1. /\ \A k : k \in Repeated(A) <=> k \in a /\ Weight(rs, AlertsOn(rs, k)) > 1
        /\ \A k : k \in Repeated(B) <=> k \in b /\ Weight(rs, AlertsOn(rs, k)) > 1
    BY <1>4, <1>5, Zenon DEF Repeated
  <2>2. \A k : k \in Repeated(rs) <=> k \in Episodes(rs) /\ Weight(rs, AlertsOn(rs, k)) > 1
    BY DEF Repeated
  <2> HIDE DEF a, b
  <2> QED
    BY <1>3, <2>1, <2>2, Zenon
<1>7. /\ IsFiniteSet(Repeated(A)) /\ Cardinality(Repeated(A)) \in Nat
      /\ IsFiniteSet(Repeated(B)) /\ Cardinality(Repeated(B)) \in Nat
  BY <1>1, EpisodesFinite
<1>8. Cardinality(Repeated(A)) + Cardinality(Repeated(B)) = Cardinality(Repeated(rs))
  <2>1. Cardinality(Repeated(A) \cup Repeated(B)) =
           Cardinality(Repeated(A)) + Cardinality(Repeated(B)) - Cardinality(Repeated(A) \cap Repeated(B))
    BY <1>7, FS_Union
  <2>2. Cardinality({}) = 0
    BY FS_EmptySet
  <2>3. Cardinality(Repeated(rs)) = Cardinality(Repeated(A)) + Cardinality(Repeated(B)) - 0
    BY <1>6, <2>1, <2>2, Zenon
  <2> QED
    BY <1>7, <2>3
<1> DEFINE f == Extra(rs)
           g == Extra(A)
           h == Extra(B)
<1>9. /\ IsFiniteSet(a \cup b) /\ DOMAIN f = a \cup b /\ DOMAIN g = a /\ DOMAIN h = b
      /\ \A k \in a \cup b : f[k] \in Int
  BY <1>1, <1>3, EpisodesFinite
<1>10. (\A k \in a : g[k] = f[k]) /\ (\A k \in b : h[k] = f[k])
  BY <1>3, <1>4, <1>5 DEF Extra
<1> HIDE DEF a, b, f, g, h
<1>11. SumOver(f) = SumOver(g) + SumOver(h)
  BY <1>3, <1>9, <1>10, SumSplit
<1> QED
  BY <1>8, <1>11, Zenon DEF f, g, h, A, B

-----------------------------------------------------------------------------
(* Adding and comparing metrics *)

\* What the tuning metrics count.
Kinds(rs) == [n \in EventNames \cup SignalNames |-> Named(rs, n)]
Tally(rs, r) == [counts |-> Kinds(rs), priorities |-> any_case_counts(rs),
                 repeated |-> repeated_episodes(rs), suppression |-> Suppressed(rs), rate |-> r]

\* What metrics_from_records counts.
LEMMA TuningIs ==
  ASSUME NEW rs
  PROVE  metrics_from_records(rs) = Tally(rs, market_metrics(rs).rate)
  BY Zenon DEF metrics_from_records, Tally, Kinds, Suppressed

\* Counts added and subtracted.
Together(f, g) == [k \in DOMAIN f |-> f[k] + g[k]]
Change(f, g) == [k \in DOMAIN f |-> g[k] - f[k]]

\* add_metrics adds every count.
LEMMA AddIs ==
  ASSUME NEW a, NEW b
  PROVE  add_metrics(a, b) =
            [counts |-> Together(a.counts, b.counts),
             priorities |-> Together(a.priorities, b.priorities),
             repeated |-> Together(a.repeated, b.repeated),
             suppression |-> Together(a.suppression, b.suppression),
             rate |-> SumOfRates(a.rate, b.rate)]
  BY Zenon DEF add_metrics, Together

\* metric_delta subtracts every count.
LEMMA DeltaIs ==
  ASSUME NEW a, NEW b
  PROVE  metric_delta(a, b) =
            [counts |-> Change(a.counts, b.counts),
             priorities |-> Change(a.priorities, b.priorities),
             repeated |-> Change(a.repeated, b.repeated),
             suppression |-> Change(a.suppression, b.suppression),
             rate |-> SumOfRates(a.rate, b.rate)]
  BY Zenon DEF metric_delta, Change

\* Metrics whose counts are numbers.
RepeatedKeys == {"signals", "extra"}
Whole(m) ==
    /\ \E r : m = [counts |-> m.counts, priorities |-> m.priorities, repeated |-> m.repeated,
                   suppression |-> m.suppression, rate |-> r]
    /\ m.counts \in [EventNames \cup SignalNames -> Int] /\ m.priorities \in [Priorities -> Int]
    /\ m.repeated \in [RepeatedKeys -> Int] /\ m.suppression \in [SuppressionReasons -> Int]

\* Metrics without the rate, which says nothing about a sum.
Counted(m) == [m EXCEPT !.rate = None]

\* Metrics with the same counts.
Alike(a, b) ==
    /\ a.counts = b.counts /\ a.priorities = b.priorities
    /\ a.repeated = b.repeated /\ a.suppression = b.suppression

\* Metrics with the same counts differ only in the rate.
LEMMA AlikeCounts ==
  ASSUME NEW a, Whole(a), NEW b, Whole(b), Alike(a, b)
  PROVE  Counted(a) = Counted(b)
<1> DEFINE R(m, r) == [counts |-> m.counts, priorities |-> m.priorities, repeated |-> m.repeated,
                       suppression |-> m.suppression, rate |-> r]
<1>1. PICK r : a = R(a, r)
  BY DEF Whole
<1>2. PICK s : b = R(b, s)
  BY DEF Whole
<1>3. \A c, p, q, u, t :
         [[counts |-> c, priorities |-> p, repeated |-> q, suppression |-> u, rate |-> t]
            EXCEPT !.rate = None]
         = [counts |-> c, priorities |-> p, repeated |-> q, suppression |-> u, rate |-> None]
  OBVIOUS
<1>4. [R(a, r) EXCEPT !.rate = None] = R(a, None) /\ [R(b, s) EXCEPT !.rate = None] = R(b, None)
  BY <1>3
<1>5. R(a, None) = R(b, None)
  BY Zenon DEF Alike
<1> HIDE DEF R
<1>6. [a EXCEPT !.rate = None] = R(a, None)
  BY <1>1, <1>4, Zenon
<1>7. [b EXCEPT !.rate = None] = R(b, None)
  BY <1>2, <1>4, Zenon
<1> QED
  BY <1>5, <1>6, <1>7, Zenon DEF Counted

\* Sums and differences of whole metrics are whole.
LEMMA TogetherInt ==
  ASSUME NEW S, NEW f \in [S -> Int], NEW g \in [S -> Int]
  PROVE  /\ Together(f, g) \in [S -> Int] /\ \A k \in S : Together(f, g)[k] = f[k] + g[k]
         /\ Change(f, g) \in [S -> Int] /\ \A k \in S : Change(f, g)[k] = g[k] - f[k]
  BY DEF Together, Change

\* The sum of whole metrics is whole.
LEMMA AddWhole ==
  ASSUME NEW a, Whole(a), NEW b, Whole(b)
  PROVE  /\ Whole(add_metrics(a, b))
         /\ add_metrics(a, b).counts = Together(a.counts, b.counts)
         /\ add_metrics(a, b).priorities = Together(a.priorities, b.priorities)
         /\ add_metrics(a, b).repeated = Together(a.repeated, b.repeated)
         /\ add_metrics(a, b).suppression = Together(a.suppression, b.suppression)
<1> DEFINE c == Together(a.counts, b.counts)
           p == Together(a.priorities, b.priorities)
           q == Together(a.repeated, b.repeated)
           s == Together(a.suppression, b.suppression)
           r == SumOfRates(a.rate, b.rate)
           m == add_metrics(a, b)
<1>1. m = [counts |-> c, priorities |-> p, repeated |-> q, suppression |-> s, rate |-> r]
  BY AddIs
<1>2. c \in [EventNames \cup SignalNames -> Int] /\ p \in [Priorities -> Int]
  BY TogetherInt DEF Whole
<1>3. q \in [RepeatedKeys -> Int] /\ s \in [SuppressionReasons -> Int]
  BY TogetherInt DEF Whole
<1> HIDE DEF c, p, q, s, r, m
<1>4. m.counts = c /\ m.priorities = p /\ m.repeated = q /\ m.suppression = s
  BY <1>1
<1>5. Whole(m)
  BY <1>1, <1>2, <1>3, <1>4, Zenon DEF Whole
<1> QED
  BY <1>4, <1>5 DEF c, p, q, s, m

\* The difference of whole metrics is whole.
LEMMA DeltaWhole ==
  ASSUME NEW a, Whole(a), NEW b, Whole(b)
  PROVE  /\ Whole(metric_delta(a, b))
         /\ metric_delta(a, b).counts = Change(a.counts, b.counts)
         /\ metric_delta(a, b).priorities = Change(a.priorities, b.priorities)
         /\ metric_delta(a, b).repeated = Change(a.repeated, b.repeated)
         /\ metric_delta(a, b).suppression = Change(a.suppression, b.suppression)
<1> DEFINE c == Change(a.counts, b.counts)
           p == Change(a.priorities, b.priorities)
           q == Change(a.repeated, b.repeated)
           s == Change(a.suppression, b.suppression)
           r == SumOfRates(a.rate, b.rate)
           m == metric_delta(a, b)
<1>1. m = [counts |-> c, priorities |-> p, repeated |-> q, suppression |-> s, rate |-> r]
  BY DeltaIs
<1>2. c \in [EventNames \cup SignalNames -> Int] /\ p \in [Priorities -> Int]
  BY TogetherInt DEF Whole
<1>3. q \in [RepeatedKeys -> Int] /\ s \in [SuppressionReasons -> Int]
  BY TogetherInt DEF Whole
<1> HIDE DEF c, p, q, s, r, m
<1>4. m.counts = c /\ m.priorities = p /\ m.repeated = q /\ m.suppression = s
  BY <1>1
<1>5. Whole(m)
  BY <1>1, <1>2, <1>3, <1>4, Zenon DEF Whole
<1> QED
  BY <1>4, <1>5 DEF c, p, q, s, m

\* The difference of two sums is the sum of the differences.
LEMMA ChangeTogether ==
  ASSUME NEW S, NEW a \in [S -> Int], NEW b \in [S -> Int], NEW c \in [S -> Int],
         NEW d \in [S -> Int]
  PROVE  Change(Together(a, b), Together(c, d)) = Together(Change(a, c), Change(b, d))
<1> DEFINE p == Together(a, b)
           q == Together(c, d)
           u == Change(a, c)
           v == Change(b, d)
<1>1. p \in [S -> Int] /\ q \in [S -> Int] /\ u \in [S -> Int] /\ v \in [S -> Int]
  BY TogetherInt
<1>2. \A k \in S : /\ p[k] = a[k] + b[k] /\ q[k] = c[k] + d[k]
                   /\ u[k] = c[k] - a[k] /\ v[k] = d[k] - b[k]
  BY TogetherInt
<1> HIDE DEF p, q, u, v
<1>3. Change(p, q) \in [S -> Int] /\ Together(u, v) \in [S -> Int]
  BY <1>1, TogetherInt
<1>4. \A k \in S : Change(p, q)[k] = q[k] - p[k] /\ Together(u, v)[k] = u[k] + v[k]
  BY <1>1, TogetherInt
<1>5. \A k \in S : a[k] \in Int /\ b[k] \in Int /\ c[k] \in Int /\ d[k] \in Int
  OBVIOUS
<1>6. \A k \in S : Change(p, q)[k] = Together(u, v)[k]
  BY <1>2, <1>4, <1>5
<1>7. Change(p, q) = Together(u, v)
  BY <1>3, <1>6
<1> QED
  BY <1>7 DEF p, q, u, v

\* metric_delta of two sums is the sum of the two deltas.
LEMMA DeltaOfSums ==
  ASSUME NEW a, Whole(a), NEW b, Whole(b), NEW c, Whole(c), NEW d, Whole(d)
  PROVE  Counted(metric_delta(add_metrics(a, b), add_metrics(c, d)))
            = Counted(add_metrics(metric_delta(a, c), metric_delta(b, d)))
<1> DEFINE p == add_metrics(a, b)
           q == add_metrics(c, d)
           u == metric_delta(a, c)
           v == metric_delta(b, d)
           x == metric_delta(p, q)
           y == add_metrics(u, v)
<1>1. Whole(p) /\ Whole(q) /\ Whole(u) /\ Whole(v)
  BY AddWhole, DeltaWhole
<1>2. /\ p.counts = Together(a.counts, b.counts) /\ q.counts = Together(c.counts, d.counts)
      /\ p.priorities = Together(a.priorities, b.priorities)
      /\ q.priorities = Together(c.priorities, d.priorities)
      /\ p.repeated = Together(a.repeated, b.repeated) /\ q.repeated = Together(c.repeated, d.repeated)
      /\ p.suppression = Together(a.suppression, b.suppression)
      /\ q.suppression = Together(c.suppression, d.suppression)
  BY AddWhole
<1>3. /\ u.counts = Change(a.counts, c.counts) /\ v.counts = Change(b.counts, d.counts)
      /\ u.priorities = Change(a.priorities, c.priorities)
      /\ v.priorities = Change(b.priorities, d.priorities)
      /\ u.repeated = Change(a.repeated, c.repeated) /\ v.repeated = Change(b.repeated, d.repeated)
      /\ u.suppression = Change(a.suppression, c.suppression)
      /\ v.suppression = Change(b.suppression, d.suppression)
  BY DeltaWhole
<1> HIDE DEF p, q, u, v
<1>4. /\ Whole(x) /\ x.counts = Change(p.counts, q.counts)
      /\ x.priorities = Change(p.priorities, q.priorities)
      /\ x.repeated = Change(p.repeated, q.repeated)
      /\ x.suppression = Change(p.suppression, q.suppression)
  BY <1>1, DeltaWhole
<1>5. /\ Whole(y) /\ y.counts = Together(u.counts, v.counts)
      /\ y.priorities = Together(u.priorities, v.priorities)
      /\ y.repeated = Together(u.repeated, v.repeated)
      /\ y.suppression = Together(u.suppression, v.suppression)
  BY <1>1, AddWhole
<1> HIDE DEF x, y
<1>6. x.counts = y.counts
  <2>1. Change(Together(a.counts, b.counts), Together(c.counts, d.counts))
           = Together(Change(a.counts, c.counts), Change(b.counts, d.counts))
    <3> DEFINE S == EventNames \cup SignalNames
               e == a.counts
               f == b.counts
               g == c.counts
               h == d.counts
    <3>1. e \in [S -> Int] /\ f \in [S -> Int] /\ g \in [S -> Int] /\ h \in [S -> Int]
      BY Zenon DEF Whole
    <3> HIDE DEF S, e, f, g, h
    <3>2. Change(Together(e, f), Together(g, h)) = Together(Change(e, g), Change(f, h))
      BY <3>1, ChangeTogether
    <3> QED
      BY <3>2 DEF e, f, g, h
  <2> QED
    BY <1>2, <1>3, <1>4, <1>5, <2>1, Zenon
<1>7. x.priorities = y.priorities
  <2>1. Change(Together(a.priorities, b.priorities), Together(c.priorities, d.priorities))
           = Together(Change(a.priorities, c.priorities), Change(b.priorities, d.priorities))
    <3> DEFINE S == Priorities
               e == a.priorities
               f == b.priorities
               g == c.priorities
               h == d.priorities
    <3>1. e \in [S -> Int] /\ f \in [S -> Int] /\ g \in [S -> Int] /\ h \in [S -> Int]
      BY Zenon DEF Whole
    <3> HIDE DEF S, e, f, g, h
    <3>2. Change(Together(e, f), Together(g, h)) = Together(Change(e, g), Change(f, h))
      BY <3>1, ChangeTogether
    <3> QED
      BY <3>2 DEF e, f, g, h
  <2> QED
    BY <1>2, <1>3, <1>4, <1>5, <2>1, Zenon
<1>8. x.repeated = y.repeated
  <2>1. Change(Together(a.repeated, b.repeated), Together(c.repeated, d.repeated))
           = Together(Change(a.repeated, c.repeated), Change(b.repeated, d.repeated))
    <3> DEFINE S == RepeatedKeys
               e == a.repeated
               f == b.repeated
               g == c.repeated
               h == d.repeated
    <3>1. e \in [S -> Int] /\ f \in [S -> Int] /\ g \in [S -> Int] /\ h \in [S -> Int]
      BY Zenon DEF Whole
    <3> HIDE DEF S, e, f, g, h
    <3>2. Change(Together(e, f), Together(g, h)) = Together(Change(e, g), Change(f, h))
      BY <3>1, ChangeTogether
    <3> QED
      BY <3>2 DEF e, f, g, h
  <2> QED
    BY <1>2, <1>3, <1>4, <1>5, <2>1, Zenon
<1>9. x.suppression = y.suppression
  <2>1. Change(Together(a.suppression, b.suppression), Together(c.suppression, d.suppression))
           = Together(Change(a.suppression, c.suppression), Change(b.suppression, d.suppression))
    <3> DEFINE S == SuppressionReasons
               e == a.suppression
               f == b.suppression
               g == c.suppression
               h == d.suppression
    <3>1. e \in [S -> Int] /\ f \in [S -> Int] /\ g \in [S -> Int] /\ h \in [S -> Int]
      BY Zenon DEF Whole
    <3> HIDE DEF S, e, f, g, h
    <3>2. Change(Together(e, f), Together(g, h)) = Together(Change(e, g), Change(f, h))
      BY <3>1, ChangeTogether
    <3> QED
      BY <3>2 DEF e, f, g, h
  <2> QED
    BY <1>2, <1>3, <1>4, <1>5, <2>1, Zenon
<1>10. Counted(x) = Counted(y)
  BY <1>4, <1>5, <1>6, <1>7, <1>8, <1>9, AlikeCounts DEF Alike
<1> QED
  BY <1>10 DEF x, y, p, q, u, v

\* No rows.
LEMMA NoRows ==
  /\ Bag(<<>>) /\ DOMAIN <<>> = {}
  /\ \A n : Named(<<>>, n) = 0
  /\ \A p \in Priorities : any_case_counts(<<>>)[p] = 0
  /\ \A k \in SuppressionReasons : Suppressed(<<>>)[k] = 0
  /\ Cardinality(Repeated(<<>>)) = 0 /\ SumOver(Extra(<<>>)) = 0
<1> DEFINE e == <<>>
<1>1. DOMAIN e = {} /\ e = [x \in DOMAIN e |-> e[x]]
  OBVIOUS
<1> HIDE DEF e
<1>2. Bag(e)
  BY <1>1, FS_EmptySet DEF Bag
<1>3. Weight(e, {}) = 0
  BY <1>2, WeightNat
<1>4. ASSUME NEW n
      PROVE  Named(e, n) = 0
  <2>1. OfName(e, n) = {}
    BY <1>1 DEF OfName
  <2> QED
    BY <1>3, <2>1, NamedIs, Zenon
<1>5. ASSUME NEW p \in Priorities
      PROVE  any_case_counts(e)[p] = 0
  <2>1. OfPriority(e, p) = {}
    BY <1>1 DEF OfPriority
  <2>2. any_case_counts(e)[p] = Weight(e, OfPriority(e, p))
    BY PrioritiesAre
  <2> QED
    BY <1>3, <2>1, <2>2, Zenon
<1>6. ASSUME NEW k \in SuppressionReasons
      PROVE  Suppressed(e)[k] = 0
  <2>1. OfReason(e, k) = {}
    BY <1>1 DEF OfReason
  <2>2. Suppressed(e)[k] = Weight(e, OfReason(e, k))
    BY ReasonsAre
  <2> QED
    BY <1>3, <2>1, <2>2, Zenon
<1>7. Episodes(e) = {} /\ Repeated(e) = {} /\ Episodic(e) = {}
  <2>1. Episodes(e) = {}
    BY <1>1 DEF Episodes, KeysNamed
  <2> QED
    BY <1>1, <2>1 DEF Repeated, Episodic
<1>8. Cardinality({}) = 0
  BY FS_EmptySet
<1>9. SumOver(Extra(e)) = 0
  <2>1. SumOver(Extra(e)) + Cardinality(Episodes(e)) = Weight(e, Episodic(e))
    BY <1>2, ExtraCounted
  <2>2. SumOver(Extra(e)) + 0 = 0
    BY <1>3, <1>7, <1>8, <2>1, Zenon
  <2>3. SumOver(Extra(e)) \in Int
    BY <1>2, EpisodesFinite
  <2> QED
    BY <2>2, <2>3
<1> QED
  BY <1>1, <1>2, <1>4, <1>5, <1>6, <1>7, <1>8, <1>9 DEF e

\* The counts of a bag are numbers.
LEMMA TallyWhole ==
  ASSUME NEW rs, Bag(rs), NEW r
  PROVE  /\ Whole(Tally(rs, r)) /\ Tally(rs, r).counts = Kinds(rs)
         /\ Tally(rs, r).priorities = any_case_counts(rs)
         /\ Tally(rs, r).repeated = repeated_episodes(rs) /\ Tally(rs, r).suppression = Suppressed(rs)
         /\ repeated_episodes(rs)["signals"] = Cardinality(Repeated(rs))
         /\ repeated_episodes(rs)["extra"] = SumOver(Extra(rs))
<1> DEFINE c == Kinds(rs)
           p == any_case_counts(rs)
           q == repeated_episodes(rs)
           s == Suppressed(rs)
           m == Tally(rs, r)
<1>1. c \in [EventNames \cup SignalNames -> Int]
  <2>1. \A n : Named(rs, n) \in Int
    BY NamedHalves
  <2> QED
    BY <2>1 DEF Kinds
<1>2. p \in [Priorities -> Int]
  <2>1. p = [k \in Priorities |-> Weight(rs, OfPriority(rs, k))]
    BY PrioritiesAre
  <2>2. \A k \in Priorities : Weight(rs, OfPriority(rs, k)) \in Int
    <3>1. \A k : OfPriority(rs, k) \subseteq DOMAIN rs
      BY DEF OfPriority
    <3> QED
      BY <3>1, WeightNat
  <2> QED
    BY <2>1, <2>2
<1>3. s \in [SuppressionReasons -> Int]
  <2>1. s = [k \in SuppressionReasons |-> Weight(rs, OfReason(rs, k))]
    BY ReasonsAre
  <2>2. \A k \in SuppressionReasons : Weight(rs, OfReason(rs, k)) \in Int
    <3>1. \A k : OfReason(rs, k) \subseteq DOMAIN rs
      BY DEF OfReason
    <3> QED
      BY <3>1, WeightNat
  <2> QED
    BY <2>1, <2>2
<1>4. q \in [RepeatedKeys -> Int] /\ q["signals"] = Cardinality(Repeated(rs))
      /\ q["extra"] = SumOver(Extra(rs))
  <2>1. q = [signals |-> Cardinality(Repeated(rs)), extra |-> SumOver(Extra(rs))]
    BY RepeatedIs
  <2>2. Cardinality(Repeated(rs)) \in Int /\ SumOver(Extra(rs)) \in Int
    BY EpisodesFinite
  <2> DEFINE u == Cardinality(Repeated(rs))
             v == SumOver(Extra(rs))
  <2> HIDE DEF u, v, q
  <2>3. q = [signals |-> u, extra |-> v] /\ u \in Int /\ v \in Int
    BY <2>1, <2>2 DEF u, v
  <2>4. q \in [RepeatedKeys -> Int] /\ q["signals"] = u /\ q["extra"] = v
    BY <2>3 DEF RepeatedKeys
  <2> QED
    BY <2>4 DEF u, v
<1>5. m = [counts |-> c, priorities |-> p, repeated |-> q, suppression |-> s, rate |-> r]
  BY Zenon DEF Tally
<1> HIDE DEF c, p, q, s, m
<1>6. m.counts = c /\ m.priorities = p /\ m.repeated = q /\ m.suppression = s
  BY <1>5
<1>7. Whole(m)
  BY <1>1, <1>2, <1>3, <1>4, <1>5, <1>6, Zenon DEF Whole
<1> QED
  BY <1>4, <1>6, <1>7 DEF c, p, q, s, m

\* The counts of the two halves add up to those of the log and of no rows.
LEMMA HalvesTogether ==
  ASSUME NEW rs, Bag(rs), NEW run, NEW A, A = Own(rs, run), NEW B, B = Others(rs, run)
  PROVE  /\ Together(Kinds(A), Kinds(B)) = Together(Kinds(rs), Kinds(<<>>))
         /\ Together(any_case_counts(A), any_case_counts(B))
               = Together(any_case_counts(rs), any_case_counts(<<>>))
         /\ Together(repeated_episodes(A), repeated_episodes(B))
               = Together(repeated_episodes(rs), repeated_episodes(<<>>))
         /\ Together(Suppressed(A), Suppressed(B)) = Together(Suppressed(rs), Suppressed(<<>>))
<1> DEFINE e == <<>>
<1>1. Bag(A) /\ Bag(B) /\ Bag(e)
  BY HalvesAre, NoRows
<1>2. ASSUME NEW b, Bag(b)
      PROVE  /\ Kinds(b) \in [EventNames \cup SignalNames -> Int]
             /\ any_case_counts(b) \in [Priorities -> Int]
             /\ repeated_episodes(b) \in [RepeatedKeys -> Int]
             /\ Suppressed(b) \in [SuppressionReasons -> Int]
  BY <1>2, TallyWhole, Zenon DEF Whole
<1>3. ASSUME NEW S, NEW f \in [S -> Int], NEW g \in [S -> Int], NEW h \in [S -> Int],
             NEW z \in [S -> Int], \A k \in S : f[k] + g[k] = h[k], \A k \in S : z[k] = 0
      PROVE  Together(f, g) = Together(h, z)
  <2>1. /\ Together(f, g) \in [S -> Int] /\ \A k \in S : Together(f, g)[k] = f[k] + g[k]
        /\ Together(h, z) \in [S -> Int] /\ \A k \in S : Together(h, z)[k] = h[k] + z[k]
    BY TogetherInt
  <2>2. \A k \in S : h[k] \in Int
    OBVIOUS
  <2>3. \A k \in S : Together(f, g)[k] = Together(h, z)[k]
    BY <1>3, <2>1, <2>2
  <2> QED
    BY <2>1, <2>3
<1> HIDE DEF e
<1>4. Together(Kinds(A), Kinds(B)) = Together(Kinds(rs), Kinds(e))
  <2> DEFINE S == EventNames \cup SignalNames
             f == Kinds(A)
             g == Kinds(B)
             h == Kinds(rs)
             z == Kinds(e)
  <2>1. f \in [S -> Int] /\ g \in [S -> Int] /\ h \in [S -> Int] /\ z \in [S -> Int]
    BY <1>1, <1>2
  <2>2. \A k \in S : f[k] + g[k] = h[k]
    <3>1. \A k : Named(A, k) + Named(B, k) = Named(rs, k)
      BY NamedHalves
    <3> QED
      BY <3>1, Zenon DEF Kinds
  <2>3. \A k \in S : z[k] = 0
    BY NoRows DEF e, Kinds
  <2> HIDE DEF S, f, g, h, z
  <2>4. Together(f, g) = Together(h, z)
    BY <1>3, <2>1, <2>2, <2>3
  <2> QED
    BY <2>4 DEF f, g, h, z
<1>5. Together(any_case_counts(A), any_case_counts(B))
         = Together(any_case_counts(rs), any_case_counts(e))
  <2> DEFINE S == Priorities
             f == any_case_counts(A)
             g == any_case_counts(B)
             h == any_case_counts(rs)
             z == any_case_counts(e)
  <2>1. f \in [S -> Int] /\ g \in [S -> Int] /\ h \in [S -> Int] /\ z \in [S -> Int]
    BY <1>1, <1>2
  <2>2. \A k \in S : f[k] + g[k] = h[k]
    BY PriorityHalves
  <2>3. \A k \in S : z[k] = 0
    BY NoRows DEF e
  <2> HIDE DEF S, f, g, h, z
  <2>4. Together(f, g) = Together(h, z)
    BY <1>3, <2>1, <2>2, <2>3
  <2> QED
    BY <2>4 DEF f, g, h, z
<1>6. Together(repeated_episodes(A), repeated_episodes(B))
         = Together(repeated_episodes(rs), repeated_episodes(e))
  <2> DEFINE S == RepeatedKeys
             f == repeated_episodes(A)
             g == repeated_episodes(B)
             h == repeated_episodes(rs)
             z == repeated_episodes(e)
  <2>1. f \in [S -> Int] /\ g \in [S -> Int] /\ h \in [S -> Int] /\ z \in [S -> Int]
    BY <1>1, <1>2
  <2>2. \A b : Bag(b) => /\ repeated_episodes(b)["signals"] = Cardinality(Repeated(b))
                         /\ repeated_episodes(b)["extra"] = SumOver(Extra(b))
    BY TallyWhole
  <2>3. /\ Cardinality(Repeated(A)) + Cardinality(Repeated(B)) = Cardinality(Repeated(rs))
        /\ SumOver(Extra(A)) + SumOver(Extra(B)) = SumOver(Extra(rs))
    BY EpisodeHalves
  <2>4. Cardinality(Repeated(e)) = 0 /\ SumOver(Extra(e)) = 0
    BY NoRows DEF e
  <2>5. /\ f["signals"] + g["signals"] = h["signals"] /\ f["extra"] + g["extra"] = h["extra"]
        /\ z["signals"] = 0 /\ z["extra"] = 0
    BY <1>1, <2>2, <2>3, <2>4, Zenon
  <2>6. (\A k \in S : f[k] + g[k] = h[k]) /\ (\A k \in S : z[k] = 0)
    BY <2>5, Zenon DEF RepeatedKeys
  <2> HIDE DEF S, f, g, h, z
  <2>7. Together(f, g) = Together(h, z)
    BY <1>3, <2>1, <2>6
  <2> QED
    BY <2>7 DEF f, g, h, z
<1>7. Together(Suppressed(A), Suppressed(B)) = Together(Suppressed(rs), Suppressed(e))
  <2> DEFINE S == SuppressionReasons
             f == Suppressed(A)
             g == Suppressed(B)
             h == Suppressed(rs)
             z == Suppressed(e)
  <2>1. f \in [S -> Int] /\ g \in [S -> Int] /\ h \in [S -> Int] /\ z \in [S -> Int]
    BY <1>1, <1>2
  <2>2. \A k \in S : f[k] + g[k] = h[k]
    BY ReasonHalves
  <2>3. \A k \in S : z[k] = 0
    BY NoRows DEF e
  <2> HIDE DEF S, f, g, h, z
  <2>4. Together(f, g) = Together(h, z)
    BY <1>3, <2>1, <2>2, <2>3
  <2> QED
    BY <2>4 DEF f, g, h, z
<1> QED
  BY <1>4, <1>5, <1>6, <1>7 DEF e

\* The two halves of a log add up to the log.
LEMMA HalvesAddUp ==
  ASSUME NEW rs, Bag(rs), NEW run, NEW a, a = metrics_from_records(Own(rs, run)),
         NEW b, b = metrics_from_records(Others(rs, run)), NEW c, c = metrics_from_records(rs),
         NEW d, d = metrics_from_records(<<>>)
  PROVE  /\ Whole(a) /\ Whole(b) /\ Whole(c) /\ Whole(d)
         /\ Counted(add_metrics(a, b)) = Counted(add_metrics(c, d))
<1> DEFINE A == Own(rs, run)
           B == Others(rs, run)
           E == <<>>
<1>1. Bag(A) /\ Bag(B) /\ Bag(E)
  BY HalvesAre, NoRows
<1>2. /\ a = Tally(A, market_metrics(A).rate) /\ b = Tally(B, market_metrics(B).rate)
      /\ c = Tally(rs, market_metrics(rs).rate) /\ d = Tally(E, market_metrics(E).rate)
  BY TuningIs
<1>3. /\ Together(Kinds(A), Kinds(B)) = Together(Kinds(rs), Kinds(E))
      /\ Together(any_case_counts(A), any_case_counts(B))
            = Together(any_case_counts(rs), any_case_counts(E))
      /\ Together(repeated_episodes(A), repeated_episodes(B))
            = Together(repeated_episodes(rs), repeated_episodes(E))
      /\ Together(Suppressed(A), Suppressed(B)) = Together(Suppressed(rs), Suppressed(E))
  BY HalvesTogether
<1> HIDE DEF A, B, E
<1>4. /\ Whole(a) /\ a.counts = Kinds(A) /\ a.priorities = any_case_counts(A)
      /\ a.repeated = repeated_episodes(A) /\ a.suppression = Suppressed(A)
  BY <1>1, <1>2, TallyWhole
<1>5. /\ Whole(b) /\ b.counts = Kinds(B) /\ b.priorities = any_case_counts(B)
      /\ b.repeated = repeated_episodes(B) /\ b.suppression = Suppressed(B)
  BY <1>1, <1>2, TallyWhole
<1>6. /\ Whole(c) /\ c.counts = Kinds(rs) /\ c.priorities = any_case_counts(rs)
      /\ c.repeated = repeated_episodes(rs) /\ c.suppression = Suppressed(rs)
  BY <1>1, <1>2, TallyWhole
<1>7. /\ Whole(d) /\ d.counts = Kinds(E) /\ d.priorities = any_case_counts(E)
      /\ d.repeated = repeated_episodes(E) /\ d.suppression = Suppressed(E)
  BY <1>1, <1>2, TallyWhole
<1> DEFINE x == add_metrics(a, b)
           y == add_metrics(c, d)
<1>8. /\ Whole(x) /\ x.counts = Together(a.counts, b.counts)
      /\ x.priorities = Together(a.priorities, b.priorities)
      /\ x.repeated = Together(a.repeated, b.repeated)
      /\ x.suppression = Together(a.suppression, b.suppression)
  BY <1>4, <1>5, AddWhole
<1>9. /\ Whole(y) /\ y.counts = Together(c.counts, d.counts)
      /\ y.priorities = Together(c.priorities, d.priorities)
      /\ y.repeated = Together(c.repeated, d.repeated)
      /\ y.suppression = Together(c.suppression, d.suppression)
  BY <1>6, <1>7, AddWhole
<1> HIDE DEF x, y
<1>10. Alike(x, y)
  <2>1. x.counts = Together(Kinds(A), Kinds(B)) /\ y.counts = Together(Kinds(rs), Kinds(E))
    BY <1>4, <1>5, <1>6, <1>7, <1>8, <1>9, Zenon
  <2>2. /\ x.priorities = Together(any_case_counts(A), any_case_counts(B))
        /\ y.priorities = Together(any_case_counts(rs), any_case_counts(E))
    BY <1>4, <1>5, <1>6, <1>7, <1>8, <1>9, Zenon
  <2>3. /\ x.repeated = Together(repeated_episodes(A), repeated_episodes(B))
        /\ y.repeated = Together(repeated_episodes(rs), repeated_episodes(E))
    BY <1>4, <1>5, <1>6, <1>7, <1>8, <1>9, Zenon
  <2>4. /\ x.suppression = Together(Suppressed(A), Suppressed(B))
        /\ y.suppression = Together(Suppressed(rs), Suppressed(E))
    BY <1>4, <1>5, <1>6, <1>7, <1>8, <1>9, Zenon
  <2> QED
    BY <1>3, <2>1, <2>2, <2>3, <2>4, Zenon DEF Alike
<1>11. Counted(x) = Counted(y)
  BY <1>8, <1>9, <1>10, AlikeCounts
<1> QED
  BY <1>4, <1>5, <1>6, <1>7, <1>11 DEF x, y

\* The metrics of two replays, added up.
TotalOf(ms) == FoldLeft(add_metrics, Head(ms), Tail(ms))

\* The function by which FoldLeft adds up the metrics of t, starting with b.
Folded(b, t, S) ==
    CHOOSE g : g = [s \in SUBSET S |->
        IF s = {} THEN b ELSE add_metrics(g[s \ {Max(s)}], t[Max(s)])]

\* Of two metrics, the total is their sum.
LEMMA TotalTwo ==
  ASSUME NEW ms, ms = [i \in 1..2 |-> ms[i]]
  PROVE  TotalOf(ms) = add_metrics(ms[1], ms[2])
<1> DEFINE V == {ms[1], ms[2]}
           t == Tail(ms)
           b == Head(ms)
<1>1. \A i \in 1..2 : ms[i] \in V
  <2>1. \A i \in 1..2 : i = 1 \/ i = 2
    OBVIOUS
  <2> QED
    BY <2>1, Zenon
<1> HIDE DEF V
<1>2. ms \in [1..2 -> V]
  BY <1>1
<1>3. ms \in Seq(V) /\ Len(ms) = 2
  BY <1>2
<1>4. b = ms[1] /\ Len(t) = 1 /\ t \in Seq(V) /\ t[1] = ms[2]
  BY <1>3
<1>5. DOMAIN t = {1}
  BY <1>4
<1> HIDE DEF t, b
<1>6. TotalOf(ms) = Folded(b, t, {1})[{1}]
  <2>1. FoldLeft(add_metrics, b, t) = Folded(b, t, DOMAIN t)[DOMAIN t]
    BY Zenon DEF FoldLeft, MapThenFoldSet, Folded
  <2> QED
    BY <1>5, <2>1, Zenon DEF TotalOf, b, t
<1>7. \A s \in SUBSET {1} : s = {} \/ s = {1}
  BY Zenon
<1>8. Max({1}) = 1
  <2>1. Max({1}) \in {1}
    <3>1. \E x \in {1} : \A y \in {1} : x >= y
      OBVIOUS
    <3> QED
      BY <3>1, Zenon DEF Max
  <2> QED
    BY <2>1
<1> DEFINE G == [s \in SUBSET {1} |-> IF s = {} THEN b ELSE add_metrics(b, t[1])]
           R(g) == [s \in SUBSET {1} |->
                      IF s = {} THEN b ELSE add_metrics(g[s \ {Max(s)}], t[Max(s)])]
<1>9. {1} \in SUBSET {1} /\ {} \in SUBSET {1} /\ {1} # {} /\ {1} \ {1} = {}
  BY Zenon
<1>10. G[{}] = b
  BY <1>9
<1>11. \A g : R(g)[{}] = b /\ R(g)[{1}] = add_metrics(g[{}], t[1])
  BY <1>8, <1>9, Zenon
<1>12. G = R(G)
  <2>1. \A s \in SUBSET {1} : G[s] = R(G)[s]
    <3>1. G[{1}] = add_metrics(b, t[1])
      BY <1>9, Zenon
    <3> HIDE DEF G, R
    <3>2. G[{}] = R(G)[{}] /\ G[{1}] = R(G)[{1}]
      BY <1>10, <1>11, <3>1, Zenon
    <3> QED
      BY <1>7, <3>2, Zenon
  <2>2. DOMAIN G = SUBSET {1} /\ DOMAIN R(G) = SUBSET {1}
    BY Zenon
  <2>3. G = [s \in SUBSET {1} |-> G[s]] /\ R(G) = [s \in SUBSET {1} |-> R(G)[s]]
    BY Zenon
  <2> HIDE DEF G, R
  <2> QED
    BY <2>1, <2>3, Zenon
<1> DEFINE F == Folded(b, t, {1})
<1>13. F = R(F)
  <2>1. F = CHOOSE g : g = R(g)
    BY Zenon DEF Folded
  <2> HIDE DEF G, R, F
  <2> QED
    BY <1>12, <2>1, Zenon
<1> HIDE DEF R, F
<1>14. F[{}] = b /\ F[{1}] = add_metrics(F[{}], t[1])
  BY <1>11, <1>13, Zenon
<1> QED
  BY <1>4, <1>6, <1>14, Zenon DEF F

\* The comparison of the metrics of every replay.
MetricsList(records) == [i \in DOMAIN records |-> metrics_from_records(records[i])]
ComparedOf(b, c) ==
    [per_fixture |-> [i \in DOMAIN b |-> metric_delta(b[i], c[i])],
     baseline |-> TotalOf(b), candidate |-> TotalOf(c), delta |-> metric_delta(TotalOf(b), TotalOf(c))]

\* What compare_artifacts compares.
LEMMA CompareIs ==
  ASSUME NEW left, NEW right
  PROVE  compare_artifacts(left, right) = ComparedOf(MetricsList(left), MetricsList(right))
<1>1. \A a : (CHOOSE y \in {a} : TRUE) = a
  BY Zenon
<1>2. ASSUME NEW v
      PROVE  Once(v, metrics_from_records) = metrics_from_records(v)
  <2>1. {metrics_from_records(x) : x \in {v}} = {metrics_from_records(v)}
    BY Zenon
  <2>2. Once(v, metrics_from_records) = CHOOSE y \in {metrics_from_records(x) : x \in {v}} : TRUE
    BY Zenon DEF Once
  <2> QED
    BY <1>1, <2>1, <2>2, Zenon
<1> DEFINE L(records) == [i \in DOMAIN records |-> Once(records[i], metrics_from_records)]
           H(b, c) == [per_fixture |-> [i \in DOMAIN b |-> metric_delta(b[i], c[i])],
                       baseline |-> FoldLeft(add_metrics, Head(b), Tail(b)),
                       candidate |-> FoldLeft(add_metrics, Head(c), Tail(c)),
                       delta |-> metric_delta(FoldLeft(add_metrics, Head(b), Tail(b)),
                                              FoldLeft(add_metrics, Head(c), Tail(c)))]
<1>3. \A records : L(records) = MetricsList(records)
  BY <1>2, Zenon DEF MetricsList
<1>4. \A b, c : H(b, c) = ComparedOf(b, c)
  BY Zenon DEF ComparedOf, TotalOf
<1>5. compare_artifacts(left, right) =
         CHOOSE y \in {CHOOSE z \in {H(b, c) : c \in {L(right)}} : TRUE : b \in {L(left)}} : TRUE
  BY Zenon DEF compare_artifacts, Once
<1> HIDE DEF L, H
<1> DEFINE K(b) == CHOOSE z \in {H(b, c) : c \in {L(right)}} : TRUE
<1>6. \A b : K(b) = H(b, L(right))
  <2> SUFFICES ASSUME NEW b
               PROVE  K(b) = H(b, L(right))
    OBVIOUS
  <2>1. {H(b, c) : c \in {L(right)}} = {H(b, L(right))}
    BY Zenon
  <2> QED
    BY <1>1, <2>1, Zenon
<1>7. compare_artifacts(left, right) = K(L(left))
  <2> HIDE DEF K
  <2>1. {K(b) : b \in {L(left)}} = {K(L(left))}
    BY Zenon
  <2>2. compare_artifacts(left, right) = CHOOSE y \in {K(b) : b \in {L(left)}} : TRUE
    BY <1>5, Zenon DEF K
  <2> QED
    BY <1>1, <2>1, <2>2, Zenon
<1> HIDE DEF K
<1> QED
  BY <1>3, <1>4, <1>6, <1>7, Zenon

\* A log cut in two: the rows of a run, and the others.
CutAt(rs, run) == [i \in 1..2 |-> Select(rs, LAMBDA r : (r.run = run) <=> (i = 1))]
WholeAndNone(rs) == <<rs, <<>>>>

\* Comparing a log cut in two with the whole log and no rows.
LEMMA ComparedHalves ==
  ASSUME NEW rs, Bag(rs), NEW run,
         NEW cmp, cmp = compare_artifacts(CutAt(rs, run), WholeAndNone(rs))
  PROVE  /\ Counted(cmp.baseline) = Counted(cmp.candidate)
         /\ Counted(cmp.delta) = Counted(add_metrics(cmp.per_fixture[1], cmp.per_fixture[2]))
<1> DEFINE a == metrics_from_records(Own(rs, run))
           b == metrics_from_records(Others(rs, run))
           c == metrics_from_records(rs)
           d == metrics_from_records(<<>>)
           split == CutAt(rs, run)
           right == WholeAndNone(rs)
           u == MetricsList(split)
           v == MetricsList(right)
<1>1. DOMAIN split = 1..2 /\ split[1] = Own(rs, run) /\ split[2] = Others(rs, run)
  <2>1. DOMAIN split = 1..2
    BY DEF CutAt
  <2>2. \A i \in 1..2 : split[i] = Within(rs, {x \in DOMAIN rs : (x.run = run) <=> (i = 1)})
    <3>1. \A i : Select(rs, LAMBDA r : (r.run = run) <=> (i = 1))
                 = Within(rs, {x \in DOMAIN rs : (x.run = run) <=> (i = 1)})
      BY Zenon DEF Select, RestrictDomain, Restrict, Within
    <3> QED
      BY <3>1, Zenon DEF CutAt
  <2>3. /\ {x \in DOMAIN rs : (x.run = run) <=> (1 = 1)} = {x \in DOMAIN rs : x.run = run}
        /\ {x \in DOMAIN rs : (x.run = run) <=> (2 = 1)} = {x \in DOMAIN rs : x.run # run}
    OBVIOUS
  <2>4. 1 \in 1..2 /\ 2 \in 1..2
    OBVIOUS
  <2> QED
    BY <2>1, <2>2, <2>3, <2>4, Zenon DEF Own, InRun, Others
<1>2. DOMAIN right = 1..2 /\ right[1] = rs /\ right[2] = <<>>
  BY DEF WholeAndNone
<1> HIDE DEF split, right
<1>3. u = [i \in 1..2 |-> u[i]] /\ u[1] = a /\ u[2] = b
  <2>1. DOMAIN u = 1..2 /\ \A i \in 1..2 : u[i] = metrics_from_records(split[i])
    BY <1>1, Zenon DEF MetricsList
  <2>2. u = [i \in DOMAIN u |-> u[i]]
    BY Zenon DEF MetricsList
  <2>3. 1 \in 1..2 /\ 2 \in 1..2
    OBVIOUS
  <2> HIDE DEF u
  <2> QED
    BY <1>1, <2>1, <2>2, <2>3, Zenon
<1>4. v = [i \in 1..2 |-> v[i]] /\ v[1] = c /\ v[2] = d
  <2>1. DOMAIN v = 1..2 /\ \A i \in 1..2 : v[i] = metrics_from_records(right[i])
    BY <1>2, Zenon DEF MetricsList
  <2>2. v = [i \in DOMAIN v |-> v[i]]
    BY Zenon DEF MetricsList
  <2>3. 1 \in 1..2 /\ 2 \in 1..2
    OBVIOUS
  <2> HIDE DEF v
  <2> QED
    BY <1>2, <2>1, <2>2, <2>3, Zenon
<1>5. cmp = ComparedOf(u, v)
  BY CompareIs DEF split, right
<1> HIDE DEF u, v
<1>6. TotalOf(u) = add_metrics(a, b) /\ TotalOf(v) = add_metrics(c, d)
  <2>1. TotalOf(u) = add_metrics(u[1], u[2])
    BY <1>3, TotalTwo
  <2>2. TotalOf(v) = add_metrics(v[1], v[2])
    BY <1>4, TotalTwo
  <2> QED
    BY <1>3, <1>4, <2>1, <2>2, Zenon
<1>7. /\ Whole(a) /\ Whole(b) /\ Whole(c) /\ Whole(d)
      /\ Counted(add_metrics(a, b)) = Counted(add_metrics(c, d))
  BY HalvesAddUp
<1> HIDE DEF a, b, c, d
<1>8. Counted(metric_delta(add_metrics(a, b), add_metrics(c, d)))
         = Counted(add_metrics(metric_delta(a, c), metric_delta(b, d)))
  BY <1>7, DeltaOfSums
<1> DEFINE p == [i \in DOMAIN u |-> metric_delta(u[i], v[i])]
           x == TotalOf(u)
           y == TotalOf(v)
           z == metric_delta(x, y)
<1>9. cmp = [per_fixture |-> p, baseline |-> x, candidate |-> y, delta |-> z]
  BY <1>5, Zenon DEF ComparedOf
<1>10. p[1] = metric_delta(a, c) /\ p[2] = metric_delta(b, d)
  <2>1. 1 \in 1..2 /\ 2 \in 1..2
    OBVIOUS
  <2>2. DOMAIN u = 1..2
    BY <1>3, Zenon
  <2> QED
    BY <1>3, <1>4, <2>1, <2>2, Zenon
<1>11. z = metric_delta(add_metrics(a, b), add_metrics(c, d))
  BY <1>6, Zenon
<1> HIDE DEF p, x, y, z
<1>12. cmp.per_fixture = p /\ cmp.baseline = x /\ cmp.candidate = y /\ cmp.delta = z
  BY <1>9
<1>13. Counted(x) = Counted(y)
  BY <1>6, <1>7, Zenon DEF x, y
<1>14. Counted(z) = Counted(add_metrics(p[1], p[2]))
  BY <1>8, <1>10, <1>11, Zenon
<1> QED
  BY <1>12, <1>13, <1>14, Zenon

\* The runs' counts of a stage add up to the count of all rows.
LEMMA FunnelAddsUp ==
  ASSUME NEW rs, Bag(rs), Timed(rs), \A r \in DOMAIN rs : r.run # None, NEW n \in FunnelNames
  PROVE  pipeline(rs).counts[n]
            = SumOver([run \in DOMAIN ExposureOf(rs) |-> ExposureOf(rs)[run].funnel[n]])
<1> DEFINE e == ExposureOf(rs)
           D == RunsOf(rs)
<1>1. DOMAIN e = D /\ \A run \in D : e[run] = run_exposure(Own(rs, run))
  BY DEF ExposureOf
<1>2. \A run \in D : e[run].funnel[n] = Named(Own(rs, run), n)
  <2>1. \A run : run_exposure(Own(rs, run)).funnel = funnel(Own(rs, run))
    BY OwnIs, ExposureIs
  <2>2. \A b : funnel(b)[n] = Named(b, n)
    BY DEF funnel
  <2> HIDE DEF e
  <2> QED
    BY <1>1, <2>1, <2>2, Zenon
<1> HIDE DEF e
<1>3. [run \in DOMAIN e |-> e[run].funnel[n]] = [run \in D |-> Named(Own(rs, run), n)]
  BY <1>1, <1>2, Zenon
<1>4. Runless(rs, n) = {}
  BY DEF Runless, OfName
<1>5. Weight(rs, {}) = 0
  BY WeightNat
<1>6. /\ SumOver([run \in D |-> Named(Own(rs, run), n)]) + Weight(rs, Runless(rs, n))
            = Weight(rs, OfName(rs, n))
      /\ SumOver([run \in D |-> Named(Own(rs, run), n)]) \in Nat
  BY NamesCounted
<1>7. pipeline(rs).counts[n] = Weight(rs, OfName(rs, n))
  BY PipelineIs, NamedIs, Zenon
<1> DEFINE s == SumOver([run \in D |-> Named(Own(rs, run), n)])
           w == Weight(rs, OfName(rs, n))
<1> HIDE DEF s, w, D
<1>8. s + 0 = w /\ s \in Nat
  BY <1>4, <1>5, <1>6, Zenon DEF s, w
<1>9. s = w
  BY <1>8
<1> QED
  BY <1>3, <1>7, <1>9, Zenon DEF s, w, e

-----------------------------------------------------------------------------
(* The report *)

\* The report adds up on every log of rows and attributed feedback.
LEMMA ReportMeans ==
  ASSUME RowsInv, FeedbackInv
  PROVE  ReportAddsUp
<1> DEFINE R == evaluate(rows, feedback, None)
           lines == ExposureOf(rows)
<1>1. /\ Bag(rows) /\ DOMAIN rows \subseteq Rows /\ Distinct(feedback) /\ Attributed(feedback)
  BY DEF RowsInv, FeedbackInv
<1>2. Timed(rows) /\ None \notin RunsOf(rows)
  BY <1>1 DEF Timed, Rows, RunsOf
<1>3. OfRun(rows, None) = rows /\ \A run \in RunsOf(rows) : OfRun(rows, run) = Own(rows, run)
  BY <1>2, OfRunIs DEF OfRun, Own
<1>4. /\ R.run_ids = RunsOf(rows) /\ R.market.per_run = lines
      /\ R.pipeline = pipeline(rows) /\ R.noise.repeated = repeated_episodes(rows)
  <2>1. /\ R.run_ids = RunsOf(rows) /\ R.market = market_metrics(rows)
        /\ R.pipeline = pipeline(rows) /\ R.noise = alert_noise(rows)
    BY <1>3, EvaluateIs
  <2>2. market_metrics(rows).per_run = lines
    BY MetricsOf, MetricsAre
  <2>3. alert_noise(rows).repeated = repeated_episodes(rows)
    BY UnknownsAre
  <2> HIDE DEF R, lines
  <2> QED
    BY <2>1, <2>2, <2>3, Zenon
<1>5. ASSUME NEW run \in R.run_ids
      PROVE  /\ evaluate(rows, feedback, run).market.per_run[run] = lines[run]
             /\ evaluate(rows, feedback, run).market.rate = lines[run].rate
             /\ evaluate(rows, feedback, run).semantic <= R.semantic
  <2>1. run \in RunsOf(rows) /\ run # None
    BY <1>2, <1>4
  <2>2. evaluate(rows, feedback, run).market = market_metrics(Own(rows, run))
    BY <1>3, <2>1, EvaluateIs
  <2>3. /\ market_metrics(Own(rows, run)).per_run[run] = lines[run]
        /\ market_metrics(Own(rows, run)).rate = lines[run].rate
    BY <1>1, <1>2, <2>1, OwnLine
  <2>4. evaluate(rows, feedback, run).semantic <= R.semantic
    BY <1>1, <1>2, <2>1, SemanticLess
  <2> HIDE DEF R, lines
  <2> QED
    BY <2>2, <2>3, <2>4, Zenon
<1>6. R.noise.repeated.extra + Cardinality(KeysNamed(rows, {"alert_candidate"}))
         = CountIf(rows, LAMBDA r : /\ r.name = "alert_candidate"
                                    /\ r.run # None /\ r.signal # None)
  <2> DEFINE T == {x \in DOMAIN rows : /\ x.name = "alert_candidate"
                                       /\ x.run # None /\ x.signal # None}
             f == [x \in T |-> rows[x]]
             n == CountIf(rows, LAMBDA r : /\ r.name = "alert_candidate"
                                           /\ r.run # None /\ r.signal # None)
  <2>1. n = MapThenSumSet(LAMBDA r : f[r], DOMAIN f)
    BY Zenon DEF CountIf, Size, Select, RestrictDomain, Restrict
  <2>2. n = Weight(rows, T)
    BY <2>1, Zenon DEF Weight, SumOver
  <2>5. T = Episodic(rows)
    BY DEF Episodic
  <2>3. repeated_episodes(rows).extra = SumOver(Extra(rows))
    <3> DEFINE a == Cardinality(Repeated(rows))
               b == SumOver(Extra(rows))
    <3>1. repeated_episodes(rows) = [signals |-> a, extra |-> b]
      BY RepeatedIs
    <3> HIDE DEF a, b
    <3>2. repeated_episodes(rows).extra = b
      BY <3>1
    <3> QED
      BY <3>2 DEF b
  <2>4. SumOver(Extra(rows)) + Cardinality(Episodes(rows)) = Weight(rows, Episodic(rows))
    BY <1>1, ExtraCounted
  <2> HIDE DEF n, R, T
  <2> QED
    BY <1>4, <2>2, <2>3, <2>4, <2>5, Zenon DEF Episodes, n
<1>7. ASSUME \A r \in DOMAIN rows : r.run # None, NEW n \in FunnelNames
      PROVE  R.pipeline.counts[n] = SumOver([run \in DOMAIN lines |-> lines[run].funnel[n]])
  <2>1. pipeline(rows).counts[n] = SumOver([run \in DOMAIN lines |-> lines[run].funnel[n]])
    BY <1>1, <1>2, <1>7, FunnelAddsUp
  <2> HIDE DEF R, lines
  <2> QED
    BY <1>4, <2>1, Zenon
<1>8. \A a, cmp : cmp = compare_artifacts(CutAt(rows, a), WholeAndNone(rows)) =>
         /\ Counted(cmp.baseline) = Counted(cmp.candidate)
         /\ Counted(cmp.delta) = Counted(add_metrics(cmp.per_fixture[1], cmp.per_fixture[2]))
  BY <1>1, ComparedHalves
<1> DEFINE Complete == \A r \in DOMAIN rows : r.run # None
           Halves == \A a \in {CHOOSE run \in Runs : TRUE} :
                     \A split \in {CutAt(rows, a)} :
                     \A cmp \in {compare_artifacts(split, WholeAndNone(rows))} :
                        /\ Counted(cmp.baseline) = Counted(cmp.candidate)
                        /\ Counted(cmp.delta)
                              = Counted(add_metrics(cmp.per_fixture[1], cmp.per_fixture[2]))
           Alerts == CountIf(rows, LAMBDA r : /\ r.name = "alert_candidate"
                                              /\ r.run # None /\ r.signal # None)
           Keys == KeysNamed(rows, {"alert_candidate"})
           Adds(report, ls) ==
               /\ \A run \in report.run_ids : \A own \in {evaluate(rows, feedback, run)} :
                     /\ own.market.per_run[run] = ls[run]
                     /\ own.market.rate = ls[run].rate
                     /\ own.semantic <= report.semantic
               /\ report.noise.repeated.extra + Cardinality(Keys) = Alerts
               /\ Complete => \A n \in FunnelNames :
                     report.pipeline.counts[n] = SumOver([run \in DOMAIN ls |-> ls[run].funnel[n]])
               /\ Complete /\ Cardinality(Runs) = 2 => Halves
<1>9. (\A report \in {R} : \A ls \in {report.market.per_run} : Adds(report, ls)) => ReportAddsUp
  BY DEF ReportAddsUp, Counted, CutAt, WholeAndNone
<1>10. \A run \in R.run_ids :
          /\ evaluate(rows, feedback, run).market.per_run[run] = R.market.per_run[run]
          /\ evaluate(rows, feedback, run).market.rate = R.market.per_run[run].rate
          /\ evaluate(rows, feedback, run).semantic <= R.semantic
  <2> HIDE DEF R, lines
  <2> QED
    BY <1>4, <1>5, Zenon
<1>11. (\A r \in DOMAIN rows : r.run # None) => \A n \in FunnelNames :
          R.pipeline.counts[n] = SumOver([run \in DOMAIN R.market.per_run |->
                                             R.market.per_run[run].funnel[n]])
  <2> HIDE DEF R, lines
  <2> QED
    BY <1>4, <1>7, Zenon
<1>12. Halves
  <2>1. \A a : \A split \in {CutAt(rows, a)} : \A cmp \in {compare_artifacts(split, WholeAndNone(rows))} :
           /\ Counted(cmp.baseline) = Counted(cmp.candidate)
           /\ Counted(cmp.delta) = Counted(add_metrics(cmp.per_fixture[1], cmp.per_fixture[2]))
    BY <1>8, Zenon
  <2> QED
    BY <2>1, Zenon
<1> HIDE DEF R, Halves, Alerts, Keys
<1>13. Adds(R, R.market.per_run)
  <2>1. R.noise.repeated.extra + Cardinality(Keys) = Alerts
    BY <1>6 DEF Keys, Alerts
  <2> HIDE DEF lines, Complete
  <2> QED
    BY <1>10, <1>11, <1>12, <2>1, Zenon DEF Complete
<1> HIDE DEF Adds
<1>14. \A report \in {R} : \A ls \in {report.market.per_run} : Adds(report, ls)
  BY <1>13, Zenon
<1> QED
  BY <1>9, <1>14

\* The report of evaluate adds up: the report of one run repeats its line in the report
\* of all, every alert of an episode is its first or counted as extra, the runs' funnels
\* sum to the pipeline's counts, and compare_artifacts on a log cut in two finds the
\* counts of the whole log, its delta being the sum of the deltas of the replays.
THEOREM ReportAddsUpAlways == Spec => []ReportAddsUp
  BY RowsStep, FeedbackStep, ReportMeans, PTL DEF Spec
=============================================================================
