--------------------------- MODULE SBPMESchedProofs ---------------------------
(***************************************************************************)
(* What the scheduler the driver uses yields, for every number of threads, *)
(* of KPs and of periods and every prefix to keep.                         *)
(***************************************************************************)
EXTENDS SBPMESched, SequenceLemmas

-----------------------------------------------------------------------------
(* The search for a pattern as a function: it exists, and one call of      *)
(* _init_pattern is what FirstPattern makes of the calls behind it.        *)
Searched(D, f) == f = [s \in Searches(D) |-> FirstPattern(s, f)]
Found(D) == CHOOSE f : Searched(D, f)
Answers(D, m) == [1..m -> D] \cup {None}

LEMMA SearchType ==
    ASSUME NEW D, NEW s \in Searches(D)
    PROVE  /\ s.kps \in [D -> Int] /\ s.p \in Nat /\ s.mustDo \in SUBSET D
           /\ s.last \in Int /\ DOMAIN s.kps = D /\ Usable(s) \in SUBSET D
  <1>1. s.kps \in [D -> Int] /\ s.p \in Nat /\ s.mustDo \in SUBSET D /\ s.last \in Int
    BY DEF Searches
  <1> QED
    BY <1>1 DEF Usable

LEMMA AfterType ==
    ASSUME NEW D \in SUBSET Nat, NEW s \in Searches(D), NEW t \in D, s.p >= 1
    PROVE  /\ After(s, t) \in Searches(D)
           /\ After(s, t).p = s.p - 1 /\ After(s, t).last = t
           /\ After(s, t).mustDo = s.mustDo \ {t}
  <1>1. /\ s.kps \in [D -> Int] /\ s.p \in Nat /\ s.mustDo \in SUBSET D
    BY SearchType
  <1>2. [s.kps EXCEPT ![t] = @ - 1] \in [D -> Int]
    BY <1>1
  <1>3. s.p - 1 \in Nat /\ s.mustDo \ {t} \in SUBSET D /\ t \in Int
    BY <1>1
  <1>4. After(s, t) \in Searches(D)
    BY <1>2, <1>3 DEF After, Searches
  <1> QED
    BY <1>4 DEF After

LEMMA AfterKps ==
    ASSUME NEW D, NEW s \in Searches(D), NEW t \in D, NEW u \in D
    PROVE  After(s, t).kps[u] = IF u = t THEN s.kps[t] - 1 ELSE s.kps[u]
  <1>1. s.kps \in [D -> Int]
    BY SearchType
  <1>2. [s.kps EXCEPT ![t] = @ - 1][u] = IF u = t THEN s.kps[t] - 1 ELSE s.kps[u]
    BY <1>1
  <1> QED
    BY <1>2 DEF After

(* FirstPattern looks only at what is found behind the usable threads.     *)
LEMMA FirstPatternLocal ==
    ASSUME NEW D \in SUBSET Nat, NEW s \in Searches(D), NEW f, NEW g,
           s.p >= 1 => \A t \in Usable(s) : f[After(s, t)] = g[After(s, t)]
    PROVE  FirstPattern(s, f) = FirstPattern(s, g)
  <1> DEFINE goodF == {t \in Usable(s) : f[After(s, t)] # None}
             goodG == {t \in Usable(s) : g[After(s, t)] # None}
  <1>1. s.p \in Nat /\ Usable(s) \in SUBSET Nat
    BY SearchType
  <1>2. CASE s.p < 1
    BY <1>2 DEF FirstPattern
  <1>3. CASE s.p >= 1
    <2>1. goodF = goodG
      BY <1>3
    <2>2. goodF # {} => f[After(s, Min(goodF))] = g[After(s, Min(goodF))]
      <3> SUFFICES ASSUME goodF # {} PROVE f[After(s, Min(goodF))] = g[After(s, Min(goodF))]
        OBVIOUS
      <3>1. goodF \in SUBSET Nat /\ goodF \subseteq Usable(s)
        BY <1>1
      <3>2. Min(goodF) \in goodF
        <4> HIDE DEF goodF
        <4> QED
          BY <3>1, MinOfSet
      <3>3. Min(goodF) \in Usable(s)
        BY <3>1, <3>2
      <3> HIDE DEF goodF
      <3> QED
        BY <1>3, <3>3
    <2> DEFINE rest == IF s.p < 1 \/ s.p < Cardinality(s.mustDo) THEN 1
                       ELSE IF s.p = Cardinality(s.mustDo) THEN 2 ELSE IF s.p = 1 THEN 3 ELSE 4
    <2>3. CASE goodF = {}
      <3>1. goodG = {}
        BY <2>1, <2>3
      <3> QED
        BY <2>3, <3>1, Zenon DEF FirstPattern
    <2>4. CASE goodF # {}
      <3>1. f[After(s, Min(goodF))] = g[After(s, Min(goodG))]
        BY <2>1, <2>2, <2>4
      <3> QED
        BY <2>1, <3>1 DEF FirstPattern
    <2> QED
      BY <2>3, <2>4
  <1> QED
    BY <1>1, <1>2, <1>3

LEMMA Searching ==
    ASSUME NEW D \in SUBSET Nat
    PROVE  \E f : Searched(D, f)
  <1> DEFINE Solves(f, k) == \A s \in Searches(D) : s.p <= k => f[s] = FirstPattern(s, f)
             unsolved == {k \in Nat : ~ \E f : Solves(f, k)}
  <1>1. \A s \in Searches(D) : s.p \in Nat
    BY SearchType
  <1>2. unsolved = {}
    <2> SUFFICES ASSUME unsolved # {} PROVE FALSE
      OBVIOUS
    <2> HIDE DEF Solves
    <2>1. PICK k \in unsolved : \A l \in unsolved : k <= l
      <3>1. unsolved \in SUBSET Nat
        OBVIOUS
      <3> HIDE DEF unsolved
      <3> QED
        BY <3>1, LeastNumber
    <2>2. k \in Nat /\ ~ \E f : Solves(f, k)
      OBVIOUS
    <2>3. \E g : \A s \in Searches(D) : s.p < k => g[s] = FirstPattern(s, g)
      <3>1. CASE k = 0
        BY <1>1, <3>1
      <3>2. CASE k # 0
        <4>1. k - 1 \in Nat /\ k - 1 \notin unsolved
          BY <2>1, <2>2, <3>2
        <4>2. PICK g : Solves(g, k - 1)
          BY <4>1
        <4>3. \A s \in Searches(D) : s.p < k => s.p <= k - 1
          BY <1>1, <2>2
        <4> QED
          BY <4>2, <4>3 DEF Solves
      <3> QED
        BY <3>1, <3>2
    <2>4. PICK g : \A s \in Searches(D) : s.p < k => g[s] = FirstPattern(s, g)
      BY <2>3
    <2> DEFINE h == [s \in Searches(D) |-> IF s.p < k THEN g[s] ELSE FirstPattern(s, g)]
    <2>5. \A s \in Searches(D) : h[s] = FirstPattern(s, g)
      BY <2>4
    <2>6. ASSUME NEW s \in Searches(D), s.p <= k PROVE h[s] = FirstPattern(s, h)
      <3>1. s.p >= 1 => \A t \in Usable(s) : g[After(s, t)] = h[After(s, t)]
        <4> SUFFICES ASSUME s.p >= 1, NEW t \in Usable(s) PROVE g[After(s, t)] = h[After(s, t)]
          OBVIOUS
        <4>1. t \in D
          BY SearchType
        <4>2. After(s, t) \in Searches(D) /\ After(s, t).p = s.p - 1
          BY <4>1, AfterType
        <4>3. After(s, t).p < k
          BY <1>1, <2>2, <2>6, <4>2
        <4> QED
          BY <4>2, <4>3
      <3> HIDE DEF h
      <3>2. FirstPattern(s, g) = FirstPattern(s, h)
        BY <3>1, FirstPatternLocal
      <3> QED
        BY <2>5, <3>2
    <2> HIDE DEF h
    <2>7. Solves(h, k)
      BY <2>6 DEF Solves
    <2> QED
      BY <2>2, <2>7
  <1> DEFINE Sol(k) == CHOOSE f : Solves(f, k)
  <1>3. \A k \in Nat : Solves(Sol(k), k)
    <2> HIDE DEF Solves
    <2> TAKE k \in Nat
    <2>1. \E f : Solves(f, k)
      <3>1. k \notin unsolved
        BY <1>2
      <3> QED
        BY <3>1
    <2> QED
      BY <2>1
  <1> HIDE DEF Sol
  <1> DEFINE Agree(k) == \A s \in Searches(D) : s.p <= k => \A i \in Nat : \A j \in Nat :
                             s.p <= i /\ s.p <= j => Sol(i)[s] = Sol(j)[s]
             differ == {k \in Nat : ~Agree(k)}
  <1>4. differ = {}
    <2> SUFFICES ASSUME differ # {} PROVE FALSE
      OBVIOUS
    <2> HIDE DEF Agree
    <2>1. PICK k \in differ : \A l \in differ : k <= l
      <3>1. differ \in SUBSET Nat
        OBVIOUS
      <3> HIDE DEF differ
      <3> QED
        BY <3>1, LeastNumber
    <2>2. k \in Nat /\ ~Agree(k)
      OBVIOUS
    <2>3. k # 0 => Agree(k - 1)
      <3>1. k # 0 => k - 1 \in Nat /\ ~(k <= k - 1)
        BY <2>2
      <3> QED
        BY <2>1, <3>1
    <2>4. ASSUME NEW s \in Searches(D), s.p <= k, NEW i \in Nat, NEW j \in Nat, s.p <= i, s.p <= j
          PROVE  Sol(i)[s] = Sol(j)[s]
      <3>1. s.p >= 1 => \A t \in Usable(s) : Sol(i)[After(s, t)] = Sol(j)[After(s, t)]
        <4> SUFFICES ASSUME s.p >= 1, NEW t \in Usable(s)
                     PROVE  Sol(i)[After(s, t)] = Sol(j)[After(s, t)]
          OBVIOUS
        <4>1. t \in D /\ s.p \in Nat
          BY SearchType
        <4>2. After(s, t) \in Searches(D) /\ After(s, t).p = s.p - 1
          BY <4>1, AfterType
        <4>3. After(s, t).p <= k - 1 /\ After(s, t).p <= i /\ After(s, t).p <= j /\ k # 0
          BY <2>2, <2>4, <4>1, <4>2
        <4> QED
          BY <2>3, <4>2, <4>3 DEF Agree
      <3>2. FirstPattern(s, Sol(i)) = FirstPattern(s, Sol(j))
        BY <3>1, FirstPatternLocal
      <3>3. Sol(i)[s] = FirstPattern(s, Sol(i)) /\ Sol(j)[s] = FirstPattern(s, Sol(j))
        BY <1>3, <2>4
      <3> QED
        BY <3>2, <3>3
    <2> QED
      BY <2>2, <2>4 DEF Agree
  <1>5. ASSUME NEW s \in Searches(D), NEW i \in Nat, NEW j \in Nat, s.p <= i, s.p <= j
        PROVE  Sol(i)[s] = Sol(j)[s]
    <2>1. s.p \in Nat /\ s.p <= s.p
      BY <1>1
    <2>2. Agree(s.p)
      <3>1. s.p \notin differ
        BY <1>4
      <3> HIDE DEF Agree
      <3> QED
        BY <2>1, <3>1
    <2> QED
      BY <1>5, <2>1, <2>2
  <1> HIDE DEF Agree, differ
  <1> DEFINE f == [s \in Searches(D) |-> Sol(s.p)[s]]
  <1>6. ASSUME NEW s \in Searches(D) PROVE f[s] = FirstPattern(s, f)
    <2>1. s.p \in Nat
      BY <1>1
    <2>2. s.p >= 1 => \A t \in Usable(s) : Sol(s.p)[After(s, t)] = f[After(s, t)]
      <3> SUFFICES ASSUME s.p >= 1, NEW t \in Usable(s)
                   PROVE  Sol(s.p)[After(s, t)] = f[After(s, t)]
        OBVIOUS
      <3>1. t \in D
        BY SearchType
      <3>2. After(s, t) \in Searches(D) /\ After(s, t).p = s.p - 1
        BY <3>1, AfterType
      <3>3. After(s, t).p \in Nat /\ After(s, t).p <= s.p /\ After(s, t).p <= After(s, t).p
        BY <2>1, <3>2
      <3>4. Sol(s.p)[After(s, t)] = Sol(After(s, t).p)[After(s, t)]
        BY <1>5, <2>1, <3>2, <3>3
      <3> QED
        BY <3>2, <3>4
    <2>3. Sol(s.p)[s] = FirstPattern(s, Sol(s.p))
      <3>1. Solves(Sol(s.p), s.p)
        BY <1>3, <2>1
      <3>2. s.p <= s.p
        BY <2>1
      <3> QED
        BY <3>1, <3>2
    <2>4. f[s] = Sol(s.p)[s]
      OBVIOUS
    <2> HIDE DEF f
    <2>5. FirstPattern(s, Sol(s.p)) = FirstPattern(s, f)
      BY <2>2, FirstPatternLocal
    <2> QED
      BY <2>3, <2>4, <2>5
  <1>7. f = [s \in Searches(D) |-> FirstPattern(s, f)]
    <2>1. f = [s \in Searches(D) |-> f[s]]
      OBVIOUS
    <2> HIDE DEF f
    <2> QED
      BY <1>6, <2>1
  <1> QED
    BY <1>7 DEF Searched

(* _init_pattern (sbp_sched.py 101-144) calls itself behind each thread.   *)
LEMMA InitPatternIs ==
    ASSUME NEW D \in SUBSET Nat, NEW s \in Searches(D)
    PROVE  /\ InitPattern(s) = Found(D)[s]
           /\ InitPattern(s) = FirstPattern(s, Found(D))
  <1>1. Searched(D, Found(D))
    BY Searching DEF Found
  <1>2. Found(D)[s] = FirstPattern(s, Found(D))
    BY <1>1 DEF Searched
  <1>3. DOMAIN s.kps = D
    BY SearchType
  <1>4. InitPattern(s) = (CHOOSE f : f = [x \in Searches(D) |-> FirstPattern(x, f)])[s]
    BY <1>3 DEF InitPattern
  <1> QED
    BY <1>2, <1>4 DEF Found, Searched

-----------------------------------------------------------------------------
(* Sequences that start and rise alike are the same. *)
LEMMA SameSteps ==
    ASSUME NEW k \in Nat, NEW f, NEW g, f[0] = g[0],
           \A j \in 0..k : f[j] \in Int /\ g[j] \in Int,
           \A j \in 1..k : f[j] - f[j - 1] = g[j] - g[j - 1]
    PROVE  \A j \in 0..k : f[j] = g[j]
  <1> DEFINE differ == {j \in 0..k : f[j] # g[j]}
  <1>1. differ = {}
    <2> SUFFICES ASSUME differ # {} PROVE FALSE
      OBVIOUS
    <2>1. PICK j \in differ : \A i \in differ : j <= i
      <3>1. differ \in SUBSET Nat
        OBVIOUS
      <3> QED
        BY <3>1, LeastNumber
    <2>2. j \in 1..k /\ j - 1 \in 0..k /\ j \in 0..k
      OBVIOUS
    <2>3. f[j - 1] = g[j - 1]
      <3>1. ~(j <= j - 1)
        BY <2>2
      <3> QED
        BY <2>1, <2>2, <3>1
    <2>4. f[j] - f[j - 1] = g[j] - g[j - 1]
      BY <2>2
    <2>5. f[j] \in Int /\ g[j] \in Int /\ f[j - 1] \in Int /\ g[j - 1] \in Int
      BY <2>2
    <2>6. f[j] = g[j]
      BY <2>3, <2>4, <2>5
    <2> QED
      BY <2>6
  <1> QED
    BY <1>1

(* How many of the first i periods belong to t. *)
CountIn(q, t, i) == Cardinality({j \in 1..i : q[j] = t})
Owns(q, t, j) == IF q[j] = t THEN 1 ELSE 0

LEMMA CountType ==
    ASSUME NEW q, NEW t, NEW i \in Nat
    PROVE  CountIn(q, t, i) \in Nat /\ IsFiniteSet({j \in 1..i : q[j] = t})
  <1> DEFINE S == {j \in 1..i : q[j] = t}
  <1>1. S \in SUBSET Nat /\ \A j \in S : j <= i
    OBVIOUS
  <1> HIDE DEF S
  <1>2. IsFiniteSet(S)
    BY <1>1, FS_BoundedSetOfNaturals
  <1>3. Cardinality(S) \in Nat
    BY <1>2, FS_CardinalityType
  <1> QED
    BY <1>2, <1>3 DEF CountIn, S

LEMMA CountZero ==
    ASSUME NEW q, NEW t
    PROVE  CountIn(q, t, 0) = 0
  <1>1. {j \in 1..0 : q[j] = t} = {}
    OBVIOUS
  <1> QED
    BY <1>1, FS_EmptySet DEF CountIn

LEMMA CountNext ==
    ASSUME NEW q, NEW t, NEW i \in Nat \ {0}
    PROVE  CountIn(q, t, i) = CountIn(q, t, i - 1) + Owns(q, t, i)
  <1> DEFINE S == {j \in 1..(i - 1) : q[j] = t}
             T == {j \in 1..i : q[j] = t}
  <1>1. i - 1 \in Nat
    OBVIOUS
  <1>2. IsFiniteSet(S) /\ Cardinality(S) \in Nat
    BY <1>1, CountType DEF CountIn
  <1>3. i \notin S
    OBVIOUS
  <1>4. CASE q[i] = t
    <2>1. T = S \cup {i}
      BY <1>4
    <2> HIDE DEF S, T
    <2>2. Cardinality(T) = Cardinality(S) + 1
      BY <1>2, <1>3, <2>1, FS_AddElement
    <2> QED
      BY <1>4, <2>2 DEF CountIn, Owns, S, T
  <1>5. CASE q[i] # t
    <2>1. T = S
      BY <1>5
    <2> HIDE DEF S, T
    <2>2. Cardinality(T) = Cardinality(S) + 0
      BY <1>2, <2>1
    <2> QED
      BY <1>5, <2>2 DEF CountIn, Owns, S, T
  <1> QED
    BY <1>4, <1>5

LEMMA CountMonotone ==
    ASSUME NEW q, NEW t, NEW i \in Nat, NEW l \in Nat, i <= l
    PROVE  CountIn(q, t, i) <= CountIn(q, t, l)
  <1> DEFINE S == {j \in 1..i : q[j] = t}
             T == {j \in 1..l : q[j] = t}
  <1>1. IsFiniteSet(T) /\ S \in SUBSET T
    <2>1. \A j \in 1..i : j \in 1..l
      OBVIOUS
    <2>2. S \in SUBSET T
      BY <2>1
    <2>3. IsFiniteSet(T)
      BY CountType
    <2> QED
      BY <2>2, <2>3
  <1> HIDE DEF S, T
  <1>2. Cardinality(S) <= Cardinality(T)
    BY <1>1, FS_Subset
  <1> QED
    BY <1>2 DEF CountIn, S, T

LEMMA CountPositive ==
    ASSUME NEW q, NEW t, NEW i \in Nat
    PROVE  CountIn(q, t, i) > 0 <=> \E j \in 1..i : q[j] = t
  <1> DEFINE S == {j \in 1..i : q[j] = t}
  <1>1. IsFiniteSet(S) /\ CountIn(q, t, i) = Cardinality(S) /\ CountIn(q, t, i) \in Nat
    BY CountType DEF CountIn
  <1>2. CountIn(q, t, i) = 0 <=> S = {}
    <2> HIDE DEF S
    <2> QED
      BY <1>1, FS_EmptySet
  <1>3. S = {} <=> ~ \E j \in 1..i : q[j] = t
    OBVIOUS
  <1> QED
    BY <1>1, <1>2, <1>3

(* Counting goes on behind the first a periods. *)
LEMMA CountSplit ==
    ASSUME NEW q, NEW r, NEW t, NEW a \in Nat, NEW b \in Nat,
           \A j \in 1..b : r[j] = q[a + j]
    PROVE  CountIn(q, t, a + b) = CountIn(q, t, a) + CountIn(r, t, b)
  <1> DEFINE f == [j \in 0..b |-> CountIn(q, t, a + j)]
             g == [j \in 0..b |-> CountIn(q, t, a) + CountIn(r, t, j)]
  <1>1. CountIn(q, t, a) \in Nat
    BY CountType
  <1>2. \A j \in 0..b : CountIn(q, t, a + j) \in Nat /\ CountIn(r, t, j) \in Nat
    <2> TAKE j \in 0..b
    <2>1. a + j \in Nat /\ j \in Nat
      OBVIOUS
    <2> QED
      BY <2>1, CountType
  <1>3. f[0] = g[0]
    <2>1. f[0] = CountIn(q, t, a) /\ g[0] = CountIn(q, t, a) + CountIn(r, t, 0)
      OBVIOUS
    <2> QED
      BY <1>1, <2>1, CountZero
  <1>4. \A j \in 0..b : f[j] \in Int /\ g[j] \in Int
    BY <1>1, <1>2
  <1>5. ASSUME NEW j \in 1..b PROVE f[j] - f[j - 1] = g[j] - g[j - 1]
    <2>1. j \in 0..b /\ j - 1 \in 0..b /\ j \in Nat \ {0} /\ a + j \in Nat \ {0}
          /\ (a + j) - 1 = a + (j - 1)
      OBVIOUS
    <2>2. CountIn(q, t, a + j) = CountIn(q, t, a + (j - 1)) + Owns(q, t, a + j)
      BY <2>1, CountNext
    <2>3. CountIn(r, t, j) = CountIn(r, t, j - 1) + Owns(r, t, j)
      BY <2>1, CountNext
    <2>4. Owns(r, t, j) = Owns(q, t, a + j) /\ Owns(r, t, j) \in Nat
      BY DEF Owns
    <2>5. f[j] = CountIn(q, t, a + j) /\ f[j - 1] = CountIn(q, t, a + (j - 1))
      BY <2>1
    <2>6. g[j] = CountIn(q, t, a) + CountIn(r, t, j)
          /\ g[j - 1] = CountIn(q, t, a) + CountIn(r, t, j - 1)
      BY <2>1
    <2>7. CountIn(q, t, a + (j - 1)) \in Nat /\ CountIn(r, t, j - 1) \in Nat
      BY <1>2, <2>1
    <2> HIDE DEF f, g
    <2>8. f[j] - f[j - 1] = Owns(r, t, j)
      BY <2>2, <2>4, <2>5, <2>7
    <2>9. g[j] - g[j - 1] = Owns(r, t, j)
      BY <1>1, <2>3, <2>4, <2>6, <2>7
    <2> QED
      BY <2>8, <2>9
  <1>6. b \in 0..b /\ f[b] = CountIn(q, t, a + b) /\ g[b] = CountIn(q, t, a) + CountIn(r, t, b)
    OBVIOUS
  <1> HIDE DEF f, g
  <1>7. f[b] = g[b]
    <2>1. b \in 0..b /\ b \in Nat
      OBVIOUS
    <2>2. \A j \in 1..b : f[j] - f[j - 1] = g[j] - g[j - 1]
      BY <1>5
    <2> QED
      BY ONLY b \in Nat, <1>3, <1>4, <2>1, <2>2, SameSteps
  <1> QED
    BY <1>6, <1>7

(* r is what q has behind its first a periods. *)
Continues(q, r, a, b) == \A j \in 1..b : r[j] = q[a + j]

LEMMA CountOn ==
    ASSUME NEW q, NEW r, NEW t, NEW a \in Nat, NEW b \in Nat, Continues(q, r, a, b)
    PROVE  CountIn(q, t, a + b) = CountIn(q, t, a) + CountIn(r, t, b)
  <1>1. \A j \in 1..b : r[j] = q[a + j]
    BY DEF Continues
  <1> QED
    BY <1>1, CountSplit

LEMMA SameCounts ==
    ASSUME NEW q, NEW r, NEW t, NEW b \in Nat, \A j \in 1..b : r[j] = q[j]
    PROVE  CountIn(r, t, b) = CountIn(q, t, b)
  <1>1. {j \in 1..b : r[j] = t} = {j \in 1..b : q[j] = t}
    OBVIOUS
  <1> QED
    BY <1>1 DEF CountIn

(* The count has reached its end when t has no further period. *)
LEMMA CountEnds ==
    ASSUME NEW q, NEW t, NEW i \in Nat, NEW m \in Nat, i <= m
    PROVE  CountIn(q, t, i) = CountIn(q, t, m) <=> ~ \E j \in 1..m : j > i /\ q[j] = t
  <1> DEFINE r == [j \in 1..(m - i) |-> q[i + j]]
  <1>1. m - i \in Nat /\ i + (m - i) = m
    OBVIOUS
  <1>2. CountIn(q, t, m) = CountIn(q, t, i) + CountIn(r, t, m - i)
    <2> DEFINE d == m - i
    <2>1. d \in Nat /\ i + d = m /\ \A j \in 1..d : r[j] = q[i + j]
      OBVIOUS
    <2> HIDE DEF r, d
    <2>2. CountIn(q, t, i + d) = CountIn(q, t, i) + CountIn(r, t, d)
      BY <2>1, CountSplit
    <2> QED
      BY <2>1, <2>2 DEF d
  <1>3. CountIn(q, t, i) \in Nat /\ CountIn(r, t, m - i) \in Nat
    BY <1>1, CountType
  <1>4. CountIn(r, t, m - i) > 0 <=> \E j \in 1..(m - i) : r[j] = t
    <2> HIDE DEF r
    <2> QED
      BY <1>1, CountPositive
  <1>5. (\E j \in 1..(m - i) : r[j] = t) <=> \E j \in 1..m : j > i /\ q[j] = t
    <2>1. ASSUME NEW j \in 1..(m - i), r[j] = t PROVE \E l \in 1..m : l > i /\ q[l] = t
      <3>1. i + j \in 1..m /\ i + j > i /\ q[i + j] = t
        BY <2>1
      <3> QED
        BY <3>1
    <2>2. ASSUME NEW j \in 1..m, j > i, q[j] = t PROVE \E l \in 1..(m - i) : r[l] = t
      <3>1. j - i \in 1..(m - i) /\ i + (j - i) = j
        BY <2>2
      <3>2. r[j - i] = t
        BY <2>2, <3>1
      <3> QED
        BY <3>1, <3>2
    <2> QED
      BY <2>1, <2>2
  <1> HIDE DEF r
  <1> QED
    BY <1>2, <1>3, <1>4, <1>5

-----------------------------------------------------------------------------
(* A pattern as it is asked for.  A thread that must get a period gets one *)
(* even if it has no KP.                                                   *)
Allowed(s, t) ==
    IF s.kps[t] >= 1 THEN s.kps[t] ELSE IF t \in s.mustDo THEN 1 ELSE 0
GoodFor(s, q) ==
    /\ s.p >= 1 /\ q \in [1..s.p -> DOMAIN s.kps]
    /\ q[1] # s.last
    /\ \A j \in 2..s.p : q[j] # q[j - 1]
    /\ \A t \in s.mustDo : \E j \in 1..s.p : q[j] = t
    /\ \A t \in DOMAIN s.kps : CountIn(q, t, s.p) <= Allowed(s, t)

LEMMA ConsIs ==
    ASSUME NEW D, NEW x \in D, NEW m \in Nat, NEW r \in [1..m -> D]
    PROVE  /\ <<x>> \o r \in [1..(m + 1) -> D]
           /\ (<<x>> \o r)[1] = x
           /\ \A j \in 1..m : (<<x>> \o r)[j + 1] = r[j]
  <1>1. <<x>> \in Seq(D) /\ Len(<<x>>) = 1
    OBVIOUS
  <1>2. r \in Seq(D) /\ Len(r) = m
    BY SeqDef
  <1> DEFINE q == <<x>> \o r
  <1>3. q \in Seq(D) /\ Len(q) = m + 1
    BY <1>1, <1>2
  <1>4. q[1] = x
    BY <1>1, <1>2
  <1>5. ASSUME NEW j \in 1..m PROVE q[j + 1] = r[j]
    BY <1>1, <1>2
  <1>6. q \in [1..(m + 1) -> D]
    <2> HIDE DEF q
    <2>1. DOMAIN q = 1..(m + 1) /\ \A j \in 1..(m + 1) : q[j] \in D
      BY <1>3
    <2> QED
      BY <1>3, <2>1
  <1> QED
    BY <1>4, <1>5, <1>6

LEMMA ConsGood ==
    ASSUME NEW D \in SUBSET Nat, NEW s \in Searches(D), NEW t \in Usable(s), s.p >= 1,
           NEW r, GoodFor(After(s, t), r)
    PROVE  GoodFor(s, <<t>> \o r) /\ (<<t>> \o r)[1] = t
  <1>1. /\ s.kps \in [D -> Int] /\ s.p \in Nat /\ s.mustDo \in SUBSET D
        /\ s.last \in Int /\ DOMAIN s.kps = D /\ t \in D
    BY SearchType
  <1> DEFINE a == After(s, t)
             m == s.p - 1
             q == <<t>> \o r
  <1>2. /\ a \in Searches(D) /\ a.p = m /\ a.last = t /\ a.mustDo = s.mustDo \ {t}
        /\ \A u \in D : a.kps[u] = IF u = t THEN s.kps[t] - 1 ELSE s.kps[u]
    <2>1. /\ After(s, t) \in Searches(D)
          /\ After(s, t).p = s.p - 1 /\ After(s, t).last = t
          /\ After(s, t).mustDo = s.mustDo \ {t}
      BY <1>1, AfterType
    <2>2. \A u \in D : After(s, t).kps[u] = IF u = t THEN s.kps[t] - 1 ELSE s.kps[u]
      BY <1>1, AfterKps
    <2> QED
      BY <2>1, <2>2
  <1>3. DOMAIN a.kps = D
    BY <1>2, SearchType
  <1>4. s.kps[t] >= 1 /\ t # s.last
    BY <1>1 DEF Usable
  <1>5. GoodFor(a, r)
    OBVIOUS
  <1> HIDE DEF a
  <1>6. /\ m >= 1 /\ r \in [1..m -> D] /\ r[1] # t
        /\ \A j \in 2..m : r[j] # r[j - 1]
        /\ \A u \in s.mustDo \ {t} : \E j \in 1..m : r[j] = u
        /\ \A u \in D : CountIn(r, u, m) <= Allowed(a, u)
    BY <1>2, <1>3, <1>5 DEF GoodFor
  <1>7. m \in Nat /\ m + 1 = s.p
    BY <1>1
  <1> HIDE DEF m
  <1>8. q \in [1..s.p -> D] /\ q[1] = t /\ \A j \in 1..m : q[j + 1] = r[j]
    BY <1>1, <1>6, <1>7, ConsIs
  <1> HIDE DEF q
  <1>9. ASSUME NEW j \in 2..s.p PROVE q[j] # q[j - 1]
    <2>1. CASE j = 2
      <3>1. 1 \in 1..m /\ 1 + 1 = 2
        BY <1>6, <1>7
      <3>2. q[2] = r[1]
        BY <1>8, <3>1
      <3> QED
        BY <1>6, <1>8, <2>1, <3>2
    <2>2. CASE j # 2
      <3> DEFINE i == j - 1
                 l == j - 2
      <3>1. i \in 2..m /\ i \in 1..m /\ l \in 1..m /\ i + 1 = j /\ l + 1 = i /\ i - 1 = l
        BY <1>1, <1>7, <2>2
      <3> HIDE DEF l
      <3>2. r[i] # r[l] /\ q[i + 1] = r[i] /\ q[l + 1] = r[l]
        BY <1>6, <1>8, <3>1
      <3> QED
        BY <3>1, <3>2
    <2> QED
      BY <2>1, <2>2
  <1>10. ASSUME NEW u \in s.mustDo PROVE \E j \in 1..s.p : q[j] = u
    <2>1. CASE u = t
      <3>1. 1 \in 1..s.p
        BY <1>1
      <3> QED
        BY <1>8, <2>1, <3>1
    <2>2. CASE u # t
      <3>1. PICK j \in 1..m : r[j] = u
        BY <1>6, <2>2
      <3>2. j + 1 \in 1..s.p /\ q[j + 1] = u
        BY <1>7, <1>8, <3>1
      <3> QED
        BY <3>2
    <2> QED
      BY <2>1, <2>2
  <1>11. ASSUME NEW u \in D PROVE CountIn(q, u, s.p) <= Allowed(s, u)
    <2>1. CountIn(q, u, 1 + m) = CountIn(q, u, 1) + CountIn(r, u, m)
      <3>1. \A j \in 1..m : r[j] = q[1 + j]
        <4> TAKE j \in 1..m
        <4>1. 1 + j = j + 1
          OBVIOUS
        <4> QED
          BY <1>8, <4>1
      <3>2. 1 \in Nat
        OBVIOUS
      <3> QED
        BY <1>7, <3>1, <3>2, CountSplit
    <2>2. CountIn(q, u, 1) = Owns(q, u, 1)
      <3>1. 1 \in Nat \ {0} /\ 1 - 1 = 0
        OBVIOUS
      <3>2. CountIn(q, u, 1) = CountIn(q, u, 1 - 1) + Owns(q, u, 1)
        BY <3>1, CountNext
      <3>3. CountIn(q, u, 1 - 1) = 0 /\ Owns(q, u, 1) \in Nat
        BY <3>1, CountZero DEF Owns
      <3> QED
        BY <3>2, <3>3
    <2>3. 1 + m = s.p /\ CountIn(r, u, m) \in Nat /\ CountIn(r, u, m) <= Allowed(a, u)
      <3>1. CountIn(r, u, m) \in Nat
        BY <1>7, CountType
      <3>2. 1 + m = s.p
        BY <1>1, <1>7
      <3> QED
        BY <1>6, <3>1, <3>2
    <2>4. s.kps[u] \in Int /\ a.kps[u] = (IF u = t THEN s.kps[t] - 1 ELSE s.kps[u])
          /\ a.mustDo = s.mustDo \ {t}
      BY <1>1, <1>2
    <2>5. CASE u = t
      <3>1. CountIn(q, u, 1) = 1
        BY <1>8, <2>2, <2>5 DEF Owns
      <3>2. Allowed(a, u) = s.kps[u] - 1
        <4>1. a.kps[u] = s.kps[u] - 1 /\ s.kps[u] >= 1 /\ u \notin a.mustDo
          BY <1>4, <2>4, <2>5
        <4> QED
          BY <2>4, <4>1 DEF Allowed
      <3>3. Allowed(s, u) = s.kps[u]
        BY <1>4, <2>5 DEF Allowed
      <3> QED
        BY <2>1, <2>3, <2>4, <3>1, <3>2, <3>3
    <2>6. CASE u # t
      <3>1. CountIn(q, u, 1) = 0
        BY <1>8, <2>2, <2>6 DEF Owns
      <3>2. Allowed(a, u) = Allowed(s, u)
        <4>1. a.kps[u] = s.kps[u] /\ (u \in a.mustDo <=> u \in s.mustDo)
          BY <2>4, <2>6
        <4> QED
          BY <4>1 DEF Allowed
      <3> QED
        BY <2>1, <2>3, <3>1, <3>2
    <2> QED
      BY <2>5, <2>6
  <1>12. q[1] # s.last
    BY <1>4, <1>8
  <1>13. GoodFor(s, q)
    BY <1>1, <1>8, <1>9, <1>10, <1>11, <1>12 DEF GoodFor
  <1> QED
    BY <1>8, <1>13 DEF q

(* Threads are numbered below n; any set of them is finite. *)
LEMMA ThreadSets ==
    ASSUME NEW n \in Nat, NEW S \in SUBSET (0..(n - 1))
    PROVE  /\ IsFiniteSet(S) /\ Cardinality(S) \in Nat /\ S \in SUBSET Nat
           /\ Cardinality(S) = CountBelow(S, n)
           /\ Cardinality(S) = 0 <=> S = {}
  <1>1. S \in SUBSET Nat /\ \A x \in S : x < n
    OBVIOUS
  <1>2. CountBelow(S, n) = Cardinality(S) /\ IsFiniteSet(S) /\ Cardinality(S) \in Nat
    BY <1>1, BelowAll
  <1> QED
    BY <1>1, <1>2, FS_EmptySet

(* If every period is needed for a thread that must get one, the first     *)
(* pattern has the least of them that may begin, and the others in order.  *)
LEMMA OneEachGood ==
    ASSUME NEW n \in Nat, NEW D, D = 0..(n - 1), NEW s \in Searches(D),
           s.p >= 1, s.p = Cardinality(s.mustDo), ~(s.mustDo \subseteq {s.last}), NEW f
    PROVE  GoodFor(s, FirstPattern(s, f))
  <1> DEFINE must == s.mustDo
             m == s.p
             first == Min(must \ {s.last})
             others == must \ {first}
             Nth(j) == CHOOSE t \in others : Cardinality({u \in others : u < t}) = j - 2
             q == [j \in 1..m |-> IF j = 1 THEN first ELSE Nth(j)]
  <1>1. /\ s.kps \in [D -> Int] /\ m \in Nat /\ must \in SUBSET D
        /\ s.last \in Int /\ DOMAIN s.kps = D
    BY SearchType
  <1>2. FirstPattern(s, f) = q
    BY <1>1 DEF FirstPattern
  <1>3. first \in must /\ first # s.last
    <2> DEFINE S == must \ {s.last}
    <2>1. S \in SUBSET Nat /\ S # {}
      BY <1>1
    <2> HIDE DEF S
    <2>2. Min(S) \in S
      BY <2>1, MinOfSet
    <2> QED
      BY <2>2 DEF S
  <1>4. q[1] = first /\ \A j \in 2..m : q[j] = Nth(j)
    <2>1. 1 \in 1..m /\ \A j \in 2..m : j \in 1..m /\ j # 1
      BY <1>1
    <2> HIDE DEF Nth, first
    <2> QED
      BY <2>1
  <1>5. q = [j \in 1..m |-> q[j]]
    OBVIOUS
  <1> HIDE DEF q, first
  <1>6. others \in SUBSET D /\ others \in SUBSET Nat
    BY <1>1
  <1>7. CountBelow(others, n) = m - 1
    <2>1. IsFiniteSet(must) /\ Cardinality(must) = m
      BY <1>1, ThreadSets
    <2>2. Cardinality(must \ {first}) = m - 1
      BY <1>3, <2>1, FS_RemoveElement
    <2> HIDE DEF must
    <2>3. others \in SUBSET (0..(n - 1))
      BY <1>6
    <2> HIDE DEF others
    <2>4. CountBelow(others, n) = Cardinality(others)
      BY <2>3, ThreadSets
    <2> QED
      BY <2>2, <2>4 DEF others
  <1>8. ASSUME NEW j \in 2..m PROVE q[j] \in others /\ CountBelow(others, q[j]) = j - 2
    <2> HIDE DEF others
    <2>1. j - 2 \in Nat /\ j - 2 < CountBelow(others, n)
      BY <1>1, <1>7
    <2>2. \E x \in others : x < n /\ CountBelow(others, x) = j - 2
      BY <1>6, <2>1, NthMember
    <2>3. \E x \in others : Cardinality({u \in others : u < x}) = j - 2
      BY <2>2 DEF CountBelow
    <2>4. Nth(j) \in others /\ Cardinality({u \in others : u < Nth(j)}) = j - 2
      BY <2>3
    <2>5. q[j] = Nth(j)
      BY <1>4
    <2> HIDE DEF Nth
    <2> QED
      BY <2>4, <2>5 DEF CountBelow
  <1> HIDE DEF Nth
  <1>9. \A j \in 1..m : j = 1 \/ j \in 2..m
    BY <1>1
  <1>10. ASSUME NEW j \in 1..m PROVE q[j] \in must
    BY <1>3, <1>4, <1>8, <1>9
  <1>11. ASSUME NEW i \in 1..m, NEW j \in 1..m, q[i] = q[j] PROVE i = j
    <2>1. \A l \in 2..m : q[l] # q[1]
      BY <1>4, <1>8
    <2>2. CASE i \in 2..m /\ j \in 2..m
      <3>1. i - 2 = j - 2
        BY <1>8, <1>11, <2>2
      <3> QED
        BY <2>2, <3>1
    <2> QED
      BY <1>9, <1>11, <2>1, <2>2
  <1>12. ASSUME NEW t \in must PROVE \E j \in 1..m : q[j] = t
    <2>1. CASE t = first
      <3>1. 1 \in 1..m
        BY <1>1
      <3> QED
        BY <1>4, <2>1, <3>1
    <2>2. CASE t # first
      <3> DEFINE k == CountBelow(others, t)
                 j == k + 2
      <3>1. t \in others /\ t \in Nat /\ t < n
        BY <1>1, <2>2
      <3> HIDE DEF others
      <3>2. k \in Nat /\ k + 1 <= CountBelow(others, n)
        BY <1>6, <3>1, BelowType, BelowStrict
      <3> HIDE DEF k
      <3>3. j \in 2..m /\ j - 2 = k
        BY <1>1, <1>7, <3>2
      <3>4. q[j] \in others /\ CountBelow(others, q[j]) = k
        BY <1>8, <3>3
      <3> HIDE DEF j
      <3>5. q[j] = t
        BY <1>6, <3>1, <3>4, SameNth DEF k
      <3> QED
        BY <1>9, <3>3, <3>5
    <2> QED
      BY <2>1, <2>2
  <1>13. ASSUME NEW t \in D PROVE CountIn(q, t, m) <= Allowed(s, t)
    <2>1. CASE t \notin must
      <3>1. ~ \E j \in 1..m : q[j] = t
        BY <1>10, <2>1
      <3>2. CountIn(q, t, m) \in Nat /\ ~(CountIn(q, t, m) > 0)
        BY <1>1, <3>1, CountType, CountPositive
      <3>3. Allowed(s, t) \in Int /\ Allowed(s, t) >= 0
        BY <1>1 DEF Allowed
      <3> QED
        BY <3>2, <3>3
    <2>2. CASE t \in must
      <3>1. PICK i \in 1..m : q[i] = t
        BY <1>12, <2>2
      <3>2. {j \in 1..m : q[j] = t} = {i}
        BY <1>11, <3>1
      <3>3. CountIn(q, t, m) = 1
        BY <3>2, FS_Singleton DEF CountIn
      <3>4. Allowed(s, t) \in Int /\ Allowed(s, t) >= 1
        BY <1>1, <2>2 DEF Allowed
      <3> QED
        BY <3>3, <3>4
    <2> QED
      BY <2>1, <2>2
  <1>14. ASSUME NEW j \in 2..m PROVE q[j] # q[j - 1]
    <2>1. j \in 1..m /\ j - 1 \in 1..m /\ j # j - 1
      BY <1>1
    <2> QED
      BY <1>11, <2>1
  <1>15. q \in [1..m -> D]
    <2>1. \A j \in 1..m : q[j] \in D
      BY <1>1, <1>10
    <2> QED
      BY <1>5, <2>1
  <1>16. q[1] # s.last
    BY <1>3, <1>4
  <1> QED
    BY <1>1, <1>2, <1>12, <1>13, <1>14, <1>15, <1>16 DEF GoodFor

(* One period that no thread has to get. *)
LEMMA SingleGood ==
    ASSUME NEW D \in SUBSET Nat, NEW s \in Searches(D), s.p = 1, NEW t \in D, t # s.last,
           s.mustDo \subseteq {t}, t \in s.mustDo \/ s.kps[t] > 0
    PROVE  GoodFor(s, <<t>>)
  <1>1. s.kps \in [D -> Int] /\ DOMAIN s.kps = D
    BY SearchType
  <1> DEFINE q == <<t>>
  <1>2. q \in [1..1 -> D] /\ q[1] = t
    OBVIOUS
  <1> HIDE DEF q
  <1>3. ASSUME NEW u \in D PROVE CountIn(q, u, 1) <= Allowed(s, u)
    <2>1. CountIn(q, u, 1) = Owns(q, u, 1)
      <3>1. 1 \in Nat \ {0} /\ 1 - 1 = 0
        OBVIOUS
      <3>2. CountIn(q, u, 1) = CountIn(q, u, 1 - 1) + Owns(q, u, 1)
        BY <3>1, CountNext
      <3>3. CountIn(q, u, 1 - 1) = 0 /\ Owns(q, u, 1) \in Nat
        BY <3>1, CountZero DEF Owns
      <3> QED
        BY <3>2, <3>3
    <2>2. s.kps[u] \in Int
      BY <1>1
    <2>3. CASE u = t
      <3>1. Allowed(s, u) >= 1
        BY <2>2, <2>3 DEF Allowed
      <3> QED
        BY <1>2, <2>1, <2>3, <3>1 DEF Owns
    <2>4. CASE u # t
      <3>1. Allowed(s, u) >= 0
        BY <2>2 DEF Allowed
      <3> QED
        BY <1>2, <2>1, <2>4, <3>1 DEF Owns
    <2> QED
      BY <2>3, <2>4
  <1>4. \A v \in s.mustDo : \E j \in 1..1 : q[j] = v
    <2>1. 1 \in 1..1
      OBVIOUS
    <2> QED
      BY <1>2, <2>1
  <1>5. \A j \in 2..1 : q[j] # q[j - 1]
    OBVIOUS
  <1>6. s.p >= 1 /\ 1 \in Int
    OBVIOUS
  <1>7. GoodFor(s, q)
    BY <1>1, <1>2, <1>3, <1>4, <1>5, <1>6 DEF GoodFor
  <1> QED
    BY <1>7 DEF q

(* What FirstPattern makes of good answers is a good answer. *)
LEMMA FirstPatternGood ==
    ASSUME NEW n \in Nat, NEW D, D = 0..(n - 1), NEW s \in Searches(D), NEW f,
           s.p > 1 => \A t \in Usable(s) :
                         f[After(s, t)] = None \/ GoodFor(After(s, t), f[After(s, t)])
    PROVE  FirstPattern(s, f) = None \/ GoodFor(s, FirstPattern(s, f))
  <1> DEFINE good == {t \in Usable(s) : f[After(s, t)] # None}
  <1>1. /\ s.p \in Nat /\ s.mustDo \in SUBSET D /\ Usable(s) \in SUBSET D /\ D \in SUBSET Nat
        /\ Cardinality(s.mustDo) \in Nat /\ (Cardinality(s.mustDo) = 0 => s.mustDo = {})
    <2>1. s.p \in Nat /\ s.mustDo \in SUBSET D /\ Usable(s) \in SUBSET D
      BY SearchType
    <2> QED
      BY <2>1, ThreadSets
  <1>2. CASE s.p < 1 \/ s.p < Cardinality(s.mustDo)
    BY <1>2 DEF FirstPattern
  <1>3. CASE s.p >= 1 /\ s.p = Cardinality(s.mustDo)
    <2>1. CASE s.mustDo \subseteq {s.last}
      BY <1>1, <1>3, <2>1 DEF FirstPattern
    <2>2. CASE ~(s.mustDo \subseteq {s.last})
      BY <1>3, <2>2, OneEachGood
    <2> QED
      BY <2>1, <2>2
  <1>4. CASE s.p > Cardinality(s.mustDo) /\ s.p = 1
    <2>1. FirstPattern(s, f) = IF Usable(s) = {} THEN None ELSE <<Min(Usable(s))>>
      BY <1>1, <1>4 DEF FirstPattern
    <2>2. CASE Usable(s) # {}
      <3> DEFINE t == Min(Usable(s))
      <3>1. t \in Usable(s)
        BY <1>1, <2>2, MinOfSet
      <3> HIDE DEF t
      <3>2. t \in D /\ t # s.last /\ s.kps[t] > 0
        BY <1>1, <3>1 DEF Usable
      <3>3. s.mustDo \subseteq {t}
        BY <1>1, <1>4
      <3>4. GoodFor(s, <<t>>)
        BY <1>1, <1>4, <3>2, <3>3, SingleGood
      <3> QED
        BY <2>1, <2>2, <3>4 DEF t
    <2> QED
      BY <2>1, <2>2
  <1>5. CASE s.p > Cardinality(s.mustDo) /\ s.p > 1
    <2>1. FirstPattern(s, f) = IF good = {} THEN None ELSE <<Min(good)>> \o f[After(s, Min(good))]
      BY <1>1, <1>5 DEF FirstPattern
    <2>2. CASE good # {}
      <3> DEFINE t == Min(good)
      <3>1. t \in good
        <4>1. good \in SUBSET Nat
          BY <1>1
        <4> HIDE DEF good
        <4> QED
          BY <2>2, <4>1, MinOfSet
      <3> HIDE DEF t
      <3>2. t \in Usable(s) /\ f[After(s, t)] # None
        BY <3>1
      <3>3. GoodFor(After(s, t), f[After(s, t)])
        BY <1>5, <3>2
      <3>4. GoodFor(s, <<t>> \o f[After(s, t)])
        <4>1. s.p >= 1
          BY <1>1, <1>5
        <4> QED
          BY <1>1, <3>2, <3>3, <4>1, ConsGood
      <3> QED
        BY <2>1, <2>2, <3>4 DEF t
    <2> QED
      BY <2>1, <2>2
  <1> QED
    BY <1>1, <1>2, <1>3, <1>4, <1>5

(* _init_pattern returns no pattern, or one as it is asked for. *)
LEMMA InitPatternGood ==
    ASSUME NEW n \in Nat, NEW D, D = 0..(n - 1), NEW s \in Searches(D)
    PROVE  InitPattern(s) = None \/ GoodFor(s, InitPattern(s))
  <1> DEFINE Right(x) == InitPattern(x) = None \/ GoodFor(x, InitPattern(x))
             wrong == {k \in Nat : \E x \in Searches(D) : x.p = k /\ ~Right(x)}
  <1>1. wrong = {}
    <2> SUFFICES ASSUME wrong # {} PROVE FALSE
      OBVIOUS
    <2> HIDE DEF Right
    <2>1. PICK k \in wrong : \A l \in wrong : k <= l
      <3>1. wrong \in SUBSET Nat
        OBVIOUS
      <3> HIDE DEF wrong
      <3> QED
        BY <3>1, LeastNumber
    <2>2. PICK x \in Searches(D) : x.p = k /\ ~Right(x)
      BY <2>1
    <2>3. k \in Nat /\ D \in SUBSET Nat
      OBVIOUS
    <2> DEFINE f == Found(D)
    <2>4. InitPattern(x) = FirstPattern(x, f)
      BY <2>3, InitPatternIs
    <2>5. ASSUME x.p > 1, NEW t \in Usable(x)
          PROVE  f[After(x, t)] = None \/ GoodFor(After(x, t), f[After(x, t)])
      <3> DEFINE a == After(x, t)
      <3>1. t \in D /\ x.p >= 1
        BY <2>2, <2>3, <2>5, SearchType
      <3>2. a \in Searches(D) /\ a.p = k - 1
        BY <2>2, <2>3, <3>1, AfterType
      <3> HIDE DEF a
      <3>3. k - 1 \notin wrong /\ k - 1 \in Nat
        <4>1. k - 1 \in Nat /\ ~(k <= k - 1)
          BY <2>2, <2>3, <2>5
        <4> HIDE DEF wrong
        <4> QED
          BY <2>1, <4>1
      <3>4. Right(a)
        BY <3>2, <3>3
      <3>5. InitPattern(a) = f[a]
        BY <2>3, <3>2, InitPatternIs
      <3> QED
        BY <3>4, <3>5 DEF Right, a
    <2> HIDE DEF f, wrong
    <2>6. FirstPattern(x, f) = None \/ GoodFor(x, FirstPattern(x, f))
      BY <2>5, FirstPatternGood
    <2> QED
      BY <2>2, <2>4, <2>6 DEF Right
  <1>2. s.p \in Nat
    BY SearchType
  <1>3. Right(s)
    <2> HIDE DEF Right
    <2> QED
      BY <1>1, <1>2
  <1> QED
    BY <1>3

LEMMA NoneIsNotGood ==
    ASSUME NEW s, s.p \in Nat
    PROVE  ~GoodFor(s, None)
  <1> SUFFICES ASSUME GoodFor(s, None) PROVE FALSE
    OBVIOUS
  <1>1. s.p >= 1 /\ None \in [1..s.p -> DOMAIN s.kps]
    BY DEF GoodFor
  <1>2. DOMAIN None = 1..s.p /\ 1 \in 1..s.p
    BY <1>1
  <1>3. DOMAIN None = {}
    BY DEF None
  <1> QED
    BY <1>2, <1>3

(* No more threads than periods must get one. *)
LEMMA EnoughPeriods ==
    ASSUME NEW S, NEW m \in Nat, NEW q, \A t \in S : \E j \in 1..m : q[j] = t
    PROVE  Cardinality(S) <= m
  <1> DEFINE g == [t \in S |-> CHOOSE j \in 1..m : q[j] = t]
  <1>1. \A t \in S : g[t] \in 1..m /\ q[g[t]] = t
    OBVIOUS
  <1>2. g \in [S -> 1..m]
    BY <1>1
  <1>3. \A t \in S : \A u \in S : g[t] = g[u] => t = u
    BY <1>1, Zenon
  <1> HIDE DEF g
  <1>4. g \in Injection(S, 1..m)
    BY <1>2, <1>3 DEF Injection, IsInjective
  <1>5. IsFiniteSet(1..m) /\ Cardinality(1..m) = m
    <2>1. 1 \in Int /\ m \in Int
      OBVIOUS
    <2>2. IsFiniteSet(1..m) /\ Cardinality(1..m) = IF 1 > m THEN 0 ELSE m - 1 + 1
      BY <2>1, FS_Interval, Zenon
    <2> QED
      BY <2>2
  <1>6. Cardinality(S) <= Cardinality(1..m)
    BY <1>4, <1>5, FS_Injection
  <1> QED
    BY <1>5, <1>6

(* A pattern in which no thread has more periods than KPs. *)
Fits(s, q) ==
    /\ s.p >= 1 /\ q \in [1..s.p -> DOMAIN s.kps]
    /\ q[1] # s.last
    /\ \A j \in 2..s.p : q[j] # q[j - 1]
    /\ \A t \in s.mustDo : \E j \in 1..s.p : q[j] = t
    /\ \A t \in DOMAIN s.kps : CountIn(q, t, s.p) <= s.kps[t]

LEMMA CountOne ==
    ASSUME NEW q, NEW t
    PROVE  CountIn(q, t, 1) = Owns(q, t, 1)
  <1>1. 1 \in Nat \ {0} /\ 1 - 1 = 0
    OBVIOUS
  <1>2. CountIn(q, t, 1) = CountIn(q, t, 1 - 1) + Owns(q, t, 1)
    BY <1>1, CountNext
  <1>3. CountIn(q, t, 1 - 1) = 0 /\ Owns(q, t, 1) \in Nat
    BY <1>1, CountZero DEF Owns
  <1> QED
    BY <1>2, <1>3

(* Without its first period it fits what is left to ask for. *)
LEMMA TailFits ==
    ASSUME NEW D \in SUBSET Nat, NEW s \in Searches(D), NEW q, Fits(s, q), s.p > 1
    PROVE  /\ q[1] \in Usable(s)
           /\ \E r : Fits(After(s, q[1]), r)
  <1> DEFINE t == q[1]
             a == After(s, t)
             m == s.p - 1
             r == [j \in 1..m |-> q[j + 1]]
  <1>1. /\ s.kps \in [D -> Int] /\ s.p \in Nat /\ s.mustDo \in SUBSET D
        /\ s.last \in Int /\ DOMAIN s.kps = D
    BY SearchType
  <1>2. /\ q \in [1..s.p -> D] /\ q[1] # s.last
        /\ \A j \in 2..s.p : q[j] # q[j - 1]
        /\ \A u \in s.mustDo : \E j \in 1..s.p : q[j] = u
        /\ \A u \in D : CountIn(q, u, s.p) <= s.kps[u]
    BY <1>1 DEF Fits
  <1>3. m \in Nat /\ m >= 1 /\ 1 + m = s.p
    BY <1>1
  <1>4. t \in D
    <2>1. 1 \in 1..s.p
      BY <1>1
    <2> QED
      BY <1>2, <2>1
  <1>5. /\ a \in Searches(D) /\ a.p = m /\ a.last = t /\ a.mustDo = s.mustDo \ {t}
    <2>1. s.p >= 1
      BY <1>1
    <2> HIDE DEF t
    <2> QED
      BY <1>4, <2>1, AfterType
  <1>6. \A u \in D : a.kps[u] = IF u = t THEN s.kps[t] - 1 ELSE s.kps[u]
    <2> HIDE DEF t
    <2> QED
      BY <1>4, AfterKps
  <1>7. DOMAIN a.kps = D
    BY <1>5, SearchType
  <1> HIDE DEF a, m
  <1>8. r \in [1..m -> D] /\ \A j \in 1..m : r[j] = q[j + 1] /\ r[j] = q[1 + j]
    <2>1. \A j \in 1..m : j + 1 \in 1..s.p /\ j + 1 = 1 + j
      BY <1>1, <1>3
    <2>2. \A j \in 1..m : q[j + 1] \in D
      BY <1>2, <2>1
    <2> QED
      BY <2>1, <2>2
  <1> HIDE DEF r, t
  <1>9. ASSUME NEW u \in D
        PROVE  /\ CountIn(q, u, s.p) = Owns(q, u, 1) + CountIn(r, u, m)
               /\ CountIn(r, u, m) \in Nat /\ CountIn(q, u, s.p) <= s.kps[u] /\ s.kps[u] \in Int
    <2>1. CountIn(q, u, 1 + m) = CountIn(q, u, 1) + CountIn(r, u, m)
      <3>1. 1 \in Nat /\ m \in Nat /\ \A j \in 1..m : r[j] = q[1 + j]
        BY <1>3, <1>8
      <3> QED
        BY ONLY <3>1, CountSplit
    <2>2. CountIn(q, u, 1) = Owns(q, u, 1)
      BY CountOne
    <2>3. CountIn(r, u, m) \in Nat
      BY <1>3, CountType
    <2> QED
      BY <1>1, <1>2, <1>3, <2>1, <2>2, <2>3
  <1>10. t \in Usable(s)
    <2>1. Owns(q, t, 1) = 1
      BY DEF Owns, t
    <2>2. s.kps[t] > 0
      BY <1>4, <1>9, <2>1
    <2> QED
      BY <1>1, <1>2, <1>4, <2>2 DEF Usable, t
  <1>11. \A u \in D : CountIn(r, u, m) <= a.kps[u]
    <2> TAKE u \in D
    <2>1. CASE u = t
      <3>1. Owns(q, u, 1) = 1
        BY <2>1 DEF Owns, t
      <3>2. a.kps[u] = s.kps[u] - 1
        BY <1>6, <2>1
      <3>3. 1 + CountIn(r, u, m) <= s.kps[u] /\ CountIn(r, u, m) \in Nat /\ s.kps[u] \in Int
        BY <1>9, <3>1
      <3>4. CountIn(r, u, m) <= s.kps[u] - 1
        BY <3>3
      <3> QED
        BY <3>2, <3>4
    <2>2. CASE u # t
      <3>1. Owns(q, u, 1) = 0
        BY <2>2 DEF Owns, t
      <3>2. a.kps[u] = s.kps[u]
        BY <1>6, <2>2
      <3>3. 0 + CountIn(r, u, m) <= s.kps[u] /\ CountIn(r, u, m) \in Nat
        BY <1>9, <3>1
      <3>4. CountIn(r, u, m) <= s.kps[u]
        BY <3>3
      <3> QED
        BY <3>2, <3>4
    <2> QED
      BY <2>1, <2>2
  <1>12. \A u \in a.mustDo : \E j \in 1..m : r[j] = u
    <2> TAKE u \in a.mustDo
    <2>1. u \in s.mustDo /\ u # t
      BY <1>5
    <2>2. PICK j \in 1..s.p : q[j] = u
      BY <1>2, <2>1
    <2>3. j # 1
      BY <2>1, <2>2 DEF t
    <2>4. j - 1 \in 1..m /\ (j - 1) + 1 = j
      BY <1>3, <2>3
    <2>5. r[j - 1] = q[j]
      BY <1>8, <2>4
    <2> QED
      BY <2>2, <2>4, <2>5
  <1>13. \A j \in 2..m : r[j] # r[j - 1]
    <2> TAKE j \in 2..m
    <2> DEFINE i == j - 1
    <2>1. i \in 1..m /\ i + 1 = j /\ j \in 1..m /\ j + 1 \in 2..s.p /\ (j + 1) - 1 = j
      BY <1>3
    <2>2. r[i] = q[j] /\ r[j] = q[j + 1]
      <3> HIDE DEF i
      <3> QED
        BY <1>8, <2>1
    <2>3. q[j + 1] # q[j]
      BY <1>2, <2>1
    <2> QED
      BY <2>2, <2>3
  <1>14. r[1] # t
    <2>1. 1 \in 1..m /\ 1 + 1 = 2 /\ 2 \in 2..s.p /\ 2 - 1 = 1
      BY <1>1, <1>3
    <2>2. r[1] = q[2] /\ q[2] # q[1]
      BY <1>2, <1>8, <2>1
    <2> QED
      BY <2>2 DEF t
  <1>15. Fits(a, r)
    BY <1>3, <1>5, <1>7, <1>8, <1>11, <1>12, <1>13, <1>14 DEF Fits
  <1> QED
    BY <1>10, <1>15 DEF a, t

(* _init_pattern finds a pattern if there is one that fits the KPs. *)
LEMMA InitPatternFinds ==
    ASSUME NEW n \in Nat, NEW D, D = 0..(n - 1), NEW s \in Searches(D), NEW q, Fits(s, q)
    PROVE  InitPattern(s) # None
  <1> DEFINE Finds(x) == (\E r : Fits(x, r)) => InitPattern(x) # None
             wrong == {k \in Nat : \E x \in Searches(D) : x.p = k /\ ~Finds(x)}
  <1>1. wrong = {}
    <2> SUFFICES ASSUME wrong # {} PROVE FALSE
      OBVIOUS
    <2> HIDE DEF Finds
    <2>1. PICK k \in wrong : \A l \in wrong : k <= l
      <3>1. wrong \in SUBSET Nat
        OBVIOUS
      <3> HIDE DEF wrong
      <3> QED
        BY <3>1, LeastNumber
    <2>2. PICK x \in Searches(D) : x.p = k /\ ~Finds(x)
      BY <2>1
    <2>3. k \in Nat /\ D \in SUBSET Nat
      OBVIOUS
    <2>4. PICK r : Fits(x, r)
      BY <2>2 DEF Finds
    <2>5. InitPattern(x) = None
      BY <2>2 DEF Finds
    <2> DEFINE f == Found(D)
               good == {t \in Usable(x) : f[After(x, t)] # None}
               c == Cardinality(x.mustDo)
    <2>6. FirstPattern(x, f) = None
      BY <2>3, <2>5, InitPatternIs
    <2>7. /\ x.p >= 1 /\ r \in [1..x.p -> D] /\ r[1] # x.last
          /\ \A t \in x.mustDo : \E j \in 1..x.p : r[j] = t
          /\ \A t \in D : CountIn(r, t, x.p) <= x.kps[t]
      <3>1. DOMAIN x.kps = D
        BY SearchType
      <3> QED
        BY <2>4, <3>1 DEF Fits
    <2>8. /\ x.p \in Nat /\ x.mustDo \in SUBSET D /\ Usable(x) \in SUBSET D
          /\ c \in Nat /\ (c = 0 <=> x.mustDo = {})
      <3>1. x.p \in Nat /\ x.mustDo \in SUBSET D /\ Usable(x) \in SUBSET D
        BY SearchType
      <3> QED
        BY <3>1, ThreadSets
    <2>9. c <= x.p
      BY <2>7, <2>8, EnoughPeriods
    <2> HIDE DEF f, good
    <2>10. CASE x.p = c
      <3>1. ~(x.mustDo \subseteq {x.last})
        <4> SUFFICES ASSUME x.mustDo \subseteq {x.last} PROVE FALSE
          OBVIOUS
        <4>1. x.mustDo = {x.last}
          BY <2>7, <2>8, <2>10
        <4>2. c = 1
          BY <4>1, FS_Singleton
        <4>3. x.p = 1
          BY <2>10, <4>2
        <4>4. PICK j \in 1..x.p : r[j] = x.last
          BY <2>7, <4>1
        <4>5. j = 1
          BY <4>3
        <4> QED
          BY <2>7, <4>4, <4>5
      <3>2. GoodFor(x, FirstPattern(x, f))
        BY <2>7, <2>10, <3>1, OneEachGood
      <3> QED
        BY <2>6, <2>8, <3>2, NoneIsNotGood
    <2>11. CASE x.p # c /\ x.p = 1
      <3>1. FirstPattern(x, f) = IF Usable(x) = {} THEN None ELSE <<Min(Usable(x))>>
        BY <2>7, <2>8, <2>9, <2>11 DEF FirstPattern
      <3>2. r[1] \in Usable(x)
        <4>1. r[1] \in D
          <5>1. 1 \in 1..x.p
            BY <2>11
          <5> QED
            BY <2>7, <5>1
        <4>2. CountIn(r, r[1], 1) = 1
          BY CountOne DEF Owns
        <4>3. x.kps[r[1]] \in Int /\ DOMAIN x.kps = D
          BY <4>1, SearchType
        <4>4. x.kps[r[1]] > 0
          BY <2>7, <2>11, <4>1, <4>2, <4>3
        <4> QED
          BY <2>7, <4>1, <4>3, <4>4 DEF Usable
      <3>3. FirstPattern(x, f) = <<Min(Usable(x))>>
        BY <3>1, <3>2
      <3> DEFINE t == Min(Usable(x))
      <3>4. <<t>> # None
        BY DEF None
      <3> QED
        BY <2>6, <3>3, <3>4
    <2>12. CASE x.p # c /\ x.p > 1
      <3> DEFINE t == r[1]
                 a == After(x, t)
      <3>1. t \in Usable(x) /\ \E y : Fits(a, y)
        BY <2>3, <2>4, <2>12, TailFits
      <3>2. a \in Searches(D) /\ a.p = k - 1
        <4>1. t \in D /\ x.p >= 1
          BY <2>7, <2>8, <3>1
        <4> HIDE DEF t
        <4> QED
          BY <2>2, <2>3, <4>1, AfterType
      <3> HIDE DEF a
      <3>3. k - 1 \notin wrong
        <4>1. k - 1 \in Nat /\ ~(k <= k - 1)
          BY <2>2, <2>3, <2>12
        <4> HIDE DEF wrong
        <4> QED
          BY <2>1, <4>1
      <3>4. Finds(a)
        <4>1. k - 1 \in Nat
          BY <2>2, <2>3, <2>12
        <4> QED
          BY <3>2, <3>3, <4>1
      <3>5. f[a] # None
        <4>1. InitPattern(a) = f[a]
          BY <2>3, <3>2, InitPatternIs DEF f
        <4> QED
          BY <3>1, <3>4, <4>1 DEF Finds
      <3> HIDE DEF t
      <3>6. good # {}
        BY <3>1, <3>5 DEF good, a
      <3> DEFINE u == Min(good)
      <3>7. u \in good
        <4>1. good \in SUBSET Nat
          BY <2>3, <2>8 DEF good
        <4> QED
          BY <3>6, <4>1, MinOfSet
      <3> HIDE DEF u
      <3>8. u \in Usable(x) /\ f[After(x, u)] # None
        BY <3>7 DEF good
      <3>9. GoodFor(After(x, u), f[After(x, u)])
        <4>1. u \in D /\ x.p >= 1
          BY <2>7, <2>8, <3>8
        <4>2. After(x, u) \in Searches(D)
          BY <2>3, <4>1, AfterType
        <4>3. InitPattern(After(x, u)) = f[After(x, u)]
          BY <2>3, <4>2, InitPatternIs DEF f
        <4> QED
          BY <3>8, <4>2, <4>3, InitPatternGood
      <3>10. GoodFor(x, <<u>> \o f[After(x, u)])
        BY <2>3, <2>7, <3>8, <3>9, ConsGood
      <3>11. FirstPattern(x, f) = <<u>> \o f[After(x, u)]
        <4>1. FirstPattern(x, f) = IF good = {} THEN None ELSE <<Min(good)>> \o f[After(x, Min(good))]
          BY <2>8, <2>9, <2>12 DEF FirstPattern, good
        <4> QED
          BY <3>6, <4>1 DEF u
      <3> QED
        BY <2>6, <2>8, <3>10, <3>11, NoneIsNotGood
    <2> QED
      BY <2>7, <2>8, <2>10, <2>11, <2>12
  <1>2. s.p \in Nat
    BY SearchType
  <1>3. Finds(s)
    <2> HIDE DEF Finds
    <2> QED
      BY <1>1, <1>2
  <1> QED
    BY <1>3

-----------------------------------------------------------------------------
(* The order in which patterns, and sets of threads of one size, come.     *)
Precedes(q, r, m) == \E i \in 1..m : q[i] < r[i] /\ \A j \in 1..(i - 1) : q[j] = r[j]

Seen(q, i) == {q[j] : j \in 1..(i - 1)}
LastBefore(s, q, i) == IF i = 1 THEN s.last ELSE q[i - 1]

LEMMA BehindType ==
    ASSUME NEW D \in SUBSET Nat, NEW s \in Searches(D), NEW q \in [1..s.p -> D], NEW i \in 1..s.p
    PROVE  /\ Behind(s, q, i) \in Searches(D)
           /\ Behind(s, q, i).p = s.p - (i - 1) /\ Behind(s, q, i).p \in Nat
           /\ Behind(s, q, i).p >= 1
           /\ Behind(s, q, i).last = LastBefore(s, q, i)
           /\ Behind(s, q, i).mustDo = s.mustDo \ Seen(q, i)
  <1>1. /\ s.kps \in [D -> Int] /\ s.p \in Nat /\ s.mustDo \in SUBSET D
        /\ s.last \in Int /\ DOMAIN s.kps = D
    BY SearchType
  <1> DEFINE k == [t \in DOMAIN s.kps |-> s.kps[t] - Cardinality({j \in 1..(i - 1) : q[j] = t})]
             l == IF i = 1 THEN s.last ELSE q[i - 1]
             n == s.p - (i - 1)
             w == s.mustDo \ {q[j] : j \in 1..(i - 1)}
  <1>2. \A u \in D : k[u] = s.kps[u] - CountIn(q, u, i - 1)
    BY <1>1 DEF CountIn
  <1>3. \A u \in D : CountIn(q, u, i - 1) \in Nat
    <2>1. i - 1 \in Nat
      BY <1>1
    <2> QED
      BY <2>1, CountType
  <1>4. k \in [D -> Int]
    <2>1. k = [t \in D |-> k[t]]
      BY <1>1
    <2>2. \A t \in D : k[t] \in Int
      <3> HIDE DEF k
      <3> QED
        BY <1>1, <1>2, <1>3
    <2> HIDE DEF k
    <2> QED
      BY <2>1, <2>2
  <1>5. l \in Int
    <2>1. i # 1 => i - 1 \in 1..s.p
      BY <1>1
    <2>2. i # 1 => q[i - 1] \in D
      BY <2>1
    <2>3. D \subseteq Int
      OBVIOUS
    <2> QED
      BY <1>1, <2>2, <2>3
  <1>6. n \in Nat /\ n >= 1 /\ w \in SUBSET D
    BY <1>1
  <1>7. Behind(s, q, i) = [kps |-> k, p |-> n, mustDo |-> w, last |-> l]
    BY DEF Behind
  <1> HIDE DEF k, l, n, w
  <1>8. Behind(s, q, i) \in Searches(D)
    BY <1>4, <1>5, <1>6, <1>7 DEF Searches
  <1>9. /\ Behind(s, q, i).p = n /\ Behind(s, q, i).last = l /\ Behind(s, q, i).mustDo = w
        /\ Behind(s, q, i).kps = k
    BY <1>7
  <1> QED
    BY <1>6, <1>8, <1>9 DEF l, n, w, Seen, LastBefore

LEMMA BehindKps ==
    ASSUME NEW D, NEW s \in Searches(D), NEW q, NEW i, NEW u \in D
    PROVE  Behind(s, q, i).kps[u] = s.kps[u] - CountIn(q, u, i - 1)
  <1>1. u \in DOMAIN s.kps
    BY SearchType
  <1> QED
    BY <1>1 DEF Behind, CountIn

LaterHead(s, head, r) == r[1] > head \/ (s.p = 1 /\ r[1] \in s.mustDo \ {head})

(* Another head gives no pattern, or a good one. *)
LEMMA OtherHeadGood ==
    ASSUME NEW n \in Nat, NEW D, D = 0..(n - 1), NEW s \in Searches(D), s.p >= 1, NEW head \in D
    PROVE  \/ OtherHead(s, head) = None
           \/ GoodFor(s, OtherHead(s, head)) /\ LaterHead(s, head, OtherHead(s, head))
  <1> DEFINE must == s.mustDo
             later == {t \in Usable(s) : t > head}
             good == {t \in later : InitPattern(After(s, t)) # None}
  <1>1. /\ s.p \in Nat /\ must \in SUBSET D /\ Usable(s) \in SUBSET D /\ D \in SUBSET Nat
        /\ Cardinality(must) \in Nat /\ IsFiniteSet(must)
    <2>1. s.p \in Nat /\ must \in SUBSET D /\ Usable(s) \in SUBSET D
      BY SearchType
    <2> QED
      BY <2>1, ThreadSets
  <1>2. CASE s.p = 1
    <2>1. OtherHead(s, head) =
            IF Cardinality(must) > 1 \/ must \cap {head, s.last} # {} THEN None
            ELSE IF must # {} THEN <<Min(must)>>
            ELSE IF later = {} THEN None ELSE <<Min(later)>>
      BY <1>2 DEF OtherHead
    <2>2. CASE Cardinality(must) > 1 \/ must \cap {head, s.last} # {}
      BY <2>1, <2>2
    <2>3. CASE ~(Cardinality(must) > 1 \/ must \cap {head, s.last} # {}) /\ must # {}
      <3> DEFINE t == Min(must)
      <3>1. t \in must
        BY <1>1, <2>3, MinOfSet
      <3>2. Cardinality(must) # 0
        BY <1>1, <2>3, FS_EmptySet
      <3>3. Cardinality(must) = 1
        BY <1>1, <2>3, <3>2
      <3>4. \E x : must = {x}
        BY <1>1, <3>3, FS_Singleton
      <3>5. OtherHead(s, head) = <<t>>
        BY <2>1, <2>3
      <3> HIDE DEF t
      <3>6. must \subseteq {t} /\ t \in D /\ t # s.last /\ t # head
        BY <1>1, <2>3, <3>1, <3>4
      <3>7. GoodFor(s, <<t>>)
        BY <1>1, <1>2, <3>1, <3>6, SingleGood
      <3> QED
        BY <1>2, <3>1, <3>5, <3>6, <3>7 DEF LaterHead
    <2>4. CASE must = {} /\ later # {} /\ ~(Cardinality(must) > 1 \/ must \cap {head, s.last} # {})
      <3> DEFINE t == Min(later)
      <3>1. t \in later
        <4>1. later \in SUBSET Nat
          BY <1>1
        <4> HIDE DEF later
        <4> QED
          BY <2>4, <4>1, MinOfSet
      <3>2. OtherHead(s, head) = <<t>>
        BY <2>1, <2>4
      <3> HIDE DEF t
      <3>3. t \in D /\ t # s.last /\ s.kps[t] > 0 /\ t > head /\ must \subseteq {t}
        BY <1>1, <2>4, <3>1 DEF Usable
      <3>4. GoodFor(s, <<t>>)
        BY <1>1, <1>2, <3>3, SingleGood
      <3> QED
        <4>1. LaterHead(s, head, <<t>>)
          BY <3>3 DEF LaterHead
        <4> QED
          BY <3>2, <3>4, <4>1
    <2> QED
      BY <2>1, <2>2, <2>3, <2>4
  <1>3. CASE s.p # 1
    <2>1. OtherHead(s, head) =
            IF good = {} THEN None ELSE <<Min(good)>> \o InitPattern(After(s, Min(good)))
      BY <1>3 DEF OtherHead
    <2>2. CASE good # {}
      <3> DEFINE t == Min(good)
      <3>1. t \in good
        <4>1. good \in SUBSET Nat
          BY <1>1
        <4> HIDE DEF good
        <4> QED
          BY <2>2, <4>1, MinOfSet
      <3>2. OtherHead(s, head) = <<t>> \o InitPattern(After(s, t))
        BY <2>1, <2>2
      <3> HIDE DEF t
      <3>3. t \in Usable(s) /\ t \in D /\ t > head /\ InitPattern(After(s, t)) # None
        BY <1>1, <3>1
      <3>4. After(s, t) \in Searches(D)
        BY <1>1, <3>3, AfterType
      <3>5. GoodFor(After(s, t), InitPattern(After(s, t)))
        BY <3>3, <3>4, InitPatternGood
      <3>6. GoodFor(s, <<t>> \o InitPattern(After(s, t))) /\ (<<t>> \o InitPattern(After(s, t)))[1] = t
        BY <1>1, <3>3, <3>5, ConsGood
      <3> QED
        <4>1. LaterHead(s, head, <<t>> \o InitPattern(After(s, t)))
          BY <3>3, <3>6 DEF LaterHead
        <4> QED
          BY <3>2, <3>6, <4>1
    <2> QED
      BY <2>1, <2>2
  <1> QED
    BY <1>2, <1>3

(* The first i - 1 periods of one pattern before another one. *)
Joined(q, r, i, m) == [j \in 1..m |-> IF j < i THEN q[j] ELSE r[j - i + 1]]

LEMMA JoinedIs ==
    ASSUME NEW m \in Nat, NEW D, NEW q \in [1..m -> D], NEW i \in 1..m,
           NEW r \in [1..(m - (i - 1)) -> D]
    PROVE  /\ Joined(q, r, i, m) \in [1..m -> D]
           /\ \A j \in 1..(i - 1) : Joined(q, r, i, m)[j] = q[j]
           /\ \A j \in 1..(m - (i - 1)) : Joined(q, r, i, m)[(i - 1) + j] = r[j]
           /\ Joined(q, r, i, m)[i] = r[1]
           /\ (i - 1) + (m - (i - 1)) = m
  <1> DEFINE b == m - (i - 1)
             g == Joined(q, r, i, m)
  <1>1. \A j \in 1..m : g[j] = IF j < i THEN q[j] ELSE r[j - i + 1]
    BY DEF Joined
  <1>2. g = [j \in 1..m |-> g[j]]
    BY DEF Joined
  <1> HIDE DEF g
  <1>3. \A j \in 1..m : g[j] \in D
    <2> TAKE j \in 1..m
    <2>1. CASE j < i
      BY <1>1, <2>1
    <2>2. CASE ~(j < i)
      <3>1. j - i + 1 \in 1..b
        BY <2>2
      <3> QED
        BY <1>1, <2>2, <3>1
    <2> QED
      BY <2>1, <2>2
  <1>4. \A j \in 1..(i - 1) : g[j] = q[j]
    <2>1. \A j \in 1..(i - 1) : j \in 1..m /\ j < i
      OBVIOUS
    <2> QED
      BY <1>1, <2>1
  <1>5. \A j \in 1..b : g[(i - 1) + j] = r[j]
    <2> TAKE j \in 1..b
    <2> DEFINE l == (i - 1) + j
    <2>1. l \in 1..m /\ ~(l < i) /\ l - i + 1 = j
      OBVIOUS
    <2> HIDE DEF l
    <2>2. g[l] = r[j]
      BY <1>1, <2>1
    <2> QED
      BY <2>2 DEF l
  <1>6. g[i] = r[1]
    <2>1. 1 \in 1..b /\ (i - 1) + 1 = i
      OBVIOUS
    <2> QED
      BY <1>5, <2>1
  <1>7. g \in [1..m -> D]
    BY <1>2, <1>3
  <1>8. (i - 1) + (m - (i - 1)) = m
    OBVIOUS
  <1> QED
    BY <1>4, <1>5, <1>6, <1>7, <1>8 DEF g

LEMMA JoinedGood ==
    ASSUME NEW D \in SUBSET Nat, NEW s \in Searches(D), NEW q, GoodFor(s, q), NEW i \in 1..s.p,
           NEW r, GoodFor(Behind(s, q, i), r)
    PROVE  GoodFor(s, Joined(q, r, i, s.p))
  <1> DEFINE m == s.p
             a == i - 1
             b == m - (i - 1)
             c == Behind(s, q, i)
             g == Joined(q, r, i, m)
  <1>1. /\ s.kps \in [D -> Int] /\ m \in Nat /\ s.mustDo \in SUBSET D
        /\ s.last \in Int /\ DOMAIN s.kps = D
    BY SearchType
  <1>2. /\ q \in [1..m -> D] /\ q[1] # s.last
        /\ \A j \in 2..m : q[j] # q[j - 1]
        /\ \A t \in s.mustDo : \E j \in 1..m : q[j] = t
        /\ \A t \in D : CountIn(q, t, m) <= Allowed(s, t)
    BY <1>1 DEF GoodFor
  <1>3. /\ c \in Searches(D) /\ c.p = b /\ b \in Nat /\ b >= 1
        /\ c.last = (IF i = 1 THEN s.last ELSE q[i - 1])
        /\ c.mustDo = s.mustDo \ {q[j] : j \in 1..(i - 1)}
        /\ \A u \in D : c.kps[u] = s.kps[u] - CountIn(q, u, i - 1)
    <2>1. \A u \in D : Behind(s, q, i).kps[u] = s.kps[u] - CountIn(q, u, i - 1)
      BY BehindKps
    <2>2. q \in [1..s.p -> D] /\ i \in 1..s.p
      BY <1>2
    <2>3. /\ Behind(s, q, i) \in Searches(D)
          /\ Behind(s, q, i).p = s.p - (i - 1) /\ Behind(s, q, i).p \in Nat
          /\ Behind(s, q, i).p >= 1
          /\ Behind(s, q, i).last = LastBefore(s, q, i)
          /\ Behind(s, q, i).mustDo = s.mustDo \ Seen(q, i)
      BY <2>2, BehindType
    <2> QED
      BY <2>1, <2>3 DEF Seen, LastBefore
  <1>4. DOMAIN c.kps = D
    BY <1>3, SearchType
  <1>5. GoodFor(c, r)
    OBVIOUS
  <1> HIDE DEF c
  <1>6. /\ r \in [1..b -> D] /\ r[1] # c.last
        /\ \A j \in 2..b : r[j] # r[j - 1]
        /\ \A t \in c.mustDo : \E j \in 1..b : r[j] = t
        /\ \A t \in D : CountIn(r, t, b) <= Allowed(c, t)
    BY <1>3, <1>4, <1>5 DEF GoodFor
  <1>7. /\ g \in [1..m -> D]
        /\ \A j \in 1..a : g[j] = q[j]
        /\ \A j \in 1..b : g[a + j] = r[j]
        /\ g[i] = r[1] /\ a + b = m /\ a \in Nat
    <2>1. m \in Nat /\ q \in [1..m -> D] /\ i \in 1..m /\ r \in [1..(m - (i - 1)) -> D]
      BY <1>1, <1>2, <1>6
    <2>2. i - 1 \in Nat
      BY <2>1
    <2> HIDE DEF m
    <2>3. /\ Joined(q, r, i, m) \in [1..m -> D]
          /\ \A j \in 1..(i - 1) : Joined(q, r, i, m)[j] = q[j]
          /\ \A j \in 1..(m - (i - 1)) : Joined(q, r, i, m)[(i - 1) + j] = r[j]
          /\ Joined(q, r, i, m)[i] = r[1]
          /\ (i - 1) + (m - (i - 1)) = m
      BY ONLY <2>1, JoinedIs
    <2> QED
      BY <2>2, <2>3
  <1> HIDE DEF g
  <1>8. g[1] # s.last
    <2>1. CASE i = 1
      BY <1>3, <1>6, <1>7, <2>1
    <2>2. CASE i # 1
      <3>1. 1 \in 1..a
        BY <1>1, <2>2
      <3> QED
        BY <1>2, <1>7, <3>1
    <2> QED
      BY <2>1, <2>2
  <1>9. ASSUME NEW j \in 2..m PROVE g[j] # g[j - 1]
    <2>1. CASE j < i
      <3>1. j \in 1..a /\ j - 1 \in 1..a
        BY <1>1, <2>1
      <3> QED
        BY <1>2, <1>7, <3>1
    <2>2. CASE j = i
      <3>1. j - 1 \in 1..a /\ i # 1
        BY <1>1, <2>2
      <3>2. g[j - 1] = q[i - 1] /\ c.last = q[i - 1]
        BY <1>3, <1>7, <2>2, <3>1
      <3> QED
        BY <1>6, <1>7, <2>2, <3>2
    <2>3. CASE j > i
      <3> DEFINE l == j - a
                 k == l - 1
      <3>1. l \in 2..b /\ l \in 1..b /\ k \in 1..b /\ a + l = j /\ a + k = j - 1 /\ l - 1 = k
        BY <1>1, <1>7, <2>3
      <3> HIDE DEF l
      <3>2. r[l] # r[k]
        BY <1>6, <3>1
      <3> HIDE DEF k, a, b
      <3>3. g[a + l] = r[l] /\ g[a + k] = r[k]
        BY <1>7, <3>1
      <3> QED
        BY <3>1, <3>2, <3>3
    <2> QED
      BY <1>1, <2>1, <2>2, <2>3
  <1>10. ASSUME NEW t \in s.mustDo PROVE \E j \in 1..m : g[j] = t
    <2>1. CASE \E j \in 1..a : q[j] = t
      <3>1. PICK j \in 1..a : q[j] = t
        BY <2>1
      <3>2. j \in 1..m
        BY <1>1, <3>1
      <3> QED
        BY <1>7, <3>1, <3>2
    <2>2. CASE ~ \E j \in 1..a : q[j] = t
      <3>1. t \in c.mustDo
        BY <1>3, <2>2
      <3>2. PICK j \in 1..b : r[j] = t
        BY <1>6, <3>1
      <3>3. a + j \in 1..m
        BY <1>1, <1>7, <3>2
      <3> HIDE DEF a, b
      <3> QED
        BY <1>7, <3>2, <3>3
    <2> QED
      BY <2>1, <2>2
  <1>11. ASSUME NEW t \in D PROVE CountIn(g, t, m) <= Allowed(s, t)
    <2> HIDE DEF a, b
    <2>1. CountIn(g, t, m) = CountIn(g, t, a) + CountIn(r, t, b)
      <3>1. a \in Nat /\ b \in Nat /\ Continues(g, r, a, b)
        BY <1>3, <1>7 DEF Continues
      <3>2. CountIn(g, t, a + b) = CountIn(g, t, a) + CountIn(r, t, b)
        BY <3>1, CountOn
      <3> QED
        BY <1>7, <3>2
    <2>2. CountIn(g, t, a) = CountIn(q, t, a)
      <3>1. {j \in 1..a : g[j] = t} = {j \in 1..a : q[j] = t}
        BY <1>7
      <3> QED
        BY <3>1, Zenon DEF CountIn
    <2>3. CountIn(q, t, a) \in Nat /\ CountIn(r, t, b) \in Nat /\ CountIn(q, t, m) \in Nat
      BY <1>1, <1>3, <1>7, CountType
    <2>4. CountIn(q, t, a) <= CountIn(q, t, m)
      <3>1. a <= m
        BY <1>1, <1>3, <1>7
      <3> QED
        BY <1>1, <1>7, <3>1, CountMonotone
    <2>5. CountIn(q, t, m) <= Allowed(s, t) /\ CountIn(r, t, b) <= Allowed(c, t)
      BY <1>2, <1>6
    <2>6. c.kps[t] = s.kps[t] - CountIn(q, t, a) /\ s.kps[t] \in Int
      BY <1>1, <1>3 DEF a
    <2>7. t \in c.mustDo => t \in s.mustDo /\ CountIn(q, t, a) = 0
      <3>1. t \in c.mustDo => t \in s.mustDo /\ ~ \E j \in 1..a : q[j] = t
        BY <1>3 DEF a
      <3>2. CountIn(q, t, a) > 0 <=> \E j \in 1..a : q[j] = t
        BY <1>7, CountPositive
      <3> QED
        BY <2>3, <3>1, <3>2
    <2>8. Allowed(s, t) \in Nat /\ Allowed(c, t) \in Nat
      BY <2>3, <2>6 DEF Allowed
    <2>9. CASE c.kps[t] >= 1
      <3>1. Allowed(c, t) = s.kps[t] - CountIn(q, t, a) /\ Allowed(s, t) = s.kps[t]
        BY <2>3, <2>6, <2>9 DEF Allowed
      <3>2. CountIn(q, t, a) + CountIn(r, t, b) <= s.kps[t]
        BY <2>3, <2>5, <2>6, <3>1
      <3> QED
        BY <2>1, <2>2, <3>1, <3>2
    <2>10. CASE ~(c.kps[t] >= 1) /\ t \in c.mustDo
      <3>1. Allowed(c, t) = 1 /\ Allowed(s, t) >= 1 /\ CountIn(q, t, a) = 0
        BY <2>6, <2>7, <2>10 DEF Allowed
      <3>2. CountIn(q, t, a) + CountIn(r, t, b) <= Allowed(s, t)
        BY <2>3, <2>5, <2>8, <3>1
      <3> QED
        BY <2>1, <2>2, <3>2
    <2>11. CASE ~(c.kps[t] >= 1) /\ t \notin c.mustDo
      <3>1. Allowed(c, t) = 0
        BY <2>11 DEF Allowed
      <3>2. CountIn(q, t, a) + CountIn(r, t, b) <= Allowed(s, t)
        BY <2>3, <2>4, <2>5, <2>8, <3>1
      <3> QED
        BY <2>1, <2>2, <3>2
    <2> QED
      BY <2>9, <2>10, <2>11
  <1>12. m >= 1
    BY <1>1
  <1>13. GoodFor(s, g)
    BY <1>1, <1>7, <1>8, <1>9, <1>10, <1>11, <1>12 DEF GoodFor
  <1> QED
    BY <1>13 DEF g

(* _next_pattern, given a good pattern, returns none or a good one that is *)
(* later in the order.                                                     *)
LEMMA NextPatternGood ==
    ASSUME NEW n \in Nat, NEW D, D = 0..(n - 1), NEW s \in Searches(D), NEW q, GoodFor(s, q)
    PROVE  \/ NextPattern(s, q) = None
           \/ GoodFor(s, NextPattern(s, q)) /\ Precedes(q, NextPattern(s, q), s.p)
  <1> DEFINE m == s.p
             Other(l) == OtherHead(Behind(s, q, l), q[l])
             changeable == {l \in 1..m : Other(l) # None}
             i == Max(changeable)
  <1>1. NextPattern(s, q) = IF changeable = {} THEN None ELSE Joined(q, Other(i), i, m)
    BY DEF NextPattern, Joined
  <1>2. /\ m \in Nat /\ m >= 1 /\ q \in [1..m -> D] /\ D \in SUBSET Nat
        /\ \A t \in s.mustDo : \E j \in 1..m : q[j] = t
    <2>1. s.p \in Nat /\ DOMAIN s.kps = D
      BY SearchType
    <2> QED
      BY <2>1 DEF GoodFor
  <1>3. CASE changeable # {}
    <2>1. i \in changeable
      <3>1. changeable \in SUBSET (0..m)
        BY <1>2
      <3> HIDE DEF changeable, m
      <3> QED
        BY <1>2, <1>3, <3>1, MaxOfSet
    <2> HIDE DEF i
    <2>2. i \in 1..m /\ Other(i) # None /\ q[i] \in D
      BY <1>2, <2>1
    <2> DEFINE c == Behind(s, q, i)
               r == Other(i)
    <2>3. /\ c \in Searches(D) /\ c.p = m - (i - 1) /\ c.p \in Nat /\ c.p >= 1
          /\ c.mustDo = s.mustDo \ Seen(q, i)
      <3>1. q \in [1..s.p -> D] /\ i \in 1..s.p
        BY <1>2, <2>2
      <3>2. /\ Behind(s, q, i) \in Searches(D)
            /\ Behind(s, q, i).p = s.p - (i - 1) /\ Behind(s, q, i).p \in Nat
            /\ Behind(s, q, i).p >= 1
            /\ Behind(s, q, i).mustDo = s.mustDo \ Seen(q, i)
        BY <1>2, <3>1, BehindType
      <3> QED
        BY <3>2
    <2>4. c.p = 1 => c.mustDo \ {q[i]} = {}
      <3>1. ASSUME c.p = 1, NEW t \in c.mustDo PROVE t = q[i]
        <4>1. i = m /\ t \in s.mustDo /\ t \notin Seen(q, i)
          BY <1>2, <2>2, <2>3, <3>1
        <4>2. PICK j \in 1..m : q[j] = t
          BY <1>2, <4>1
        <4>3. j \notin 1..(i - 1)
          BY <4>1, <4>2 DEF Seen
        <4>4. j = i
          BY <1>2, <4>1, <4>2, <4>3
        <4> QED
          BY <4>2, <4>4
      <3> QED
        BY <3>1
    <2>5. r = OtherHead(c, q[i])
      OBVIOUS
    <2> HIDE DEF c, r
    <2>6. GoodFor(c, r) /\ (r[1] > q[i] \/ (c.p = 1 /\ r[1] \in c.mustDo \ {q[i]}))
      <3> DEFINE o == OtherHead(c, q[i])
      <3>1. o # None
        BY <2>2, <2>5 DEF r
      <3>2. \/ o = None
            \/ GoodFor(c, o) /\ LaterHead(c, q[i], o)
        BY <2>2, <2>3, OtherHeadGood
      <3>3. r = o
        BY <2>5
      <3> HIDE DEF o
      <3>4. GoodFor(c, o) /\ (o[1] > q[i] \/ (c.p = 1 /\ o[1] \in c.mustDo \ {q[i]}))
        BY <3>1, <3>2 DEF LaterHead
      <3> QED
        BY <3>3, <3>4
    <2>7. r[1] > q[i]
      BY <2>4, <2>6
    <2>8. GoodFor(s, Joined(q, r, i, m))
      <3>1. GoodFor(Behind(s, q, i), r)
        BY <2>6 DEF c
      <3>2. GoodFor(s, Joined(q, r, i, s.p))
        BY <1>2, <2>2, <3>1, JoinedGood
      <3> QED
        BY <3>2
    <2>9. Precedes(q, Joined(q, r, i, m), m)
      <3>1. r \in [1..(m - (i - 1)) -> D]
        <4>1. DOMAIN c.kps = D
          BY <2>3, SearchType
        <4> QED
          BY <2>3, <2>6, <4>1 DEF GoodFor
      <3>2. /\ \A j \in 1..(i - 1) : Joined(q, r, i, m)[j] = q[j]
            /\ Joined(q, r, i, m)[i] = r[1]
        <4> HIDE DEF m
        <4>1. m \in Nat /\ q \in [1..m -> D] /\ i \in 1..m
          BY <1>2, <2>2
        <4>2. /\ Joined(q, r, i, m) \in [1..m -> D]
              /\ \A j \in 1..(i - 1) : Joined(q, r, i, m)[j] = q[j]
              /\ \A j \in 1..(m - (i - 1)) : Joined(q, r, i, m)[(i - 1) + j] = r[j]
              /\ Joined(q, r, i, m)[i] = r[1]
              /\ (i - 1) + (m - (i - 1)) = m
          BY ONLY <3>1, <4>1, JoinedIs
        <4> QED
          BY <4>2
      <3>3. q[i] < Joined(q, r, i, m)[i]
        <4>1. r[1] \in D /\ q[i] \in D
          <5>1. 1 \in 1..(m - (i - 1))
            BY <1>2, <2>2
          <5> QED
            BY <2>2, <3>1, <5>1
        <4>2. r[1] \in Nat /\ q[i] \in Nat
          BY <1>2, <4>1
        <4> QED
          BY <2>7, <3>2, <4>2
      <3> QED
        BY <2>2, <3>2, <3>3 DEF Precedes
    <2>10. NextPattern(s, q) = Joined(q, r, i, m)
      BY <1>1, <1>3 DEF i, r
    <2> QED
      BY <2>8, <2>9, <2>10
  <1> QED
    BY <1>1, <1>3

-----------------------------------------------------------------------------
(* The order is strict, and a set of patterns has a last one.              *)
LEMMA PrecedesTransitive ==
    ASSUME NEW m \in Nat, NEW D \in SUBSET Nat, NEW q \in [1..m -> D], NEW r \in [1..m -> D],
           NEW u \in [1..m -> D], Precedes(q, r, m), Precedes(r, u, m)
    PROVE  Precedes(q, u, m)
  <1>1. PICK i \in 1..m : q[i] < r[i] /\ \A j \in 1..(i - 1) : q[j] = r[j]
    BY DEF Precedes
  <1>2. PICK k \in 1..m : r[k] < u[k] /\ \A j \in 1..(k - 1) : r[j] = u[j]
    BY DEF Precedes
  <1>3. \A j \in 1..m : q[j] \in Nat /\ r[j] \in Nat /\ u[j] \in Nat
    BY DEF Precedes
  <1>4. CASE i <= k
    <2>1. \A j \in 1..(i - 1) : j \in 1..(k - 1)
      BY <1>4
    <2>2. q[i] < u[i]
      <3>1. CASE i = k
        BY <1>1, <1>2, <1>3, <3>1
      <3>2. CASE i < k
        <4>1. i \in 1..(k - 1)
          BY <3>2
        <4> QED
          BY <1>1, <1>2, <4>1
      <3> QED
        BY <1>4, <3>1, <3>2
    <2>3. \A j \in 1..(i - 1) : q[j] = u[j]
      BY <1>1, <1>2, <2>1
    <2> QED
      BY <2>2, <2>3 DEF Precedes
  <1>5. CASE k < i
    <2>1. \A j \in 1..(k - 1) : j \in 1..(i - 1)
      BY <1>5
    <2>2. k \in 1..(i - 1)
      BY <1>5
    <2>3. q[k] < u[k]
      BY <1>1, <1>2, <2>2
    <2>4. \A j \in 1..(k - 1) : q[j] = u[j]
      BY <1>1, <1>2, <2>1
    <2> QED
      BY <2>3, <2>4 DEF Precedes
  <1> QED
    BY <1>4, <1>5

LEMMA PrecedesStrict ==
    ASSUME NEW m \in Nat, NEW D \in SUBSET Nat, NEW q \in [1..m -> D], NEW r \in [1..m -> D],
           Precedes(q, r, m)
    PROVE  q # r
  <1>1. PICK i \in 1..m : q[i] < r[i]
    BY DEF Precedes
  <1>2. q[i] \in Nat /\ r[i] \in Nat
    OBVIOUS
  <1> QED
    BY <1>1, <1>2

LEMMA LexGreatest ==
    ASSUME NEW m \in Nat, NEW b \in Nat, NEW S \in SUBSET [1..m -> 0..b], S # {}
    PROVE  \E q \in S : \A r \in S : ~Precedes(q, r, m)
  <1> DEFINE Final(q, k) == \A r \in S : ~Precedes(q, r, k)
             wrong == {k \in 0..m : ~ \E q \in S : Final(q, k)}
  <1>1. wrong = {}
    <2> SUFFICES ASSUME wrong # {} PROVE FALSE
      OBVIOUS
    <2> HIDE DEF Final
    <2>1. PICK k \in wrong : \A l \in wrong : k <= l
      <3>1. wrong \in SUBSET Nat
        OBVIOUS
      <3> HIDE DEF wrong
      <3> QED
        BY <3>1, LeastNumber
    <2>2. k \in 0..m /\ ~ \E q \in S : Final(q, k)
      BY <2>1
    <2>3. k # 0
      <3>1. \A q \in S : Final(q, 0)
        <4>1. 1..0 = {}
          OBVIOUS
        <4> QED
          BY <4>1 DEF Final, Precedes
      <3> QED
        BY <2>2, <3>1
    <2> DEFINE l == k - 1
    <2>4. l \in 0..m /\ ~(k <= l) /\ k \in 1..m
      BY <2>2, <2>3
    <2>5. PICK q \in S : Final(q, l)
      <3>1. l \notin wrong
        <4> HIDE DEF wrong, l
        <4> QED
          BY <2>1, <2>4
      <3> QED
        BY <2>4, <3>1
    <2> DEFINE like == {r \in S : \A j \in 1..l : r[j] = q[j]}
               ends == {r[k] : r \in like}
    <2>6. q \in like /\ ends \in SUBSET (0..b) /\ ends # {}
      <3>1. q \in like
        OBVIOUS
      <3>2. \A r \in like : r[k] \in 0..b
        BY <2>4
      <3> QED
        BY <3>1, <3>2
    <2>7. Max(ends) \in ends /\ \A x \in ends : x <= Max(ends)
      <3> HIDE DEF ends
      <3> QED
        BY <2>6, MaxOfSet
    <2>8. PICK u \in like : u[k] = Max(ends)
      BY <2>7
    <2>9. u \in S /\ \A j \in 1..l : u[j] = q[j]
      BY <2>8
    <2>10. Final(u, k)
      <3> SUFFICES ASSUME NEW r \in S, Precedes(u, r, k) PROVE FALSE
        BY DEF Final
      <3>1. PICK i \in 1..k : u[i] < r[i] /\ \A j \in 1..(i - 1) : u[j] = r[j]
        BY DEF Precedes
      <3>2. CASE i = k
        <4>1. r \in like
          BY <2>9, <3>1, <3>2
        <4>2. r[k] <= u[k]
          BY <2>7, <2>8, <4>1
        <4>3. r[k] \in Nat /\ u[k] \in Nat
          <5>1. r[k] \in 0..b /\ u[k] \in 0..b
            BY <2>4, <2>9
          <5> QED
            BY <5>1
        <4>4. u[k] < r[k]
          BY <3>1, <3>2
        <4> HIDE DEF like, ends
        <4> QED
          BY <4>2, <4>3, <4>4
      <3>3. CASE i # k
        <4>1. i \in 1..l /\ \A j \in 1..(i - 1) : j \in 1..l
          BY <2>4, <3>1, <3>3
        <4>2. q[i] < r[i] /\ \A j \in 1..(i - 1) : q[j] = r[j]
          BY <2>9, <3>1, <4>1
        <4>3. Precedes(q, r, l)
          BY <4>1, <4>2 DEF Precedes
        <4> QED
          BY <2>5, <4>3 DEF Final
      <3> QED
        BY <3>2, <3>3
    <2> QED
      BY <2>2, <2>9, <2>10
  <1>2. m \in 0..m
    OBVIOUS
  <1>3. \E q \in S : Final(q, m)
    <2> HIDE DEF Final
    <2> QED
      BY <1>1, <1>2
  <1> QED
    BY <1>3

-----------------------------------------------------------------------------
(* A loop as a function: from x it goes on to G[x] while x is in T; when it *)
(* stops at y its result is V[y].  Such a function exists, whether or not   *)
(* the loop ends.                                                          *)
Loops(T, G, x, k, y) ==
    \E g : /\ g[0] = x /\ g[k] = y
           /\ \A i \in 0..(k - 1) : g[i] \in T /\ g[i + 1] = G[g[i]]
Ends(X, T, G, x) == {y \in X \ T : \E k \in Nat : Loops(T, G, x, k, y)}
Looped(X, T, G, V, f) == f = [x \in X |-> IF x \in T THEN f[G[x]] ELSE V[x]]

LEMMA EndsAtOnce ==
    ASSUME NEW X, NEW T, NEW G, NEW x \in X, x \notin T
    PROVE  Ends(X, T, G, x) = {x}
  <1>1. x \in Ends(X, T, G, x)
    <2> DEFINE g == [i \in {0} |-> x]
    <2>1. g[0] = x /\ 0 \in Nat /\ \A i \in 0..(0 - 1) : g[i] \in T /\ g[i + 1] = G[g[i]]
      <3>1. 0..(0 - 1) = {}
        OBVIOUS
      <3> QED
        BY <3>1
    <2>2. Loops(T, G, x, 0, x)
      <3> HIDE DEF g
      <3> QED
        BY <2>1 DEF Loops
    <2> QED
      BY <2>2 DEF Ends
  <1>2. ASSUME NEW y \in Ends(X, T, G, x) PROVE y = x
    <2>1. PICK k \in Nat : Loops(T, G, x, k, y)
      BY <1>2 DEF Ends
    <2>2. PICK g : /\ g[0] = x /\ g[k] = y
                   /\ \A i \in 0..(k - 1) : g[i] \in T /\ g[i + 1] = G[g[i]]
      BY <2>1 DEF Loops
    <2>3. k # 0 => 0 \in 0..(k - 1)
      BY <2>1
    <2>4. k = 0
      BY <2>2, <2>3
    <2> QED
      BY <2>2, <2>4
  <1> QED
    BY <1>1, <1>2

LEMMA EndsAlike ==
    ASSUME NEW X, NEW T, NEW G, NEW x \in X, x \in T
    PROVE  Ends(X, T, G, x) = Ends(X, T, G, G[x])
  <1>1. ASSUME NEW y \in Ends(X, T, G, x) PROVE y \in Ends(X, T, G, G[x])
    <2>1. y \in X \ T
      BY <1>1 DEF Ends
    <2>2. PICK k \in Nat : Loops(T, G, x, k, y)
      BY <1>1 DEF Ends
    <2>3. PICK g : /\ g[0] = x /\ g[k] = y
                   /\ \A i \in 0..(k - 1) : g[i] \in T /\ g[i + 1] = G[g[i]]
      BY <2>2 DEF Loops
    <2>4. k # 0
      BY <2>1, <2>3
    <2> DEFINE l == k - 1
               h == [i \in 0..l |-> g[i + 1]]
    <2>5. l \in Nat /\ 0 \in 0..l /\ l \in 0..l /\ 0 + 1 = 1 /\ l + 1 = k /\ 0 \in 0..(k - 1)
      BY <2>4
    <2>6. h[0] = g[1] /\ h[l] = g[k]
      BY <2>5
    <2>7. g[1] = G[x]
      BY <2>3, <2>5
    <2>8. ASSUME NEW i \in 0..(l - 1) PROVE h[i] \in T /\ h[i + 1] = G[h[i]]
      <3>1. i \in 0..l /\ i + 1 \in 0..l /\ i + 1 \in 0..(k - 1)
        BY <2>5
      <3>2. h[i] = g[i + 1] /\ h[i + 1] = g[(i + 1) + 1]
        BY <3>1
      <3> QED
        BY <2>3, <3>1, <3>2
    <2> HIDE DEF h, l
    <2>9. Loops(T, G, G[x], l, y)
      BY <2>3, <2>6, <2>7, <2>8 DEF Loops
    <2> QED
      BY <2>1, <2>5, <2>9 DEF Ends
  <1>2. ASSUME NEW y \in Ends(X, T, G, G[x]) PROVE y \in Ends(X, T, G, x)
    <2>1. y \in X \ T
      BY <1>2 DEF Ends
    <2>2. PICK k \in Nat : Loops(T, G, G[x], k, y)
      BY <1>2 DEF Ends
    <2>3. PICK g : /\ g[0] = G[x] /\ g[k] = y
                   /\ \A i \in 0..(k - 1) : g[i] \in T /\ g[i + 1] = G[g[i]]
      BY <2>2 DEF Loops
    <2> DEFINE l == k + 1
               h == [i \in 0..l |-> IF i = 0 THEN x ELSE g[i - 1]]
    <2>4. l \in Nat /\ 0 \in 0..l /\ l \in 0..l /\ l # 0 /\ l - 1 = k
      BY <2>2
    <2>5. h[0] = x /\ h[l] = g[k]
      BY <2>4
    <2>6. ASSUME NEW i \in 0..(l - 1) PROVE h[i] \in T /\ h[i + 1] = G[h[i]]
      <3>1. i \in 0..l /\ i + 1 \in 0..l /\ i + 1 # 0 /\ (i + 1) - 1 = i
        BY <2>4
      <3>2. h[i + 1] = g[i]
        BY <3>1
      <3>3. CASE i = 0
        BY <2>3, <2>5, <3>2, <3>3
      <3>4. CASE i # 0
        <4> DEFINE j == i - 1
        <4>1. j \in 0..(k - 1) /\ j + 1 = i
          BY <2>4, <3>4
        <4>2. h[i] = g[j]
          BY <3>1, <3>4
        <4> HIDE DEF j, h
        <4>3. g[j] \in T /\ g[j + 1] = G[g[j]]
          BY <2>3, <4>1
        <4> QED
          BY <3>2, <4>1, <4>2, <4>3
      <3> QED
        BY <3>3, <3>4
    <2> HIDE DEF h, l
    <2>7. Loops(T, G, x, l, y)
      BY <2>3, <2>5, <2>6 DEF Loops
    <2> QED
      BY <2>1, <2>4, <2>7 DEF Ends
  <1> QED
    BY <1>1, <1>2

LEMMA LoopExists ==
    ASSUME NEW X, NEW T, NEW G, NEW V, \A x \in X : x \in T => G[x] \in X
    PROVE  \E f : Looped(X, T, G, V, f)
  <1> DEFINE Result(S) == IF S = {} THEN None ELSE V[CHOOSE y \in S : TRUE]
             f == [x \in X |-> Result(Ends(X, T, G, x))]
  <1>1. ASSUME NEW x \in X PROVE f[x] = IF x \in T THEN f[G[x]] ELSE V[x]
    <2>1. f[x] = Result(Ends(X, T, G, x))
      OBVIOUS
    <2>2. CASE x \in T
      <3>1. f[G[x]] = Result(Ends(X, T, G, G[x]))
        BY <2>2
      <3>2. Ends(X, T, G, x) = Ends(X, T, G, G[x])
        BY <2>2, EndsAlike
      <3> QED
        BY <2>1, <2>2, <3>1, <3>2
    <2>3. CASE x \notin T
      <3>1. Ends(X, T, G, x) = {x}
        BY <2>3, EndsAtOnce
      <3>2. Result({x}) = V[x]
        <4>1. (CHOOSE y \in {x} : TRUE) = x /\ {x} # {}
          OBVIOUS
        <4> QED
          BY <4>1
      <3> HIDE DEF f, Result
      <3> QED
        BY <2>1, <2>3, <3>1, <3>2
    <2> QED
      BY <2>2, <2>3
  <1>2. f = [x \in X |-> f[x]]
    OBVIOUS
  <1> HIDE DEF f
  <1>3. f = [x \in X |-> IF x \in T THEN f[G[x]] ELSE V[x]]
    BY <1>1, <1>2
  <1> QED
    BY <1>3 DEF Looped

-----------------------------------------------------------------------------
(* What the constructor has made of its input: the threads are numbered    *)
(* from 0, and the pool holds the KPs behind the prefix to keep.           *)
N == Cardinality(Threads)
Ready ==
    /\ N \in Nat \ {0} /\ Threads = 0..(N - 1)
    /\ kps \in [Threads -> Nat] /\ pool \in [Threads -> Nat]
    /\ p \in Nat \ {0}
    /\ fixed \in Seq([thread : Threads, kps : Nat \ {0}]) /\ Len(fixed) < p
    /\ \A t \in Threads : Used(fixed, t) \in Nat /\ kps[t] = Used(fixed, t) + pool[t]

LEMMA ReadyType ==
    ASSUME Ready
    PROVE  /\ N \in Nat /\ Threads = 0..(N - 1) /\ Threads \in SUBSET Nat
           /\ start \in Nat /\ p - start \in Nat /\ p - start >= 1 /\ p \in Nat
           /\ last \in Int /\ lastCount \in Nat
           /\ (start > 0 => /\ start \in DOMAIN fixed
                            /\ last = fixed[start].thread /\ last \in Threads
                            /\ lastCount = fixed[start].kps /\ lastCount >= 1)
           /\ (start = 0 => last = NoThread /\ lastCount = 0)
  <1>1. /\ N \in Nat \ {0} /\ Threads = 0..(N - 1) /\ p \in Nat \ {0}
        /\ fixed \in Seq([thread : Threads, kps : Nat \ {0}]) /\ Len(fixed) < p
    BY DEF Ready
  <1>2. Len(fixed) \in Nat /\ DOMAIN fixed = 1..Len(fixed)
    BY <1>1
  <1>3. start \in Nat /\ p - start \in Nat /\ p - start >= 1
    BY <1>1, <1>2 DEF start
  <1>4. CASE start = 0
    BY <1>1, <1>3, <1>4 DEF last, lastCount, NoThread
  <1>5. CASE start # 0
    <2>1. start \in DOMAIN fixed
      BY <1>2, <1>5 DEF start
    <2>2. fixed[start] \in [thread : Threads, kps : Nat \ {0}]
      <3> DEFINE R == [thread : Threads, kps : Nat \ {0}]
      <3>1. fixed \in Seq(R) /\ start \in 1..Len(fixed)
        BY <1>1, <1>2, <2>1
      <3> HIDE DEF R
      <3>2. fixed[start] \in R
        BY <3>1
      <3> QED
        BY <3>2 DEF R
    <2>3. fixed[start].thread \in Threads /\ fixed[start].kps \in Nat \ {0}
      BY <2>2
    <2>4. last = fixed[start].thread /\ lastCount = fixed[start].kps
      BY <1>5 DEF last, lastCount
    <2>5. last \in Nat
      BY <1>1, <2>3, <2>4
    <2> QED
      BY <1>1, <1>3, <1>5, <2>1, <2>3, <2>4, <2>5
  <1> QED
    BY <1>4, <1>5

LEMMA SearchOfType ==
    ASSUME Ready, NEW c \in Seq(Threads)
    PROVE  /\ SearchOf(c) \in Searches(Threads)
           /\ SearchOf(c).p = p - start /\ SearchOf(c).mustDo = Elements(c)
           /\ SearchOf(c).last = last /\ SearchOf(c).kps = ChosenKps(c)
           /\ Elements(c) \in SUBSET Threads /\ DOMAIN SearchOf(c).kps = Threads
           /\ ChosenKps(c) \in [Threads -> Nat]
  <1>1. p - start \in Nat /\ last \in Int
    BY ReadyType
  <1>2. Elements(c) \in SUBSET Threads
    BY DEF Elements
  <1>3. pool \in [Threads -> Nat]
    BY DEF Ready
  <1>4. ChosenKps(c) \in [Threads -> Nat]
    BY <1>3 DEF ChosenKps
  <1>5. ChosenKps(c) \in [Threads -> Int] /\ DOMAIN ChosenKps(c) = Threads
    BY <1>4
  <1>6. SearchOf(c) = [kps |-> ChosenKps(c), p |-> p - start, mustDo |-> Elements(c), last |-> last]
    BY DEF SearchOf
  <1>7. SearchOf(c) \in Searches(Threads)
    BY <1>1, <1>2, <1>5, <1>6 DEF Searches
  <1>8. /\ SearchOf(c).p = p - start /\ SearchOf(c).mustDo = Elements(c)
        /\ SearchOf(c).last = last /\ SearchOf(c).kps = ChosenKps(c)
    BY <1>6
  <1> QED
    BY <1>2, <1>4, <1>5, <1>7, <1>8

(* _next_pattern returns no pattern or one of the same length.             *)
LEMMA NextPatternType ==
    ASSUME NEW n \in Nat, NEW D, D = 0..(n - 1), NEW s \in Searches(D), s.p >= 1,
           NEW q \in [1..s.p -> D]
    PROVE  NextPattern(s, q) \in Answers(D, s.p)
  <1> DEFINE m == s.p
             Other(l) == OtherHead(Behind(s, q, l), q[l])
             changeable == {l \in 1..m : Other(l) # None}
             i == Max(changeable)
  <1>1. NextPattern(s, q) = IF changeable = {} THEN None ELSE Joined(q, Other(i), i, m)
    BY DEF NextPattern, Joined
  <1>2. m \in Nat /\ m >= 1 /\ q \in [1..m -> D] /\ D \in SUBSET Nat
    <2>1. s.p \in Nat
      BY SearchType
    <2> QED
      BY <2>1
  <1>3. CASE changeable # {}
    <2>1. i \in changeable
      <3>1. changeable \in SUBSET (0..m)
        BY <1>2
      <3> HIDE DEF changeable, m
      <3> QED
        BY <1>2, <1>3, <3>1, MaxOfSet
    <2> HIDE DEF i
    <2>2. i \in 1..m /\ Other(i) # None /\ q[i] \in D
      BY <1>2, <2>1
    <2> DEFINE c == Behind(s, q, i)
               r == Other(i)
    <2>3. c \in Searches(D) /\ c.p = m - (i - 1) /\ c.p >= 1
      <3>1. q \in [1..s.p -> D] /\ i \in 1..s.p
        BY <1>2, <2>2
      <3>2. /\ Behind(s, q, i) \in Searches(D)
            /\ Behind(s, q, i).p = s.p - (i - 1) /\ Behind(s, q, i).p >= 1
        BY <1>2, <3>1, BehindType
      <3> QED
        BY <3>2
    <2>4. r = OtherHead(c, q[i]) /\ r # None
      BY <2>2
    <2> HIDE DEF c, r
    <2>5. GoodFor(c, r)
      <3> DEFINE o == OtherHead(c, q[i])
      <3>1. \/ o = None
            \/ GoodFor(c, o) /\ LaterHead(c, q[i], o)
        BY <2>2, <2>3, OtherHeadGood
      <3> HIDE DEF o
      <3> QED
        BY <2>4, <3>1 DEF o
    <2>6. r \in [1..(m - (i - 1)) -> D]
      <3>1. DOMAIN c.kps = D
        BY <2>3, SearchType
      <3> QED
        BY <2>3, <2>5, <3>1 DEF GoodFor
    <2>7. Joined(q, r, i, m) \in [1..m -> D]
      <3> HIDE DEF m
      <3>1. m \in Nat /\ q \in [1..m -> D] /\ i \in 1..m
        BY <1>2, <2>2
      <3> QED
        BY <2>6, <3>1, JoinedIs
    <2>8. NextPattern(s, q) = Joined(q, r, i, m)
      BY <1>1, <1>3 DEF i, r
    <2> QED
      BY <2>7, <2>8 DEF Answers
  <1> QED
    BY <1>1, <1>3 DEF Answers

-----------------------------------------------------------------------------
(* One turn of the loop that skips redundant patterns. *)
LEMMA SettleStep ==
    ASSUME Ready, NEW c \in Seq(Threads), NEW q \in Patterns
    PROVE  Settle(c, q) = IF Redundant(c, q) THEN Settle(c, NextPattern(SearchOf(c), q)) ELSE q
  <1> DEFINE s == SearchOf(c)
             Turn(f, x) == IF Redundant(c, x) THEN f[NextPattern(s, x)] ELSE x
             Solves(f) == f = [x \in Patterns |-> Turn(f, x)]
             T == {x \in Patterns : Redundant(c, x)}
             G == [x \in Patterns |-> NextPattern(s, x)]
             V == [x \in Patterns |-> x]
  <1>1. /\ s \in Searches(Threads) /\ s.p = p - start /\ s.p >= 1
        /\ N \in Nat /\ Threads = 0..(N - 1)
    BY SearchOfType, ReadyType
  <1>2. \A x \in Patterns : x \in T => NextPattern(s, x) \in Patterns
    <2> SUFFICES ASSUME NEW x \in Patterns, x \in T PROVE NextPattern(s, x) \in Patterns
      OBVIOUS
    <2>1. x \in [1..s.p -> Threads]
      BY <1>1 DEF Patterns, Redundant
    <2> HIDE DEF s
    <2>2. NextPattern(s, x) \in Answers(Threads, s.p)
      BY <1>1, <2>1, NextPatternType
    <2> QED
      BY <1>1, <2>2 DEF Answers, Patterns
  <1>3. \E f : Looped(Patterns, T, G, V, f)
    <2>1. \A x \in Patterns : x \in T => G[x] \in Patterns
      BY <1>2
    <2> HIDE DEF T, G, V
    <2> QED
      BY <2>1, LoopExists
  <1>4. PICK f : Looped(Patterns, T, G, V, f)
    BY <1>3
  <1>5. f = [x \in Patterns |-> IF x \in T THEN f[G[x]] ELSE V[x]]
    BY <1>4 DEF Looped
  <1>6. Solves(f)
    <2>1. \A x \in Patterns : f[x] = Turn(f, x)
      <3> SUFFICES ASSUME NEW x \in Patterns PROVE f[x] = Turn(f, x)
        OBVIOUS
      <3>1. f[x] = IF x \in T THEN f[G[x]] ELSE V[x]
        <4> HIDE DEF T, G, V
        <4> QED
          BY <1>5
      <3>2. G[x] = NextPattern(s, x) /\ V[x] = x /\ (x \in T <=> Redundant(c, x))
        OBVIOUS
      <3> HIDE DEF T, G, V
      <3> QED
        BY <3>1, <3>2
    <2>2. f = [x \in Patterns |-> f[x]]
      <3> HIDE DEF T, G, V
      <3> QED
        BY <1>5
    <2> HIDE DEF Turn
    <2> QED
      BY <2>1, <2>2
  <1> DEFINE settled == CHOOSE g : Solves(g)
  <1>7. Solves(settled)
    <2> HIDE DEF Solves
    <2> QED
      BY <1>6
  <1>8. \A x : Settle(c, x) = settled[x]
    BY DEF Settle
  <1>9. settled[q] = Turn(settled, q)
    <2> HIDE DEF settled, Turn
    <2> QED
      BY <1>7
  <1> HIDE DEF settled
  <1>10. Settle(c, q) = settled[q] /\ Settle(c, NextPattern(s, q)) = settled[NextPattern(s, q)]
    BY <1>8
  <1> QED
    BY <1>9, <1>10

(* The loop ends with no pattern, or with the first good one from q on     *)
(* that is not redundant.                                                  *)
Settled(c, q, r) ==
    \/ r = None
    \/ /\ GoodFor(SearchOf(c), r) /\ ~Redundant(c, r)
       /\ r = q \/ Precedes(q, r, p - start)

LEMMA SettleNone ==
    ASSUME Ready, NEW c \in Seq(Threads)
    PROVE  Settle(c, None) = None
  <1>1. None \in Patterns /\ ~Redundant(c, None)
    BY DEF Patterns, Redundant
  <1> QED
    BY <1>1, SettleStep

LEMMA SettleGood ==
    ASSUME Ready, NEW c \in Seq(Threads), NEW q, GoodFor(SearchOf(c), q)
    PROVE  Settled(c, q, Settle(c, q))
  <1> DEFINE s == SearchOf(c)
             m == p - start
             good == {r \in [1..m -> Threads] : GoodFor(s, r)}
             bad == {r \in good : ~Settled(c, r, Settle(c, r))}
  <1>1. /\ s \in Searches(Threads) /\ s.p = m /\ DOMAIN s.kps = Threads
        /\ N \in Nat /\ Threads = 0..(N - 1) /\ m \in Nat /\ m >= 1 /\ Threads \in SUBSET Nat
    BY SearchOfType, ReadyType
  <1>2. bad = {}
    <2> SUFFICES ASSUME bad # {} PROVE FALSE
      OBVIOUS
    <2>1. PICK r \in bad : \A u \in bad : ~Precedes(r, u, m)
      <3>1. Threads \in SUBSET (0..N)
        BY <1>1
      <3>2. bad \in SUBSET [1..m -> 0..N]
        <4> SUFFICES ASSUME NEW u \in bad PROVE u \in [1..m -> 0..N]
          OBVIOUS
        <4>1. u \in [1..m -> Threads]
          OBVIOUS
        <4> HIDE DEF bad, m
        <4> QED
          BY <3>1, <4>1
      <3> HIDE DEF bad, m
      <3> QED
        BY <1>1, <3>2, LexGreatest
    <2>2. r \in [1..m -> Threads] /\ GoodFor(s, r) /\ ~Settled(c, r, Settle(c, r))
      BY <2>1
    <2>3. r \in Patterns
      BY <2>2 DEF Patterns
    <2>4. Settle(c, r) = IF Redundant(c, r) THEN Settle(c, NextPattern(s, r)) ELSE r
      BY <2>3, SettleStep
    <2>5. CASE ~Redundant(c, r)
      <3>1. Settled(c, r, r)
        BY <2>2, <2>5 DEF Settled
      <3> QED
        BY <2>2, <2>4, <2>5, <3>1
    <2>6. CASE Redundant(c, r)
      <3> DEFINE u == NextPattern(s, r)
      <3>1. Settle(c, r) = Settle(c, u)
        BY <2>4, <2>6
      <3>2. \/ u = None
            \/ GoodFor(s, u) /\ Precedes(r, u, s.p)
        <4> HIDE DEF s
        <4> QED
          BY <1>1, <2>2, NextPatternGood
      <3> HIDE DEF u
      <3>3. CASE u = None
        <4>1. Settle(c, r) = None
          BY <3>1, <3>3, SettleNone
        <4> QED
          BY <2>2, <4>1 DEF Settled
      <3>4. CASE u # None
        <4>1. GoodFor(s, u) /\ Precedes(r, u, m)
          BY <1>1, <3>2, <3>4
        <4>2. u \in [1..m -> Threads]
          BY <1>1, <4>1 DEF GoodFor
        <4>3. u \notin bad
          <5> HIDE DEF bad
          <5> QED
            BY <2>1, <4>1
        <4>4. Settled(c, u, Settle(c, u))
          BY <4>1, <4>2, <4>3
        <4>5. Settled(c, r, Settle(c, u))
          <5> DEFINE w == Settle(c, u)
          <5>1. w = None \/ (GoodFor(s, w) /\ ~Redundant(c, w) /\ (w = u \/ Precedes(u, w, m)))
            BY <4>4 DEF Settled
          <5>2. CASE w = None
            BY <5>2 DEF Settled
          <5>3. CASE w # None
            <6> HIDE DEF w
            <6>1. GoodFor(s, w) /\ ~Redundant(c, w) /\ (w = u \/ Precedes(u, w, m))
              BY <5>1, <5>3
            <6>2. w \in [1..m -> Threads]
              BY <1>1, <6>1 DEF GoodFor
            <6>3. Precedes(r, w, m)
              <7>1. CASE w = u
                BY <4>1, <7>1
              <7>2. CASE Precedes(u, w, m)
                <8> HIDE DEF m
                <8> QED
                  BY <1>1, <2>2, <4>1, <4>2, <6>2, <7>2, PrecedesTransitive
              <7> QED
                BY <6>1, <7>1, <7>2
            <6>4. Settled(c, r, w)
              BY <6>1, <6>3 DEF Settled
            <6> QED
              BY <6>4 DEF w
          <5> QED
            BY <5>2, <5>3
        <4> QED
          BY <2>2, <3>1, <4>5
      <3> QED
        BY <3>3, <3>4
    <2> QED
      BY <2>5, <2>6
  <1>3. q \in [1..m -> Threads]
    BY <1>1 DEF GoodFor
  <1> QED
    BY <1>2, <1>3

-----------------------------------------------------------------------------
(* The sets of threads come as rising sequences, short ones first and those *)
(* of one length in lexicographic order.                                   *)
Sorted(c) == c \in Seq(Threads) /\ \A j \in 2..Len(c) : c[j - 1] < c[j]
Sooner(c, d) == Len(c) < Len(d) \/ (Len(c) = Len(d) /\ Precedes(c, d, Len(c)))

LEMMA SortedRises ==
    ASSUME Ready, NEW c, Sorted(c), NEW i \in 1..Len(c), NEW j \in 1..Len(c), i <= j
    PROVE  c[i] + (j - i) <= c[j]
  <1> DEFINE low == {k \in Nat : k \in i..Len(c) /\ ~(c[i] + (k - i) <= c[k])}
  <1>1. /\ c \in Seq(Threads) /\ Len(c) \in Nat /\ \A k \in 1..Len(c) : c[k] \in Nat
        /\ \A k \in 2..Len(c) : c[k - 1] < c[k]
    <2>1. Threads \in SUBSET Nat
      BY ReadyType
    <2>2. c \in Seq(Threads) /\ \A k \in 2..Len(c) : c[k - 1] < c[k]
      BY DEF Sorted
    <2>3. \A k \in 1..Len(c) : c[k] \in Threads
      BY <2>2
    <2>4. Len(c) \in Nat
      BY <2>2
    <2>5. \A k \in 1..Len(c) : c[k] \in Nat
      BY <2>1, <2>3, Zenon
    <2> QED
      BY <2>2, <2>4, <2>5
  <1>2. low = {}
    <2> SUFFICES ASSUME low # {} PROVE FALSE
      OBVIOUS
    <2>1. PICK k \in low : \A l \in low : k <= l
      <3>1. low \in SUBSET Nat
        OBVIOUS
      <3> HIDE DEF low
      <3> QED
        BY <3>1, LeastNumber
    <2>2. k \in i..Len(c) /\ ~(c[i] + (k - i) <= c[k]) /\ k \in Nat
      BY <2>1
    <2>3. k # i
      BY <1>1, <2>2
    <2> DEFINE l == k - 1
    <2>4. l \in i..Len(c) /\ l \in Nat /\ l + 1 = k /\ k \in 2..Len(c) /\ l \in 1..Len(c)
      BY <1>1, <2>2, <2>3
    <2>5. l \notin low
      <3> HIDE DEF low
      <3>1. ~(k <= l)
        BY <2>4
      <3> QED
        BY <2>1, <3>1
    <2>6. c[i] + (l - i) <= c[l]
      BY <2>4, <2>5
    <2>7. c[l] < c[k]
      BY <1>1, <2>4
    <2>8. c[l] \in Nat /\ c[k] \in Nat /\ c[i] \in Nat
      BY <1>1, <2>4
    <2>9. i \in Nat
      OBVIOUS
    <2>10. c[i] + (k - i) <= c[k]
      <3> DEFINE x == c[i]
                 y == c[l]
                 z == c[k]
      <3>1. x \in Nat /\ y \in Nat /\ z \in Nat /\ k \in Nat /\ l \in Nat /\ k = l + 1
        BY <2>4, <2>8
      <3>2. x + (l - i) <= y /\ y < z
        BY <2>6, <2>7
      <3> HIDE DEF x, y, z, l, low
      <3>3. x + (k - i) <= z
        BY <2>9, <3>1, <3>2
      <3> QED
        BY <3>3 DEF x, z
    <2> QED
      BY <2>2, <2>10
  <1>3. j \in i..Len(c) /\ j \in Nat
    BY <1>1
  <1> QED
    BY <1>2, <1>3

Movable(n, c) == {i \in 1..Len(c) : c[i] < n + i - 1 - Len(c)}
Moved(c, i) == [j \in 1..Len(c) |-> IF j < i THEN c[j] ELSE c[i] + 1 + (j - i)]
Shortest(k) == [j \in 1..k |-> j - 1]

LEMMA NextChosenIs ==
    ASSUME NEW n \in Nat, NEW limit, NEW c \in Seq(Int)
    PROVE  /\ Movable(n, c) # {} =>
                /\ NextChosen(n, limit, c) = Moved(c, Max(Movable(n, c)))
                /\ Max(Movable(n, c)) \in Movable(n, c)
                /\ \A i \in Movable(n, c) : i <= Max(Movable(n, c))
           /\ Movable(n, c) = {} =>
                NextChosen(n, limit, c) =
                    IF Len(c) + 1 > limit \/ Len(c) + 1 > n THEN None ELSE Shortest(Len(c) + 1)
  <1>1. Movable(n, c) \in SUBSET (0..Len(c)) /\ Len(c) \in Nat
    BY DEF Movable
  <1>2. Movable(n, c) # {} => /\ Max(Movable(n, c)) \in Movable(n, c)
                              /\ \A i \in Movable(n, c) : i <= Max(Movable(n, c))
    BY <1>1, MaxOfSet
  <1>3. NextChosen(n, limit, c) =
            IF Movable(n, c) # {} THEN Moved(c, Max(Movable(n, c)))
            ELSE IF Len(c) + 1 > limit \/ Len(c) + 1 > n THEN None ELSE Shortest(Len(c) + 1)
    BY DEF NextChosen, Movable, Moved, Shortest
  <1> QED
    BY <1>2, <1>3

LEMMA MovedIs ==
    ASSUME NEW c \in Seq(Int), NEW i \in 1..Len(c)
    PROVE  /\ Moved(c, i) \in Seq(Int) /\ Len(Moved(c, i)) = Len(c)
           /\ \A j \in 1..(i - 1) : Moved(c, i)[j] = c[j]
           /\ \A j \in i..Len(c) : Moved(c, i)[j] = c[i] + 1 + (j - i)
  <1>1. Len(c) \in Nat /\ \A j \in 1..Len(c) : c[j] \in Int
    OBVIOUS
  <1>2. \A j \in 1..Len(c) : Moved(c, i)[j] = IF j < i THEN c[j] ELSE c[i] + 1 + (j - i)
    BY DEF Moved
  <1>3. Moved(c, i) = [j \in 1..Len(c) |-> Moved(c, i)[j]]
    BY DEF Moved
  <1>4. \A j \in 1..Len(c) : Moved(c, i)[j] \in Int
    BY <1>1, <1>2
  <1>5. Moved(c, i) \in [1..Len(c) -> Int]
    BY <1>3, <1>4
  <1>6. Moved(c, i) \in Seq(Int) /\ Len(Moved(c, i)) = Len(c)
    <2> DEFINE v == Moved(c, i)
               n == Len(c)
    <2>1. v \in [1..n -> Int] /\ n \in Nat
      BY <1>1, <1>5
    <2> HIDE DEF v, n
    <2>2. v \in Seq(Int) /\ Len(v) = n
      BY <2>1
    <2> QED
      BY <2>2 DEF v, n
  <1>7. \A j \in 1..(i - 1) : j \in 1..Len(c) /\ j < i
    BY <1>1
  <1>8. \A j \in i..Len(c) : j \in 1..Len(c) /\ ~(j < i)
    BY <1>1
  <1> QED
    BY <1>2, <1>6, <1>7, <1>8

LEMMA ShortestIs ==
    ASSUME NEW k \in Nat
    PROVE  Shortest(k) \in Seq(Int) /\ Len(Shortest(k)) = k /\ \A j \in 1..k : Shortest(k)[j] = j - 1
  <1>1. Shortest(k) \in [1..k -> Int] /\ \A j \in 1..k : Shortest(k)[j] = j - 1
    BY DEF Shortest
  <1> QED
    BY <1>1

LEMMA NextChosenType ==
    ASSUME NEW n \in Nat, NEW limit, NEW c \in Seq(Int)
    PROVE  NextChosen(n, limit, c) \in Seq(Int)
  <1>1. CASE Movable(n, c) # {}
    <2> DEFINE m == Max(Movable(n, c))
    <2>1. NextChosen(n, limit, c) = Moved(c, m) /\ m \in Movable(n, c)
      BY <1>1, NextChosenIs
    <2> HIDE DEF m
    <2>2. m \in 1..Len(c)
      BY <2>1 DEF Movable
    <2> QED
      BY <2>1, <2>2, MovedIs
  <1>2. CASE Movable(n, c) = {}
    <2>1. NextChosen(n, limit, c) =
            IF Len(c) + 1 > limit \/ Len(c) + 1 > n THEN None ELSE Shortest(Len(c) + 1)
      BY <1>2, NextChosenIs
    <2>2. Len(c) + 1 \in Nat
      OBVIOUS
    <2>3. Shortest(Len(c) + 1) \in Seq(Int)
      BY <2>2, ShortestIs
    <2>4. None \in Seq(Int)
      BY DEF None
    <2> QED
      BY <2>1, <2>3, <2>4
  <1> QED
    BY <1>1, <1>2

LEMMA SortedType ==
    ASSUME Ready, NEW c, Sorted(c)
    PROVE  /\ c \in Seq(Threads) /\ c \in Seq(Int) /\ Len(c) \in Nat
           /\ \A j \in 1..Len(c) : c[j] \in Nat /\ c[j] <= N - 1
           /\ Len(c) <= N
  <1>1. c \in Seq(Threads) /\ N \in Nat /\ Threads = 0..(N - 1)
    BY ReadyType DEF Sorted
  <1>2. Threads \subseteq Int
    BY <1>1
  <1>3. c \in Seq(Int)
    BY <1>1, <1>2
  <1>4. Len(c) \in Nat /\ \A j \in 1..Len(c) : c[j] \in Threads
    BY <1>1
  <1>5. \A x \in Threads : x \in Nat /\ x <= N - 1
    BY <1>1
  <1>6. \A j \in 1..Len(c) : c[j] \in Nat /\ c[j] <= N - 1
    BY <1>4, <1>5, Zenon
  <1>7. Len(c) <= N
    <2>1. CASE Len(c) >= 1
      <3>1. 1 \in 1..Len(c) /\ Len(c) \in 1..Len(c) /\ 1 <= Len(c)
        BY <1>4, <2>1
      <3>2. c[1] + (Len(c) - 1) <= c[Len(c)]
        BY <3>1, SortedRises
      <3>3. c[1] \in Nat /\ c[Len(c)] \in Nat /\ c[Len(c)] <= N - 1
        BY <1>6, <3>1
      <3> QED
        BY <1>1, <1>4, <3>2, <3>3
    <2>2. CASE Len(c) = 0
      BY <1>1, <2>2
    <2> QED
      BY <1>4, <2>1, <2>2
  <1> QED
    BY <1>1, <1>3, <1>4, <1>6, <1>7

(* _next_chosen returns no set, or a later one that is not too long.       *)
LEMMA NextChosenSorted ==
    ASSUME Ready, NEW limit \in Nat, NEW c, Sorted(c), Len(c) <= limit,
           NextChosen(N, limit, c) # None
    PROVE  /\ Sorted(NextChosen(N, limit, c)) /\ Sooner(c, NextChosen(N, limit, c))
           /\ Len(NextChosen(N, limit, c)) <= limit /\ Len(NextChosen(N, limit, c)) >= 1
  <1> DEFINE d == NextChosen(N, limit, c)
             k == Len(c)
  <1>1. /\ N \in Nat /\ Threads = 0..(N - 1) /\ c \in Seq(Int) /\ k \in Nat /\ k <= N
        /\ \A j \in 1..k : c[j] \in Nat /\ c[j] <= N - 1
        /\ \A j \in 2..k : c[j - 1] < c[j]
    BY ReadyType, SortedType DEF Sorted
  <1>2. CASE Movable(N, c) # {}
    <2> DEFINE m == Max(Movable(N, c))
    <2>1. d = Moved(c, m) /\ m \in Movable(N, c)
      BY <1>1, <1>2, NextChosenIs
    <2> HIDE DEF m, d
    <2>2. m \in 1..k /\ c[m] < N + m - 1 - k /\ m \in Nat
      BY <2>1 DEF Movable
    <2>3. /\ d \in Seq(Int) /\ Len(d) = k
          /\ \A j \in 1..(m - 1) : d[j] = c[j]
          /\ \A j \in m..k : d[j] = c[m] + 1 + (j - m)
      BY <1>1, <2>1, <2>2, MovedIs
    <2>4. c[m] \in Nat
      BY <1>1, <2>2
    <2>5. ASSUME NEW j \in 1..k PROVE d[j] \in 0..(N - 1)
      <3>1. CASE j < m
        <4>1. j \in 1..(m - 1)
          BY <2>2, <3>1
        <4>2. d[j] = c[j]
          BY <2>3, <4>1
        <4> QED
          BY <1>1, <4>2
      <3>2. CASE ~(j < m)
        <4>1. j \in m..k
          BY <2>2, <3>2
        <4>2. d[j] = c[m] + 1 + (j - m)
          BY <2>3, <4>1
        <4> QED
          BY <1>1, <2>2, <2>4, <4>1, <4>2
      <3> QED
        BY <3>1, <3>2
    <2>6. ASSUME NEW j \in 2..k PROVE d[j - 1] < d[j]
      <3> DEFINE i == j - 1
      <3>1. i \in 1..k /\ i + 1 = j /\ j \in 1..k
        OBVIOUS
      <3>2. CASE j < m
        <4>1. i \in 1..(m - 1) /\ j \in 1..(m - 1)
          BY <2>2, <3>2
        <4>2. d[i] = c[i] /\ d[j] = c[j]
          BY <2>3, <4>1
        <4> QED
          BY <1>1, <4>2
      <3>3. CASE j = m
        <4>1. i \in 1..(m - 1) /\ j \in m..k /\ j - m = 0
          BY <2>2, <3>3
        <4>2. d[i] = c[i] /\ d[j] = c[m] + 1 + (j - m)
          BY <2>3, <4>1
        <4>3. c[i] < c[m]
          BY <1>1, <3>3
        <4>4. c[i] \in Nat
          BY <1>1, <3>1
        <4> HIDE DEF i
        <4>5. d[i] < d[j]
          BY <2>4, <4>1, <4>2, <4>3, <4>4
        <4> QED
          BY <4>5 DEF i
      <3>4. CASE j > m
        <4>1. i \in m..k /\ j \in m..k
          BY <2>2, <3>4
        <4>2. d[i] = c[m] + 1 + (i - m) /\ d[j] = c[m] + 1 + (j - m)
          BY <2>3, <4>1
        <4> QED
          BY <2>2, <2>4, <3>1, <4>2
      <3> QED
        BY <2>2, <3>2, <3>3, <3>4
    <2>7. Sorted(d)
      <3>1. d \in Seq(Threads)
        <4>1. d \in [1..k -> Int]
          BY <2>3
        <4>2. d \in [1..k -> Threads]
          BY <1>1, <2>5, <4>1
        <4> QED
          BY <1>1, <4>2
      <3> QED
        BY <2>3, <2>6, <3>1 DEF Sorted
    <2>8. Sooner(c, d)
      <3>1. d[m] = c[m] + 1 + (m - m) /\ m - m = 0
        BY <2>2, <2>3
      <3>2. c[m] < d[m]
        BY <2>4, <3>1
      <3>3. Precedes(c, d, k)
        BY <2>2, <2>3, <3>2 DEF Precedes
      <3> QED
        BY <2>3, <3>3 DEF Sooner
    <2> QED
      BY <2>2, <2>3, <2>7, <2>8 DEF d
  <1>3. CASE Movable(N, c) = {}
    <2>1. d = IF k + 1 > limit \/ k + 1 > N THEN None ELSE Shortest(k + 1)
      BY <1>1, <1>3, NextChosenIs
    <2>2. d # None
      OBVIOUS
    <2> HIDE DEF d
    <2>3. d = Shortest(k + 1) /\ k + 1 <= limit /\ k + 1 <= N /\ k + 1 \in Nat
      BY <1>1, <2>1, <2>2
    <2>4. d \in Seq(Int) /\ Len(d) = k + 1 /\ \A j \in 1..(k + 1) : d[j] = j - 1
      BY <2>3, ShortestIs
    <2>5. \A j \in 1..(k + 1) : d[j] \in Threads
      BY <1>1, <2>3, <2>4
    <2>6. \A j \in 2..(k + 1) : d[j - 1] < d[j]
      <3> TAKE j \in 2..(k + 1)
      <3>1. j - 1 \in 1..(k + 1) /\ j \in 1..(k + 1)
        BY <1>1
      <3>2. d[j - 1] = (j - 1) - 1 /\ d[j] = j - 1
        BY <2>4, <3>1
      <3> QED
        BY <3>2
    <2>7. d \in Seq(Threads)
      <3>1. d \in [1..(k + 1) -> Int]
        BY <2>4
      <3>2. d \in [1..(k + 1) -> Threads]
        BY <2>5, <3>1
      <3> QED
        BY <2>3, <3>2
    <2>8. Sorted(d) /\ Sooner(c, d)
      BY <1>1, <2>4, <2>6, <2>7 DEF Sorted, Sooner
    <2> QED
      BY <1>1, <2>3, <2>4, <2>8 DEF d
  <1> QED
    BY <1>2, <1>3

LEMMA PointwiseSooner ==
    ASSUME NEW m \in Nat, NEW D \in SUBSET Nat, NEW q \in [1..m -> D], NEW r \in [1..m -> D],
           \A j \in 1..m : q[j] <= r[j]
    PROVE  q = r \/ Precedes(q, r, m)
  <1> DEFINE differ == {j \in 1..m : q[j] # r[j]}
  <1>1. \A j \in 1..m : q[j] \in Nat /\ r[j] \in Nat
    OBVIOUS
  <1>2. CASE differ = {}
    <2>1. \A j \in 1..m : q[j] = r[j]
      BY <1>2
    <2>2. q = r
      BY <2>1
    <2> QED
      BY <2>2
  <1>3. CASE differ # {}
    <2>1. PICK i \in differ : \A l \in differ : i <= l
      <3>1. differ \in SUBSET Nat
        OBVIOUS
      <3> HIDE DEF differ
      <3> QED
        BY <1>3, <3>1, LeastNumber
    <2>2. i \in 1..m /\ q[i] # r[i]
      BY <2>1
    <2>3. q[i] < r[i]
      BY <1>1, <2>2
    <2>4. \A j \in 1..(i - 1) : q[j] = r[j]
      <3> TAKE j \in 1..(i - 1)
      <3>1. j \in 1..m /\ ~(i <= j)
        BY <2>2
      <3>2. j \notin differ
        <4> HIDE DEF differ
        <4> QED
          BY <2>1, <3>1
      <3> QED
        BY <3>1, <3>2
    <2> QED
      BY <2>2, <2>3, <2>4 DEF Precedes
  <1> QED
    BY <1>2, <1>3

(* It leaves no set out.                                                   *)
LEMMA NextChosenFirst ==
    ASSUME Ready, NEW limit \in Nat, NEW c, Sorted(c), NEW d, Sorted(d), Sooner(c, d),
           Len(d) <= limit
    PROVE  /\ NextChosen(N, limit, c) # None
           /\ NextChosen(N, limit, c) = d \/ Sooner(NextChosen(N, limit, c), d)
  <1> DEFINE e == NextChosen(N, limit, c)
             k == Len(c)
  <1>1. /\ N \in Nat /\ Threads = 0..(N - 1) /\ Threads \in SUBSET Nat
        /\ c \in Seq(Int) /\ k \in Nat /\ k <= N
        /\ \A j \in 1..k : c[j] \in Nat /\ c[j] <= N - 1
    BY ReadyType, SortedType
  <1>2. /\ d \in Seq(Threads) /\ Len(d) \in Nat /\ Len(d) <= N
        /\ \A j \in 1..Len(d) : d[j] \in Nat /\ d[j] <= N - 1
    BY SortedType
  <1>3. e # None => Sorted(e)
    BY <1>1, <1>2, NextChosenSorted DEF Sooner
  <1>4. CASE k = Len(d)
    <2>1. Precedes(c, d, k)
      BY <1>1, <1>2, <1>4 DEF Sooner
    <2>2. PICK i \in 1..k : c[i] < d[i] /\ \A j \in 1..(i - 1) : c[j] = d[j]
      BY <2>1 DEF Precedes
    <2>3. d[i] + (k - i) <= d[k] /\ d[k] <= N - 1 /\ d[i] \in Nat /\ c[i] \in Nat /\ d[k] \in Nat
      <3>1. i \in 1..Len(d) /\ k \in 1..Len(d) /\ i <= k
        BY <1>1, <1>4
      <3>2. d[i] + (k - i) <= d[k]
        BY <3>1, SortedRises
      <3> QED
        BY <1>1, <1>2, <3>1, <3>2
    <2>4. i \in Movable(N, c)
      <3>1. c[i] < N + i - 1 - k
        BY <1>1, <2>2, <2>3
      <3> QED
        BY <3>1 DEF Movable
    <2> DEFINE m == Max(Movable(N, c))
    <2>5. e = Moved(c, m) /\ m \in Movable(N, c) /\ i <= m
      BY <1>1, <2>4, NextChosenIs
    <2> HIDE DEF m, e
    <2>6. m \in 1..k /\ c[m] < N + m - 1 - k /\ m \in Nat
      BY <2>5 DEF Movable
    <2>7. /\ e \in Seq(Int) /\ Len(e) = k
          /\ \A j \in 1..(m - 1) : e[j] = c[j]
          /\ \A j \in m..k : e[j] = c[m] + 1 + (j - m)
      BY <1>1, <2>5, <2>6, MovedIs
    <2>8. e # None
      <3>1. Len(e) # 0
        BY <2>2, <2>7
      <3> QED
        BY <3>1 DEF None
    <2>9. CASE i < m
      <3>1. \A j \in 1..i : e[j] = c[j]
        BY <2>2, <2>6, <2>7, <2>9
      <3>2. e[i] < d[i] /\ \A j \in 1..(i - 1) : e[j] = d[j]
        BY <2>2, <3>1
      <3>3. Precedes(e, d, k)
        BY <3>2 DEF Precedes
      <3>4. Sooner(e, d)
        BY <1>4, <2>7, <3>3 DEF Sooner
      <3> QED
        BY <2>8, <3>4 DEF e
    <2>10. CASE i = m
      <3>1. ASSUME NEW j \in 1..k PROVE e[j] <= d[j]
        <4>1. CASE j < i
          <5>1. j \in 1..(m - 1) /\ j \in 1..(i - 1)
            BY <2>10, <4>1
          <5>2. e[j] = d[j] /\ d[j] \in Nat
            BY <1>2, <1>4, <2>2, <2>7, <5>1
          <5> QED
            BY <5>2
        <4>2. CASE ~(j < i)
          <5>1. j \in m..k /\ i <= j /\ j \in 1..Len(d) /\ i \in 1..Len(d)
            BY <1>4, <2>10, <4>2
          <5>2. e[j] = c[i] + 1 + (j - i)
            BY <2>7, <2>10, <5>1
          <5>3. d[i] + (j - i) <= d[j]
            BY <5>1, SortedRises
          <5>4. d[j] \in Nat
            BY <1>2, <5>1
          <5>5. c[i] \in Nat /\ d[i] \in Nat /\ c[i] < d[i] /\ i \in Nat /\ j \in Nat
            BY <2>2, <2>3, <5>1
          <5> DEFINE g == c[i]
                     h == d[i]
                     w == d[j]
          <5> HIDE DEF g, h, w
          <5>6. g + 1 + (j - i) <= w
            <6>1. /\ g \in Nat /\ h \in Nat /\ w \in Nat /\ i \in Nat /\ j \in Nat
                  /\ g < h /\ h + (j - i) <= w
              BY <5>3, <5>4, <5>5 DEF g, h, w
            <6> QED
              BY ONLY <6>1
          <5> QED
            BY <5>2, <5>6 DEF g, w
        <4> QED
          BY <4>1, <4>2
      <3>2. e \in [1..k -> Threads] /\ d \in [1..k -> Threads]
        <4>1. e \in Seq(Threads)
          BY <1>3, <2>8 DEF Sorted, e
        <4> QED
          BY <1>2, <1>4, <2>7, <4>1
      <3>3. e = d \/ Precedes(e, d, k)
        BY <1>1, <3>1, <3>2, PointwiseSooner
      <3>4. e = d \/ Sooner(e, d)
        BY <1>4, <2>7, <3>3 DEF Sooner
      <3> QED
        BY <2>8, <3>4 DEF e
    <2> QED
      BY <2>2, <2>5, <2>6, <2>9, <2>10
  <1>5. CASE k # Len(d)
    <2>1. k < Len(d)
      BY <1>5 DEF Sooner
    <2>2. CASE Movable(N, c) # {}
      <3> DEFINE m == Max(Movable(N, c))
      <3>1. e = Moved(c, m) /\ m \in Movable(N, c)
        BY <1>1, <2>2, NextChosenIs
      <3> HIDE DEF m, e
      <3>2. m \in 1..k
        BY <3>1 DEF Movable
      <3>3. Len(e) = k
        BY <1>1, <3>1, <3>2, MovedIs
      <3>4. e # None
        <4>1. Len(e) # 0
          BY <3>2, <3>3
        <4> QED
          BY <4>1 DEF None
      <3>5. Sooner(e, d)
        BY <2>1, <3>3 DEF Sooner
      <3> QED
        BY <3>4, <3>5 DEF e
    <2>3. CASE Movable(N, c) = {}
      <3>1. e = IF k + 1 > limit \/ k + 1 > N THEN None ELSE Shortest(k + 1)
        BY <1>1, <2>3, NextChosenIs
      <3> HIDE DEF e
      <3>2. e = Shortest(k + 1) /\ k + 1 \in Nat
        BY <1>1, <1>2, <2>1, <3>1
      <3>3. Len(e) = k + 1 /\ \A j \in 1..(k + 1) : e[j] = j - 1
        BY <3>2, ShortestIs
      <3>4. e # None
        <4>1. Len(e) # 0
          BY <1>1, <3>3
        <4> QED
          BY <4>1 DEF None
      <3>5. CASE k + 1 = Len(d)
        <4>1. ASSUME NEW j \in 1..(k + 1) PROVE e[j] <= d[j]
          <5>1. 1 \in 1..Len(d) /\ j \in 1..Len(d) /\ 1 <= j
            BY <1>1, <3>5
          <5>2. d[1] + (j - 1) <= d[j] /\ d[1] \in Nat /\ d[j] \in Nat
            BY <1>2, <5>1, SortedRises
          <5> QED
            BY <3>3, <5>2
        <4>2. e \in [1..(k + 1) -> Threads] /\ d \in [1..(k + 1) -> Threads]
          <5>1. e \in Seq(Threads)
            BY <1>3, <3>4 DEF Sorted, e
          <5> QED
            BY <1>2, <3>3, <3>5, <5>1
        <4>3. e = d \/ Precedes(e, d, k + 1)
          BY <1>1, <3>2, <4>1, <4>2, PointwiseSooner
        <4>4. e = d \/ Sooner(e, d)
          BY <3>3, <3>5, <4>3 DEF Sooner
        <4> QED
          BY <3>4, <4>4 DEF e
      <3>6. CASE k + 1 # Len(d)
        <4>1. Len(e) < Len(d)
          BY <1>1, <1>2, <2>1, <3>3, <3>6
        <4>2. Sooner(e, d)
          BY <4>1 DEF Sooner
        <4> QED
          BY <3>4, <4>2 DEF e
      <3> QED
        BY <3>5, <3>6
    <2> QED
      BY <2>2, <2>3
  <1> QED
    BY <1>4, <1>5

LEMMA SoonerTransitive ==
    ASSUME Ready, NEW c, Sorted(c), NEW d, Sorted(d), NEW e, Sorted(e), Sooner(c, d), Sooner(d, e)
    PROVE  Sooner(c, e)
  <1>1. /\ c \in Seq(Threads) /\ d \in Seq(Threads) /\ e \in Seq(Threads)
        /\ Len(c) \in Nat /\ Len(d) \in Nat /\ Len(e) \in Nat
    BY SortedType
  <1>2. \/ Len(c) < Len(e)
        \/ Len(c) = Len(d) /\ Len(d) = Len(e)
    BY <1>1 DEF Sooner
  <1>3. CASE Len(c) < Len(e)
    BY <1>3 DEF Sooner
  <1>4. CASE Len(c) = Len(d) /\ Len(d) = Len(e)
    <2> DEFINE k == Len(c)
    <2>1. c \in [1..k -> Threads] /\ d \in [1..k -> Threads] /\ e \in [1..k -> Threads]
      BY <1>1, <1>4
    <2>2. Precedes(c, d, k) /\ Precedes(d, e, k)
      BY <1>1, <1>4 DEF Sooner
    <2>3. Threads \in SUBSET Nat /\ k \in Nat
      BY <1>1, ReadyType
    <2> HIDE DEF k
    <2>4. Precedes(c, e, k)
      BY <2>1, <2>2, <2>3, PrecedesTransitive
    <2> QED
      BY <1>4, <2>4 DEF Sooner, k
  <1> QED
    BY <1>2, <1>3, <1>4

LEMMA SoonerLast ==
    ASSUME Ready, NEW S, S # {}, \A c \in S : Sorted(c)
    PROVE  \E c \in S : \A d \in S : ~Sooner(c, d)
  <1> DEFINE lens == {Len(c) : c \in S}
             k == Max(lens)
             longest == {c \in S : Len(c) = k}
  <1>1. \A c \in S : c \in Seq(Threads) /\ Len(c) \in Nat /\ Len(c) <= N
    BY SortedType
  <1>2. N \in Nat /\ Threads = 0..(N - 1) /\ Threads \in SUBSET (0..N)
    BY ReadyType
  <1>3. k \in lens /\ \A x \in lens : x <= k
    <2>1. lens \in SUBSET (0..N) /\ lens # {}
      <3>1. \A c \in S : Len(c) \in 0..N
        BY <1>1, <1>2
      <3> QED
        BY <3>1
    <2> HIDE DEF lens
    <2> QED
      BY <1>2, <2>1, MaxOfSet
  <1>4. k \in Nat /\ longest # {}
    BY <1>1, <1>3
  <1>5. longest \in SUBSET [1..k -> 0..N]
    <2> SUFFICES ASSUME NEW c \in longest PROVE c \in [1..k -> 0..N]
      OBVIOUS
    <2>1. c \in S /\ Len(c) = k
      OBVIOUS
    <2> HIDE DEF k, longest
    <2>2. c \in [1..k -> Threads]
      BY <1>1, <2>1
    <2> QED
      BY <1>2, <2>2
  <1>6. PICK c \in longest : \A d \in longest : ~Precedes(c, d, k)
    <2> HIDE DEF k, longest
    <2> QED
      BY <1>2, <1>4, <1>5, LexGreatest
  <1>7. c \in S /\ Len(c) = k
    BY <1>6
  <1>8. ASSUME NEW d \in S, Sooner(c, d) PROVE FALSE
    <2>1. Len(d) <= k
      BY <1>3
    <2>2. Len(d) = k /\ Precedes(c, d, k)
      <3> HIDE DEF k
      <3> QED
        BY <1>1, <1>4, <1>7, <1>8, <2>1 DEF Sooner
    <2>3. d \in longest
      BY <2>2
    <2> QED
      BY <1>6, <2>2, <2>3
  <1> QED
    BY <1>7, <1>8

-----------------------------------------------------------------------------
(* The pattern the scheduler goes on with for a set of threads.            *)
PatternFor(d, settle) ==
    IF settle THEN Settle(d, InitPattern(SearchOf(d))) ELSE InitPattern(SearchOf(d))
NoChoice == [chosen |-> None, pattern |-> None]

LEMMA PatternForGood ==
    ASSUME Ready, NEW settle \in BOOLEAN, NEW d, Sorted(d), PatternFor(d, settle) # None
    PROVE  /\ GoodFor(SearchOf(d), PatternFor(d, settle))
           /\ settle => ~Redundant(d, PatternFor(d, settle))
  <1> DEFINE s == SearchOf(d)
             q == InitPattern(s)
  <1>1. d \in Seq(Threads) /\ N \in Nat /\ Threads = 0..(N - 1)
    BY ReadyType DEF Sorted
  <1>2. s \in Searches(Threads)
    BY <1>1, SearchOfType
  <1>3. q = None \/ GoodFor(s, q)
    <2> HIDE DEF s
    <2> QED
      BY <1>1, <1>2, InitPatternGood
  <1>4. PatternFor(d, settle) = IF settle THEN Settle(d, q) ELSE q
    BY DEF PatternFor
  <1> HIDE DEF q
  <1>5. CASE settle
    <2>1. q # None
      BY <1>1, <1>4, <1>5, SettleNone
    <2>2. Settled(d, q, Settle(d, q))
      BY <1>1, <1>3, <2>1, SettleGood
    <2> QED
      BY <1>4, <1>5, <2>2 DEF Settled
  <1>6. CASE ~settle
    BY <1>3, <1>4, <1>6
  <1> QED
    BY <1>5, <1>6

(* One turn of the loop over the sets of threads. *)
LEMMA NextChoiceStep ==
    ASSUME Ready, NEW settle \in BOOLEAN, NEW c \in Seq(Int)
    PROVE  NextChoice(c, settle) =
               IF NextChosen(N, p - start, c) = None THEN NoChoice
               ELSE IF PatternFor(NextChosen(N, p - start, c), settle) = None
               THEN NextChoice(NextChosen(N, p - start, c), settle)
               ELSE [chosen |-> NextChosen(N, p - start, c),
                     pattern |-> PatternFor(NextChosen(N, p - start, c), settle)]
  <1> DEFINE X == Seq(Int)
             NextOf(d) == NextChosen(N, p - start, d)
             Found1(e) == [chosen |-> e, pattern |-> PatternFor(e, settle)]
             Turn(f, d) == IF NextOf(d) = None THEN NoChoice
                           ELSE IF PatternFor(NextOf(d), settle) = None THEN f[NextOf(d)]
                           ELSE Found1(NextOf(d))
             Solves(f) == f = [d \in X |-> Turn(f, d)]
             T == {d \in X : NextOf(d) # None /\ PatternFor(NextOf(d), settle) = None}
             G == [d \in X |-> NextOf(d)]
             V == [d \in X |-> IF NextOf(d) = None THEN NoChoice ELSE Found1(NextOf(d))]
  <1>1. N \in Nat
    BY ReadyType
  <1>2. \A d \in X : NextOf(d) \in X
    BY <1>1, NextChosenType
  <1> HIDE DEF X
  <1>3. \A d \in X : d \in T => G[d] \in X
    BY <1>2
  <1>4. PICK f : Looped(X, T, G, V, f)
    <2> HIDE DEF T, G, V
    <2> QED
      BY <1>3, LoopExists
  <1>5. f = [d \in X |-> IF d \in T THEN f[G[d]] ELSE V[d]]
    BY <1>4 DEF Looped
  <1>6. Solves(f)
    <2>1. \A d \in X : f[d] = Turn(f, d)
      <3> SUFFICES ASSUME NEW d \in X PROVE f[d] = Turn(f, d)
        OBVIOUS
      <3>1. f[d] = IF d \in T THEN f[G[d]] ELSE V[d]
        <4> HIDE DEF T, G, V
        <4> QED
          BY <1>5
      <3>2. /\ G[d] = NextOf(d)
            /\ V[d] = IF NextOf(d) = None THEN NoChoice ELSE Found1(NextOf(d))
            /\ d \in T <=> NextOf(d) # None /\ PatternFor(NextOf(d), settle) = None
        <4> HIDE DEF NextOf, Found1
        <4> QED
          OBVIOUS
      <3> HIDE DEF T, G, V, NextOf, Found1
      <3> QED
        BY <3>1, <3>2
    <2>2. f = [d \in X |-> f[d]]
      <3> HIDE DEF T, G, V
      <3> QED
        BY <1>5
    <2> HIDE DEF Turn
    <2> QED
      BY <2>1, <2>2
  <1> DEFINE choice == CHOOSE g : Solves(g)
  <1>7. Solves(choice)
    <2> HIDE DEF Solves
    <2> QED
      BY <1>6
  <1>8. \A d : NextChoice(d, settle) = choice[d]
    BY DEF NextChoice, PatternFor, NoChoice, N, X
  <1>9. choice[c] = Turn(choice, c)
    <2>1. c \in X
      BY DEF X
    <2> HIDE DEF choice, Turn
    <2> QED
      BY <1>7, <2>1
  <1> HIDE DEF choice
  <1>10. /\ NextChoice(c, settle) = choice[c]
         /\ NextChoice(NextOf(c), settle) = choice[NextOf(c)]
    BY <1>8
  <1> QED
    BY <1>9, <1>10

(* A set of threads the scheduler may serialise behind the prefix.         *)
Eligible(d) == Sorted(d) /\ Len(d) <= p - start

(* The loop ends at the first later set that has a pattern, with that      *)
(* pattern, or there is no such set.                                       *)
ChoiceFrom(c, settle, r) ==
    /\ r.pattern # None =>
          /\ Eligible(r.chosen) /\ Sooner(c, r.chosen)
          /\ GoodFor(SearchOf(r.chosen), r.pattern)
          /\ settle => ~Redundant(r.chosen, r.pattern)
    /\ r.pattern = None =>
          \A d : Eligible(d) /\ Sooner(c, d) => PatternFor(d, settle) = None

LEMMA NextChoiceIs ==
    ASSUME Ready, NEW settle \in BOOLEAN, NEW c, Eligible(c)
    PROVE  ChoiceFrom(c, settle, NextChoice(c, settle))
  <1> DEFINE limit == p - start
             Right(d) == ChoiceFrom(d, settle, NextChoice(d, settle))
             bad == {d \in Seq(Threads) : Eligible(d) /\ ~Right(d)}
  <1>1. limit \in Nat
    BY ReadyType
  <1>2. bad = {}
    <2> SUFFICES ASSUME bad # {} PROVE FALSE
      OBVIOUS
    <2>1. PICK d \in bad : \A e \in bad : ~Sooner(d, e)
      <3>1. \A d \in bad : Sorted(d)
        BY DEF Eligible
      <3> HIDE DEF bad
      <3> QED
        BY <3>1, SoonerLast
    <2>2. Sorted(d) /\ Len(d) <= limit /\ ~Right(d) /\ d \in Seq(Int)
      <3>1. Eligible(d) /\ ~Right(d)
        BY <2>1
      <3> HIDE DEF Right
      <3> QED
        BY <3>1, SortedType DEF Eligible
    <2> DEFINE e == NextChosen(N, limit, d)
    <2>3. NextChoice(d, settle) =
              IF e = None THEN NoChoice
              ELSE IF PatternFor(e, settle) = None THEN NextChoice(e, settle)
              ELSE [chosen |-> e, pattern |-> PatternFor(e, settle)]
      BY <2>2, NextChoiceStep
    <2>4. e # None => Sorted(e) /\ Sooner(d, e) /\ Len(e) <= limit
      <3> HIDE DEF limit
      <3> QED
        BY <1>1, <2>2, NextChosenSorted
    <2>5. \A u : Eligible(u) /\ Sooner(d, u) => e # None /\ (e = u \/ Sooner(e, u))
      <3> SUFFICES ASSUME NEW u, Eligible(u), Sooner(d, u) PROVE e # None /\ (e = u \/ Sooner(e, u))
        OBVIOUS
      <3>1. Sorted(u) /\ Len(u) <= limit
        BY DEF Eligible
      <3> HIDE DEF limit
      <3> QED
        BY <1>1, <2>2, <3>1, NextChosenFirst
    <2> HIDE DEF e
    <2>6. CASE e = None
      <3>1. NextChoice(d, settle) = NoChoice
        BY <2>3, <2>6
      <3>2. NoChoice.pattern = None
        BY DEF NoChoice
      <3>3. \A u : ~(Eligible(u) /\ Sooner(d, u))
        BY <2>5, <2>6
      <3>4. ChoiceFrom(d, settle, NoChoice)
        BY <3>2, <3>3 DEF ChoiceFrom
      <3> QED
        BY <2>2, <3>1, <3>4
    <2>7. CASE e # None /\ PatternFor(e, settle) # None
      <3> DEFINE q == PatternFor(e, settle)
                 r == [chosen |-> e, pattern |-> q]
      <3>1. NextChoice(d, settle) = r
        BY <2>3, <2>7
      <3>2. Eligible(e) /\ Sooner(d, e)
        BY <2>4, <2>7 DEF Eligible
      <3>3. GoodFor(SearchOf(e), q) /\ (settle => ~Redundant(e, q))
        BY <2>4, <2>7, PatternForGood
      <3>4. r.pattern = q /\ r.chosen = e /\ q # None
        BY <2>7
      <3> HIDE DEF q, r
      <3>5. ChoiceFrom(d, settle, r)
        BY <3>2, <3>3, <3>4 DEF ChoiceFrom
      <3> QED
        BY <2>2, <3>1, <3>5
    <2>8. CASE e # None /\ PatternFor(e, settle) = None
      <3> DEFINE r == NextChoice(e, settle)
      <3>1. NextChoice(d, settle) = r
        BY <2>3, <2>8
      <3>2. Eligible(e) /\ Sooner(d, e) /\ e \in Seq(Threads)
        BY <2>4, <2>8 DEF Eligible, Sorted
      <3>3. Right(e)
        <4>1. e \notin bad
          <5> HIDE DEF bad
          <5> QED
            BY <2>1, <3>2
        <4> HIDE DEF Right
        <4> QED
          BY <3>2, <4>1
      <3>4. ChoiceFrom(e, settle, r)
        BY <3>3
      <3> HIDE DEF r
      <3>5. r.pattern # None => Sooner(d, r.chosen)
        <4> SUFFICES ASSUME r.pattern # None PROVE Sooner(d, r.chosen)
          OBVIOUS
        <4>1. Sorted(r.chosen) /\ Sooner(e, r.chosen)
          BY <3>4 DEF ChoiceFrom, Eligible
        <4> QED
          BY <2>2, <2>4, <2>8, <4>1, SoonerTransitive
      <3>6. r.pattern = None => \A u : Eligible(u) /\ Sooner(d, u) => PatternFor(u, settle) = None
        <4> SUFFICES ASSUME r.pattern = None, NEW u, Eligible(u), Sooner(d, u)
                     PROVE  PatternFor(u, settle) = None
          OBVIOUS
        <4>1. e = u \/ Sooner(e, u)
          BY <2>5
        <4> QED
          BY <2>8, <3>4, <4>1 DEF ChoiceFrom
      <3>7. ChoiceFrom(d, settle, r)
        BY <3>4, <3>5, <3>6 DEF ChoiceFrom
      <3> QED
        BY <2>2, <3>1, <3>7
    <2> QED
      BY <2>6, <2>7, <2>8
  <1>3. c \in Seq(Threads)
    BY DEF Eligible, Sorted
  <1>4. Right(c)
    <2> HIDE DEF Right
    <2> QED
      BY <1>2, <1>3
  <1> QED
    BY <1>4

-----------------------------------------------------------------------------
(* The KPs thread t runs in its own periods. *)
OwnKps(w, k, t) == [j \in DOMAIN w |-> IF w[j] = t THEN k[j] ELSE 0]
OwnSum(w, k, t, i) == SumUpto(OwnKps(w, k, t), i)
Counts(m) == [1..m -> Nat \ {0}]

LEMMA OwnType ==
    ASSUME NEW m \in Nat, NEW w, DOMAIN w = 1..m, NEW k \in Counts(m), NEW t
    PROVE  /\ \A j \in 1..m : OwnKps(w, k, t)[j] \in Nat
           /\ \A j \in 1..m : OwnKps(w, k, t)[j] = IF w[j] = t THEN k[j] ELSE 0
           /\ OwnSum(w, k, t, 0) = 0
           /\ \A j \in 1..m : OwnSum(w, k, t, j) = OwnSum(w, k, t, j - 1) + OwnKps(w, k, t)[j]
           /\ \A j \in 0..m : OwnSum(w, k, t, j) \in Nat
  <1>1. \A j \in 1..m : OwnKps(w, k, t)[j] = IF w[j] = t THEN k[j] ELSE 0
    BY DEF OwnKps
  <1>2. \A j \in 1..m : k[j] \in Nat
    BY DEF Counts
  <1>3. \A j \in 1..m : OwnKps(w, k, t)[j] \in Nat
    BY <1>1, <1>2
  <1> DEFINE s == OwnKps(w, k, t)
  <1>4. /\ SumUpto(s, 0) = 0
        /\ \A j \in 1..m : SumUpto(s, j) = SumUpto(s, j - 1) + s[j]
        /\ \A j \in 0..m : SumUpto(s, j) \in Nat
    <2>1. \A j \in 1..m : s[j] \in Nat
      BY <1>3
    <2> HIDE DEF s
    <2> QED
      BY <2>1, SumSteps
  <1> QED
    BY <1>1, <1>3, <1>4 DEF OwnSum

LEMMA MaxOfTwo ==
    ASSUME NEW a \in Int, NEW b \in Int
    PROVE  Max({a, b}) = IF a >= b THEN a ELSE b
  <1> DEFINE c == IF a >= b THEN a ELSE b
  <1>1. c \in {a, b} /\ \A y \in {a, b} : c >= y
    OBVIOUS
  <1>2. Max({a, b}) \in {a, b} /\ \A y \in {a, b} : Max({a, b}) >= y
    <2>1. \E x \in {a, b} : \A y \in {a, b} : x >= y
      BY <1>1
    <2> HIDE DEF c
    <2> QED
      BY <2>1 DEF Max
  <1> DEFINE d == Max({a, b})
  <1> HIDE DEF d
  <1>3. d \in {a, b} /\ d >= a /\ d >= b
    BY <1>2 DEF d
  <1>4. d = IF a >= b THEN a ELSE b
    BY <1>3
  <1> QED
    BY <1>4 DEF d

(* What _init_sched adds to the last period of t. *)
Extra(kk, w, t, m) == Max({0, kk[t] - CountIn(w, t, m)})

LEMMA ExtraIs ==
    ASSUME NEW m \in Nat, NEW D, NEW w, NEW kk \in [D -> Nat], NEW t \in D
    PROVE  /\ Extra(kk, w, t, m) = IF CountIn(w, t, m) >= kk[t] THEN 0 ELSE kk[t] - CountIn(w, t, m)
           /\ Extra(kk, w, t, m) \in Nat
  <1> DEFINE a == kk[t] - CountIn(w, t, m)
  <1>1. CountIn(w, t, m) \in Nat /\ kk[t] \in Nat
    BY CountType
  <1>2. a \in Int /\ 0 \in Int
    BY <1>1
  <1> HIDE DEF a
  <1>3. Max({0, a}) = IF 0 >= a THEN 0 ELSE a
    BY <1>2, MaxOfTwo
  <1>4. Extra(kk, w, t, m) = Max({0, a})
    BY DEF Extra, a
  <1>5. Extra(kk, w, t, m) = IF 0 >= a THEN 0 ELSE a
    BY <1>3, <1>4
  <1> QED
    BY <1>1, <1>5 DEF a

LeastCounts(kk, w, m, k) ==
    \A j \in 1..m : k[j] = IF \E l \in 1..m : l > j /\ w[l] = w[j] THEN 1
                           ELSE 1 + Extra(kk, w, w[j], m)

LEMMA InitSchedIs ==
    ASSUME NEW m \in Nat, NEW D, NEW w \in [1..m -> D], NEW kk \in [D -> Nat]
    PROVE  InitSched(kk, w) \in Counts(m) /\ LeastCounts(kk, w, m, InitSched(kk, w))
  <1>1. DOMAIN w = 1..m
    OBVIOUS
  <1>2. \A t \in D : Extra(kk, w, t, m) \in Nat
    BY ExtraIs
  <1> DEFINE g == InitSched(kk, w)
  <1>3. ASSUME NEW j \in 1..m
        PROVE  g[j] = IF \E l \in 1..m : l > j /\ w[l] = w[j] THEN 1 ELSE 1 + Extra(kk, w, w[j], m)
    <2>1. Blocks(w, w[j]) = CountIn(w, w[j], m)
      BY <1>1 DEF Blocks, CountIn
    <2>2. g[j] = IF \E l \in DOMAIN w : l > j /\ w[l] = w[j] THEN 1
                 ELSE 1 + Max({0, kk[w[j]] - Blocks(w, w[j])})
      BY <1>1 DEF InitSched
    <2> HIDE DEF g
    <2> QED
      BY <1>1, <2>1, <2>2 DEF Extra
  <1>4. g = [j \in 1..m |-> g[j]]
    BY <1>1 DEF InitSched
  <1> HIDE DEF g
  <1>5. \A j \in 1..m : g[j] \in Nat \ {0}
    <2> TAKE j \in 1..m
    <2>1. w[j] \in D
      OBVIOUS
    <2>2. Extra(kk, w, w[j], m) \in Nat
      BY <1>2, <2>1
    <2>3. g[j] = 1 \/ g[j] = 1 + Extra(kk, w, w[j], m)
      BY <1>3
    <2> QED
      BY <2>2, <2>3
  <1>6. g \in Counts(m)
    BY <1>4, <1>5 DEF Counts
  <1>7. LeastCounts(kk, w, m, g)
    BY <1>3 DEF LeastCounts
  <1> QED
    BY <1>6, <1>7 DEF g

(* _init_sched distributes all KPs of a thread, and one for each of its    *)
(* periods if it has fewer.                                                *)
Given(kk, w, t, m) ==
    IF CountIn(w, t, m) = 0 THEN 0
    ELSE IF CountIn(w, t, m) >= kk[t] THEN CountIn(w, t, m) ELSE kk[t]

LEMMA InitSchedSum ==
    ASSUME NEW m \in Nat, NEW D, NEW w \in [1..m -> D], NEW kk \in [D -> Nat], NEW t \in D
    PROVE  OwnSum(w, InitSched(kk, w), t, m) = Given(kk, w, t, m)
  <1> DEFINE k == InitSched(kk, w)
             s == OwnKps(w, k, t)
             x == Extra(kk, w, t, m)
             c(i) == CountIn(w, t, i)
             f == [i \in 0..m |-> c(i) + IF c(m) > 0 /\ c(i) = c(m) THEN x ELSE 0]
  <1>1. /\ x \in Nat
        /\ \A j \in 1..m : k[j] = IF \E l \in 1..m : l > j /\ w[l] = w[j] THEN 1
                                  ELSE 1 + Extra(kk, w, w[j], m)
        /\ x = IF c(m) >= kk[t] THEN 0 ELSE kk[t] - c(m)
    <2>1. /\ x \in Nat
          /\ x = IF c(m) >= kk[t] THEN 0 ELSE kk[t] - c(m)
      BY ExtraIs
    <2> HIDE DEF k, s, x, c, f
    <2>2. LeastCounts(kk, w, m, InitSched(kk, w))
      BY InitSchedIs
    <2>3. \A j \in 1..m : k[j] = IF \E l \in 1..m : l > j /\ w[l] = w[j] THEN 1
                                 ELSE 1 + Extra(kk, w, w[j], m)
      BY <2>2 DEF k, LeastCounts
    <2> QED
      BY <2>1, <2>3
  <1>2. \A j \in 1..m : s[j] = IF w[j] = t THEN k[j] ELSE 0
    BY DEF OwnKps
  <1>3. \A i \in 0..m : c(i) \in Nat
    <2> TAKE i \in 0..m
    <2>1. i \in Nat
      OBVIOUS
    <2> QED
      BY <2>1, CountType
  <1>4. c(0) = 0
    BY CountZero
  <1>5. f[0] = 0
    <2>1. 0 \in 0..m
      OBVIOUS
    <2>2. f[0] = c(0) + IF c(m) > 0 /\ c(0) = c(m) THEN x ELSE 0
      BY <2>1
    <2> HIDE DEF f, c
    <2>3. ~(c(m) > 0 /\ c(0) = c(m))
      BY <1>4
    <2> QED
      BY <1>4, <2>2, <2>3
  <1>6. ASSUME NEW j \in 1..m PROVE f[j] = f[j - 1] + s[j]
    <2> DEFINE i == j - 1
    <2>1. i \in 0..m /\ j \in 0..m /\ j \in Nat \ {0} /\ m \in 0..m /\ i \in Nat
      OBVIOUS
    <2>2. f[j] = c(j) + IF c(m) > 0 /\ c(j) = c(m) THEN x ELSE 0
      BY <2>1
    <2>3. f[i] = c(i) + IF c(m) > 0 /\ c(i) = c(m) THEN x ELSE 0
      BY <2>1
    <2>4. c(j) = c(i) + Owns(w, t, j)
      BY <2>1, CountNext
    <2>5. c(j) = c(m) <=> ~ \E l \in 1..m : l > j /\ w[l] = t
      BY <2>1, CountEnds
    <2>6. c(j) <= c(m)
      BY <2>1, CountMonotone
    <2>7. c(j) \in Nat /\ c(i) \in Nat /\ c(m) \in Nat
      BY <1>3, <2>1
    <2>8. x \in Nat
      BY <1>1
    <2>9. CASE w[j] # t
      <3>1. c(j) = c(i) /\ s[j] = 0
        <4>1. Owns(w, t, j) = 0
          BY <2>9 DEF Owns
        <4>2. s[j] = 0
          BY <1>2, <2>9
        <4> HIDE DEF c, s, i
        <4> QED
          BY <2>4, <2>7, <4>1, <4>2
      <3> HIDE DEF f, c, s, x, i
      <3>2. f[j] = f[i]
        BY <2>2, <2>3, <3>1
      <3>3. f[i] \in Nat
        BY <2>3, <2>7, <2>8
      <3>4. f[j] = f[i] + s[j]
        BY <3>1, <3>2, <3>3
      <3> QED
        BY <3>4 DEF i
    <2>10. CASE w[j] = t
      <3>1. Owns(w, t, j) = 1 /\ s[j] = k[j]
        BY <1>2, <2>10 DEF Owns
      <3>2. k[j] = IF c(j) = c(m) THEN 1 + x ELSE 1
        <4>1. k[j] = IF \E l \in 1..m : l > j /\ w[l] = t THEN 1 ELSE 1 + x
          BY <1>1, <2>10
        <4> HIDE DEF k, c, x
        <4> QED
          BY <2>5, <4>1
      <3> HIDE DEF f, c, s, x, i, k
      <3>3. c(j) = c(i) + 1 /\ c(m) > 0 /\ c(i) # c(m)
        BY <2>4, <2>6, <2>7, <3>1
      <3>4. f[i] = c(i)
        BY <2>3, <2>7, <3>3
      <3>5. f[j] = c(j) + IF c(j) = c(m) THEN x ELSE 0
        BY <2>2, <3>3
      <3>6. f[j] = f[i] + s[j]
        <4>1. CASE c(j) = c(m)
          <5>1. f[j] = c(j) + x /\ s[j] = 1 + x
            BY <3>1, <3>2, <3>5, <4>1
          <5> QED
            BY <2>7, <2>8, <3>3, <3>4, <5>1
        <4>2. CASE c(j) # c(m)
          <5>1. f[j] = c(j) + 0 /\ s[j] = 1
            BY <3>1, <3>2, <3>5, <4>2
          <5> QED
            BY <2>7, <3>3, <3>4, <5>1
        <4> QED
          BY <4>1, <4>2
      <3> QED
        BY <3>6 DEF i
    <2> QED
      BY <2>9, <2>10
  <1>7. SumUpto(s, m) = f[m]
    <2> HIDE DEF f, s
    <2> QED
      BY <1>5, <1>6, SumIs
  <1>8. m \in 0..m
    OBVIOUS
  <1>9. f[m] = c(m) + IF c(m) > 0 /\ c(m) = c(m) THEN x ELSE 0
    BY <1>8
  <1>10. c(m) \in Nat /\ kk[t] \in Nat
    BY <1>3, <1>8
  <1>11. x = IF c(m) >= kk[t] THEN 0 ELSE kk[t] - c(m)
    BY <1>1
  <1>12. OwnSum(w, k, t, m) = SumUpto(s, m)
    BY DEF OwnSum
  <1> HIDE DEF f, s, c, x, k
  <1>13. f[m] = IF c(m) = 0 THEN 0 ELSE IF c(m) >= kk[t] THEN c(m) ELSE kk[t]
    <2>1. CASE c(m) = 0
      BY <1>9, <2>1
    <2>2. CASE c(m) # 0 /\ c(m) >= kk[t]
      <3>1. f[m] = c(m) + 0
        BY <1>9, <1>10, <1>11, <2>2
      <3> QED
        BY <1>10, <2>2, <3>1
    <2>3. CASE c(m) # 0 /\ ~(c(m) >= kk[t])
      <3>1. f[m] = c(m) + (kk[t] - c(m))
        BY <1>9, <1>10, <1>11, <2>3
      <3> QED
        BY <1>10, <2>3, <3>1
    <2> QED
      BY <2>1, <2>2, <2>3
  <1>14. OwnSum(w, k, t, m) = IF c(m) = 0 THEN 0 ELSE IF c(m) >= kk[t] THEN c(m) ELSE kk[t]
    BY <1>7, <1>12, <1>13
  <1> QED
    BY <1>14 DEF k, c, Given

(* One KP of x goes from its period d to its earlier period e; the threads *)
(* greater than x start over.                                              *)
Moves(kk, w, k, new, m, x, d, e) ==
    /\ d \in 1..m /\ e \in 1..m /\ e < d /\ w[d] = x /\ w[e] = x
    /\ new \in Counts(m) /\ new[d] = k[d] - 1 /\ new[e] = k[e] + 1
    /\ \A j \in 1..m : j # d /\ j # e =>
          new[j] = IF w[j] > x THEN InitSched(kk, w)[j] ELSE k[j]

LEMMA NextSchedIs ==
    ASSUME NEW n \in Nat, NEW D, D = 0..(n - 1), NEW m \in Nat, NEW w \in [1..m -> D],
           NEW kk \in [D -> Nat], NEW k \in Counts(m), NextSched(kk, k, w) # None
    PROVE  \E x \in D : \E d, e \in 1..m : Moves(kk, w, k, NextSched(kk, k, w), m, x, d, e)
  <1> DEFINE Donors(t) == {j \in DOMAIN w : j > 1 /\ w[j] = t /\ k[j] > 1}
             Takers(t) == {j \in DOMAIN w : w[j] = t /\ j < Max(Donors(t))}
             movable == {t \in DOMAIN kk : Donors(t) # {} /\ Takers(t) # {}}
             x == Max(movable)
             d == Max(Donors(x))
             e == Max(Takers(x))
             new == NextSched(kk, k, w)
  <1>1. new = IF movable = {} THEN None
              ELSE [j \in DOMAIN w |->
                       CASE j = d -> k[j] - 1
                         [] j = e -> k[j] + 1
                         [] w[j] > x -> InitSched(kk, w)[j]
                         [] OTHER -> k[j]]
    BY DEF NextSched
  <1>2. DOMAIN w = 1..m /\ DOMAIN kk = D /\ movable # {}
    <2>1. movable # {}
      BY <1>1
    <2> HIDE DEF movable
    <2> QED
      BY <2>1
  <1>3. x \in movable
    <2>1. movable \in SUBSET (0..n)
      <3>1. movable \in SUBSET D /\ D \in SUBSET (0..n)
        <4>1. movable \in SUBSET DOMAIN kk
          OBVIOUS
        <4> HIDE DEF movable
        <4> QED
          BY <1>2, <4>1
      <3> HIDE DEF movable
      <3> QED
        BY <3>1
    <2> HIDE DEF movable
    <2> QED
      BY <1>2, <2>1, MaxOfSet
  <1> HIDE DEF x
  <1>4. x \in D /\ Donors(x) # {} /\ Takers(x) # {}
    BY <1>2, <1>3
  <1>5. d \in Donors(x)
    <2>1. Donors(x) \in SUBSET (0..m)
      BY <1>2
    <2> HIDE DEF Donors, Takers
    <2> QED
      BY <1>4, <2>1, MaxOfSet
  <1>6. e \in Takers(x)
    <2>1. Takers(x) \in SUBSET (0..m)
      BY <1>2
    <2> HIDE DEF Donors, Takers
    <2> QED
      BY <1>4, <2>1, MaxOfSet
  <1>7. d \in 1..m /\ w[d] = x /\ k[d] > 1
    BY <1>2, <1>5
  <1>8. e \in 1..m /\ w[e] = x /\ e < d
    BY <1>2, <1>6
  <1> HIDE DEF d, e, movable, Donors, Takers
  <1> DEFINE f(j) == CASE j = d -> k[j] - 1
                       [] j = e -> k[j] + 1
                       [] w[j] > x -> InitSched(kk, w)[j]
                       [] OTHER -> k[j]
  <1>9. new = [j \in 1..m |-> f(j)]
    BY <1>1, <1>2
  <1>10. \A j \in 1..m : new[j] = f(j)
    <2> HIDE DEF f, new
    <2> QED
      BY <1>9
  <1>11. ~(w[d] > x) /\ ~(w[e] > x) /\ d # e
    BY <1>4, <1>7, <1>8
  <1>12. f(d) = k[d] - 1
    BY <1>11
  <1>13. f(e) = k[e] + 1
    BY <1>11
  <1>14. ASSUME NEW j \in 1..m, j # d, j # e
         PROVE  f(j) = IF w[j] > x THEN InitSched(kk, w)[j] ELSE k[j]
    <2>1. CASE w[j] > x
      BY <1>14, <2>1
    <2>2. CASE ~(w[j] > x)
      BY <1>14, <2>2
    <2> QED
      BY <2>1, <2>2
  <1> HIDE DEF f, new
  <1>15. new[d] = k[d] - 1 /\ new[e] = k[e] + 1
    BY <1>7, <1>8, <1>10, <1>12, <1>13
  <1>16. ASSUME NEW j \in 1..m, j # d, j # e
         PROVE  new[j] = IF w[j] > x THEN InitSched(kk, w)[j] ELSE k[j]
    BY <1>10, <1>14, <1>16
  <1>17. new \in Counts(m)
    <2>1. \A j \in 1..m : new[j] \in Nat \ {0}
      <3> TAKE j \in 1..m
      <3>1. k[j] \in Nat \ {0} /\ InitSched(kk, w)[j] \in Nat \ {0}
        <4>1. InitSched(kk, w) \in Counts(m)
          BY InitSchedIs
        <4> QED
          BY <4>1 DEF Counts
      <3>2. CASE j = d
        BY <1>7, <1>15, <3>1, <3>2
      <3>3. CASE j = e
        BY <1>15, <3>1, <3>3
      <3>4. CASE j # d /\ j # e
        BY <1>16, <3>1, <3>4
      <3> QED
        BY <3>2, <3>3, <3>4
    <2> QED
      BY <1>9, <2>1 DEF Counts
  <1>18. Moves(kk, w, k, new, m, x, d, e)
    BY <1>7, <1>8, <1>15, <1>16, <1>17 DEF Moves
  <1> QED
    BY <1>4, <1>7, <1>8, <1>18 DEF new

(* The KPs of the thread that moves one, and of the lesser ones, are kept. *)
LEMMA MovesKeeps ==
    ASSUME NEW m \in Nat, NEW D \in SUBSET Nat, NEW w \in [1..m -> D], NEW kk,
           NEW k \in Counts(m), NEW new, NEW x \in D, NEW d, NEW e,
           Moves(kk, w, k, new, m, x, d, e), NEW t \in D, t <= x
    PROVE  OwnSum(w, new, t, m) = OwnSum(w, k, t, m)
  <1>1. /\ d \in 1..m /\ e \in 1..m /\ e < d /\ w[d] = x /\ w[e] = x
        /\ new \in Counts(m) /\ new[d] = k[d] - 1 /\ new[e] = k[e] + 1
        /\ \A j \in 1..m : j # d /\ j # e =>
              new[j] = IF w[j] > x THEN InitSched(kk, w)[j] ELSE k[j]
    BY DEF Moves
  <1>2. /\ \A j \in 1..m : w[j] \in Nat
        /\ x \in Nat /\ t \in Nat /\ DOMAIN w = 1..m
    OBVIOUS
  <1> DEFINE a == OwnKps(w, k, t)
             b == OwnKps(w, new, t)
  <1>3. /\ \A j \in 1..m : a[j] \in Nat
        /\ \A j \in 1..m : a[j] = IF w[j] = t THEN k[j] ELSE 0
        /\ OwnSum(w, k, t, 0) = 0
        /\ \A j \in 1..m : OwnSum(w, k, t, j) = OwnSum(w, k, t, j - 1) + a[j]
        /\ \A j \in 0..m : OwnSum(w, k, t, j) \in Nat
    BY <1>2, OwnType
  <1>4. \A j \in 1..m : b[j] = IF w[j] = t THEN new[j] ELSE 0
    BY <1>2 DEF OwnKps
  <1> HIDE DEF a, b
  <1>5. CASE t # x
    <2>1. ASSUME NEW j \in 1..m PROVE b[j] = a[j]
      <3>1. CASE w[j] = t
        <4>1. j # d /\ j # e /\ ~(w[j] > x)
          BY <1>1, <1>2, <1>5, <3>1
        <4>2. new[j] = k[j]
          BY <1>1, <4>1
        <4> QED
          BY <1>3, <1>4, <3>1, <4>2
      <3>2. CASE w[j] # t
        BY <1>3, <1>4, <3>2
      <3> QED
        BY <3>1, <3>2
    <2>2. SumUpto(b, m) = SumUpto(a, m)
      BY <1>3, <2>1, SameSums
    <2> QED
      BY <2>2 DEF OwnSum, a, b
  <1>6. CASE t = x
    <2> DEFINE g(j) == OwnSum(w, k, t, j)
               f == [j \in 0..m |-> g(j) + IF e <= j /\ j < d THEN 1 ELSE 0]
    <2>1. f[0] = 0
      <3>1. 0 \in 0..m /\ ~(e <= 0)
        BY <1>1
      <3>2. f[0] = g(0) + IF e <= 0 /\ 0 < d THEN 1 ELSE 0
        BY <3>1
      <3> HIDE DEF f, g
      <3>3. g(0) = 0
        BY <1>3 DEF g
      <3> QED
        BY <3>1, <3>2, <3>3
    <2>2. ASSUME NEW j \in 1..m PROVE f[j] = f[j - 1] + b[j]
      <3> DEFINE i == j - 1
      <3>1. i \in 0..m /\ j \in 0..m /\ i + 1 = j
        OBVIOUS
      <3>2. f[j] = g(j) + IF e <= j /\ j < d THEN 1 ELSE 0
        BY <3>1
      <3>3. f[i] = g(i) + IF e <= i /\ i < d THEN 1 ELSE 0
        BY <3>1
      <3>4. g(j) = g(i) + a[j] /\ g(i) \in Nat /\ a[j] \in Nat
        BY <1>3, <3>1
      <3>5. d \in Int /\ e \in Int /\ j \in Int /\ i \in Int
        BY <1>1, <3>1
      <3>6. k[j] \in Nat
        BY DEF Counts
      <3> HIDE DEF f, g
      <3>7. CASE j = d
        <4>1. b[j] = k[j] - 1 /\ a[j] = k[j]
          BY <1>1, <1>3, <1>4, <1>6, <3>7
        <4>2. f[j] = g(j) + 0 /\ f[i] = g(i) + 1
          BY <1>1, <3>1, <3>2, <3>3, <3>5, <3>7
        <4> HIDE DEF i
        <4>3. f[j] = f[i] + b[j]
          BY <3>4, <3>6, <4>1, <4>2
        <4> QED
          BY <4>3 DEF i
      <3>8. CASE j = e
        <4>1. b[j] = k[j] + 1 /\ a[j] = k[j]
          BY <1>1, <1>3, <1>4, <1>6, <3>8
        <4>2. f[j] = g(j) + 1 /\ f[i] = g(i) + 0
          BY <1>1, <3>1, <3>2, <3>3, <3>5, <3>8
        <4> HIDE DEF i
        <4>3. f[j] = f[i] + b[j]
          BY <3>4, <3>6, <4>1, <4>2
        <4> QED
          BY <4>3 DEF i
      <3>9. CASE j # d /\ j # e
        <4>1. b[j] = a[j]
          <5>1. CASE w[j] = t
            <6>1. ~(w[j] > x)
              BY <1>2, <1>6, <5>1
            <6>2. new[j] = k[j]
              BY <1>1, <3>9, <6>1
            <6> QED
              BY <1>3, <1>4, <5>1, <6>2
          <5>2. CASE w[j] # t
            BY <1>3, <1>4, <5>2
          <5> QED
            BY <5>1, <5>2
        <4>2. (e <= j /\ j < d) <=> (e <= i /\ i < d)
          BY <3>1, <3>5, <3>9
        <4> HIDE DEF i
        <4>3. f[j] = f[i] + b[j]
          <5>1. CASE e <= j /\ j < d
            <6>1. f[j] = g(j) + 1 /\ f[i] = g(i) + 1
              BY <3>2, <3>3, <4>2, <5>1
            <6> QED
              BY <3>4, <4>1, <6>1
          <5>2. CASE ~(e <= j /\ j < d)
            <6>1. f[j] = g(j) + 0 /\ f[i] = g(i) + 0
              BY <3>2, <3>3, <4>2, <5>2
            <6> QED
              BY <3>4, <4>1, <6>1
          <5> QED
            BY <5>1, <5>2
        <4> QED
          BY <4>3 DEF i
      <3> QED
        BY <3>7, <3>8, <3>9
    <2>3. SumUpto(b, m) = f[m]
      <3> HIDE DEF f
      <3> QED
        BY <2>1, <2>2, SumIs
    <2>4. f[m] = g(m)
      <3>1. m \in 0..m /\ ~(m < d)
        BY <1>1
      <3>2. f[m] = g(m) + IF e <= m /\ m < d THEN 1 ELSE 0
        BY <3>1
      <3>3. g(m) \in Nat
        BY <1>3, <3>1
      <3> HIDE DEF f, g
      <3> QED
        BY <3>1, <3>2, <3>3
    <2> QED
      BY <2>3, <2>4 DEF OwnSum, b
  <1> QED
    BY <1>5, <1>6

(* The greater threads have what _init_sched gives them. *)
LEMMA MovesRestarts ==
    ASSUME NEW m \in Nat, NEW D \in SUBSET Nat, NEW w \in [1..m -> D], NEW kk \in [D -> Nat],
           NEW k \in Counts(m), NEW new, NEW x \in D, NEW d, NEW e,
           Moves(kk, w, k, new, m, x, d, e), NEW t \in D, t > x
    PROVE  OwnSum(w, new, t, m) = Given(kk, w, t, m)
  <1>1. /\ d \in 1..m /\ e \in 1..m /\ w[d] = x /\ w[e] = x
        /\ \A j \in 1..m : j # d /\ j # e =>
              new[j] = IF w[j] > x THEN InitSched(kk, w)[j] ELSE k[j]
    BY DEF Moves
  <1> DEFINE i == InitSched(kk, w)
             a == OwnKps(w, i, t)
             b == OwnKps(w, new, t)
  <1>2. i \in Counts(m) /\ DOMAIN w = 1..m /\ x \in Nat /\ t \in Nat
    BY InitSchedIs
  <1>3. \A j \in 1..m : a[j] \in Nat
    BY <1>2, OwnType
  <1>4. \A j \in 1..m : /\ a[j] = IF w[j] = t THEN i[j] ELSE 0
                        /\ b[j] = IF w[j] = t THEN new[j] ELSE 0
    BY <1>2 DEF OwnKps
  <1>5. ASSUME NEW j \in 1..m PROVE b[j] = a[j]
    <2> HIDE DEF a, b
    <2>1. CASE w[j] = t
      <3>1. j # d /\ j # e /\ w[j] > x
        BY <1>1, <1>2, <2>1
      <3>2. new[j] = i[j]
        BY <1>1, <3>1
      <3> QED
        BY <1>4, <2>1, <3>2
    <2>2. CASE w[j] # t
      BY <1>4, <2>2
    <2> QED
      BY <2>1, <2>2
  <1>6. SumUpto(b, m) = SumUpto(a, m)
    <2> HIDE DEF a, b
    <2> QED
      BY <1>3, <1>5, SameSums
  <1>7. OwnSum(w, new, t, m) = OwnSum(w, i, t, m)
    BY <1>6 DEF OwnSum
  <1>8. OwnSum(w, InitSched(kk, w), t, m) = Given(kk, w, t, m)
    BY InitSchedSum
  <1> HIDE DEF a, b
  <1> QED
    BY <1>7, <1>8

-----------------------------------------------------------------------------
(* Sums of sequences cut in two. *)
LEMMA OwnSumOn ==
    ASSUME NEW a \in Nat, NEW b \in Nat, NEW w, DOMAIN w = 1..(a + b), NEW k \in Counts(a + b),
           NEW v, DOMAIN v = 1..b, NEW l \in Counts(b), NEW t,
           Continues(w, v, a, b), Continues(k, l, a, b)
    PROVE  OwnSum(w, k, t, a + b) = OwnSum(w, k, t, a) + OwnSum(v, l, t, b)
  <1> DEFINE g(j) == OwnSum(w, k, t, j)
             h(j) == OwnSum(v, l, t, j)
             x == OwnKps(w, k, t)
             y == OwnKps(v, l, t)
             left == [j \in 0..b |-> g(a + j)]
             right == [j \in 0..b |-> g(a) + h(j)]
  <1>1. /\ \A j \in 1..(a + b) : x[j] \in Nat
        /\ \A j \in 1..(a + b) : g(j) = g(j - 1) + x[j]
        /\ \A j \in 0..(a + b) : g(j) \in Nat
    <2> DEFINE m == a + b
    <2>1. m \in Nat /\ DOMAIN w = 1..m /\ k \in Counts(m)
      OBVIOUS
    <2> HIDE DEF m
    <2>2. /\ \A j \in 1..m : OwnKps(w, k, t)[j] \in Nat
          /\ \A j \in 1..m : OwnKps(w, k, t)[j] = IF w[j] = t THEN k[j] ELSE 0
          /\ OwnSum(w, k, t, 0) = 0
          /\ \A j \in 1..m : OwnSum(w, k, t, j) = OwnSum(w, k, t, j - 1) + OwnKps(w, k, t)[j]
          /\ \A j \in 0..m : OwnSum(w, k, t, j) \in Nat
      BY <2>1, OwnType
    <2> QED
      BY <2>2 DEF m
  <1>2. /\ h(0) = 0
        /\ \A j \in 1..b : h(j) = h(j - 1) + y[j]
        /\ \A j \in 0..b : h(j) \in Nat
    <2>1. /\ \A j \in 1..b : OwnKps(v, l, t)[j] \in Nat
          /\ \A j \in 1..b : OwnKps(v, l, t)[j] = IF v[j] = t THEN l[j] ELSE 0
          /\ OwnSum(v, l, t, 0) = 0
          /\ \A j \in 1..b : OwnSum(v, l, t, j) = OwnSum(v, l, t, j - 1) + OwnKps(v, l, t)[j]
          /\ \A j \in 0..b : OwnSum(v, l, t, j) \in Nat
      BY OwnType
    <2> QED
      BY <2>1
  <1>3. ASSUME NEW j \in 1..b PROVE y[j] = x[a + j] /\ a + j \in 1..(a + b)
    <2>1. a + j \in 1..(a + b)
      OBVIOUS
    <2>2. v[j] = w[a + j] /\ l[j] = k[a + j]
      BY DEF Continues
    <2> QED
      BY <2>1, <2>2 DEF OwnKps
  <1>4. left[0] = right[0]
    <2>1. a + 0 = a /\ a \in 0..(a + b) /\ 0 \in 0..b
      OBVIOUS
    <2>2. left[0] = g(a + 0) /\ right[0] = g(a) + h(0)
      BY <2>1
    <2>3. g(a) \in Nat
      BY <1>1, <2>1
    <2> HIDE DEF g, h, left, right
    <2> QED
      BY <1>2, <2>1, <2>2, <2>3
  <1>5. ASSUME NEW j \in 0..b PROVE left[j] \in Int /\ right[j] \in Int
    <2>1. a + j \in 0..(a + b) /\ a \in 0..(a + b)
      OBVIOUS
    <2>2. g(a + j) \in Nat /\ g(a) \in Nat /\ h(j) \in Nat
      BY <1>1, <1>2, <2>1
    <2>3. left[j] = g(a + j) /\ right[j] = g(a) + h(j)
      OBVIOUS
    <2> HIDE DEF g, h, left, right
    <2> QED
      BY <2>2, <2>3
  <1>6. ASSUME NEW j \in 1..b PROVE left[j] - left[j - 1] = right[j] - right[j - 1]
    <2> DEFINE i == j - 1
               u == a + j
               z == a + i
    <2>1. i \in 0..b /\ j \in 0..b /\ u \in 1..(a + b) /\ u - 1 = z /\ a \in 0..(a + b)
          /\ z \in 0..(a + b) /\ u \in 0..(a + b)
      OBVIOUS
    <2>2. left[j] = g(u) /\ left[i] = g(z) /\ right[j] = g(a) + h(j) /\ right[i] = g(a) + h(i)
      BY <2>1
    <2>3. g(u) = g(u - 1) + x[u]
      BY <1>1, <2>1
    <2>4. g(u) = g(z) + x[u] /\ h(j) = h(i) + y[j] /\ y[j] = x[u]
      BY <1>2, <1>3, <2>1, <2>3
    <2>5. g(a) \in Nat /\ g(u) \in Nat /\ g(z) \in Nat /\ h(j) \in Nat /\ h(i) \in Nat /\ x[u] \in Nat
      BY <1>1, <1>2, <2>1
    <2> HIDE DEF g, h, left, right, x, y, u, z, i
    <2>6. left[j] - left[i] = x[u]
      BY <2>2, <2>4, <2>5
    <2>7. right[j] - right[i] = x[u]
      <3>1. right[j] = g(a) + h(j) /\ right[i] = g(a) + h(i) /\ h(j) = h(i) + x[u]
        BY <2>2, <2>4
      <3> QED
        BY ONLY <2>5, <3>1
    <2>8. left[j] - left[i] = right[j] - right[i]
      BY <2>6, <2>7
    <2> QED
      BY <2>8 DEF i
  <1>7. b \in 0..b /\ left[b] = g(a + b) /\ right[b] = g(a) + h(b)
    OBVIOUS
  <1>8. left[b] = right[b]
    <2> HIDE DEF left, right, g, h, x, y
    <2>1. \A j \in 0..b : left[j] \in Int /\ right[j] \in Int
      BY <1>5
    <2>2. \A j \in 1..b : left[j] - left[j - 1] = right[j] - right[j - 1]
      BY <1>6
    <2> QED
      BY ONLY b \in Nat, b \in 0..b, <1>4, <2>1, <2>2, SameSteps
  <1> QED
    BY <1>7, <1>8

Begins(q, r, a) == \A j \in 1..a : q[j] = r[j]

Covers(w, b) == 1..b \subseteq DOMAIN w
PrefixCount(l, b) == \A j \in 1..b : l[j] \in Nat

LEMMA AgreeOwn ==
    ASSUME NEW b \in Nat, NEW w, NEW k, NEW v, NEW l, NEW t, PrefixCount(l, b),
           Covers(w, b), Covers(v, b), Begins(w, v, b), Begins(k, l, b)
    PROVE  OwnSum(w, k, t, b) = OwnSum(v, l, t, b)
  <1> DEFINE x == OwnKps(w, k, t)
             y == OwnKps(v, l, t)
  <1>1. \A j \in 1..b : x[j] = y[j] /\ y[j] \in Nat
    BY DEF OwnKps, Begins, PrefixCount, Covers
  <1> HIDE DEF x, y
  <1>2. SumUpto(x, b) = SumUpto(y, b)
    BY <1>1, SameSums
  <1> QED
    BY <1>2 DEF OwnSum, x, y

LEMMA SameOwn ==
    ASSUME NEW b \in Nat, NEW w, NEW k, NEW v, NEW l \in Counts(b), NEW t,
           1..b \subseteq DOMAIN w, DOMAIN v = 1..b, Begins(w, v, b), Begins(k, l, b)
    PROVE  OwnSum(w, k, t, b) = OwnSum(v, l, t, b)
  <1> DEFINE x == OwnKps(w, k, t)
             y == OwnKps(v, l, t)
  <1>1. \A j \in 1..b : x[j] = y[j]
    BY DEF OwnKps, Begins
  <1>2. \A j \in 1..b : y[j] \in Nat
    BY OwnType
  <1> HIDE DEF x, y
  <1>3. SumUpto(x, b) = SumUpto(y, b)
    BY <1>1, <1>2, SameSums
  <1> QED
    BY <1>3 DEF OwnSum, x, y

LEMMA ConcatIs ==
    ASSUME NEW a \in Nat, NEW b \in Nat, NEW S, NEW q \in [1..a -> S], NEW r \in [1..b -> S]
    PROVE  /\ q \o r \in [1..(a + b) -> S]
           /\ Begins(q \o r, q, a) /\ Continues(q \o r, r, a, b)
  <1>1. q \in Seq(S) /\ Len(q) = a /\ r \in Seq(S) /\ Len(r) = b
    OBVIOUS
  <1> DEFINE s == q \o r
  <1>2. s \in Seq(S) /\ Len(s) = a + b
    BY <1>1
  <1>3. \A j \in 1..a : s[j] = q[j]
    BY <1>1
  <1>4. \A j \in 1..b : s[a + j] = r[j]
    BY <1>1
  <1>5. s \in [1..(a + b) -> S]
    <2> HIDE DEF s
    <2> QED
      BY <1>2
  <1> QED
    BY <1>3, <1>4, <1>5 DEF Begins, Continues

LEMMA SubSeqIs ==
    ASSUME NEW m \in Nat, NEW S, NEW s \in [1..m -> S], NEW d \in Nat, NEW n \in Nat, d + n <= m
    PROVE  /\ SubSeq(s, d + 1, d + n) \in [1..n -> S]
           /\ Continues(s, SubSeq(s, d + 1, d + n), d, n)
  <1>1. s \in Seq(S) /\ Len(s) = m
    OBVIOUS
  <1>2. d + 1 \in 1..(Len(s) + 1) /\ d + n \in ((d + 1) - 1)..Len(s) /\ (d + n) - (d + 1) + 1 = n
    BY <1>1
  <1> DEFINE r == SubSeq(s, d + 1, d + n)
  <1>3. /\ r \in Seq(S) /\ Len(r) = (d + n) - (d + 1) + 1
        /\ \A j \in 1..((d + n) - (d + 1) + 1) : r[j] = s[(d + 1) + j - 1]
    BY <1>1, <1>2, SubSeqProperties
  <1> HIDE DEF r
  <1>4. r \in [1..n -> S]
    BY <1>2, <1>3
  <1>5. ASSUME NEW j \in 1..n PROVE r[j] = s[d + j]
    <2>1. (d + 1) + j - 1 = d + j
      OBVIOUS
    <2> QED
      BY <1>2, <1>3, <2>1
  <1> QED
    BY <1>4, <1>5 DEF r, Continues

-----------------------------------------------------------------------------
(* The pattern behind the prefix has exactly the chosen threads.           *)
LEMMA TailType ==
    ASSUME Ready, NEW c \in Seq(Threads), NEW q, GoodFor(SearchOf(c), q)
    PROVE  /\ q \in [1..(p - start) -> Threads]
           /\ \A t \in Elements(c) : \E j \in 1..(p - start) : q[j] = t
           /\ \A t \in Threads : CountIn(q, t, p - start) <= Allowed(SearchOf(c), t)
  <1>1. SearchOf(c).p = p - start /\ SearchOf(c).mustDo = Elements(c) /\ DOMAIN SearchOf(c).kps = Threads
    BY SearchOfType
  <1> QED
    BY <1>1 DEF GoodFor

LEMMA TailChosen ==
    ASSUME Ready, NEW c \in Seq(Threads), NEW q, GoodFor(SearchOf(c), q), NEW t \in Elements(c)
    PROVE  /\ t \in Threads /\ CountIn(q, t, p - start) \in Nat
           /\ CountIn(q, t, p - start) >= 1
           /\ pool[t] >= 1 => CountIn(q, t, p - start) <= pool[t]
           /\ pool[t] = 0 => CountIn(q, t, p - start) = 1
  <1> DEFINE m == p - start
             s == SearchOf(c)
  <1>1. m \in Nat /\ t \in Threads /\ pool[t] \in Nat
    <2>1. Elements(c) \in SUBSET Threads /\ m \in Nat
      BY SearchOfType, ReadyType
    <2>2. pool \in [Threads -> Nat]
      BY DEF Ready
    <2> QED
      BY <2>1, <2>2
  <1>2. s.kps[t] = pool[t] /\ t \in s.mustDo
    <2>1. s.kps = ChosenKps(c) /\ s.mustDo = Elements(c)
      BY SearchOfType
    <2> HIDE DEF s
    <2> QED
      BY <1>1, <2>1 DEF ChosenKps
  <1>3. Allowed(s, t) = IF pool[t] >= 1 THEN pool[t] ELSE 1
    <2> HIDE DEF s
    <2> QED
      BY <1>2 DEF Allowed
  <1>4. /\ \E j \in 1..m : q[j] = t
        /\ CountIn(q, t, m) <= Allowed(s, t)
    BY <1>1, TailType
  <1>5. CountIn(q, t, m) \in Nat
    BY <1>1, CountType
  <1>6. CountIn(q, t, m) > 0
    <2> HIDE DEF m
    <2> QED
      BY <1>1, <1>4, CountPositive
  <1> DEFINE n == CountIn(q, t, m)
  <1> HIDE DEF n
  <1>7. n \in Nat /\ n > 0 /\ n <= (IF pool[t] >= 1 THEN pool[t] ELSE 1)
    BY <1>3, <1>4, <1>5, <1>6 DEF n
  <1>8. /\ n >= 1
        /\ pool[t] >= 1 => n <= pool[t]
        /\ pool[t] = 0 => n = 1
    BY <1>1, <1>7
  <1> QED
    BY <1>1, <1>5, <1>8 DEF n

LEMMA TailOthers ==
    ASSUME Ready, NEW c \in Seq(Threads), NEW q, GoodFor(SearchOf(c), q),
           NEW t \in Threads, t \notin Elements(c)
    PROVE  CountIn(q, t, p - start) = 0
  <1> DEFINE m == p - start
             s == SearchOf(c)
  <1>1. s.kps[t] = 0 /\ t \notin s.mustDo
    <2>1. s.kps = ChosenKps(c) /\ s.mustDo = Elements(c)
      BY SearchOfType
    <2> HIDE DEF s
    <2> QED
      BY <2>1 DEF ChosenKps
  <1>2. Allowed(s, t) = 0
    <2> HIDE DEF s
    <2> QED
      BY <1>1 DEF Allowed
  <1>3. CountIn(q, t, m) <= Allowed(s, t)
    BY TailType
  <1>4. CountIn(q, t, m) \in Nat
    <2>1. m \in Nat
      BY ReadyType
    <2> HIDE DEF m
    <2> QED
      BY <2>1, CountType
  <1> QED
    BY <1>2, <1>3, <1>4

LEMMA TailRange ==
    ASSUME Ready, NEW c \in Seq(Threads), NEW q, GoodFor(SearchOf(c), q), NEW j \in 1..(p - start)
    PROVE  q[j] \in Elements(c)
  <1>1. q[j] \in Threads
    BY TailType
  <1>2. CountIn(q, q[j], p - start) > 0
    <2> DEFINE m == p - start
    <2>1. m \in Nat /\ j \in 1..m
      BY ReadyType
    <2> HIDE DEF m
    <2>2. CountIn(q, q[j], m) > 0
      BY <2>1, CountPositive
    <2> QED
      BY <2>2 DEF m
  <1> QED
    BY <1>1, <1>2, TailOthers

-----------------------------------------------------------------------------
(* The prefix to keep as a pattern and counts. *)
FixedPattern == [j \in 1..start |-> fixed[j].thread]
FixedCount == [j \in 1..start |-> fixed[j].kps]

LEMMA FixedIs ==
    ASSUME Ready
    PROVE  /\ FixedPattern \in [1..start -> Threads] /\ FixedCount \in Counts(start)
           /\ \A j \in 1..start : FixedPattern[j] = fixed[j].thread /\ FixedCount[j] = fixed[j].kps
           /\ \A t : OwnSum(FixedPattern, FixedCount, t, start) = Used(fixed, t)
  <1> DEFINE R == [thread : Threads, kps : Nat \ {0}]
  <1>1. fixed \in Seq(R) /\ start = Len(fixed)
    BY DEF Ready, start
  <1>2. \A r \in R : r.thread \in Threads /\ r.kps \in Nat \ {0}
    OBVIOUS
  <1> HIDE DEF R
  <1>3. DOMAIN fixed = 1..start /\ \A j \in 1..start : fixed[j] \in R
    BY <1>1
  <1>4. \A j \in 1..start : fixed[j].thread \in Threads /\ fixed[j].kps \in Nat \ {0}
    BY <1>2, <1>3
  <1>5. FixedPattern \in [1..start -> Threads] /\ FixedCount \in Counts(start)
    BY <1>4 DEF FixedPattern, FixedCount, Counts
  <1>6. \A j \in 1..start : FixedPattern[j] = fixed[j].thread /\ FixedCount[j] = fixed[j].kps
    BY DEF FixedPattern, FixedCount
  <1>7. ASSUME NEW t PROVE OwnSum(FixedPattern, FixedCount, t, start) = Used(fixed, t)
    <2>1. DOMAIN FixedPattern = DOMAIN fixed
      BY <1>3, <1>5
    <2>2. OwnKps(FixedPattern, FixedCount, t) =
              [j \in DOMAIN fixed |-> IF fixed[j].thread = t THEN fixed[j].kps ELSE 0]
      BY <1>3, <1>6, <2>1 DEF OwnKps
    <2> QED
      BY <1>1, <2>2 DEF OwnSum, Used
  <1> QED
    BY <1>5, <1>6, <1>7

(* A choice of threads c, a pattern w and counts k the scheduler may have. *)
TailOf(w) == [j \in 1..(p - start) |-> w[start + j]]
Shape(c, w, k) ==
    /\ Eligible(c) /\ w \in [1..p -> Threads] /\ k \in Counts(p)
    /\ \A j \in 1..start : w[j] = fixed[j].thread
    /\ \A j \in 1..(start - 1) : k[j] = fixed[j].kps
    /\ GoodFor(SearchOf(c), TailOf(w))
RunsThread(c, w, k, t) ==
    IF t \in Elements(c)
    THEN \/ OwnSum(w, k, t, p) = kps[t]
         \/ pool[t] = 0 /\ OwnSum(w, k, t, p) > kps[t]
    ELSE OwnSum(w, k, t, p) = Used(fixed, t)
Totals(c, w, k) == \A t \in Threads : RunsThread(c, w, k, t)

LEMMA FreshShape ==
    ASSUME Ready, NEW c, Eligible(c), NEW q, GoodFor(SearchOf(c), q)
    PROVE  /\ Shape(c, FixedPattern \o q, FixedCount \o InitSched(ChosenKps(c), q))
           /\ Totals(c, FixedPattern \o q, FixedCount \o InitSched(ChosenKps(c), q))
           /\ TailOf(FixedPattern \o q) = q
  <1> DEFINE m == p - start
             i == InitSched(ChosenKps(c), q)
             w == FixedPattern \o q
             k == FixedCount \o i
  <1>1. /\ c \in Seq(Threads) /\ m \in Nat /\ start \in Nat /\ start + m = p /\ p \in Nat
    BY ReadyType DEF Eligible, Sorted
  <1>2. q \in [1..m -> Threads] /\ ChosenKps(c) \in [Threads -> Nat]
    BY <1>1, TailType, SearchOfType
  <1>3. i \in Counts(m)
    <2> HIDE DEF m
    <2> QED
      BY <1>1, <1>2, InitSchedIs
  <1>4. /\ FixedPattern \in [1..start -> Threads] /\ FixedCount \in Counts(start)
        /\ \A j \in 1..start : FixedPattern[j] = fixed[j].thread /\ FixedCount[j] = fixed[j].kps
        /\ \A t : OwnSum(FixedPattern, FixedCount, t, start) = Used(fixed, t)
    BY FixedIs
  <1> HIDE DEF m, i
  <1>5. /\ w \in [1..(start + m) -> Threads]
        /\ Begins(w, FixedPattern, start) /\ Continues(w, q, start, m)
    BY <1>1, <1>2, <1>4, ConcatIs
  <1>6. /\ k \in [1..(start + m) -> Nat \ {0}]
        /\ Begins(k, FixedCount, start) /\ Continues(k, i, start, m)
    <2>1. FixedCount \in [1..start -> Nat \ {0}] /\ i \in [1..m -> Nat \ {0}]
      BY <1>3, <1>4 DEF Counts
    <2> QED
      BY <1>1, <2>1, ConcatIs
  <1> HIDE DEF w, k
  <1>7. w \in [1..p -> Threads] /\ k \in Counts(p)
    BY <1>1, <1>5, <1>6 DEF Counts
  <1>8. TailOf(w) = q
    <2>1. TailOf(w) = [j \in 1..m |-> w[start + j]]
      BY DEF TailOf, m
    <2>2. q = [j \in 1..m |-> q[j]]
      BY <1>2
    <2> QED
      BY <1>5, <2>1, <2>2 DEF Continues
  <1>9. Shape(c, w, k)
    <2>1. \A j \in 1..start : w[j] = fixed[j].thread
      BY <1>4, <1>5 DEF Begins
    <2>2. \A j \in 1..(start - 1) : k[j] = fixed[j].kps
      <3>1. \A j \in 1..(start - 1) : j \in 1..start
        BY <1>1
      <3> QED
        BY <1>4, <1>6, <3>1 DEF Begins
    <2> QED
      BY <1>7, <1>8, <2>1, <2>2 DEF Shape
  <1>10. ASSUME NEW t \in Threads PROVE RunsThread(c, w, k, t)
    <2>1. OwnSum(w, k, t, start + m) = OwnSum(w, k, t, start) + OwnSum(q, i, t, m)
      <3>1. DOMAIN w = 1..(start + m) /\ k \in Counts(start + m) /\ DOMAIN q = 1..m
        BY <1>1, <1>2, <1>5, <1>7
      <3>2. Continues(w, q, start, m) /\ Continues(k, i, start, m)
        BY <1>5, <1>6
      <3> QED
        BY <1>1, <1>3, <3>1, <3>2, OwnSumOn
    <2>2. OwnSum(w, k, t, start) = Used(fixed, t)
      <3>1. 1..start \subseteq DOMAIN w /\ DOMAIN FixedPattern = 1..start
        BY <1>1, <1>4, <1>5
      <3>2. Begins(w, FixedPattern, start) /\ Begins(k, FixedCount, start)
        BY <1>5, <1>6
      <3>3. OwnSum(w, k, t, start) = OwnSum(FixedPattern, FixedCount, t, start)
        BY <1>1, <1>4, <3>1, <3>2, SameOwn
      <3> QED
        BY <1>4, <3>3
    <2>3. OwnSum(q, i, t, m) = Given(ChosenKps(c), q, t, m)
      BY <1>1, <1>2, InitSchedSum DEF i
    <2>4. /\ Used(fixed, t) \in Nat /\ kps[t] = Used(fixed, t) + pool[t]
          /\ pool[t] \in Nat /\ kps[t] \in Nat
      BY DEF Ready
    <2> DEFINE o == OwnSum(w, k, t, p)
               u == Used(fixed, t)
    <2>5. o = u + Given(ChosenKps(c), q, t, m)
      BY <1>1, <2>1, <2>2, <2>3
    <2>6. CASE t \in Elements(c)
      <3> DEFINE n == CountIn(q, t, m)
      <3>1. /\ n \in Nat /\ n >= 1
            /\ pool[t] >= 1 => n <= pool[t]
            /\ pool[t] = 0 => n = 1
        BY <1>1, <2>6, TailChosen DEF m
      <3>2. ChosenKps(c)[t] = pool[t]
        BY <2>6 DEF ChosenKps
      <3>3. Given(ChosenKps(c), q, t, m) = IF n = 0 THEN 0 ELSE IF n >= pool[t] THEN n ELSE pool[t]
        BY <3>2 DEF Given
      <3> HIDE DEF n, o, u
      <3>4. CASE pool[t] = 0
        <4>1. o = u + n
          BY <2>5, <3>1, <3>3, <3>4
        <4>2. o > kps[t]
          BY <2>4, <3>1, <3>4, <4>1 DEF u
        <4> QED
          BY <2>6, <3>4, <4>2 DEF RunsThread, o
      <3>5. CASE pool[t] # 0
        <4>1. pool[t] >= 1
          BY <2>4, <3>5
        <4>2. (IF n = 0 THEN 0 ELSE IF n >= pool[t] THEN n ELSE pool[t]) = pool[t]
          BY <2>4, <3>1, <4>1
        <4>3. o = kps[t]
          BY <2>4, <2>5, <3>3, <4>2 DEF u
        <4> QED
          BY <2>6, <4>3 DEF RunsThread, o
      <3> QED
        BY <3>4, <3>5
    <2>7. CASE t \notin Elements(c)
      <3>1. CountIn(q, t, m) = 0
        BY <1>1, <2>7, TailOthers DEF m
      <3>2. Given(ChosenKps(c), q, t, m) = 0
        BY <3>1 DEF Given
      <3> HIDE DEF o, u
      <3>3. o = u
        BY <2>4, <2>5, <3>2 DEF u
      <3> QED
        BY <2>7, <3>3 DEF RunsThread, o, u
    <2> QED
      BY <2>6, <2>7
  <1>11. Totals(c, w, k)
    BY <1>10 DEF Totals
  <1> QED
    BY <1>8, <1>9, <1>11 DEF w, k, i

-----------------------------------------------------------------------------
(* The order in which the counts of one pattern come: by the counts of the *)
(* least thread, then by those of the next one.                            *)
LaterCounts(w, k, l, m) ==
    \E e \in 1..m : /\ k[e] < l[e]
                    /\ \A j \in 1..m : w[j] < w[e] \/ (w[j] = w[e] /\ j < e) => k[j] = l[j]

WithLast(c) == [t \in Threads |-> ChosenKps(c)[t] + (IF t = last THEN lastCount ELSE 0)]

LEMMA FromIs ==
    ASSUME Ready
    PROVE  from = (IF start = 0 THEN 1 ELSE start) /\ from \in 1..p /\ from - 1 \in Nat
  <1>1. start \in Nat /\ p \in Nat /\ p - start \in Nat /\ p - start >= 1
    BY ReadyType
  <1> DEFINE a == start
  <1>2. a \in Nat
    BY <1>1
  <1> HIDE DEF a
  <1>3. Max({1, a}) = IF 1 >= a THEN 1 ELSE a
    BY <1>2, MaxOfTwo
  <1>4. from = IF 1 >= a THEN 1 ELSE a
    BY <1>3 DEF from, a
  <1>5. from = IF a = 0 THEN 1 ELSE a
    BY <1>2, <1>4
  <1>6. from = IF start = 0 THEN 1 ELSE start
    BY <1>5 DEF a
  <1> QED
    BY <1>1, <1>6

(* What _next_sched sees: the periods from the last one of the prefix on.  *)
Seen1(w) == SubSeq(w, from, p)
MovedCounts(c, w, k) == SubSeq(k, 1, from - 1) \o NextSched(WithLast(c), Seen1(k), Seen1(w))
Length == p - from + 1

LEMMA SeenIs ==
    ASSUME Ready, NEW S, NEW w \in [1..p -> S]
    PROVE  /\ Length \in Nat /\ (from - 1) + Length = p /\ Length >= 1
           /\ Seen1(w) \in [1..Length -> S]
           /\ Continues(w, Seen1(w), from - 1, Length)
           /\ SubSeq(w, 1, from - 1) \in [1..(from - 1) -> S]
           /\ Begins(SubSeq(w, 1, from - 1), w, from - 1)
  <1>1. from \in 1..p /\ from - 1 \in Nat /\ p \in Nat
    BY FromIs, ReadyType
  <1> DEFINE d == from - 1
             n == Length
  <1>2. d \in Nat /\ n \in Nat /\ n >= 1 /\ d + n = p /\ d + 1 = from /\ d <= p
    BY <1>1 DEF Length
  <1> HIDE DEF d, n
  <1>3. /\ SubSeq(w, d + 1, d + n) \in [1..n -> S]
        /\ Continues(w, SubSeq(w, d + 1, d + n), d, n)
    <2>1. d + n <= p
      BY <1>1, <1>2
    <2> QED
      BY <1>1, <1>2, <2>1, SubSeqIs
  <1>4. /\ SubSeq(w, 0 + 1, 0 + d) \in [1..d -> S]
        /\ Continues(w, SubSeq(w, 0 + 1, 0 + d), 0, d)
    <2>1. 0 + d <= p /\ 0 \in Nat
      BY <1>1, <1>2
    <2> QED
      BY <1>1, <1>2, <2>1, SubSeqIs
  <1>5. 0 + 1 = 1 /\ 0 + d = d
    BY <1>2
  <1>6. SubSeq(w, 1, d) \in [1..d -> S] /\ Continues(w, SubSeq(w, 1, d), 0, d)
    BY <1>4, <1>5
  <1>7. Begins(SubSeq(w, 1, d), w, d)
    <2>1. \A j \in 1..d : 0 + j = j
      BY <1>2
    <2> QED
      BY <1>6, <2>1 DEF Begins, Continues
  <1>8. Seen1(w) = SubSeq(w, d + 1, d + n)
    BY <1>2 DEF Seen1
  <1> QED
    BY <1>2, <1>3, <1>6, <1>7, <1>8 DEF d, n

(* What the periods before from and those from it on hold of a thread.     *)
LEMMA SumsFrom ==
    ASSUME Ready, NEW w \in [1..p -> Threads], NEW k \in Counts(p), NEW t
    PROVE  /\ OwnSum(w, k, t, p) =
                  OwnSum(w, k, t, from - 1) + OwnSum(Seen1(w), Seen1(k), t, Length)
           /\ OwnSum(w, k, t, from - 1) \in Nat /\ OwnSum(Seen1(w), Seen1(k), t, Length) \in Nat
  <1> DEFINE a == from - 1
             b == Length
  <1>1. a \in Nat /\ b \in Nat /\ a + b = p /\ Seen1(w) \in [1..b -> Threads]
        /\ Continues(w, Seen1(w), a, b)
    BY FromIs, SeenIs
  <1>2. Seen1(k) \in Counts(b) /\ Continues(k, Seen1(k), a, b)
    <2>1. k \in [1..p -> Nat \ {0}]
      BY DEF Counts
    <2> QED
      BY <2>1, SeenIs DEF Counts
  <1> HIDE DEF a, b
  <1>3. DOMAIN w = 1..(a + b) /\ k \in Counts(a + b) /\ DOMAIN Seen1(w) = 1..b
    BY <1>1
  <1>4. OwnSum(w, k, t, a + b) = OwnSum(w, k, t, a) + OwnSum(Seen1(w), Seen1(k), t, b)
    BY <1>1, <1>2, <1>3, OwnSumOn
  <1>5. OwnSum(w, k, t, a) \in Nat
    <2>1. p \in Nat /\ a \in 0..p /\ DOMAIN w = 1..p
      BY <1>1, ReadyType
    <2>2. \A j \in 0..p : OwnSum(w, k, t, j) \in Nat
      BY <2>1, OwnType
    <2> QED
      BY <2>1, <2>2
  <1>6. OwnSum(Seen1(w), Seen1(k), t, b) \in Nat
    <2>1. b \in 0..b
      BY <1>1
    <2> DEFINE v == Seen1(w)
               l == Seen1(k)
    <2>2. DOMAIN v = 1..b /\ l \in Counts(b)
      BY <1>2, <1>3
    <2> HIDE DEF v, l
    <2>3. \A j \in 0..b : OwnSum(v, l, t, j) \in Nat
      BY <1>1, <2>2, OwnType
    <2> QED
      BY <2>1, <2>3 DEF v, l
  <1> QED
    BY <1>1, <1>4, <1>5, <1>6 DEF a, b

(* The periods of the prefix before from. *)
LEMMA SumBefore ==
    ASSUME Ready, NEW w \in [1..p -> Threads], NEW k \in Counts(p), NEW t \in Threads,
           \A j \in 1..start : w[j] = fixed[j].thread,
           \A j \in 1..(start - 1) : k[j] = fixed[j].kps
    PROVE  Used(fixed, t) = OwnSum(w, k, t, from - 1) + (IF t = last THEN lastCount ELSE 0)
  <1>1. start \in Nat /\ p \in Nat /\ p - start \in Nat /\ Used(fixed, t) \in Nat
    BY ReadyType DEF Ready
  <1>2. /\ FixedPattern \in [1..start -> Threads] /\ FixedCount \in Counts(start)
        /\ \A j \in 1..start : FixedPattern[j] = fixed[j].thread /\ FixedCount[j] = fixed[j].kps
        /\ \A u : OwnSum(FixedPattern, FixedCount, u, start) = Used(fixed, u)
    BY FixedIs
  <1>3. DOMAIN FixedPattern = 1..start
    BY <1>2
  <1> DEFINE g(j) == OwnSum(FixedPattern, FixedCount, t, j)
             x == OwnKps(FixedPattern, FixedCount, t)
  <1>4. /\ \A j \in 1..start : x[j] = IF FixedPattern[j] = t THEN FixedCount[j] ELSE 0
        /\ g(0) = 0
        /\ \A j \in 1..start : g(j) = g(j - 1) + x[j]
        /\ \A j \in 0..start : g(j) \in Nat
    <2>1. /\ \A j \in 1..start : OwnKps(FixedPattern, FixedCount, t)[j] \in Nat
          /\ \A j \in 1..start : OwnKps(FixedPattern, FixedCount, t)[j] = IF FixedPattern[j] = t THEN FixedCount[j] ELSE 0
          /\ OwnSum(FixedPattern, FixedCount, t, 0) = 0
          /\ \A j \in 1..start : OwnSum(FixedPattern, FixedCount, t, j) = OwnSum(FixedPattern, FixedCount, t, j - 1) + OwnKps(FixedPattern, FixedCount, t)[j]
          /\ \A j \in 0..start : OwnSum(FixedPattern, FixedCount, t, j) \in Nat
      BY <1>1, <1>2, <1>3, OwnType
    <2> QED
      BY <2>1
  <1> HIDE DEF g, x
  <1>5. g(start) = Used(fixed, t)
    BY <1>2 DEF g
  <1>6. CASE start = 0
    <2>1. from - 1 = 0 /\ last = NoThread
      BY <1>6, FromIs, ReadyType
    <2>2. t # last
      <3>1. t \in Nat
        BY ReadyType
      <3> QED
        BY <2>1, <3>1 DEF NoThread
    <2>3. OwnSum(w, k, t, 0) = 0
      <3>1. DOMAIN w = 1..p
        OBVIOUS
      <3> QED
        BY <1>1, <3>1, OwnType
    <2>4. Used(fixed, t) = 0
      BY <1>4, <1>5, <1>6
    <2>5. OwnSum(w, k, t, from - 1) = 0
      BY <2>1, <2>3
    <2> QED
      BY <2>2, <2>4, <2>5
  <1>7. CASE start # 0
    <2> DEFINE a == start - 1
    <2>1. /\ from - 1 = a /\ a \in Nat /\ a \in 0..start /\ start \in 1..start /\ start \in DOMAIN fixed
          /\ last = fixed[start].thread /\ lastCount = fixed[start].kps /\ lastCount \in Nat
      BY <1>1, <1>7, FromIs, ReadyType
    <2>2. g(start) = g(a) + x[start] /\ g(a) \in Nat
      BY <1>4, <2>1
    <2>3. x[start] = IF t = last THEN lastCount ELSE 0
      BY <1>2, <1>4, <2>1
    <2>4. OwnSum(w, k, t, a) = g(a)
      <3>0. \A j \in 1..a : j \in 1..start /\ j \in 1..p /\ j \in 1..(start - 1)
        BY <1>1
      <3>1. PrefixCount(FixedCount, a)
        BY <1>2, <3>0 DEF Counts, PrefixCount
      <3>2. Begins(w, FixedPattern, a) /\ Begins(k, FixedCount, a)
        BY <1>2, <3>0 DEF Begins
      <3>3. Covers(w, a) /\ Covers(FixedPattern, a)
        BY <1>3, <3>0 DEF Covers
      <3>4. a \in Nat
        BY <2>1
      <3> HIDE DEF a
      <3>5. OwnSum(w, k, t, a) = OwnSum(FixedPattern, FixedCount, t, a)
        BY ONLY <3>1, <3>2, <3>3, <3>4, AgreeOwn
      <3> QED
        BY <3>5 DEF g
    <2>5. OwnSum(w, k, t, from - 1) = g(a)
      BY <2>1, <2>4
    <2> DEFINE y == OwnSum(w, k, t, from - 1)
    <2> HIDE DEF y, a
    <2>6. y = g(a)
      BY <2>5 DEF y
    <2>7. Used(fixed, t) = y + (IF t = last THEN lastCount ELSE 0)
      BY <1>5, <2>2, <2>3, <2>6
    <2> QED
      BY <2>7 DEF y
  <1> QED
    BY <1>6, <1>7

(* The periods of a thread from from on: those behind the prefix, and the  *)
(* last one of the prefix if it is the thread's.                           *)
LEMMA WindowCount ==
    ASSUME Ready, NEW w \in [1..p -> Threads], \A j \in 1..start : w[j] = fixed[j].thread,
           NEW t \in Threads
    PROVE  CountIn(Seen1(w), t, Length) =
               CountIn(TailOf(w), t, p - start) + (IF t = last THEN 1 ELSE 0)
  <1>1. /\ start \in Nat /\ p \in Nat /\ p - start \in Nat /\ t \in Nat
        /\ from = (IF start = 0 THEN 1 ELSE start) /\ Length \in Nat
        /\ Length = p - from + 1
    BY ReadyType, FromIs, SeenIs DEF Length
  <1> DEFINE d == from - 1
             n == Length
             v == Seen1(w)
             r == TailOf(w)
             m == p - start
  <1>2. Continues(w, v, d, n) /\ d + n = p
    BY SeenIs
  <1>3. \A j \in 1..m : r[j] = w[start + j]
    BY DEF TailOf
  <1>4. m \in Nat /\ n \in Nat
    BY <1>1
  <1> HIDE DEF v, r
  <1>5. CASE start = 0
    <2>1. d = 0 /\ n = m /\ last = NoThread
      BY <1>1, <1>5, ReadyType
    <2>2. \A j \in 1..m : start + j = d + j
      BY <2>1, <1>5
    <2>3. \A j \in 1..m : v[j] = r[j]
      BY <1>2, <1>3, <2>1, <2>2 DEF Continues
    <2> HIDE DEF d, n, m
    <2>4. CountIn(v, t, m) = CountIn(r, t, m)
      BY <1>4, <2>3, SameCounts
    <2>5. CountIn(r, t, m) \in Nat
      BY <1>4, CountType
    <2>6. t # last
      BY <1>1, <2>1 DEF NoThread
    <2> QED
      BY <2>1, <2>4, <2>5, <2>6 DEF v, r, n, m
  <1>6. CASE start # 0
    <2>1. d = start - 1 /\ n = 1 + m /\ last = fixed[start].thread /\ start \in 1..start
      BY <1>1, <1>6, ReadyType
    <2>2. \A j \in 1..m : 1 + j \in 1..n /\ d + (1 + j) = start + j
      BY <1>1, <2>1, <1>4
    <2>3. Continues(v, r, 1, m)
      BY <1>2, <1>3, <2>2 DEF Continues
    <2>4. v[1] = last
      <3>1. 1 \in 1..n /\ d + 1 = start
        BY <1>1, <2>1, <1>4
      <3>2. v[1] = w[start]
        BY <1>2, <3>1 DEF Continues
      <3> QED
        BY <2>1, <3>2
    <2> HIDE DEF d, n, m
    <2>5. CountIn(v, t, 1 + m) = CountIn(v, t, 1) + CountIn(r, t, m)
      BY <1>4, <2>3, CountOn
    <2>6. CountIn(v, t, 1) = IF t = last THEN 1 ELSE 0
      BY <2>4, CountOne DEF Owns
    <2>7. CountIn(r, t, m) \in Nat
      BY <1>4, CountType
    <2> QED
      BY <2>1, <2>5, <2>6, <2>7 DEF v, r, n, m
  <1> QED
    BY <1>5, <1>6

RunsRight(c, t, o) ==
    IF t \in Elements(c)
    THEN o = kps[t] \/ (pool[t] = 0 /\ o > kps[t])
    ELSE o = Used(fixed, t)

LEMMA WithLastType ==
    ASSUME Ready, NEW c \in Seq(Threads)
    PROVE  WithLast(c) \in [Threads -> Nat]
  <1>1. ChosenKps(c) \in [Threads -> Nat] /\ lastCount \in Nat
    BY SearchOfType, ReadyType
  <1> QED
    BY <1>1 DEF WithLast

(* A thread that starts over runs as many KPs as it has to.                *)
LEMMA GivenRight ==
    ASSUME Ready, NEW c, NEW w, NEW k, Shape(c, w, k), NEW t \in Threads
    PROVE  RunsRight(c, t, OwnSum(w, k, t, from - 1) + Given(WithLast(c), Seen1(w), t, Length))
  <1>1. /\ c \in Seq(Threads) /\ w \in [1..p -> Threads] /\ k \in Counts(p)
        /\ \A j \in 1..start : w[j] = fixed[j].thread
        /\ \A j \in 1..(start - 1) : k[j] = fixed[j].kps
        /\ GoodFor(SearchOf(c), TailOf(w))
    BY DEF Shape, Eligible, Sorted
  <1> DEFINE n == CountIn(TailOf(w), t, p - start)
             y == CountIn(Seen1(w), t, Length)
             b == OwnSum(w, k, t, from - 1)
             u == Used(fixed, t)
             lc == lastCount
             z == pool[t]
             g == Given(WithLast(c), Seen1(w), t, Length)
  <1>2. y = n + (IF t = last THEN 1 ELSE 0)
    BY <1>1, WindowCount
  <1>3. u = b + (IF t = last THEN lc ELSE 0)
    BY <1>1, SumBefore
  <1>4. b \in Nat
    BY <1>1, SumsFrom
  <1>5. u \in Nat /\ z \in Nat /\ kps[t] = u + z /\ lc \in Nat
    BY ReadyType DEF Ready
  <1>6. t = last => lc >= 1
    <2>1. t \in Nat /\ start \in Nat
      BY ReadyType
    <2> QED
      BY <2>1, ReadyType DEF NoThread
  <1>7. WithLast(c)[t] = (IF t \in Elements(c) THEN z ELSE 0) + (IF t = last THEN lc ELSE 0)
    BY DEF WithLast, ChosenKps
  <1>8. g = IF y = 0 THEN 0 ELSE IF y >= WithLast(c)[t] THEN y ELSE WithLast(c)[t]
    BY DEF Given
  <1>9. n \in Nat
    <2> DEFINE m == p - start
    <2>1. m \in Nat
      BY ReadyType
    <2> HIDE DEF m
    <2>2. CountIn(TailOf(w), t, m) \in Nat
      BY <2>1, CountType
    <2> QED
      BY <2>2 DEF m
  <1>10. CASE t \in Elements(c)
    <2>1. n >= 1 /\ (z >= 1 => n <= z) /\ (z = 0 => n = 1)
      BY <1>1, <1>10, TailChosen
    <2> DEFINE kk == WithLast(c)[t]
    <2>2. kk = z + (IF t = last THEN lc ELSE 0)
      BY <1>7, <1>10
    <2>3. g = IF y = 0 THEN 0 ELSE IF y >= kk THEN y ELSE kk
      BY <1>8
    <2> HIDE DEF n, y, b, u, lc, z, g, kk
    <2>4. b + g = kps[t] \/ (z = 0 /\ b + g > kps[t])
      <3>1. CASE t = last
        <4>1. y = n + 1 /\ u = b + lc /\ kk = z + lc /\ lc >= 1 /\ y # 0
          BY <1>2, <1>3, <1>6, <1>9, <2>2, <3>1
        <4>2. g = IF y >= kk THEN y ELSE kk
          BY <2>3, <4>1
        <4> QED
          BY <1>4, <1>5, <1>9, <2>1, <4>1, <4>2
      <3>2. CASE t # last
        <4>1. y = n /\ u = b /\ kk = z /\ y # 0
          BY <1>2, <1>3, <1>4, <1>5, <1>9, <2>1, <2>2, <3>2
        <4>2. g = IF y >= kk THEN y ELSE kk
          BY <2>3, <4>1
        <4> QED
          BY <1>4, <1>5, <1>9, <2>1, <4>1, <4>2
      <3> QED
        BY <3>1, <3>2
    <2> QED
      BY <1>10, <2>4 DEF RunsRight, b, g, z
  <1>11. CASE t \notin Elements(c)
    <2>1. n = 0
      BY <1>1, <1>11, TailOthers
    <2> DEFINE kk == WithLast(c)[t]
    <2>2. kk = IF t = last THEN lc ELSE 0
      BY <1>5, <1>7, <1>11
    <2>3. g = IF y = 0 THEN 0 ELSE IF y >= kk THEN y ELSE kk
      BY <1>8
    <2> HIDE DEF n, y, b, u, lc, z, g, kk
    <2>4. b + g = u
      BY <1>2, <1>3, <1>4, <1>5, <1>6, <2>1, <2>2, <2>3
    <2> QED
      BY <1>11, <2>4 DEF RunsRight, b, g, u
  <1> QED
    BY <1>10, <1>11

(* What _next_sched returns for the periods from from on, put behind the   *)
(* periods before them.                                                    *)
LEMMA MovedCountsIs ==
    ASSUME Ready, NEW k \in Counts(p), NEW new \in Counts(Length)
    PROVE  /\ SubSeq(k, 1, from - 1) \o new \in Counts(p)
           /\ Begins(SubSeq(k, 1, from - 1) \o new, k, from - 1)
           /\ Continues(SubSeq(k, 1, from - 1) \o new, new, from - 1, Length)
  <1> DEFINE S == Nat \ {0}
             d == from - 1
             n == Length
             h == SubSeq(k, 1, d)
             l == h \o new
  <1>1. k \in [1..p -> S] /\ new \in [1..n -> S] /\ d \in Nat
    BY FromIs DEF Counts
  <1> HIDE DEF S
  <1>2. n \in Nat /\ d + n = p /\ h \in [1..d -> S] /\ Begins(h, k, d)
    BY <1>1, SeenIs
  <1> HIDE DEF d, n, h
  <1>3. l \in [1..(d + n) -> S] /\ Begins(l, h, d) /\ Continues(l, new, d, n)
    BY <1>1, <1>2, ConcatIs
  <1> HIDE DEF l
  <1>4. Begins(l, k, d)
    BY <1>2, <1>3 DEF Begins
  <1>5. l \in Counts(p)
    BY <1>2, <1>3 DEF Counts, S
  <1> QED
    BY <1>3, <1>4, <1>5 DEF l, h, d, n

LEMMA SeenCounts ==
    ASSUME Ready, NEW k \in Counts(p)
    PROVE  Seen1(k) \in Counts(Length) /\ Continues(k, Seen1(k), from - 1, Length)
  <1>1. k \in [1..p -> Nat \ {0}]
    BY DEF Counts
  <1>2. Seen1(k) \in [1..Length -> Nat \ {0}] /\ Continues(k, Seen1(k), from - 1, Length)
    BY <1>1, SeenIs
  <1> QED
    BY <1>2 DEF Counts

(* The sum of the moved counts. *)
LEMMA MovedSum ==
    ASSUME Ready, NEW w \in [1..p -> Threads], NEW k \in Counts(p), NEW new \in Counts(Length),
           NEW l \in Counts(p), Begins(l, k, from - 1), Continues(l, new, from - 1, Length), NEW t
    PROVE  OwnSum(w, l, t, p) = OwnSum(w, k, t, from - 1) + OwnSum(Seen1(w), new, t, Length)
  <1> DEFINE d == from - 1
             n == Length
             v == Seen1(w)
  <1>1. d \in Nat /\ n \in Nat /\ d + n = p /\ v \in [1..n -> Threads] /\ Continues(w, v, d, n)
        /\ p \in Nat
    BY FromIs, SeenIs, ReadyType
  <1> HIDE DEF d, n, v
  <1>2. DOMAIN w = 1..(d + n) /\ l \in Counts(d + n) /\ DOMAIN v = 1..n /\ new \in Counts(n)
        /\ Continues(l, new, d, n) /\ Begins(l, k, d)
    BY <1>1 DEF d, n
  <1>3. OwnSum(w, l, t, d + n) = OwnSum(w, l, t, d) + OwnSum(v, new, t, n)
    BY <1>1, <1>2, OwnSumOn
  <1>4. Covers(w, d) /\ Begins(w, w, d) /\ PrefixCount(k, d)
    <2>1. \A j \in 1..d : j \in 1..p
      BY <1>1
    <2> QED
      BY <1>1, <1>2, <2>1 DEF Covers, Begins, PrefixCount, Counts
  <1>5. OwnSum(w, l, t, d) = OwnSum(w, k, t, d)
    BY <1>1, <1>2, <1>4, AgreeOwn
  <1> QED
    BY <1>1, <1>3, <1>5 DEF d, n, v

(* The counts _next_sched makes are counts of the same threads and pattern. *)
LEMMA MovedShape ==
    ASSUME Ready, NEW c, NEW w, NEW k, Shape(c, w, k), Totals(c, w, k),
           NextSched(WithLast(c), Seen1(k), Seen1(w)) # None
    PROVE  /\ Shape(c, w, MovedCounts(c, w, k)) /\ Totals(c, w, MovedCounts(c, w, k))
           /\ LaterCounts(w, k, MovedCounts(c, w, k), p)
  <1>1. /\ c \in Seq(Threads) /\ w \in [1..p -> Threads] /\ k \in Counts(p)
        /\ \A j \in 1..start : w[j] = fixed[j].thread
        /\ \A j \in 1..(start - 1) : k[j] = fixed[j].kps
        /\ Eligible(c) /\ GoodFor(SearchOf(c), TailOf(w))
    BY DEF Shape, Eligible, Sorted
  <1> DEFINE kk == WithLast(c)
             v == Seen1(w)
             h == Seen1(k)
             new == NextSched(kk, h, v)
             l == SubSeq(k, 1, from - 1) \o new
             d == from - 1
             n == Length
  <1>2. /\ N \in Nat /\ Threads = 0..(N - 1) /\ Threads \in SUBSET Nat /\ n \in Nat /\ d \in Nat
        /\ d + n = p /\ v \in [1..n -> Threads] /\ kk \in [Threads -> Nat] /\ h \in Counts(n)
        /\ Continues(w, v, d, n) /\ Continues(k, h, d, n)
    BY <1>1, ReadyType, SeenIs, SeenCounts, FromIs, WithLastType
  <1>3. new # None
    OBVIOUS
  <1> HIDE DEF kk, v, h, n
  <1>4. \E x \in Threads : \E a, e \in 1..n : Moves(kk, v, h, new, n, x, a, e)
    BY <1>2, <1>3, NextSchedIs
  <1> HIDE DEF new
  <1>5. PICK x \in Threads : \E a, e \in 1..n : Moves(kk, v, h, new, n, x, a, e)
    BY <1>4
  <1>6. PICK a \in 1..n, e \in 1..n : Moves(kk, v, h, new, n, x, a, e)
    BY <1>5
  <1>7. new \in Counts(n)
    BY <1>6 DEF Moves
  <1>8. l \in Counts(p) /\ Begins(l, k, d) /\ Continues(l, new, d, n)
    BY <1>1, <1>7, MovedCountsIs DEF n
  <1>9. MovedCounts(c, w, k) = l
    BY DEF MovedCounts, kk, v, h, new
  <1> HIDE DEF l, d
  <1>10. Shape(c, w, l)
    <2>1. \A j \in 1..(start - 1) : j \in 1..d
      BY FromIs, ReadyType DEF d
    <2>2. \A j \in 1..(start - 1) : l[j] = fixed[j].kps
      BY <1>1, <1>8, <2>1 DEF Begins
    <2> QED
      BY <1>1, <1>8, <2>2 DEF Shape
  <1>11. ASSUME NEW t \in Threads PROVE RunsThread(c, w, l, t)
    <2>1. OwnSum(w, l, t, p) = OwnSum(w, k, t, d) + OwnSum(v, new, t, n)
      BY <1>1, <1>7, <1>8, MovedSum DEF d, n, v
    <2>2. CASE t <= x
      <3>1. OwnSum(v, new, t, n) = OwnSum(v, h, t, n)
        <4>1. n \in Nat /\ Threads \in SUBSET Nat /\ v \in [1..n -> Threads] /\ h \in Counts(n)
          BY <1>2
        <4> QED
          BY ONLY <4>1, <1>6, <2>2, x \in Threads, t \in Threads, MovesKeeps
      <3>2. OwnSum(w, k, t, p) = OwnSum(w, k, t, d) + OwnSum(v, h, t, n)
        BY <1>1, SumsFrom DEF d, n, v, h
      <3>3. OwnSum(w, l, t, p) = OwnSum(w, k, t, p)
        BY <2>1, <3>1, <3>2
      <3>4. RunsThread(c, w, k, t)
        BY DEF Totals
      <3> QED
        BY <3>3, <3>4 DEF RunsThread
    <2>3. CASE t > x
      <3>1. OwnSum(v, new, t, n) = Given(kk, v, t, n)
        <4>1. n \in Nat /\ Threads \in SUBSET Nat /\ v \in [1..n -> Threads] /\ h \in Counts(n)
              /\ kk \in [Threads -> Nat]
          BY <1>2
        <4> QED
          BY ONLY <4>1, <1>6, <2>3, x \in Threads, t \in Threads, MovesRestarts
      <3>2. RunsRight(c, t, OwnSum(w, k, t, d) + Given(kk, v, t, n))
        BY GivenRight DEF d, kk, v, n
      <3>3. RunsRight(c, t, OwnSum(w, l, t, p))
        BY <2>1, <3>1, <3>2
      <3> QED
        BY <3>3 DEF RunsRight, RunsThread
    <2> QED
      BY <1>2, <2>2, <2>3
  <1>12. LaterCounts(w, k, l, p)
    <2> DEFINE b == d + e
    <2>1. b \in 1..p /\ e \in 1..n /\ p \in Nat
      BY <1>2, <1>6, ReadyType
    <2>2. w[b] = x /\ k[b] = h[e] /\ l[b] = new[e]
      BY <1>2, <1>6, <1>8 DEF Continues, Moves
    <2>3. k[b] < l[b]
      <3>1. h[e] \in Nat /\ new[e] = h[e] + 1
        BY <1>2, <1>6 DEF Moves, Counts
      <3> QED
        BY <2>2, <3>1
    <2>4. ASSUME NEW j \in 1..p, w[j] < w[b] \/ (w[j] = w[b] /\ j < b) PROVE k[j] = l[j]
      <3>1. CASE j <= d
        <4>1. j \in 1..d
          BY <3>1
        <4> QED
          BY <1>8, <4>1 DEF Begins
      <3>2. CASE j > d
        <4> DEFINE i == j - d
        <4>1. i \in 1..n /\ d + i = j
          BY <1>2, <3>2
        <4>2. w[j] = v[i] /\ k[j] = h[i] /\ l[j] = new[i]
          BY <1>2, <1>8, <4>1 DEF Continues
        <4>3. v[i] < x \/ (v[i] = x /\ i < e)
          <5>1. j < b => i < e
            BY <1>2, <1>6
          <5> QED
            BY <2>2, <2>4, <4>2, <5>1
        <4>4. v[i] \in Nat /\ x \in Nat /\ e < a /\ v[a] = x /\ v[e] = x /\ a \in Nat /\ e \in Nat
          BY <1>2, <1>6, <4>1 DEF Moves
        <4>5. i # a /\ i # e /\ ~(v[i] > x)
          BY <4>1, <4>3, <4>4
        <4>6. new[i] = h[i]
          BY <1>6, <4>1, <4>5 DEF Moves
        <4> QED
          BY <4>2, <4>6
      <3> QED
        BY <1>2, <3>1, <3>2
    <2> HIDE DEF b
    <2> QED
      BY <2>1, <2>3, <2>4 DEF LaterCounts
  <1> QED
    BY <1>9, <1>10, <1>11, <1>12 DEF Totals

-----------------------------------------------------------------------------
(* The schedule of a choice of threads, a pattern and counts. *)
Dumped(c, t) == IF t \in Elements(c) THEN 0 ELSE pool[t]
RunIn(c, w, k, j, t) ==
    (IF t = w[j] THEN k[j] ELSE 0) + (IF j = p THEN Dumped(c, t) ELSE 0)
SchedOf(c, w, k) == [j \in 1..p |-> [t \in Threads |-> RunIn(c, w, k, j, t)]]

LEMMA SchedIs ==
    ASSUME Ready, ckps = ChosenKps(chosen), chosen \in Seq(Threads)
    PROVE  Sched = SchedOf(chosen, pattern, count)
  <1>1. ASSUME NEW j, NEW t \in Threads
        PROVE  (IF j = p /\ ckps[t] = 0 THEN pool[t] ELSE 0) = (IF j = p THEN Dumped(chosen, t) ELSE 0)
    <2>1. ckps[t] = IF t \in Elements(chosen) THEN pool[t] ELSE 0
      BY DEF ChosenKps
    <2> QED
      BY <2>1 DEF Dumped
  <1> QED
    BY <1>1 DEF Sched, SchedOf, RunIn

LEMMA RunInType ==
    ASSUME Ready, NEW c, NEW w, NEW k \in Counts(p), NEW j \in 1..p, NEW t \in Threads
    PROVE  /\ Dumped(c, t) \in Nat
           /\ RunIn(c, w, k, j, t) \in Nat
           /\ SchedOf(c, w, k)[j][t] = RunIn(c, w, k, j, t)
           /\ DOMAIN SchedOf(c, w, k) = 1..p
  <1>1. pool[t] \in Nat /\ k[j] \in Nat
    BY DEF Ready, Counts
  <1>2. Dumped(c, t) \in Nat
    BY <1>1 DEF Dumped
  <1>3. RunIn(c, w, k, j, t) \in Nat
    BY <1>1, <1>2 DEF RunIn
  <1>4. SchedOf(c, w, k)[j] = [u \in Threads |-> RunIn(c, w, k, j, u)] /\ DOMAIN SchedOf(c, w, k) = 1..p
    BY DEF SchedOf
  <1> QED
    BY <1>2, <1>3, <1>4

LEMMA SchedSum ==
    ASSUME Ready, NEW c, NEW w \in [1..p -> Threads], NEW k \in Counts(p), NEW t \in Threads
    PROVE  Upto(SchedOf(c, w, k), t, p) = OwnSum(w, k, t, p) + Dumped(c, t)
  <1> DEFINE s == SchedOf(c, w, k)
             x == OwnKps(w, k, t)
             y == [j \in DOMAIN s |-> s[j][t]]
             m == p - 1
  <1>1. p \in Nat /\ m \in Nat /\ p \in 1..p /\ p \in 0..p /\ m \in 0..p /\ DOMAIN w = 1..p
    BY ReadyType
  <1>2. Dumped(c, t) \in Nat
    BY <1>1, RunInType
  <1>3. /\ \A j \in 1..p : x[j] = IF w[j] = t THEN k[j] ELSE 0
        /\ \A j \in 1..p : x[j] \in Nat
        /\ \A j \in 1..p : OwnSum(w, k, t, j) = OwnSum(w, k, t, j - 1) + x[j]
        /\ \A j \in 0..p : OwnSum(w, k, t, j) \in Nat
    <2>1. /\ \A j \in 1..p : OwnKps(w, k, t)[j] \in Nat
          /\ \A j \in 1..p : OwnKps(w, k, t)[j] = IF w[j] = t THEN k[j] ELSE 0
          /\ OwnSum(w, k, t, 0) = 0
          /\ \A j \in 1..p : OwnSum(w, k, t, j) = OwnSum(w, k, t, j - 1) + OwnKps(w, k, t)[j]
          /\ \A j \in 0..p : OwnSum(w, k, t, j) \in Nat
      BY <1>1, OwnType
    <2> QED
      BY <2>1
  <1>4. ASSUME NEW j \in 1..p
        PROVE  /\ y[j] \in Nat
               /\ y[j] = x[j] + (IF j = p THEN Dumped(c, t) ELSE 0)
    <2>1. RunIn(c, w, k, j, t) \in Nat /\ s[j][t] = RunIn(c, w, k, j, t) /\ DOMAIN s = 1..p
      BY RunInType
    <2>2. y[j] = RunIn(c, w, k, j, t)
      BY <2>1
    <2>3. RunIn(c, w, k, j, t) = x[j] + (IF j = p THEN Dumped(c, t) ELSE 0)
      BY <1>3 DEF RunIn
    <2> QED
      BY <2>1, <2>2, <2>3
  <1>5. Upto(s, t, p) = SumUpto(y, p) /\ OwnSum(w, k, t, m) = SumUpto(x, m)
    BY DEF Upto, OwnSum
  <1> HIDE DEF x, y, s
  <1>6. SumUpto(y, p) = SumUpto(y, p - 1) + y[p]
    <2>1. /\ SumUpto(y, 0) = 0
          /\ \A j \in 1..p : SumUpto(y, j) = SumUpto(y, j - 1) + y[j]
          /\ \A j \in 0..p : SumUpto(y, j) \in Nat
      BY <1>1, <1>4, SumSteps
    <2> QED
      BY <1>1, <2>1
  <1>7. SumUpto(y, m) = SumUpto(x, m)
    <2>1. \A j \in 1..m : y[j] = x[j] /\ x[j] \in Nat
      <3>1. \A j \in 1..m : j \in 1..p /\ j # p
        BY <1>1
      <3> QED
        BY <1>3, <1>4, <3>1
    <2> HIDE DEF m
    <2> QED
      BY <1>1, <2>1, SameSums
  <1>8. OwnSum(w, k, t, p) = OwnSum(w, k, t, p - 1) + x[p] /\ OwnSum(w, k, t, p - 1) \in Nat
    BY <1>1, <1>3
  <1>9. y[p] = x[p] + Dumped(c, t) /\ x[p] \in Nat
    BY <1>1, <1>3, <1>4
  <1> QED
    BY <1>2, <1>5, <1>6, <1>7, <1>8, <1>9 DEF s

(* The schedule runs all KPs.  *)
LEMMA SchedRuns ==
    ASSUME Ready, NEW c, NEW w, NEW k, Shape(c, w, k), Totals(c, w, k), NEW t \in Threads
    PROVE  LET scheduled == Upto(SchedOf(c, w, k), t, p)
           IN  scheduled = kps[t] \/ (pool[t] = 0 /\ scheduled > kps[t])
  <1>1. Upto(SchedOf(c, w, k), t, p) = OwnSum(w, k, t, p) + Dumped(c, t)
    BY SchedSum DEF Shape
  <1>2. OwnSum(w, k, t, p) \in Nat
    <2>1. p \in Nat /\ p \in 0..p /\ w \in [1..p -> Threads] /\ k \in Counts(p)
      BY ReadyType DEF Shape
    <2>2. \A j \in 0..p : OwnSum(w, k, t, j) \in Nat
      BY <2>1, OwnType
    <2> QED
      BY <2>1, <2>2
  <1>3. Used(fixed, t) \in Nat /\ kps[t] = Used(fixed, t) + pool[t] /\ pool[t] \in Nat /\ kps[t] \in Nat
    BY DEF Ready
  <1>4. RunsThread(c, w, k, t)
    BY DEF Totals
  <1>5. CASE t \in Elements(c)
    BY <1>1, <1>2, <1>3, <1>4, <1>5 DEF RunsThread, Dumped
  <1>6. CASE t \notin Elements(c)
    BY <1>1, <1>2, <1>3, <1>4, <1>6 DEF RunsThread, Dumped
  <1> QED
    BY <1>5, <1>6

(* The yields made from it follow it. *)
LEMMA SchedYields ==
    ASSUME Ready, NEW c, NEW w, NEW k, Shape(c, w, k), Totals(c, w, k), NEW t \in Threads,
           NEW i \in 1..kps[t]
    PROVE  YieldsUpto(YieldPattern(kps, SchedOf(c, w, k)), t, i) = PeriodOf(SchedOf(c, w, k), t, i) - 1
  <1> DEFINE s == SchedOf(c, w, k)
  <1>1. p \in Nat /\ 1 \in 1..p /\ k \in Counts(p) /\ kps[t] \in Nat /\ DOMAIN kps = Threads
    BY ReadyType DEF Shape, Ready, Threads
  <1>2. DOMAIN s = 1..p /\ \A j \in 1..p : s[j][t] \in Nat
    <2>1. DOMAIN s = 1..p
      BY DEF SchedOf
    <2>2. ASSUME NEW j \in 1..p PROVE s[j][t] \in Nat
      <3>1. RunIn(c, w, k, j, t) \in Nat /\ s[j][t] = RunIn(c, w, k, j, t)
        BY <1>1, RunInType
      <3> HIDE DEF s
      <3> QED
        BY <3>1
    <2> HIDE DEF s
    <2> QED
      BY <2>1, <2>2
  <1>3. Upto(s, t, p) >= kps[t]
    <2> DEFINE o == Upto(s, t, p)
    <2>1. o = kps[t] \/ (pool[t] = 0 /\ o > kps[t])
      BY SchedRuns
    <2> HIDE DEF o, s
    <2>3. \A j \in 0..p : Upto(s, t, j) \in Nat
      BY <1>1, <1>2, UptoSteps
    <2>4. o \in Nat
      BY <1>1, <2>3 DEF o
    <2>2. o >= kps[t]
      BY <1>1, <2>1, <2>4
    <2> QED
      BY <2>2 DEF o
  <1>4. t \in DOMAIN kps
    BY <1>1
  <1> HIDE DEF s
  <1>5. YieldsUpto(YieldPattern(kps, s), t, i) = PeriodOf(s, t, i) - 1
    BY <1>1, <1>2, <1>3, <1>4, YieldsLeadToPeriods
  <1> QED
    BY <1>5 DEF s

-----------------------------------------------------------------------------
(* What the operators say of a choice does not depend on the variables that *)
(* change when the schedules are yielded.                                  *)
Static == <<kps, p, fixed, pool>>

LEMMA StaticParts ==
    ASSUME UNCHANGED Static
    PROVE  /\ Threads' = Threads /\ N' = N /\ start' = start /\ last' = last
           /\ lastCount' = lastCount /\ from' = from /\ Length' = Length
  <1>1. kps' = kps /\ p' = p /\ fixed' = fixed /\ pool' = pool
    BY DEF Static
  <1>2. Threads' = Threads /\ start' = start
    BY <1>1 DEF Threads, start
  <1>3. last' = last /\ lastCount' = lastCount /\ from' = from
    BY <1>1, <1>2 DEF last, lastCount, from
  <1>4. N' = N /\ Length' = Length
    BY <1>1, <1>2, <1>3 DEF N, Length
  <1> QED
    BY <1>2, <1>3, <1>4

LEMMA StaticReady ==
    ASSUME UNCHANGED Static
    PROVE  Ready' = Ready
  <1>1. kps' = kps /\ p' = p /\ fixed' = fixed /\ pool' = pool
    BY DEF Static
  <1>2. Threads' = Threads /\ N' = N
    BY StaticParts
  <1> QED
    BY <1>1, <1>2 DEF Ready

LEMMA StaticChosen ==
    ASSUME UNCHANGED Static, NEW c
    PROVE  ChosenKps(c)' = ChosenKps(c)
  <1>1. pool' = pool /\ Threads' = Threads
    BY StaticParts DEF Static
  <1> QED
    BY <1>1 DEF ChosenKps

LEMMA StaticSearch ==
    ASSUME UNCHANGED Static, NEW c
    PROVE  SearchOf(c)' = SearchOf(c)
  <1>1. p' = p /\ start' = start /\ last' = last /\ ChosenKps(c)' = ChosenKps(c)
    BY StaticParts, StaticChosen DEF Static
  <1> QED
    BY <1>1 DEF SearchOf

LEMMA StaticShape ==
    ASSUME UNCHANGED Static, NEW c, NEW w, NEW k
    PROVE  Shape(c, w, k)' = Shape(c, w, k)
  <1>1. /\ p' = p /\ start' = start /\ Threads' = Threads /\ fixed' = fixed
        /\ SearchOf(c)' = SearchOf(c)
    BY StaticParts, StaticSearch DEF Static
  <1>2. Eligible(c)' = Eligible(c)
    BY <1>1 DEF Eligible, Sorted
  <1>3. TailOf(w)' = TailOf(w)
    BY <1>1 DEF TailOf
  <1>4. GoodFor(SearchOf(c), TailOf(w))' = GoodFor(SearchOf(c), TailOf(w))
    BY <1>1, <1>3 DEF GoodFor
  <1>5. Counts(p)' = Counts(p)
    BY <1>1 DEF Counts
  <1> QED
    BY <1>1, <1>2, <1>4, <1>5 DEF Shape

LEMMA StaticTotals ==
    ASSUME UNCHANGED Static, NEW c, NEW w, NEW k
    PROVE  Totals(c, w, k)' = Totals(c, w, k)
  <1>1. kps' = kps /\ p' = p /\ Threads' = Threads /\ fixed' = fixed /\ pool' = pool
    BY StaticParts DEF Static
  <1>2. ASSUME NEW t PROVE RunsThread(c, w, k, t)' = RunsThread(c, w, k, t)
    BY <1>1 DEF RunsThread
  <1> QED
    BY <1>1, <1>2 DEF Totals

LEMMA StaticPrimed ==
    ASSUME UNCHANGED Static, Shape(chosen', pattern', count'), Totals(chosen', pattern', count')
    PROVE  Shape(chosen, pattern, count)' /\ Totals(chosen, pattern, count)'
  BY StaticShape, StaticTotals

-----------------------------------------------------------------------------
(* The input of the constructor. *)
Sizes ==
    /\ N \in Nat \ {0} /\ Threads = 0..(N - 1)
    /\ kps \in [Threads -> Nat]
    /\ p \in Nat \ {0}
    /\ fixed \in Seq([thread : Threads, kps : Nat \ {0}])

LEMMA UsedType ==
    ASSUME NEW T, NEW fix \in Seq([thread : T, kps : Nat \ {0}]), NEW t
    PROVE  Used(fix, t) \in Nat
  <1> DEFINE R == [thread : T, kps : Nat \ {0}]
             x == [j \in DOMAIN fix |-> IF fix[j].thread = t THEN fix[j].kps ELSE 0]
             n == Len(fix)
  <1>1. \A r \in R : r.kps \in Nat
    OBVIOUS
  <1>2. fix \in Seq(R) /\ n \in Nat /\ DOMAIN fix = 1..n
    OBVIOUS
  <1> HIDE DEF R, n
  <1>3. \A j \in 1..n : fix[j] \in R
    BY <1>2 DEF n
  <1>4. \A j \in 1..n : x[j] \in Nat
    BY <1>1, <1>2, <1>3
  <1>5. Used(fix, t) = SumUpto(x, n)
    BY DEF Used, n
  <1> HIDE DEF x
  <1>6. n \in 0..n
    BY <1>2
  <1>7. \A j \in 0..n : SumUpto(x, j) \in Nat
    <2>1. /\ SumUpto(x, 0) = 0
          /\ \A j \in 1..n : SumUpto(x, j) = SumUpto(x, j - 1) + x[j]
          /\ \A j \in 0..n : SumUpto(x, j) \in Nat
      BY <1>2, <1>4, SumSteps
    <2> QED
      BY <2>1
  <1> QED
    BY <1>5, <1>6, <1>7

LEMMA InitSizes == Init => Sizes
  <1> SUFFICES ASSUME Init PROVE Sizes
    OBVIOUS
  <1>1. PICK input \in Inputs : kps = input.kps /\ p = input.p /\ fixed = input.prefix
    BY DEF Init
  <1>2. /\ IsFiniteSet(Threads) /\ Threads # {}
        /\ kps \in [0..(Cardinality(Threads) - 1) -> Nat]
        /\ p \in Nat \ {0}
        /\ fixed \in Seq([thread : Threads, kps : Nat \ {0}])
    BY <1>1, InputsAssumption DEF Threads
  <1>3. N \in Nat /\ N # 0
    BY <1>2, FS_CardinalityType, FS_EmptySet DEF N
  <1>4. Threads = 0..(N - 1)
    BY <1>2 DEF N, Threads
  <1> QED
    BY <1>2, <1>3, <1>4 DEF Sizes, N

(* _init_helper: the KPs are at least those of the prefix, the others are  *)
(* the pool.                                                               *)
LEMMA HelperReady ==
    ASSUME Sizes, InitHelper
    PROVE  Ready'
  <1>1. /\ kps' = [t \in Threads |-> Max({kps[t], Used(fixed, t)})]
        /\ pool' = [t \in Threads |-> kps'[t] - Used(fixed, t)]
        /\ p' = p /\ fixed' = fixed /\ Len(fixed) < p
    BY DEF InitHelper, start
  <1>2. Threads' = Threads
    BY <1>1 DEF Threads
  <1>3. N' = N
    BY <1>2 DEF N
  <1>4. ASSUME NEW t \in Threads
        PROVE  /\ kps'[t] \in Nat /\ pool'[t] \in Nat /\ Used(fixed, t) \in Nat
               /\ kps'[t] = Used(fixed, t) + pool'[t]
    <2> DEFINE u == Used(fixed, t)
    <2>1. u \in Nat
      BY UsedType DEF Sizes
    <2>2. kps[t] \in Nat
      BY DEF Sizes
    <2>3. Max({kps[t], u}) = IF kps[t] >= u THEN kps[t] ELSE u
      BY <2>1, <2>2, MaxOfTwo
    <2>4. kps'[t] = (IF kps[t] >= u THEN kps[t] ELSE u) /\ pool'[t] = kps'[t] - u
      BY <1>1, <2>3
    <2> HIDE DEF u
    <2>5. kps'[t] \in Nat /\ pool'[t] \in Nat /\ u \in Nat /\ kps'[t] = u + pool'[t]
      BY <2>1, <2>2, <2>4
    <2> QED
      BY <2>5 DEF u
  <1>5. kps' \in [Threads -> Nat] /\ pool' \in [Threads -> Nat]
    BY <1>1, <1>4
  <1>6. \A t \in Threads : Used(fixed', t) = Used(fixed, t)
    BY <1>1
  <1> QED
    BY <1>1, <1>2, <1>3, <1>4, <1>5, <1>6 DEF Ready, Sizes

-----------------------------------------------------------------------------
(* The choice, the pattern and the counts while there are schedules.       *)
Choosing ==
    /\ Shape(chosen, pattern, count) /\ Totals(chosen, pattern, count)
    /\ ckps = ChosenKps(chosen)

PrefixOfSched == prefix = SubSeq(Sched, 1, Len(prefix)) /\ prefix # <<>>

(* The inductive invariant of the scheduler.                               *)
SchedInv ==
    /\ iter \in {"new", "helped", "first", "next", "refused", "stopped"}
    /\ Sizes
    /\ iter \notin {"new", "refused"} => Ready
    /\ iter \in {"first", "next"} => Choosing /\ PrefixOfSched
    /\ iter = "stopped" => pattern \in [1..p -> Threads] /\ count \in Counts(p)

(* The threads and counts on, the schedule is that of the choice.          *)
LEMMA ChoosingSched ==
    ASSUME Ready, Choosing
    PROVE  Sched = SchedOf(chosen, pattern, count)
  <1>1. chosen \in Seq(Threads) /\ ckps = ChosenKps(chosen)
    BY DEF Choosing, Shape, Eligible, Sorted
  <1> QED
    BY <1>1, SchedIs

(* A beginning of the schedule that is at least one period long. *)
LEMMA BeginningIs ==
    ASSUME NEW m \in Nat, NEW s, DOMAIN s = 1..m, s = [j \in 1..m |-> s[j]], NEW n \in 1..m
    PROVE  /\ SubSeq(s, 1, n) = SubSeq(s, 1, Len(SubSeq(s, 1, n)))
           /\ SubSeq(s, 1, n) # <<>>
  <1> DEFINE S == {s[j] : j \in 1..m}
             r == SubSeq(s, 1, n)
  <1>1. s \in [1..m -> S]
    OBVIOUS
  <1> HIDE DEF S
  <1>2. 0 \in Nat /\ n \in Nat /\ 0 + n <= m /\ 0 + 1 = 1 /\ 0 + n = n
    OBVIOUS
  <1>3. SubSeq(s, 0 + 1, 0 + n) \in [1..n -> S]
    BY <1>1, <1>2, SubSeqIs
  <1>4. r \in [1..n -> S]
    BY <1>2, <1>3
  <1> HIDE DEF r
  <1>5. Len(r) = n /\ r # <<>>
    <2>1. r \in Seq(S) /\ DOMAIN r = 1..n
      BY <1>4
    <2> QED
      BY <1>2, <2>1
  <1>6. SubSeq(s, 1, Len(r)) = r
    BY <1>5 DEF r
  <1> QED
    BY <1>5, <1>6 DEF r

LEMMA SchedDomain ==
    DOMAIN Sched = 1..p /\ Sched = [j \in 1..p |-> Sched[j]]
  BY DEF Sched

LEMMA SchedPrimed ==
    DOMAIN Sched' = 1..p' /\ Sched' = [j \in 1..p' |-> Sched'[j]]
  BY DEF Sched

(* The prefix up to the first change is the beginning of the new schedule. *)
LEMMA ChangedBegins ==
    ASSUME NEW m \in Nat \ {0}, NEW s, DOMAIN s = 1..m, s = [j \in 1..m |-> s[j]], NEW before
    PROVE  /\ ChangedPrefix(s, before) = SubSeq(s, 1, Len(ChangedPrefix(s, before)))
           /\ ChangedPrefix(s, before) # <<>>
  <1> DEFINE C == {j \in DOMAIN s : s[j] # before[j]}
             r == ChangedPrefix(s, before)
  <1>1. r = IF C = {} THEN s ELSE SubSeq(s, 1, Min(C))
    BY DEF ChangedPrefix
  <1>2. CASE C = {}
    <2>1. r = s
      BY <1>1, <1>2
    <2> DEFINE S == {s[j] : j \in 1..m}
    <2>2. s \in [1..m -> S]
      OBVIOUS
    <2> HIDE DEF S, C, r
    <2>3. s \in Seq(S) /\ Len(s) = m /\ s # <<>>
      BY <2>2
    <2>4. SubSeq(s, 1, Len(s)) = s
      <3>1. 1 \in 1..(Len(s) + 1) /\ Len(s) \in (1 - 1)..Len(s)
        BY <2>3
      <3> DEFINE z == SubSeq(s, 1, Len(s))
      <3>2. /\ z \in Seq(S) /\ Len(z) = Len(s) - 1 + 1
            /\ \A j \in 1..(Len(s) - 1 + 1) : z[j] = s[1 + j - 1]
        BY <2>3, <3>1, SubSeqProperties
      <3> HIDE DEF z
      <3>3. z \in Seq(S) /\ Len(z) = m
        BY <2>3, <3>2
      <3>4. ASSUME NEW j \in 1..m PROVE z[j] = s[j]
        <4>1. j \in 1..(Len(s) - 1 + 1) /\ 1 + j - 1 = j
          BY <2>3
        <4> QED
          BY <3>2, <4>1
      <3>5. z = s
        BY <2>3, <3>3, <3>4
      <3> QED
        BY <3>5 DEF z
    <2> QED
      BY <2>1, <2>3, <2>4 DEF r
  <1>3. CASE C # {}
    <2>1. C \in SUBSET Nat /\ C \in SUBSET (1..m)
      OBVIOUS
    <2> HIDE DEF C
    <2>2. Min(C) \in C
      BY <1>3, <2>1, MinOfSet
    <2> DEFINE n == Min(C)
    <2>3. n \in 1..m /\ m \in Nat
      BY <2>1, <2>2
    <2>4. r = SubSeq(s, 1, n)
      BY <1>1, <1>3
    <2> HIDE DEF n, r
    <2>5. SubSeq(s, 1, n) = SubSeq(s, 1, Len(SubSeq(s, 1, n))) /\ SubSeq(s, 1, n) # <<>>
      BY <2>3, BeginningIs
    <2> QED
      BY <2>4, <2>5 DEF r
  <1> QED
    BY <1>2, <1>3

LEMMA EmptyEligible ==
    ASSUME Ready
    PROVE  Eligible(<<>>)
  <1>1. p - start \in Nat
    BY ReadyType
  <1>2. <<>> \in Seq(Threads) /\ Len(<<>>) = 0
    OBVIOUS
  <1> QED
    BY <1>1, <1>2 DEF Eligible, Sorted

(* A new choice of threads, or a new pattern, starts with the least counts. *)
LEMMA FreshChoosing ==
    ASSUME Ready, UNCHANGED Static, NEW q, GoodFor(SearchOf(chosen'), q), Eligible(chosen'),
           ckps' = ChosenKps(chosen'), pattern' = FixedPattern \o q,
           count' = FixedCount \o InitSched(ckps', q)
    PROVE  Ready' /\ Choosing'
  <1>1. /\ Shape(chosen', FixedPattern \o q, FixedCount \o InitSched(ChosenKps(chosen'), q))
        /\ Totals(chosen', FixedPattern \o q, FixedCount \o InitSched(ChosenKps(chosen'), q))
    BY FreshShape
  <1>2. Shape(chosen', pattern', count') /\ Totals(chosen', pattern', count')
    BY <1>1
  <1>3. Shape(chosen, pattern, count)' /\ Totals(chosen, pattern, count)'
    BY <1>2, StaticPrimed
  <1>4. ckps' = ChosenKps(chosen)'
    BY StaticChosen
  <1> QED
    BY <1>3, <1>4, StaticReady DEF Choosing

LEMMA ConstructIs ==
    ASSUME Construct
    PROVE  /\ iter = "helped" /\ UNCHANGED Static /\ UNCHANGED <<all, emitted, yields>>
           /\ iter' = IF ConstructChoice.pattern = None THEN "refused" ELSE "first"
           /\ chosen' = ConstructChoice.chosen
           /\ ckps' = ChosenKps(ConstructChoice.chosen)
           /\ pattern' = FixedPattern \o ConstructChoice.pattern
           /\ count' = FixedCount \o InitSched(ckps', ConstructChoice.pattern)
           /\ prefix' = IF iter' = "refused" THEN <<>> ELSE SubSeq(Sched', 1, Max({1, start}))
  BY DEF Construct, FixedPattern, FixedCount, Static, history

(* The constructor's choice. *)
LEMMA ConstructGood ==
    ASSUME Ready, ConstructChoice.pattern # None
    PROVE  /\ ConstructChoice = NextChoice(<<>>, FALSE)
           /\ Eligible(ConstructChoice.chosen)
           /\ GoodFor(SearchOf(ConstructChoice.chosen), ConstructChoice.pattern)
  <1> DEFINE r == NextChoice(<<>>, FALSE)
  <1>1. ConstructChoice = r
    BY DEF ConstructChoice
  <1>2. ChoiceFrom(<<>>, FALSE, r)
    BY EmptyEligible, NextChoiceIs
  <1> HIDE DEF r
  <1>3. Eligible(r.chosen) /\ GoodFor(SearchOf(r.chosen), r.pattern)
    BY <1>1, <1>2 DEF ChoiceFrom
  <1> QED
    BY <1>1, <1>3 DEF r

LEMMA StaticSizes ==
    ASSUME UNCHANGED Static
    PROVE  Sizes' = Sizes
  <1>1. kps' = kps /\ p' = p /\ fixed' = fixed
    BY DEF Static
  <1>2. Threads' = Threads /\ N' = N
    BY StaticParts
  <1> QED
    BY <1>1, <1>2 DEF Sizes

LEMMA ConstructKeeps ==
    ASSUME SchedInv, Construct
    PROVE  SchedInv'
  <1>1. Ready /\ Sizes
    BY DEF SchedInv, Construct
  <1>2. /\ UNCHANGED Static
        /\ iter' = IF ConstructChoice.pattern = None THEN "refused" ELSE "first"
        /\ chosen' = ConstructChoice.chosen
        /\ ckps' = ChosenKps(ConstructChoice.chosen)
        /\ pattern' = FixedPattern \o ConstructChoice.pattern
        /\ count' = FixedCount \o InitSched(ckps', ConstructChoice.pattern)
        /\ prefix' = IF iter' = "refused" THEN <<>> ELSE SubSeq(Sched', 1, Max({1, start}))
    BY ConstructIs
  <1>3. Ready' /\ Sizes'
    BY <1>1, <1>2, StaticReady, StaticSizes
  <1>4. CASE ConstructChoice.pattern = None
    BY <1>2, <1>3, <1>4 DEF SchedInv
  <1>5. CASE ConstructChoice.pattern # None
    <2>1. /\ Eligible(ConstructChoice.chosen)
          /\ GoodFor(SearchOf(ConstructChoice.chosen), ConstructChoice.pattern)
      BY <1>1, <1>5, ConstructGood
    <2>2. Eligible(chosen') /\ GoodFor(SearchOf(chosen'), ConstructChoice.pattern) /\ ckps' = ChosenKps(chosen')
      BY <1>2, <2>1
    <2>3. Choosing'
      BY <1>1, <1>2, <2>2, FreshChoosing
    <2>4. PrefixOfSched'
      <3>1. prefix' = SubSeq(Sched', 1, from) /\ iter' = "first"
        BY <1>2, <1>5 DEF from
      <3>2. from \in 1..p /\ p \in Nat
        BY <1>1, FromIs, ReadyType
      <3>3. DOMAIN Sched' = 1..p /\ Sched' = [j \in 1..p |-> Sched'[j]]
        BY <1>2, SchedPrimed DEF Static
      <3>4. /\ SubSeq(Sched', 1, from) = SubSeq(Sched', 1, Len(SubSeq(Sched', 1, from)))
            /\ SubSeq(Sched', 1, from) # <<>>
        BY <3>2, <3>3, BeginningIs
      <3> QED
        BY <3>1, <3>4 DEF PrefixOfSched
    <2> QED
      BY <1>2, <1>3, <1>5, <2>3, <2>4 DEF SchedInv
  <1> QED
    BY <1>4, <1>5

(* _next_sched, seen from the counts there are. *)
LEMMA NextCountIs ==
    ASSUME Ready, Choosing
    PROVE  NextCount = NextSched(WithLast(chosen), Seen1(count), Seen1(pattern))
  <1>1. ckps = ChosenKps(chosen)
    BY DEF Choosing
  <1> QED
    BY <1>1 DEF NextCount, WithLast, Seen1

LEMMA MovedChoosing ==
    ASSUME Ready, Choosing, NextIterSched
    PROVE  /\ UNCHANGED Static /\ UNCHANGED <<chosen, ckps, pattern, iter, all>>
           /\ iter = "next"
           /\ count' = MovedCounts(chosen, pattern, count)
           /\ Choosing'
           /\ LaterCounts(pattern, count, count', p)
           /\ prefix' = ChangedPrefix(Sched', Sched) /\ Emit(Sched')
  <1>1. NextCount = NextSched(WithLast(chosen), Seen1(count), Seen1(pattern))
    BY NextCountIs
  <1>2. /\ UNCHANGED Static /\ UNCHANGED <<chosen, ckps, pattern, iter, all>>
        /\ iter = "next" /\ NextCount # None
        /\ count' = SubSeq(count, 1, from - 1) \o NextCount
        /\ prefix' = ChangedPrefix(Sched', Sched) /\ Emit(Sched')
    BY DEF NextIterSched, Static
  <1>3. count' = MovedCounts(chosen, pattern, count)
    BY <1>1, <1>2 DEF MovedCounts
  <1>4. /\ Shape(chosen, pattern, MovedCounts(chosen, pattern, count))
        /\ Totals(chosen, pattern, MovedCounts(chosen, pattern, count))
        /\ LaterCounts(pattern, count, MovedCounts(chosen, pattern, count), p)
    BY <1>1, <1>2, MovedShape DEF Choosing
  <1>5. Shape(chosen', pattern', count') /\ Totals(chosen', pattern', count')
    BY <1>2, <1>3, <1>4
  <1>6. Shape(chosen, pattern, count)' /\ Totals(chosen, pattern, count)'
    BY <1>2, <1>5, StaticPrimed
  <1>7. ckps' = ChosenKps(chosen)'
    BY <1>2, StaticChosen DEF Choosing
  <1> QED
    BY <1>2, <1>3, <1>4, <1>6, <1>7 DEF Choosing

(* What _next_pattern and, behind the last pattern, _next_chosen find.     *)
LaterChoice(c, w, r) ==
    /\ Eligible(r.chosen) /\ GoodFor(SearchOf(r.chosen), r.pattern)
    /\ ~Redundant(r.chosen, r.pattern)
    /\ \/ r.chosen = c /\ Precedes(TailOf(w), r.pattern, p - start)
       \/ Sooner(c, r.chosen)

LEMMA TailIs ==
    ASSUME Ready, NEW w \in [1..p -> Threads]
    PROVE  /\ SubSeq(w, start + 1, p) = TailOf(w)
           /\ SubSeq(w, 1, start) \in [1..start -> Threads]
           /\ Begins(SubSeq(w, 1, start), w, start)
  <1> DEFINE m == p - start
             S == Threads
             a == start
             r == SubSeq(w, a + 1, a + m)
             h == SubSeq(w, 0 + 1, 0 + a)
  <1>1. a \in Nat /\ m \in Nat /\ a + m = p /\ p \in Nat /\ 0 + a = a /\ 0 + 1 = 1 /\ a <= p /\ 0 \in Nat
        /\ a + m <= p /\ 0 + a <= p
    BY ReadyType
  <1>2. w \in [1..p -> S]
    OBVIOUS
  <1> HIDE DEF m, a, S
  <1>3. r \in [1..m -> S] /\ Continues(w, r, a, m)
    BY <1>1, <1>2, SubSeqIs
  <1>4. h \in [1..a -> S] /\ Continues(w, h, 0, a)
    BY <1>1, <1>2, SubSeqIs
  <1>5. r = SubSeq(w, a + 1, p) /\ h = SubSeq(w, 1, a)
    BY <1>1
  <1> HIDE DEF r, h
  <1>6. r = [j \in 1..m |-> w[a + j]]
    BY <1>3 DEF Continues
  <1>7. Begins(h, w, a)
    <2>1. \A j \in 1..a : 0 + j = j
      BY <1>1
    <2> QED
      BY <1>4, <2>1 DEF Continues, Begins
  <1>8. TailOf(w) = [j \in 1..m |-> w[a + j]]
    BY DEF TailOf, m, a
  <1> QED
    BY <1>4, <1>5, <1>6, <1>7, <1>8 DEF a, S

(* Later patterns of the same threads. *)
LEMMA SettledLater ==
    ASSUME Ready, NEW c, Eligible(c), NEW w, GoodFor(SearchOf(c), TailOf(w)), NEW r,
           r = Settle(c, NextPattern(SearchOf(c), TailOf(w))), r # None
    PROVE  LaterChoice(c, w, [chosen |-> c, pattern |-> r])
  <1> DEFINE s == SearchOf(c)
             q == TailOf(w)
             new == NextPattern(s, q)
             m == p - start
  <1>1. /\ c \in Seq(Threads) /\ N \in Nat /\ Threads = 0..(N - 1) /\ s \in Searches(Threads)
        /\ s.p = m /\ m \in Nat /\ Threads \in SUBSET Nat
    BY ReadyType, SearchOfType DEF Eligible, Sorted
  <1>2. GoodFor(s, q) /\ q \in [1..m -> Threads]
    BY <1>1, TailType
  <1>3. r = Settle(c, new)
    OBVIOUS
  <1> HIDE DEF q
  <1>4. new = None \/ (GoodFor(s, new) /\ Precedes(q, new, s.p))
    <2> HIDE DEF s
    <2> QED
      BY <1>1, <1>2, NextPatternGood
  <1>5. new # None
    BY <1>1, <1>3, SettleNone
  <1> HIDE DEF new
  <1>6. GoodFor(s, new) /\ Precedes(q, new, m)
    BY <1>1, <1>4, <1>5
  <1>7. Settled(c, new, r)
    BY <1>1, <1>3, <1>6, SettleGood
  <1>8. GoodFor(s, r) /\ ~Redundant(c, r) /\ (r = new \/ Precedes(new, r, m))
    BY <1>7 DEF Settled
  <1>9. Precedes(q, r, m)
    <2>1. new \in [1..m -> Threads] /\ r \in [1..m -> Threads]
      BY <1>1, <1>6, <1>8, TailType
    <2> HIDE DEF m
    <2>2. CASE r = new
      BY <1>6, <2>2
    <2>3. CASE Precedes(new, r, m)
      BY <1>1, <1>2, <1>6, <2>1, <2>3, PrecedesTransitive
    <2> QED
      BY <1>8, <2>2, <2>3
  <1> QED
    BY <1>8, <1>9 DEF LaterChoice, q

LEMMA NextChoiceLater ==
    ASSUME Ready, Choosing, NextPatternOrChoice.pattern # None
    PROVE  LaterChoice(chosen, pattern, NextPatternOrChoice)
  <1>1. /\ Eligible(chosen) /\ pattern \in [1..p -> Threads]
        /\ GoodFor(SearchOf(chosen), TailOf(pattern))
    BY DEF Choosing, Shape
  <1> DEFINE r == Settle(chosen, NextPattern(SearchOf(chosen), TailOf(pattern)))
             next == NextChoice(chosen, TRUE)
  <1>2. NextPatternOrChoice = IF r # None THEN [chosen |-> chosen, pattern |-> r] ELSE next
    BY <1>1, TailIs DEF NextPatternOrChoice
  <1>3. CASE r # None
    BY <1>1, <1>2, <1>3, SettledLater
  <1>4. CASE r = None
    <2>1. ChoiceFrom(chosen, TRUE, next)
      BY <1>1, NextChoiceIs
    <2>2. NextPatternOrChoice = next
      BY <1>2, <1>4
    <2> HIDE DEF next
    <2> QED
      BY <2>1, <2>2 DEF ChoiceFrom, LaterChoice
  <1> QED
    BY <1>3, <1>4

(* What is left of the pattern and counts in front of a new pattern.       *)
LEMMA KeptPattern ==
    ASSUME Ready, Choosing
    PROVE  /\ SubSeq(pattern, 1, start) = FixedPattern
           /\ [j \in 1..start |-> IF j = start THEN lastCount ELSE count[j]] = FixedCount
  <1>1. /\ pattern \in [1..p -> Threads]
        /\ \A j \in 1..start : pattern[j] = fixed[j].thread
        /\ \A j \in 1..(start - 1) : count[j] = fixed[j].kps
    BY DEF Choosing, Shape
  <1>2. SubSeq(pattern, 1, start) \in [1..start -> Threads] /\ Begins(SubSeq(pattern, 1, start), pattern, start)
    BY <1>1, TailIs
  <1>3. SubSeq(pattern, 1, start) = [j \in 1..start |-> fixed[j].thread]
    BY <1>1, <1>2 DEF Begins
  <1>4. ASSUME NEW j \in 1..start PROVE (IF j = start THEN lastCount ELSE count[j]) = fixed[j].kps
    <2>1. start \in Nat /\ (start > 0 => lastCount = fixed[start].kps)
      BY ReadyType
    <2>2. CASE j = start
      BY <2>1, <2>2
    <2>3. CASE j # start
      <3>1. j \in 1..(start - 1)
        BY <2>1, <2>3
      <3> QED
        BY <1>1, <2>3, <3>1
    <2> QED
      BY <2>2, <2>3
  <1>5. [j \in 1..start |-> IF j = start THEN lastCount ELSE count[j]] = FixedCount
    BY <1>4 DEF FixedCount
  <1> QED
    BY <1>3, <1>5 DEF FixedPattern

LEMMA PatternChoosing ==
    ASSUME Ready, Choosing, NextIterPattern
    PROVE  /\ UNCHANGED Static /\ UNCHANGED <<iter, all>> /\ iter = "next"
           /\ LaterChoice(chosen, pattern, [chosen |-> chosen', pattern |-> TailOf(pattern')])
           /\ Choosing'
           /\ prefix' = ChangedPrefix(Sched', Sched) /\ Emit(Sched')
  <1> DEFINE next == NextPatternOrChoice
             c == next.chosen
             q == next.pattern
  <1>1. /\ UNCHANGED Static /\ UNCHANGED <<iter, all>> /\ iter = "next" /\ q # None
        /\ chosen' = c /\ ckps' = ChosenKps(c)
        /\ pattern' = SubSeq(pattern, 1, start) \o q
        /\ count' = [j \in 1..start |-> IF j = start THEN lastCount ELSE count[j]] \o InitSched(ckps', q)
        /\ prefix' = ChangedPrefix(Sched', Sched) /\ Emit(Sched')
    BY DEF NextIterPattern, Static
  <1>2. LaterChoice(chosen, pattern, next)
    BY <1>1, NextChoiceLater
  <1> HIDE DEF next
  <1>3. pattern' = FixedPattern \o q /\ count' = FixedCount \o InitSched(ckps', q)
    BY <1>1, KeptPattern
  <1>4. GoodFor(SearchOf(c), q) /\ Eligible(c)
    BY <1>2 DEF LaterChoice
  <1>5. Choosing'
    <2>1. GoodFor(SearchOf(chosen'), q) /\ Eligible(chosen') /\ ckps' = ChosenKps(chosen')
      BY <1>1, <1>4
    <2> QED
      BY <1>1, <1>3, <2>1, FreshChoosing
  <1>6. TailOf(pattern') = q
    <2>1. TailOf(FixedPattern \o q) = q
      BY <1>4, FreshShape
    <2> QED
      BY <1>3, <2>1
  <1>7. LaterChoice(chosen, pattern, [chosen |-> c, pattern |-> q])
    BY <1>2 DEF LaterChoice
  <1> QED
    BY <1>1, <1>5, <1>6, <1>7

LEMMA ChangedPrefixOfSched ==
    ASSUME Ready, UNCHANGED Static, prefix' = ChangedPrefix(Sched', Sched)
    PROVE  PrefixOfSched'
  <1>1. p \in Nat \ {0}
    BY DEF Ready
  <1>2. DOMAIN Sched' = 1..p /\ Sched' = [j \in 1..p |-> Sched'[j]]
    BY SchedPrimed DEF Static
  <1>3. /\ ChangedPrefix(Sched', Sched) = SubSeq(Sched', 1, Len(ChangedPrefix(Sched', Sched)))
        /\ ChangedPrefix(Sched', Sched) # <<>>
    BY <1>1, <1>2, ChangedBegins
  <1> QED
    BY <1>3 DEF PrefixOfSched

(* The schedule depends on the choice alone. *)
LEMMA SameSched ==
    ASSUME UNCHANGED <<kps, p, pool, ckps, pattern, count>>
    PROVE  Sched' = Sched
  BY DEF Sched, Threads

LEMMA KeepsChoosing ==
    ASSUME Choosing, UNCHANGED Static, UNCHANGED <<chosen, ckps, pattern, count>>
    PROVE  Choosing'
  <1>1. Shape(chosen', pattern', count') /\ Totals(chosen', pattern', count')
    BY DEF Choosing
  <1>2. Shape(chosen, pattern, count)' /\ Totals(chosen, pattern, count)'
    BY <1>1, StaticPrimed
  <1>3. ckps' = ChosenKps(chosen)'
    BY StaticChosen DEF Choosing
  <1> QED
    BY <1>2, <1>3 DEF Choosing

LEMMA SchedInvStep == SchedInv /\ [Next]_vars => SchedInv'
  <1> SUFFICES ASSUME SchedInv, [Next]_vars
               PROVE  SchedInv'
    OBVIOUS
  <1>1. CASE InitHelper
    <2>1. Ready' /\ iter' = "helped"
      BY <1>1, HelperReady DEF SchedInv, InitHelper
    <2> QED
      BY <2>1 DEF SchedInv, Ready, Sizes
  <1>2. CASE Construct
    BY <1>2, ConstructKeeps
  <1>8. CASE RefuseWhole
    <2>1. Sizes' = Sizes /\ iter' = "refused"
      BY <1>8 DEF RefuseWhole, Sizes, Threads, N
    <2> QED
      BY <2>1 DEF SchedInv
  <1>3. CASE FirstIter
    <2>1. /\ iter = "first" /\ iter' = "next" /\ UNCHANGED Static
          /\ UNCHANGED <<chosen, ckps, pattern, count, prefix>>
      BY <1>3 DEF FirstIter, Static
    <2>2. Ready /\ Sizes /\ Choosing /\ PrefixOfSched
      BY <2>1 DEF SchedInv
    <2>3. Ready' /\ Sizes' /\ Choosing'
      BY <2>1, <2>2, StaticReady, StaticSizes, KeepsChoosing
    <2>4. PrefixOfSched'
      <3>1. Sched' = Sched
        BY <2>1, SameSched DEF Static
      <3> QED
        BY <2>1, <2>2, <3>1 DEF PrefixOfSched
    <2> QED
      BY <2>1, <2>3, <2>4 DEF SchedInv
  <1>4. CASE NextIterSched
    <2>1. Ready /\ Sizes /\ Choosing
      BY <1>4 DEF SchedInv, NextIterSched
    <2>2. /\ UNCHANGED Static /\ UNCHANGED <<chosen, ckps, pattern, iter, all>>
          /\ iter = "next" /\ Choosing'
          /\ prefix' = ChangedPrefix(Sched', Sched)
      BY <1>4, <2>1, MovedChoosing
    <2>3. Ready' /\ Sizes' /\ PrefixOfSched'
      BY <2>1, <2>2, StaticReady, StaticSizes, ChangedPrefixOfSched
    <2> QED
      BY <2>2, <2>3 DEF SchedInv
  <1>5. CASE NextIterPattern
    <2>1. Ready /\ Sizes /\ Choosing
      BY <1>5 DEF SchedInv, NextIterPattern
    <2>2. /\ UNCHANGED Static /\ UNCHANGED <<iter, all>> /\ iter = "next" /\ Choosing'
          /\ prefix' = ChangedPrefix(Sched', Sched)
      BY <1>5, <2>1, PatternChoosing
    <2>3. Ready' /\ Sizes' /\ PrefixOfSched'
      BY <2>1, <2>2, StaticReady, StaticSizes, ChangedPrefixOfSched
    <2> QED
      BY <2>2, <2>3 DEF SchedInv
  <1>6. CASE StopIteration
    <2>1. /\ iter = "next" /\ iter' = "stopped" /\ UNCHANGED Static /\ UNCHANGED <<pattern, count>>
      BY <1>6 DEF StopIteration, Static
    <2>2. Ready /\ Sizes /\ pattern \in [1..p -> Threads] /\ count \in Counts(p)
      BY <2>1 DEF SchedInv, Choosing, Shape
    <2>3. Ready' /\ Sizes'
      BY <2>1, <2>2, StaticReady, StaticSizes
    <2>4. p' = p /\ Threads' = Threads
      BY <2>1, StaticParts DEF Static
    <2>5. pattern' \in [1..p' -> Threads'] /\ count' \in Counts(p)'
      BY <2>1, <2>2, <2>4 DEF Counts
    <2> QED
      BY <2>1, <2>3, <2>5 DEF SchedInv
  <1>7. CASE UNCHANGED vars
    <2>1. /\ UNCHANGED Static /\ UNCHANGED <<iter, chosen, ckps, pattern, count, prefix>>
      BY <1>7 DEF vars, Static
    <2>2. Sizes' /\ (Ready => Ready') /\ (Choosing => Choosing')
      BY <2>1, StaticReady, StaticSizes, KeepsChoosing DEF SchedInv
    <2>3. PrefixOfSched => PrefixOfSched'
      <3>1. Sched' = Sched
        BY <2>1, SameSched DEF Static
      <3> QED
        BY <2>1, <3>1 DEF PrefixOfSched
    <2>4. p' = p /\ Threads' = Threads
      BY <2>1, StaticParts DEF Static
    <2>5. Counts(p)' = Counts(p)
      BY <2>4 DEF Counts
    <2> QED
      BY <2>1, <2>2, <2>3, <2>4, <2>5 DEF SchedInv
  <1> QED
    BY <1>1, <1>2, <1>3, <1>4, <1>5, <1>6, <1>7, <1>8 DEF Next

LEMMA SchedInvInit == Init => SchedInv
  <1> SUFFICES ASSUME Init PROVE SchedInv
    OBVIOUS
  <1>1. Sizes /\ iter = "new"
    BY InitSizes DEF Init
  <1> QED
    BY <1>1 DEF SchedInv

LEMMA SchedInvAlways == Spec => []SchedInv
  BY SchedInvInit, SchedInvStep, PTL DEF Spec

-----------------------------------------------------------------------------
(* The attributes of SBPMESched have the types its code gives them, and the *)
(* prefix the driver is told of is the beginning of the schedule.          *)
THEOREM TypeCorrect == Spec => []TypeOK
  <1>1. SchedInv => TypeOK
    <2> SUFFICES ASSUME SchedInv PROVE TypeOK
      OBVIOUS
    <2>1. p \in Nat \ {0} /\ kps \in [Threads -> Nat]
      BY DEF SchedInv, Sizes
    <2>2. ASSUME iter \in {"first", "next", "stopped"}
          PROVE  pattern \in [1..p -> Threads] /\ count \in [1..p -> Nat \ {0}]
      BY <2>2 DEF SchedInv, Choosing, Shape, Counts
    <2>3. ASSUME iter = "next" PROVE prefix = SubSeq(Sched, 1, Len(prefix)) /\ prefix # <<>>
      BY <2>3 DEF SchedInv, PrefixOfSched
    <2> QED
      BY <2>1, <2>2, <2>3 DEF TypeOK, SchedInv
  <1> QED
    BY <1>1, SchedInvAlways, PTL

(* Every schedule runs all KPs of every thread, whatever prefix was kept.  *)
THEOREM AllKpsRun == Spec => []RunsAllKps
  <1>1. SchedInv => RunsAllKps
    <2> SUFFICES ASSUME SchedInv, iter = "next", NEW t \in Threads
                 PROVE  LET scheduled == Upto(Sched, t, p)
                        IN  scheduled = kps[t] \/ (pool[t] = 0 /\ scheduled > kps[t])
      BY DEF RunsAllKps
    <2>1. Ready /\ Choosing
      BY DEF SchedInv
    <2>2. Sched = SchedOf(chosen, pattern, count)
      BY <2>1, ChoosingSched
    <2> QED
      BY <2>1, <2>2, SchedRuns DEF Choosing
  <1> QED
    BY <1>1, SchedInvAlways, PTL

(* Behind a prefix no step through counts, patterns and sets of threads    *)
(* changes it, but for the count of its last period.                       *)
THEOREM PrefixIsKept == Spec => []PrefixKept
  <1>1. SchedInv => PrefixKept
    <2> SUFFICES ASSUME SchedInv, iter = "next", NEW i \in 1..start
                 PROVE  /\ \A t \in Threads : Sched[i][t] > 0 <=> t = fixed[i].thread
                        /\ i < start => Sched[i] = Period(Threads, fixed[i].thread, fixed[i].kps)
      BY DEF PrefixKept
    <2>1. Ready /\ Choosing
      BY DEF SchedInv
    <2>2. Sched = SchedOf(chosen, pattern, count)
      BY <2>1, ChoosingSched
    <2>3. start \in Nat /\ p \in Nat /\ start < p
      BY <2>1 DEF Ready, start
    <2>4. i \in 1..p /\ i # p
      BY <2>3
    <2>5. Sched[i] = [t \in Threads |-> RunIn(chosen, pattern, count, i, t)]
      BY <2>2, <2>4 DEF SchedOf
    <2>6. /\ count \in [1..p -> Nat \ {0}] /\ pattern[i] = fixed[i].thread
          /\ i < start => count[i] = fixed[i].kps
      <3>1. i \in Nat /\ (i < start => i \in 1..(start - 1))
        BY <2>3
      <3> QED
        BY <2>1, <3>1 DEF Choosing, Shape, Counts
    <2>7. \A t \in Threads :
             RunIn(chosen, pattern, count, i, t) = IF t = fixed[i].thread THEN count[i] ELSE 0
      BY <2>4, <2>6 DEF RunIn
    <2>8. \A t \in Threads : Sched[i][t] > 0 <=> t = fixed[i].thread
      BY <2>4, <2>5, <2>6, <2>7
    <2>9. i < start => Sched[i] = Period(Threads, fixed[i].thread, fixed[i].kps)
      BY <2>5, <2>6, <2>7 DEF Period
    <2> QED
      BY <2>8, <2>9
  <1> QED
    BY <1>1, SchedInvAlways, PTL

(* The yields computed for a schedule lead each KP into its period.        *)
THEOREM YieldsFollow == Spec => []YieldsMatch
  <1>1. SchedInv => YieldsMatch
    <2> SUFFICES ASSUME SchedInv, iter = "next", NEW t \in Threads, NEW k \in 1..kps[t]
                 PROVE  YieldsUpto(YieldPattern(kps, Sched), t, k) = PeriodOf(Sched, t, k) - 1
      BY DEF YieldsMatch
    <2>1. Ready /\ Choosing
      BY DEF SchedInv
    <2>2. Sched = SchedOf(chosen, pattern, count)
      BY <2>1, ChoosingSched
    <2> QED
      BY <2>1, <2>2, SchedYields DEF Choosing
  <1> QED
    BY <1>1, SchedInvAlways, PTL

-----------------------------------------------------------------------------
(* Sets of threads as rising sequences. *)
LEMMA SortedCount ==
    ASSUME Ready, NEW c, Sorted(c)
    PROVE  /\ Cardinality(Elements(c)) = Len(c) /\ IsFiniteSet(Elements(c))
           /\ Elements(c) = {c[j] : j \in 1..Len(c)}
  <1> DEFINE n == Len(c)
             S == Elements(c)
             M == [j \in 1..n |-> c[j]]
  <1>1. n \in Nat /\ DOMAIN c = 1..n /\ \A j \in 1..n : c[j] \in Nat
    <2>1. c \in Seq(Threads)
      BY DEF Sorted
    <2> QED
      BY <2>1, SortedType
  <1>2. S = {c[j] : j \in 1..n}
    BY <1>1 DEF Elements
  <1>3. ASSUME NEW i \in 1..n, NEW j \in 1..n, i < j PROVE c[i] < c[j]
    <2>1. c[i] + (j - i) <= c[j]
      BY <1>3, SortedRises
    <2> QED
      BY <1>1, <1>3, <2>1
  <1>4. \A i, j \in 1..n : M[i] = M[j] => i = j
    <2> TAKE i, j \in 1..n
    <2>1. c[i] \in Nat /\ c[j] \in Nat /\ M[i] = c[i] /\ M[j] = c[j]
      BY <1>1
    <2>2. i < j => c[i] < c[j]
      BY <1>3
    <2>3. j < i => c[j] < c[i]
      BY <1>3
    <2> QED
      BY <1>1, <2>1, <2>2, <2>3
  <1>5. M \in [1..n -> S] /\ \A t \in S : \E j \in 1..n : M[j] = t
    BY <1>2
  <1> HIDE DEF M, S, n
  <1>6. M \in Bijection(1..n, S)
    <2>1. M \in Injection(1..n, S)
      BY <1>4, <1>5 DEF Injection, IsInjective
    <2>2. M \in Surjection(1..n, S)
      BY <1>5 DEF Surjection
    <2> QED
      BY <2>1, <2>2 DEF Bijection
  <1>7. ExistsBijection(1..n, S)
    BY <1>6 DEF ExistsBijection
  <1>8. Cardinality(S) = n
    BY <1>1, <1>7, FS_CountingElements
  <1>9. IsFiniteSet(S)
    BY <1>1, <1>7, FS_NatBijection
  <1> QED
    BY <1>2, <1>8, <1>9 DEF S, n

(* Two of them that differ do so in a first place. *)
FirstGap(c, d, i) == c[i] # d[i] /\ \A j \in 1..(i - 1) : c[j] = d[j]

LEMMA FirstDifference ==
    ASSUME NEW n \in Nat, NEW S, NEW T, NEW c \in [1..n -> S], NEW d \in [1..n -> T], c # d
    PROVE  \E i \in 1..n : FirstGap(c, d, i)
  <1> DEFINE D == {i \in 1..n : c[i] # d[i]}
  <1>1. D # {}
    OBVIOUS
  <1>2. D \in SUBSET Nat
    OBVIOUS
  <1>3. PICK i \in D : \A x \in D : i <= x
    <2> HIDE DEF D
    <2> QED
      BY <1>1, <1>2, LeastNumber
  <1>4. \A j \in 1..(i - 1) : c[j] = d[j]
    <2> TAKE j \in 1..(i - 1)
    <2>1. j \in 1..n /\ j \in Nat /\ i \in Nat /\ ~(i <= j)
      OBVIOUS
    <2> QED
      BY <1>3, <2>1
  <1>5. i \in 1..n /\ FirstGap(c, d, i)
    BY <1>3, <1>4 DEF FirstGap
  <1> QED
    BY <1>5

(* The lesser one of the two is not in the other sequence, and the lesser  *)
(* threads of the other sequence are in both.                              *)
LEMMA AtDifference ==
    ASSUME Ready, NEW c, Sorted(c), NEW d, Sorted(d), Len(c) = Len(d), NEW i \in 1..Len(c),
           d[i] < c[i], \A j \in 1..(i - 1) : c[j] = d[j]
    PROVE  /\ d[i] \in Elements(d) \ Elements(c)
           /\ \A y \in Elements(c) : y < c[i] => y \in Elements(d)
  <1> DEFINE n == Len(c)
  <1>1. /\ n \in Nat /\ \A j \in 1..n : c[j] \in Nat /\ d[j] \in Nat
    BY SortedType
  <1>2. Elements(c) = {c[j] : j \in 1..n} /\ Elements(d) = {d[j] : j \in 1..n}
    BY SortedCount
  <1>3. ASSUME NEW a \in 1..n, NEW b \in 1..n, a <= b PROVE c[a] + (b - a) <= c[b] /\ d[a] + (b - a) <= d[b]
    BY <1>3, SortedRises
  <1>4. i \in 1..n /\ d[i] < c[i]
    OBVIOUS
  <1> HIDE DEF n
  <1>5. ASSUME NEW j \in 1..n, c[j] < c[i] PROVE j \in 1..(i - 1)
    <2>1. i <= j => c[i] + (j - i) <= c[j]
      BY <1>3, <1>4
    <2> QED
      BY <1>1, <1>4, <1>5, <2>1
  <1>6. \A y \in Elements(c) : y < c[i] => y \in Elements(d)
    <2> SUFFICES ASSUME NEW y \in Elements(c), y < c[i] PROVE y \in Elements(d)
      OBVIOUS
    <2>1. PICK j \in 1..n : y = c[j]
      BY <1>2
    <2>2. j \in 1..(i - 1)
      BY <1>5, <2>1
    <2>3. y = d[j]
      BY <2>1, <2>2
    <2> QED
      BY <1>2, <2>3
  <1>7. d[i] \in Elements(d)
    BY <1>2, <1>4
  <1>8. d[i] \notin Elements(c)
    <2> SUFFICES ASSUME d[i] \in Elements(c) PROVE FALSE
      OBVIOUS
    <2>1. PICK j \in 1..n : d[i] = c[j]
      BY <1>2
    <2>2. j \in 1..(i - 1)
      BY <1>4, <1>5, <2>1
    <2>3. d[i] = d[j] /\ j <= i
      BY <2>1, <2>2, <1>4
    <2>4. d[j] + (i - j) <= d[i]
      BY <1>3, <1>4, <2>3
    <2> QED
      BY <1>1, <1>4, <2>2, <2>3, <2>4
  <1> QED
    BY <1>6, <1>7, <1>8

LEMMA SortedPair ==
    ASSUME Ready, NEW c, Sorted(c), NEW d, Sorted(d), Len(c) = Len(d)
    PROVE  c = d \/ \E i \in 1..Len(c) : FirstGap(c, d, i)
  <1> DEFINE n == Len(c)
  <1>1. n \in Nat /\ c \in [1..n -> Threads] /\ d \in [1..n -> Threads]
    <2>1. c \in Seq(Threads) /\ d \in Seq(Threads)
      BY DEF Sorted
    <2> QED
      BY <2>1
  <1> HIDE DEF n
  <1>2. ASSUME c # d
        PROVE  \E i \in 1..n : FirstGap(c, d, i)
    <2> DEFINE S == Threads
    <2>1. c \in [1..n -> S] /\ d \in [1..n -> S]
      BY <1>1
    <2> HIDE DEF S
    <2> QED
      BY <1>1, <1>2, <2>1, FirstDifference
  <1> QED
    BY <1>2 DEF n

(* The set determines the sequence. *)
LEMMA SortedSame ==
    ASSUME Ready, NEW c, Sorted(c), NEW d, Sorted(d), Elements(c) = Elements(d)
    PROVE  c = d
  <1>1. Len(c) = Len(d)
    BY SortedCount
  <1> SUFFICES ASSUME c # d PROVE FALSE
    OBVIOUS
  <1>6. PICK i \in 1..Len(c) : FirstGap(c, d, i)
    BY <1>1, SortedPair
  <1>2. c[i] # d[i] /\ \A j \in 1..(i - 1) : c[j] = d[j]
    BY <1>6 DEF FirstGap
  <1>3. c[i] \in Nat /\ d[i] \in Nat
    BY <1>1, SortedType
  <1>4. CASE d[i] < c[i]
    BY <1>1, <1>2, <1>4, AtDifference
  <1>5. CASE c[i] < d[i]
    <2>1. Len(d) = Len(c) /\ i \in 1..Len(d) /\ \A j \in 1..(i - 1) : d[j] = c[j]
      BY <1>1, <1>2
    <2> QED
      BY <1>5, <2>1, AtDifference
  <1> QED
    BY <1>2, <1>3, <1>4, <1>5

(* With a lesser thread in place of another one a set comes sooner.        *)
LEMMA SwapSooner ==
    ASSUME Ready, NEW c, Sorted(c), NEW d, Sorted(d), NEW E, NEW a \in Threads, NEW b \in Threads,
           Elements(c) = E \cup {a}, Elements(d) = E \cup {b}, a \notin E, b \notin E, a < b
    PROVE  Sooner(c, d)
  <1>0. a \in Nat /\ b \in Nat
    BY ReadyType
  <1>1. Len(c) = Len(d) /\ Len(c) \in Nat
    <2>1. IsFiniteSet(E)
      <3>1. E \subseteq Elements(c) /\ IsFiniteSet(Elements(c))
        BY SortedCount
      <3> QED
        BY <3>1, FS_Subset
    <2>2. Cardinality(E \cup {a}) = Cardinality(E) + 1 /\ Cardinality(E \cup {b}) = Cardinality(E) + 1
      BY <2>1, FS_AddElement
    <2>3. Cardinality(Elements(c)) = Len(c) /\ Cardinality(Elements(d)) = Len(d)
      BY SortedCount
    <2>4. Len(c) \in Nat
      BY SortedType
    <2> QED
      BY <2>2, <2>3, <2>4
  <1>2. a # b
    BY <1>0
  <1>3. c # d
    <2>1. a \in Elements(c) /\ a \notin Elements(d)
      BY <1>2
    <2> QED
      BY <2>1
  <1>8. PICK i \in 1..Len(c) : FirstGap(c, d, i)
    BY <1>1, <1>3, SortedPair
  <1>4. c[i] # d[i] /\ \A j \in 1..(i - 1) : c[j] = d[j]
    BY <1>8 DEF FirstGap
  <1>5. c[i] \in Nat /\ d[i] \in Nat
    BY <1>1, SortedType
  <1>6. CASE d[i] < c[i]
    <2>1. d[i] \in Elements(d) \ Elements(c) /\ \A y \in Elements(c) : y < c[i] => y \in Elements(d)
      BY <1>1, <1>4, <1>6, AtDifference
    <2>2. d[i] = b
      BY <2>1
    <2>3. a \in Elements(c) /\ a < c[i]
      BY <1>0, <1>5, <1>6, <2>2
    <2>4. a \in Elements(d)
      BY <2>1, <2>3
    <2> QED
      BY <1>2, <2>4
  <1>7. CASE c[i] < d[i]
    <2>1. Precedes(c, d, Len(c))
      BY <1>4, <1>7 DEF Precedes
    <2> QED
      BY <1>1, <2>1 DEF Sooner
  <1> QED
    BY <1>4, <1>5, <1>6, <1>7

LEMMA SoonerStrict ==
    ASSUME Ready, NEW c, Sorted(c)
    PROVE  ~Sooner(c, c)
  <1>1. Len(c) \in Nat /\ \A j \in 1..Len(c) : c[j] \in Nat
    BY SortedType
  <1> QED
    BY <1>1 DEF Sooner, Precedes

(* The chosen threads are those of the periods behind the prefix; a is the *)
(* one of the last period.                                                 *)
TailThreads(w) == {w[j] : j \in (start + 1)..(p - 1)}

LEMMA ShapeChosen ==
    ASSUME Ready, NEW c, NEW w, NEW k, Shape(c, w, k)
    PROVE  /\ Elements(c) = TailThreads(w) \cup {w[p]} /\ w[p] \in Threads /\ k[p] \in Nat /\ k[p] >= 1
           /\ Sorted(c) /\ w \in [1..p -> Threads] /\ k \in Counts(p)
  <1>1. /\ Sorted(c) /\ c \in Seq(Threads) /\ w \in [1..p -> Threads] /\ k \in Counts(p)
        /\ GoodFor(SearchOf(c), TailOf(w))
    BY DEF Shape, Eligible, Sorted
  <1>2. /\ start \in Nat /\ p - start \in Nat /\ p - start >= 1 /\ p \in Nat /\ p \in 1..p
    BY ReadyType
  <1> DEFINE m == p - start
             q == TailOf(w)
  <1>3. \A j \in 1..m : q[j] = w[start + j]
    BY DEF TailOf
  <1>4. \A t \in Elements(c) : \E j \in 1..m : q[j] = t
    BY <1>1, TailType
  <1>5. \A j \in 1..m : q[j] \in Elements(c)
    BY <1>1, TailRange
  <1> HIDE DEF q
  <1>6. \A t \in Elements(c) : t \in TailThreads(w) \cup {w[p]}
    <2> TAKE t \in Elements(c)
    <2>1. PICK j \in 1..m : q[j] = t
      BY <1>4
    <2>2. t = w[start + j] /\ (start + j = p \/ start + j \in (start + 1)..(p - 1))
      BY <1>2, <1>3, <2>1
    <2> QED
      BY <2>2 DEF TailThreads
  <1>7. \A j \in (start + 1)..p : w[j] \in Elements(c)
    <2> TAKE j \in (start + 1)..p
    <2>1. j - start \in 1..m /\ start + (j - start) = j
      BY <1>2
    <2>2. q[j - start] = w[start + (j - start)]
      BY <1>3, <2>1
    <2> QED
      BY <1>5, <2>1, <2>2
  <1>8. w[p] \in Elements(c) /\ TailThreads(w) \subseteq Elements(c)
    <2>1. p \in (start + 1)..p /\ \A j \in (start + 1)..(p - 1) : j \in (start + 1)..p
      BY <1>2
    <2> QED
      BY <1>7, <2>1 DEF TailThreads
  <1>9. Elements(c) = TailThreads(w) \cup {w[p]}
    BY <1>6, <1>8
  <1>10. w[p] \in Threads /\ k[p] \in Nat /\ k[p] >= 1
    BY <1>1, <1>2 DEF Counts
  <1> QED
    BY <1>1, <1>9, <1>10

(* Equal schedules have the same patterns and counts before the last period. *)
LEMMA SameBefore ==
    ASSUME Ready, NEW c, NEW w, NEW k, Shape(c, w, k), NEW d, NEW v, NEW l, Shape(d, v, l),
           SchedOf(c, w, k) = SchedOf(d, v, l), NEW j \in 1..(p - 1)
    PROVE  w[j] = v[j] /\ k[j] = l[j]
  <1>0. w \in [1..p -> Threads] /\ v \in [1..p -> Threads] /\ k \in Counts(p) /\ l \in Counts(p)
    BY DEF Shape
  <1>1. p \in Nat /\ j \in 1..p /\ j # p
    BY ReadyType
  <1>2. w[j] \in Threads /\ v[j] \in Threads /\ k[j] \in Nat \ {0} /\ l[j] \in Nat \ {0}
    BY <1>0, <1>1 DEF Counts
  <1>3. ASSUME NEW t \in Threads
        PROVE  (IF t = w[j] THEN k[j] ELSE 0) = (IF t = v[j] THEN l[j] ELSE 0)
    <2>1. SchedOf(c, w, k)[j][t] = RunIn(c, w, k, j, t) /\ SchedOf(d, v, l)[j][t] = RunIn(d, v, l, j, t)
      BY <1>0, <1>1, RunInType
    <2>2. RunIn(c, w, k, j, t) = RunIn(d, v, l, j, t)
      BY <2>1
    <2> QED
      BY <1>1, <1>2, <2>2 DEF RunIn
  <1>4. k[j] = (IF w[j] = v[j] THEN l[j] ELSE 0)
    BY <1>2, <1>3
  <1> QED
    BY <1>2, <1>4

(* In the last period too, but that its thread may be exchanged for another *)
(* one with no other period, whose KPs are dumped there.                   *)
LEMMA SameLast ==
    ASSUME Ready, NEW c, NEW w, NEW k, Shape(c, w, k), NEW d, NEW v, NEW l, Shape(d, v, l),
           SchedOf(c, w, k) = SchedOf(d, v, l), w[p] # v[p]
    PROVE  /\ pool[w[p]] > 0 /\ w[p] \notin Elements(d)
  <1>1. /\ Elements(c) = TailThreads(w) \cup {w[p]} /\ w[p] \in Threads /\ k[p] \in Nat /\ k[p] >= 1
        /\ w \in [1..p -> Threads] /\ k \in Counts(p)
        /\ v \in [1..p -> Threads] /\ l \in Counts(p) /\ v[p] \in Threads
    BY ShapeChosen
  <1> DEFINE a == w[p]
  <1>2. p \in 1..p
    BY ReadyType
  <1>3. RunIn(c, w, k, p, a) = RunIn(d, v, l, p, a)
    <2>1. /\ SchedOf(c, w, k)[p][a] = RunIn(c, w, k, p, a)
          /\ SchedOf(d, v, l)[p][a] = RunIn(d, v, l, p, a)
      BY <1>1, <1>2, RunInType
    <2> QED
      BY <2>1
  <1>4. Dumped(c, a) = 0
    BY <1>1 DEF Dumped
  <1>5. Dumped(d, a) \in Nat
    BY <1>1, <1>2, RunInType
  <1>6. k[p] = Dumped(d, a)
    BY <1>1, <1>3, <1>4, <1>5 DEF RunIn
  <1>7. pool[a] \in Nat
    BY <1>1 DEF Ready
  <1> QED
    BY <1>1, <1>5, <1>6, <1>7 DEF Dumped

(* Equal schedules of the same last period come from the same choice.      *)
LEMMA SameChoice ==
    ASSUME Ready, NEW c, NEW w, NEW k, Shape(c, w, k), NEW d, NEW v, NEW l, Shape(d, v, l),
           SchedOf(c, w, k) = SchedOf(d, v, l), w[p] = v[p]
    PROVE  c = d /\ w = v /\ k = l
  <1>1. /\ Elements(c) = TailThreads(w) \cup {w[p]} /\ w[p] \in Threads /\ k[p] \in Nat
        /\ w \in [1..p -> Threads] /\ k \in Counts(p) /\ Sorted(c)
        /\ Elements(d) = TailThreads(v) \cup {v[p]} /\ Sorted(d) /\ l[p] \in Nat
        /\ v \in [1..p -> Threads] /\ l \in Counts(p) /\ v[p] \in Threads
    BY ShapeChosen
  <1>2. p \in 1..p /\ p \in Nat /\ start \in Nat
    BY ReadyType
  <1>3. ASSUME NEW j \in 1..(p - 1) PROVE w[j] = v[j] /\ k[j] = l[j]
    BY SameBefore
  <1>4. \A j \in 1..p : w[j] = v[j]
    <2>1. \A j \in 1..p : j = p \/ j \in 1..(p - 1)
      BY <1>2
    <2> QED
      BY <1>3, <2>1
  <1>5. w = v
    <2>1. w = [j \in 1..p |-> w[j]] /\ v = [j \in 1..p |-> v[j]]
      BY <1>1
    <2> QED
      BY <1>4, <2>1
  <1>6. c = d
    BY <1>1, <1>5, SortedSame
  <1>7. k[p] = l[p]
    <2> DEFINE a == w[p]
    <2>1. /\ SchedOf(c, w, k)[p][a] = RunIn(c, w, k, p, a)
          /\ SchedOf(d, v, l)[p][a] = RunIn(d, v, l, p, a)
      BY <1>1, <1>2, RunInType
    <2>2. Dumped(c, a) \in Nat
      BY <1>1, <1>2, RunInType
    <2>3. RunIn(c, w, k, p, a) = k[p] + Dumped(c, a) /\ RunIn(d, v, l, p, a) = l[p] + Dumped(c, a)
      BY <1>5, <1>6 DEF RunIn
    <2>4. k[p] + Dumped(c, a) = l[p] + Dumped(c, a)
      BY <2>1, <2>3
    <2> QED
      BY <1>1, <2>2, <2>4
  <1>8. \A j \in 1..p : k[j] = l[j]
    <2>1. \A j \in 1..p : j = p \/ j \in 1..(p - 1)
      BY <1>2
    <2> QED
      BY <1>3, <1>7, <2>1
  <1>9. k = l
    <2>1. k = [j \in 1..p |-> k[j]] /\ l = [j \in 1..p |-> l[j]]
      BY <1>1 DEF Counts
    <2> QED
      BY <1>8, <2>1
  <1> QED
    BY <1>5, <1>6, <1>9

(* Otherwise the choice with the lesser thread comes sooner, and the other *)
(* one is redundant.                                                       *)
LEMMA TwinSooner ==
    ASSUME Ready, NEW c, NEW w, NEW k, Shape(c, w, k), NEW d, NEW v, NEW l, Shape(d, v, l),
           SchedOf(c, w, k) = SchedOf(d, v, l), w[p] < v[p]
    PROVE  Sooner(c, d) /\ Redundant(d, TailOf(v))
  <1> DEFINE a == w[p]
             b == v[p]
             E == TailThreads(w)
             m == p - start
             q == TailOf(v)
  <1>1. /\ Elements(c) = E \cup {a} /\ a \in Threads /\ Sorted(c)
        /\ w \in [1..p -> Threads] /\ k \in Counts(p)
        /\ Elements(d) = TailThreads(v) \cup {b} /\ b \in Threads /\ Sorted(d)
        /\ v \in [1..p -> Threads] /\ l \in Counts(p)
    BY ShapeChosen
  <1>2. p \in Nat /\ p \in 1..p /\ start \in Nat /\ m \in Nat /\ m >= 1 /\ start + m = p
        /\ a \in Nat /\ b \in Nat
    <2>1. p \in Nat /\ start \in Nat /\ p - start \in Nat /\ p - start >= 1
          /\ Threads \in SUBSET Nat
      BY ReadyType
    <2>2. a \in Nat /\ b \in Nat
      BY <1>1, <2>1
    <2> HIDE DEF a, b
    <2> QED
      BY <2>1, <2>2
  <1>3. a # b
    BY <1>2
  <1>4. pool[a] > 0 /\ a \notin Elements(d)
    BY <1>3, SameLast
  <1>5. b \notin Elements(c)
    <2>1. SchedOf(d, v, l) = SchedOf(c, w, k) /\ v[p] # w[p]
      BY <1>3
    <2> QED
      BY <2>1, SameLast
  <1>6. TailThreads(v) = E
    <2>1. \A j \in (start + 1)..(p - 1) : j \in 1..(p - 1)
      BY <1>2
    <2>2. ASSUME NEW j \in (start + 1)..(p - 1) PROVE w[j] = v[j]
      <3>1. j \in 1..(p - 1)
        BY <2>1
      <3> QED
        BY <3>1, SameBefore
    <2> QED
      BY <2>2 DEF TailThreads
  <1>7. a \notin E /\ b \notin E
    BY <1>1, <1>4, <1>5, <1>6
  <1>8. Sooner(c, d)
    <2> HIDE DEF a, b, E
    <2>1. a < b
      BY DEF a, b
    <2> QED
      BY <1>1, <1>6, <1>7, <2>1, SwapSooner
  <1>9. q = [j \in 1..m |-> v[start + j]]
    BY DEF TailOf
  <1>10. Len(q) = m /\ q # None /\ q[m] = b
    <2>1. q \in [1..m -> Threads]
      <3>1. \A j \in 1..m : start + j \in 1..p
        BY <1>2
      <3> QED
        BY <1>1, <1>9, <3>1
    <2>2. Len(q) = m /\ q # <<>>
      <3> HIDE DEF q, m
      <3>1. q \in Seq(Threads) /\ DOMAIN q = 1..m
        BY <1>2, <2>1
      <3> QED
        BY <1>2, <3>1
    <2>3. q[m] = v[start + m]
      BY <1>2, <1>9
    <2> QED
      BY <1>2, <2>2, <2>3 DEF None
  <1>11. \A j \in 1..(m - 1) : q[j] # b
    <2> TAKE j \in 1..(m - 1)
    <2>1. j \in 1..m /\ start + j \in (start + 1)..(p - 1)
      BY <1>2
    <2>2. q[j] = v[start + j]
      BY <1>9, <2>1
    <2>3. q[j] \in TailThreads(v)
      BY <2>1, <2>2 DEF TailThreads
    <2> QED
      BY <1>6, <1>7, <2>3
  <1>12. Redundant(d, q)
    <2> HIDE DEF q, m
    <2>1. q[Len(q)] = b
      BY <1>10
    <2>2. a \in Threads \ Elements(d) /\ pool[a] > 0 /\ a < q[Len(q)]
      BY <1>1, <1>4, <2>1
    <2> QED
      BY <1>10, <1>11, <2>1, <2>2 DEF Redundant
  <1> QED
    BY <1>8, <1>12

-----------------------------------------------------------------------------
(* The order in which the scheduler comes to its choices. *)
Before(c, w, k, d, v, l) ==
    \/ c = d /\ w = v /\ LaterCounts(w, k, l, p)
    \/ c = d /\ Precedes(TailOf(w), TailOf(v), p - start)
    \/ Sooner(c, d)

LEMMA CountsTransitive ==
    ASSUME NEW m \in Nat, NEW w \in [1..m -> Nat], NEW k \in Counts(m), NEW l \in Counts(m),
           NEW n \in Counts(m), LaterCounts(w, k, l, m), LaterCounts(w, l, n, m)
    PROVE  LaterCounts(w, k, n, m)
  <1> DEFINE Less(i, j) == w[i] < w[j] \/ (w[i] = w[j] /\ i < j)
  <1>1. \A j \in 1..m : w[j] \in Nat /\ k[j] \in Nat /\ l[j] \in Nat /\ n[j] \in Nat
    BY DEF Counts
  <1>2. PICK a \in 1..m : k[a] < l[a] /\ \A j \in 1..m : Less(j, a) => k[j] = l[j]
    BY DEF LaterCounts
  <1>3. PICK b \in 1..m : l[b] < n[b] /\ \A j \in 1..m : Less(j, b) => l[j] = n[j]
    BY DEF LaterCounts
  <1>4. Less(a, b) \/ a = b \/ Less(b, a)
    BY <1>1
  <1>5. \A i, j, h \in 1..m : Less(i, j) /\ Less(j, h) => Less(i, h)
    BY <1>1
  <1> HIDE DEF Less
  <1>6. \E e \in 1..m : k[e] < n[e] /\ \A j \in 1..m : Less(j, e) => k[j] = n[j]
    <2>1. CASE Less(a, b)
      <3>1. k[a] < n[a]
        BY <1>2, <1>3, <2>1
      <3>2. \A j \in 1..m : Less(j, a) => k[j] = n[j]
        BY <1>2, <1>3, <1>5, <2>1
      <3> QED
        BY <3>1, <3>2
    <2>2. CASE a = b
      <3>1. k[a] < n[a]
        BY <1>1, <1>2, <1>3, <2>2
      <3>2. \A j \in 1..m : Less(j, a) => k[j] = n[j]
        BY <1>2, <1>3, <2>2
      <3> QED
        BY <3>1, <3>2
    <2>3. CASE Less(b, a)
      <3>1. k[b] < n[b]
        BY <1>2, <1>3, <2>3
      <3>2. \A j \in 1..m : Less(j, b) => k[j] = n[j]
        BY <1>2, <1>3, <1>5, <2>3
      <3> QED
        BY <3>1, <3>2
    <2> QED
      BY <1>4, <2>1, <2>2, <2>3
  <1> QED
    BY <1>6 DEF LaterCounts, Less

LEMMA ShapeTail ==
    ASSUME Ready, NEW c, NEW w, NEW k, Shape(c, w, k)
    PROVE  /\ Sorted(c) /\ TailOf(w) \in [1..(p - start) -> Threads]
           /\ w \in [1..p -> Nat] /\ k \in Counts(p) /\ p \in Nat
           /\ p - start \in Nat /\ Threads \in SUBSET Nat
  <1>1. /\ Sorted(c) /\ c \in Seq(Threads) /\ w \in [1..p -> Threads] /\ k \in Counts(p)
        /\ GoodFor(SearchOf(c), TailOf(w))
    BY DEF Shape, Eligible, Sorted
  <1>2. p \in Nat /\ p - start \in Nat /\ Threads \in SUBSET Nat
    BY ReadyType
  <1>3. TailOf(w) \in [1..(p - start) -> Threads]
    BY <1>1, TailType
  <1>4. w \in [1..p -> Nat]
    <2>1. Threads \subseteq Nat
      BY <1>2
    <2> QED
      BY <1>1, <2>1
  <1> QED
    BY <1>1, <1>2, <1>3, <1>4

LEMMA BeforeTransitive ==
    ASSUME Ready, NEW c, NEW w, NEW k, Shape(c, w, k), NEW d, NEW v, NEW l, Shape(d, v, l),
           NEW e, NEW u, NEW n, Shape(e, u, n), Before(c, w, k, d, v, l), Before(d, v, l, e, u, n)
    PROVE  Before(c, w, k, e, u, n)
  <1>1. /\ Sorted(c) /\ TailOf(w) \in [1..(p - start) -> Threads]
        /\ w \in [1..p -> Nat] /\ k \in Counts(p) /\ p \in Nat
        /\ p - start \in Nat /\ Threads \in SUBSET Nat
    BY ShapeTail
  <1>2. Sorted(d) /\ TailOf(v) \in [1..(p - start) -> Threads] /\ l \in Counts(p)
    BY ShapeTail
  <1>3. Sorted(e) /\ TailOf(u) \in [1..(p - start) -> Threads] /\ n \in Counts(p)
    BY ShapeTail
  <1>4. ASSUME Sooner(c, d) PROVE Sooner(c, e)
    <2>1. d = e \/ Sooner(d, e)
      BY DEF Before
    <2> QED
      BY <1>1, <1>2, <1>3, <1>4, <2>1, SoonerTransitive
  <1>5. ASSUME c = d, Sooner(d, e) PROVE Sooner(c, e)
    BY <1>5
  <1>6. ASSUME Precedes(TailOf(w), TailOf(v), p - start), Precedes(TailOf(v), TailOf(u), p - start)
        PROVE  Precedes(TailOf(w), TailOf(u), p - start)
    <2> DEFINE m == p - start
               x == TailOf(w)
               y == TailOf(v)
               z == TailOf(u)
    <2>1. /\ m \in Nat /\ x \in [1..m -> Threads] /\ y \in [1..m -> Threads] /\ z \in [1..m -> Threads]
          /\ Precedes(x, y, m) /\ Precedes(y, z, m)
      BY <1>1, <1>2, <1>3, <1>6
    <2> HIDE DEF m, x, y, z
    <2>2. Precedes(x, z, m)
      BY <1>1, <2>1, PrecedesTransitive
    <2> QED
      BY <2>2 DEF m, x, z
  <1>7. ASSUME w = v, LaterCounts(w, k, l, p), LaterCounts(v, l, n, p)
        PROVE  LaterCounts(w, k, n, p)
    BY <1>1, <1>2, <1>3, <1>7, CountsTransitive
  <1> QED
    BY <1>4, <1>5, <1>6, <1>7 DEF Before

LEMMA BeforeStrict ==
    ASSUME Ready, NEW c, NEW w, NEW k, Shape(c, w, k)
    PROVE  ~Before(c, w, k, c, w, k)
  <1>1. /\ Sorted(c) /\ TailOf(w) \in [1..(p - start) -> Threads]
        /\ w \in [1..p -> Nat] /\ k \in Counts(p) /\ p \in Nat
        /\ p - start \in Nat /\ Threads \in SUBSET Nat
    BY ShapeTail
  <1>2. ~Sooner(c, c)
    BY <1>1, SoonerStrict
  <1>3. ~Precedes(TailOf(w), TailOf(w), p - start)
    <2> DEFINE m == p - start
               x == TailOf(w)
    <2>1. m \in Nat /\ x \in [1..m -> Threads] /\ \A t \in Threads : t \in Nat
      BY <1>1
    <2> HIDE DEF m, x
    <2>2. \A i \in 1..m : x[i] \in Nat
      BY <2>1
    <2>3. ~Precedes(x, x, m)
      BY <2>2 DEF Precedes
    <2> QED
      BY <2>3 DEF m, x
  <1>4. ~LaterCounts(w, k, k, p)
    <2>1. \A j \in 1..p : k[j] \in Nat
      BY <1>1 DEF Counts
    <2> QED
      BY <2>1 DEF LaterCounts
  <1> QED
    BY <1>2, <1>3, <1>4 DEF Before

(* Of two choices, the later one not redundant, the schedules differ.      *)
LEMMA Different ==
    ASSUME Ready, NEW c, NEW w, NEW k, Shape(c, w, k), NEW d, NEW v, NEW l, Shape(d, v, l),
           Before(c, w, k, d, v, l), Redundant(d, TailOf(v)) => c = d
    PROVE  SchedOf(c, w, k) # SchedOf(d, v, l)
  <1> SUFFICES ASSUME SchedOf(c, w, k) = SchedOf(d, v, l) PROVE FALSE
    OBVIOUS
  <1>1. Sorted(c) /\ Sorted(d)
    BY ShapeTail
  <1>2. w[p] \in Nat /\ v[p] \in Nat
    <2>1. w[p] \in Threads /\ v[p] \in Threads
      BY ShapeChosen
    <2> QED
      BY <2>1, ReadyType
  <1>3. CASE w[p] = v[p]
    <2>1. c = d /\ w = v /\ k = l
      BY <1>3, SameChoice
    <2> QED
      BY <2>1, BeforeStrict
  <1>4. CASE w[p] < v[p]
    <2>1. Sooner(c, d) /\ Redundant(d, TailOf(v))
      BY <1>4, TwinSooner
    <2> QED
      BY <1>1, <2>1, SoonerStrict
  <1>5. CASE v[p] < w[p]
    <2>1. SchedOf(d, v, l) = SchedOf(c, w, k)
      OBVIOUS
    <2>2. Sooner(d, c)
      BY <1>5, <2>1, TwinSooner
    <2>3. Sooner(c, d) \/ c = d
      BY DEF Before
    <2>4. Sooner(d, d)
      BY <1>1, <2>2, <2>3, SoonerTransitive
    <2> QED
      BY <1>1, <2>4, SoonerStrict
  <1> QED
    BY <1>2, <1>3, <1>4, <1>5

(* A schedule yielded so far, when the scheduler is at d, v, l.            *)
CameBy(s, d, v, l) ==
    \E c, w, k : /\ Shape(c, w, k) /\ s = SchedOf(c, w, k)
                 /\ (c = d /\ w = v /\ k = l) \/ Before(c, w, k, d, v, l)
                 /\ Redundant(d, TailOf(v)) => c = d

(* How the scheduler goes on from one choice to another. *)
GoesOn(d, v, l, e, u, n) ==
    \/ d = e /\ v = u /\ LaterCounts(v, l, n, p)
    \/ LaterChoice(d, v, [chosen |-> e, pattern |-> TailOf(u)])

LEMMA GoesOnIs ==
    ASSUME Ready, NEW d, NEW v, NEW l, Shape(d, v, l), NEW e, NEW u, NEW n, Shape(e, u, n),
           GoesOn(d, v, l, e, u, n)
    PROVE  /\ Before(d, v, l, e, u, n)
           /\ Redundant(e, TailOf(u)) => d = e /\ v = u
  BY DEF GoesOn, LaterChoice, Before

(* A schedule yielded before is not the next one. *)
LEMMA NeverAgain ==
    ASSUME Ready, NEW d, NEW v, NEW l, Shape(d, v, l), NEW e, NEW u, NEW n, Shape(e, u, n),
           GoesOn(d, v, l, e, u, n), NEW s, CameBy(s, d, v, l)
    PROVE  CameBy(s, e, u, n) /\ s # SchedOf(e, u, n)
  <1>1. PICK c, w, k : /\ Shape(c, w, k) /\ s = SchedOf(c, w, k)
                       /\ (c = d /\ w = v /\ k = l) \/ Before(c, w, k, d, v, l)
                       /\ Redundant(d, TailOf(v)) => c = d
    BY DEF CameBy
  <1>2. Before(d, v, l, e, u, n) /\ (Redundant(e, TailOf(u)) => d = e /\ v = u)
    BY GoesOnIs
  <1>3. Before(c, w, k, e, u, n)
    <2>1. CASE c = d /\ w = v /\ k = l
      BY <1>2, <2>1
    <2>2. CASE Before(c, w, k, d, v, l)
      BY <1>1, <1>2, <2>2, BeforeTransitive
    <2> QED
      BY <1>1, <2>1, <2>2
  <1>4. Redundant(e, TailOf(u)) => c = e
    BY <1>1, <1>2
  <1>5. SchedOf(c, w, k) # SchedOf(e, u, n)
    BY <1>1, <1>3, <1>4, Different
  <1> QED
    BY <1>1, <1>3, <1>4, <1>5 DEF CameBy

-----------------------------------------------------------------------------
(* The inductive invariant of the schedules yielded: as many as calls, and  *)
(* each from an earlier choice or the current one.                         *)
EmittedInv ==
    /\ IsFiniteSet(emitted) /\ yields = Cardinality(emitted)
    /\ iter \in {"new", "helped", "first", "refused"} => emitted = {}
    /\ iter = "next" => \A s \in emitted : CameBy(s, chosen, pattern, count)

LEMMA StaticSched ==
    ASSUME Ready, UNCHANGED Static, chosen' \in Seq(Threads), ckps' = ChosenKps(chosen')
    PROVE  Sched' = SchedOf(chosen', pattern', count')
  <1>1. kps' = kps /\ p' = p /\ pool' = pool /\ Threads' = Threads
    BY StaticParts DEF Static
  <1>2. ASSUME NEW j, NEW t \in Threads
        PROVE  (IF j = p /\ ckps'[t] = 0 THEN pool[t] ELSE 0) = (IF j = p THEN Dumped(chosen', t) ELSE 0)
    <2>1. ckps'[t] = IF t \in Elements(chosen') THEN pool[t] ELSE 0
      BY DEF ChosenKps
    <2> QED
      BY <2>1 DEF Dumped
  <1> QED
    BY <1>1, <1>2 DEF Sched, SchedOf, RunIn

LEMMA StaticCame ==
    ASSUME UNCHANGED Static, NEW s, NEW d, NEW v, NEW l
    PROVE  CameBy(s, d, v, l)' = CameBy(s, d, v, l)
  <1>1. /\ p' = p /\ start' = start /\ Threads' = Threads /\ pool' = pool /\ kps' = kps
    BY StaticParts DEF Static
  <1>2. \A c, w, k : Shape(c, w, k)' = Shape(c, w, k)
    BY StaticShape
  <1>3. \A c, w, k : SchedOf(c, w, k)' = SchedOf(c, w, k)
    BY <1>1 DEF SchedOf, RunIn, Dumped
  <1>4. \A w : TailOf(w)' = TailOf(w)
    BY <1>1 DEF TailOf
  <1>5. Redundant(d, TailOf(v))' = Redundant(d, TailOf(v))
    BY <1>1, <1>4 DEF Redundant
  <1>6. \A c, w, k : Before(c, w, k, d, v, l)' = Before(c, w, k, d, v, l)
    BY <1>1, <1>4 DEF Before, Sooner
  <1> QED
    BY <1>2, <1>3, <1>5, <1>6 DEF CameBy

LEMMA CameByItself ==
    ASSUME NEW d, NEW v, NEW l, Shape(d, v, l)
    PROVE  CameBy(SchedOf(d, v, l), d, v, l)
  BY DEF CameBy

(* A step that yields the schedule of a later choice. *)
LEMMA YieldStep ==
    ASSUME Ready, UNCHANGED Static, Choosing, Choosing', iter = "next", iter' = "next", EmittedInv,
           GoesOn(chosen, pattern, count, chosen', pattern', count'), Emit(Sched')
    PROVE  EmittedInv'
  <1>1. Shape(chosen, pattern, count)
    BY DEF Choosing
  <1>2. Shape(chosen', pattern', count') /\ ckps' = ChosenKps(chosen') /\ chosen' \in Seq(Threads)
    <2>1. Shape(chosen, pattern, count)' /\ ckps' = ChosenKps(chosen)'
      BY DEF Choosing
    <2>2. Shape(chosen', pattern', count') /\ ckps' = ChosenKps(chosen')
      BY <2>1, StaticShape, StaticChosen
    <2> QED
      BY <2>2 DEF Shape, Eligible, Sorted
  <1> DEFINE s == SchedOf(chosen', pattern', count')
  <1>3. Sched' = s
    BY <1>2, StaticSched
  <1>4. \A r \in emitted : CameBy(r, chosen', pattern', count') /\ r # s
    <2> TAKE r \in emitted
    <2>1. CameBy(r, chosen, pattern, count)
      BY DEF EmittedInv
    <2> QED
      BY <1>1, <1>2, <2>1, NeverAgain
  <1>5. CameBy(s, chosen', pattern', count')
    BY <1>2, CameByItself
  <1>6. emitted' = emitted \cup {s} /\ yields' = yields + 1
    BY <1>3 DEF Emit
  <1> HIDE DEF s
  <1>7. IsFiniteSet(emitted') /\ yields' = Cardinality(emitted')
    <2>1. s \notin emitted
      BY <1>4
    <2>2. IsFiniteSet(emitted) /\ yields = Cardinality(emitted)
      BY DEF EmittedInv
    <2>3. /\ IsFiniteSet(emitted \cup {s})
          /\ Cardinality(emitted \cup {s}) = IF s \in emitted THEN Cardinality(emitted) ELSE Cardinality(emitted) + 1
      BY <2>2, FS_AddElement
    <2> QED
      BY <1>6, <2>1, <2>2, <2>3
  <1>8. \A r \in emitted' : CameBy(r, chosen', pattern', count')
    BY <1>4, <1>5, <1>6
  <1>9. \A r \in emitted' : CameBy(r, chosen, pattern, count)'
    BY <1>8, StaticCame
  <1> QED
    BY <1>7, <1>9 DEF EmittedInv

LEMMA EmittedInvStep == SchedInv /\ SchedInv' /\ EmittedInv /\ [Next]_vars => EmittedInv'
  <1> SUFFICES ASSUME SchedInv, SchedInv', EmittedInv, [Next]_vars
               PROVE  EmittedInv'
    OBVIOUS
  <1>1. CASE InitHelper
    BY <1>1 DEF InitHelper, EmittedInv, history
  <1>8. CASE RefuseWhole
    BY <1>8 DEF RefuseWhole, EmittedInv, history
  <1>2. CASE Construct
    <2>1. iter = "helped" /\ emitted' = emitted /\ yields' = yields /\ iter' \in {"refused", "first"}
      BY <1>2, ConstructIs
    <2> QED
      BY <2>1 DEF EmittedInv
  <1>3. CASE FirstIter
    <2>1. /\ iter = "first" /\ iter' = "next" /\ UNCHANGED Static
          /\ UNCHANGED <<chosen, ckps, pattern, count>>
          /\ emitted' = emitted \cup {Sched} /\ yields' = yields + 1
      BY <1>3 DEF FirstIter, Static, Emit
    <2>2. Ready /\ Choosing /\ emitted = {} /\ yields = Cardinality(emitted)
      BY <2>1 DEF SchedInv, EmittedInv
    <2>3. Sched = SchedOf(chosen, pattern, count)
      BY <2>2, ChoosingSched
    <2> DEFINE s == SchedOf(chosen, pattern, count)
    <2>4. CameBy(s, chosen, pattern, count)
      BY <2>2, CameByItself DEF Choosing
    <2>5. emitted' = {s} /\ yields' = Cardinality({}) + 1
      BY <2>1, <2>2, <2>3
    <2> HIDE DEF s
    <2>6. IsFiniteSet(emitted') /\ yields' = Cardinality(emitted')
      <3>1. Cardinality({}) = 0
        BY FS_EmptySet
      <3>2. IsFiniteSet({s}) /\ Cardinality({s}) = 1
        BY FS_Singleton
      <3> QED
        BY <2>5, <3>1, <3>2
    <2>7. \A r \in emitted' : CameBy(r, chosen', pattern', count')
      BY <2>1, <2>4, <2>5
    <2>8. \A r \in emitted' : CameBy(r, chosen, pattern, count)'
      BY <2>1, <2>7, StaticCame
    <2> QED
      BY <2>1, <2>6, <2>8 DEF EmittedInv
  <1>4. CASE NextIterSched
    <2>1. Ready /\ Choosing
      BY <1>4 DEF SchedInv, NextIterSched
    <2>2. /\ UNCHANGED Static /\ UNCHANGED <<chosen, pattern, iter>>
          /\ iter = "next" /\ Choosing'
          /\ LaterCounts(pattern, count, count', p) /\ Emit(Sched')
      BY <1>4, <2>1, MovedChoosing
    <2>3. GoesOn(chosen, pattern, count, chosen', pattern', count')
      BY <2>2 DEF GoesOn
    <2> QED
      BY <2>1, <2>2, <2>3, YieldStep
  <1>5. CASE NextIterPattern
    <2>1. Ready /\ Choosing
      BY <1>5 DEF SchedInv, NextIterPattern
    <2>2. /\ UNCHANGED Static /\ UNCHANGED iter /\ iter = "next" /\ Choosing'
          /\ LaterChoice(chosen, pattern, [chosen |-> chosen', pattern |-> TailOf(pattern')])
          /\ Emit(Sched')
      BY <1>5, <2>1, PatternChoosing
    <2>3. GoesOn(chosen, pattern, count, chosen', pattern', count')
      BY <2>2 DEF GoesOn
    <2> QED
      BY <2>1, <2>2, <2>3, YieldStep
  <1>6. CASE StopIteration
    BY <1>6 DEF StopIteration, EmittedInv, history
  <1>7. CASE UNCHANGED vars
    <2>1. UNCHANGED Static /\ UNCHANGED <<iter, chosen, pattern, count, emitted, yields>>
      BY <1>7 DEF vars, Static, history
    <2>2. ASSUME NEW r, CameBy(r, chosen, pattern, count) PROVE CameBy(r, chosen, pattern, count)'
      <3>1. CameBy(r, chosen', pattern', count')
        BY <2>1, <2>2
      <3> QED
        BY <2>1, <3>1, StaticCame
    <2> QED
      BY <2>1, <2>2 DEF EmittedInv
  <1> QED
    BY <1>1, <1>2, <1>3, <1>4, <1>5, <1>6, <1>7, <1>8 DEF Next

LEMMA EmittedInvInit == Init => EmittedInv
  <1> SUFFICES ASSUME Init PROVE EmittedInv
    OBVIOUS
  <1>1. emitted = {} /\ yields = 0 /\ iter = "new"
    BY DEF Init
  <1> QED
    BY <1>1, FS_EmptySet DEF EmittedInv

(* No schedule is yielded twice, whatever the input: each one comes from a *)
(* later choice of threads, pattern and counts than those before it, and    *)
(* the redundant patterns, which alone give a schedule again, are skipped. *)
THEOREM NothingTwice == Spec => []NoRepetition
  <1>1. Spec => []EmittedInv
    BY EmittedInvInit, EmittedInvStep, SchedInvAlways, PTL DEF Spec
  <1>2. EmittedInv => NoRepetition
    BY DEF EmittedInv, NoRepetition
  <1> QED
    BY <1>1, <1>2, PTL

-----------------------------------------------------------------------------
(* A serialised schedule as a pattern: no thread has more periods than KPs. *)
Owners(kk) == {t \in DOMAIN kk : kk[t] > 0}
Serialises(kk, m, q) ==
    /\ q \in [1..m -> Owners(kk)]
    /\ \A t \in Owners(kk) : \E j \in 1..m : q[j] = t
    /\ \A j \in 2..m : q[j] # q[j - 1]
    /\ \A t \in DOMAIN kk : CountIn(q, t, m) <= kk[t]

(* Counting the periods of t never passes the sum of its KPs.              *)
LEMMA CountBelowSum ==
    ASSUME NEW m \in Nat, NEW q, NEW t, NEW u, u[0] = 0, \A j \in 0..m : u[j] \in Nat,
           \A j \in 1..m : u[j] >= u[j - 1] + Owns(q, t, j)
    PROVE  CountIn(q, t, m) <= u[m]
  <1> DEFINE S == {j \in 0..m : CountIn(q, t, j) > u[j]}
  <1> SUFFICES ASSUME ~(CountIn(q, t, m) <= u[m]) PROVE FALSE
    OBVIOUS
  <1>1. ASSUME NEW j \in 0..m PROVE CountIn(q, t, j) \in Nat /\ u[j] \in Nat
    <2>1. j \in Nat
      OBVIOUS
    <2> QED
      BY <2>1, CountType
  <1>2. m \in S /\ S \in SUBSET Nat
    <2>1. m \in 0..m
      OBVIOUS
    <2> QED
      BY <1>1, <2>1
  <1>3. PICK j \in S : \A x \in S : j <= x
    <2> HIDE DEF S
    <2> QED
      BY <1>2, LeastNumber
  <1>4. j # 0
    <2>1. 0 \notin S
      BY CountZero
    <2> QED
      BY <1>3, <2>1
  <1>5. j \in 1..m /\ j - 1 \in 0..m /\ j \in Nat \ {0} /\ ~(j <= j - 1)
    BY <1>3, <1>4
  <1>6. CountIn(q, t, j - 1) <= u[j - 1]
    <2>1. j - 1 \notin S
      BY <1>3, <1>5
    <2> QED
      BY <1>1, <1>5, <2>1
  <1>7. CountIn(q, t, j) = CountIn(q, t, j - 1) + Owns(q, t, j)
    BY <1>5, CountNext
  <1>8. u[j] >= u[j - 1] + Owns(q, t, j) /\ CountIn(q, t, j) > u[j]
    BY <1>3, <1>5
  <1>9. Owns(q, t, j) \in Nat
    BY DEF Owns
  <1>10. CountIn(q, t, j) \in Nat /\ CountIn(q, t, j - 1) \in Nat /\ u[j] \in Nat /\ u[j - 1] \in Nat
    BY <1>1, <1>5
  <1> QED
    BY <1>6, <1>7, <1>8, <1>9, <1>10

LEMMA SerialPattern ==
    ASSUME NEW kk, \A t \in DOMAIN kk : kk[t] \in Nat, NEW m \in Nat, NEW s \in Serial(kk, m)
    PROVE  \E q : Serialises(kk, m, q)
  <1> DEFINE owners == {t \in DOMAIN kk : kk[t] > 0}
             patterns == {pat \in [1..m -> owners] :
                            Range(pat) = owners /\ \A j \in 2..m : pat[j] # pat[j - 1]}
             most == MostInPeriod(kk)
             counts == [1..m -> 1..most]
             every == {Periods(DOMAIN kk, pat, c) : pat \in patterns, c \in counts}
  <1>1. s \in every /\ \A t \in DOMAIN kk : Upto(s, t, m) = kk[t]
    <2>1. Serial(kk, m) = {x \in every : \A t \in DOMAIN kk : Upto(x, t, m) = kk[t]}
      BY DEF Serial
    <2> HIDE DEF every
    <2> QED
      BY <2>1
  <1> HIDE DEF most
  <1>2. PICK q \in patterns, c \in counts : s = Periods(DOMAIN kk, q, c)
    <2> HIDE DEF counts, patterns
    <2> QED
      BY <1>1
  <1>3. /\ q \in [1..m -> owners] /\ Range(q) = owners /\ DOMAIN q = 1..m
        /\ \A j \in 2..m : q[j] # q[j - 1]
    OBVIOUS
  <1>4. \A j \in 1..m : c[j] \in Nat /\ c[j] >= 1
    <2>1. \A j \in 1..m : c[j] \in 1..most
      OBVIOUS
    <2> QED
      BY <2>1
  <1>5. \A t \in owners : \E j \in 1..m : q[j] = t
    BY <1>3 DEF Range
  <1>6. DOMAIN s = 1..m
    BY SerialLength
  <1>7. \A j \in 1..m : s[j] = [u \in DOMAIN kk |-> IF u = q[j] THEN c[j] ELSE 0]
    BY <1>2, <1>3 DEF Periods, Period
  <1>8. ASSUME NEW t \in DOMAIN kk PROVE CountIn(q, t, m) <= kk[t]
    <2>1. ASSUME NEW j \in 1..m
          PROVE  s[j][t] \in Nat /\ s[j][t] >= Owns(q, t, j)
      <3>1. s[j] = [u \in DOMAIN kk |-> IF u = q[j] THEN c[j] ELSE 0]
        BY <1>7, Zenon
      <3>2. s[j][t] = IF t = q[j] THEN c[j] ELSE 0
        BY <3>1, Zenon
      <3>3. c[j] \in Nat /\ c[j] >= 1
        BY <1>4
      <3> QED
        BY <3>2, <3>3 DEF Owns
    <2>2. /\ Upto(s, t, 0) = 0
          /\ \A j \in 1..m : Upto(s, t, j) = Upto(s, t, j - 1) + s[j][t]
          /\ \A j \in 0..m : Upto(s, t, j) \in Nat
      <3>1. \A j \in 1..m : s[j][t] \in Nat
        BY <2>1
      <3>2. /\ Upto(s, t, 0) = 0
            /\ \A j \in 1..m : Upto(s, t, j) = Upto(s, t, j - 1) + s[j][t]
            /\ \A j \in 0..m : Upto(s, t, j) \in Nat
            /\ \A i \in 0..m : \A j \in 0..m : i <= j => Upto(s, t, i) <= Upto(s, t, j)
        BY <1>6, <3>1, UptoSteps
      <3> QED
        BY <3>2
    <2> DEFINE u == [j \in 0..m |-> Upto(s, t, j)]
    <2>3. u[0] = 0 /\ \A j \in 0..m : u[j] \in Nat
      BY <2>2
    <2>4. ASSUME NEW j \in 1..m PROVE u[j] >= u[j - 1] + Owns(q, t, j)
      <3>1. j \in 0..m /\ j - 1 \in 0..m
        OBVIOUS
      <3>2. u[j] = Upto(s, t, j) /\ u[j - 1] = Upto(s, t, j - 1)
        BY <3>1
      <3>3. u[j] = u[j - 1] + s[j][t] /\ u[j - 1] \in Nat
        BY <2>2, <3>1, <3>2
      <3>4. s[j][t] \in Nat /\ s[j][t] >= Owns(q, t, j)
        BY <2>1
      <3>5. Owns(q, t, j) \in Nat
        BY DEF Owns
      <3> HIDE DEF u
      <3> QED
        BY <3>3, <3>4, <3>5
    <2>5. u[m] = kk[t]
      <3>1. m \in 0..m /\ Upto(s, t, m) = kk[t]
        BY <1>1
      <3> QED
        BY <3>1
    <2> HIDE DEF u
    <2>6. CountIn(q, t, m) <= u[m]
      BY <2>3, <2>4, CountBelowSum
    <2> QED
      BY <2>5, <2>6
  <1>9. Serialises(kk, m, q)
    BY <1>3, <1>5, <1>8 DEF Serialises, Owners
  <1> QED
    BY <1>9

(* Every set of threads is one the scheduler may choose. *)
LEMMA SortedOf ==
    ASSUME Ready, NEW S \in SUBSET Threads
    PROVE  \E d : Sorted(d) /\ Elements(d) = S /\ Len(d) = Cardinality(S)
  <1> DEFINE n == Cardinality(S)
             d == [j \in 1..n |-> CHOOSE x \in S : CountBelow(S, x) = j - 1]
  <1>1. /\ N \in Nat /\ S \in SUBSET (0..(N - 1)) /\ S \in SUBSET Nat /\ n \in Nat
        /\ CountBelow(S, N) = n
    <2>1. N \in Nat /\ Threads = 0..(N - 1)
      BY ReadyType
    <2>2. S \in SUBSET (0..(N - 1))
      BY <2>1
    <2> QED
      BY <2>1, <2>2, ThreadSets
  <1> HIDE DEF n
  <1>2. ASSUME NEW j \in 1..n PROVE d[j] \in S /\ CountBelow(S, d[j]) = j - 1
    <2> DEFINE i == j - 1
    <2>1. i \in Nat /\ i < CountBelow(S, N)
      BY <1>1
    <2> HIDE DEF i
    <2>2. \E x \in S : x < N /\ CountBelow(S, x) = i
      BY <1>1, <2>1, NthMember
    <2>3. d[j] = CHOOSE x \in S : CountBelow(S, x) = i
      BY DEF i
    <2> HIDE DEF d
    <2>4. d[j] \in S /\ CountBelow(S, d[j]) = i
      BY <2>2, <2>3
    <2> QED
      BY <2>4 DEF i
  <1>3. DOMAIN d = 1..n
    OBVIOUS
  <1>4. d \in [1..n -> Threads]
    <2>1. \A j \in 1..n : d[j] \in Threads
      BY <1>2
    <2>2. d = [j \in 1..n |-> d[j]]
      OBVIOUS
    <2> HIDE DEF d
    <2> QED
      BY <2>1, <2>2
  <1> HIDE DEF d
  <1>5. d \in Seq(Threads) /\ Len(d) = n
    BY <1>1, <1>4
  <1>6. ASSUME NEW j \in 2..Len(d) PROVE d[j - 1] < d[j]
    <2>1. j \in 1..n /\ j - 1 \in 1..n /\ j \in Nat /\ n \in Nat
      BY <1>1, <1>5
    <2> DEFINE x == d[j - 1]
               y == d[j]
    <2>2. x \in S /\ y \in S /\ CountBelow(S, x) = (j - 1) - 1 /\ CountBelow(S, y) = j - 1
      BY <1>2, <2>1
    <2> HIDE DEF x, y
    <2>3. x \in Nat /\ y \in Nat
      BY <1>1, <2>2
    <2>4. y <= x => CountBelow(S, y) <= CountBelow(S, x)
      BY <1>1, <2>3, BelowMonotone
    <2>5. x < y
      BY <2>1, <2>2, <2>3, <2>4
    <2> QED
      BY <2>5 DEF x, y
  <1>7. ASSUME NEW x \in S PROVE \E j \in 1..n : d[j] = x
    <2>1. x \in Nat /\ x < N
      BY <1>1
    <2>2. CountBelow(S, x) \in Nat /\ CountBelow(S, x) < CountBelow(S, N)
      <3>1. CountBelow(S, x) \in Nat
        BY <1>1, <2>1, BelowType
      <3>2. CountBelow(S, x) + 1 <= CountBelow(S, N)
        BY <1>1, <2>1, BelowStrict
      <3> QED
        BY <1>1, <3>1, <3>2
    <2> DEFINE j == CountBelow(S, x) + 1
    <2>3. j \in 1..n /\ j - 1 = CountBelow(S, x)
      BY <1>1, <2>2
    <2> HIDE DEF j
    <2>4. d[j] \in S /\ CountBelow(S, d[j]) = CountBelow(S, x)
      BY <1>2, <2>3
    <2> DEFINE y == d[j]
    <2> HIDE DEF y
    <2>5. y \in S /\ CountBelow(S, y) = CountBelow(S, x)
      BY <2>4 DEF y
    <2>6. y = x
      BY <1>1, <2>5, SameNth
    <2>7. d[j] = x
      BY <2>6 DEF y
    <2> QED
      BY <2>3, <2>7
  <1>8. Elements(d) = S
    <2>1. \A j \in 1..n : d[j] \in S
      BY <1>2
    <2> QED
      BY <1>3, <1>7, <2>1 DEF Elements
  <1>9. Sorted(d)
    BY <1>5, <1>6 DEF Sorted
  <1> QED
    BY <1>5, <1>8, <1>9 DEF n

(* Without a prefix all KPs are in the pool. *)
LEMMA PoolIsKps ==
    ASSUME Ready, fixed = <<>>
    PROVE  /\ start = 0 /\ p \in Nat /\ p >= 1 /\ p - start = p /\ N \in Nat /\ Threads = 0..(N - 1)
           /\ kps \in [Threads -> Nat] /\ DOMAIN kps = Threads
           /\ \A t \in Threads : kps[t] \in Nat /\ pool[t] = kps[t] /\ Used(fixed, t) = 0
  <1>1. start = 0 /\ p \in Nat /\ p >= 1 /\ p - start = p /\ N \in Nat /\ Threads = 0..(N - 1)
    <2>1. start = 0
      BY DEF start
    <2> QED
      BY <2>1, ReadyType
  <1>2. ASSUME NEW t \in Threads PROVE Used(fixed, t) = 0
    <2> DEFINE x == [j \in DOMAIN fixed |-> IF fixed[j].thread = t THEN fixed[j].kps ELSE 0]
    <2>1. Used(fixed, t) = SumUpto(x, 0)
      BY DEF Used
    <2> HIDE DEF x
    <2>2. SumUpto(x, 0) = 0
      <3>1. \A j \in 1..0 : x[j] \in Nat
        OBVIOUS
      <3>2. 0 \in Nat
        OBVIOUS
      <3> QED
        BY <3>1, <3>2, SumSteps
    <2> QED
      BY <2>1, <2>2
  <1>3. kps \in [Threads -> Nat] /\ pool \in [Threads -> Nat]
        /\ \A t \in Threads : kps[t] = Used(fixed, t) + pool[t]
    BY DEF Ready
  <1>4. \A t \in Threads : kps[t] \in Nat /\ pool[t] \in Nat
    BY <1>3
  <1>5. \A t \in Threads : pool[t] = kps[t]
    BY <1>2, <1>3, <1>4
  <1> QED
    BY <1>1, <1>2, <1>3, <1>4, <1>5

(* If there is a schedule, _init_pattern finds a pattern for the threads   *)
(* it serialises.                                                          *)
LEMMA ScheduleFound ==
    ASSUME Ready, fixed = <<>>, NEW s \in Mixed(kps, p)
    PROVE  \E d : Eligible(d) /\ Sooner(<<>>, d) /\ PatternFor(d, FALSE) # None
  <1> DEFINE Pool(ch) == [t \in DOMAIN kps |-> IF t \in ch THEN kps[t] ELSE 0]
             Add(ch, q) ==
                [q EXCEPT ![p] = [t \in DOMAIN kps |-> IF t \in ch THEN @[t] ELSE kps[t]]]
  <1>1. Mixed(kps, p) = UNION {{Add(ch, q) : q \in Serial(Pool(ch), p)} :
                                  ch \in (SUBSET DOMAIN kps) \ {{}}}
    BY DEF Mixed
  <1> HIDE DEF Pool, Add
  <1>2. PICK ch \in SUBSET DOMAIN kps : \E q \in Serial(Pool(ch), p) : s = Add(ch, q)
    BY <1>1
  <1>3. PICK q \in Serial(Pool(ch), p) : s = Add(ch, q)
    BY <1>2
  <1> DEFINE kk == Pool(ch)
             S == Owners(kk)
  <1>4. /\ start = 0 /\ p \in Nat /\ p >= 1 /\ last = NoThread /\ p - start = p
        /\ N \in Nat /\ Threads = 0..(N - 1) /\ Threads \in SUBSET Nat
    <2>1. start = 0
      BY DEF start
    <2> QED
      BY <2>1, ReadyType
  <1>5. kps \in [Threads -> Nat] /\ DOMAIN kps = Threads /\ \A t \in Threads : kps[t] \in Nat /\ pool[t] = kps[t]
    BY PoolIsKps
  <1>6. DOMAIN kk = Threads /\ \A t \in Threads : kk[t] = (IF t \in ch THEN kps[t] ELSE 0) /\ kk[t] \in Nat
    BY <1>5 DEF Pool
  <1> HIDE DEF kk
  <1>7. PICK r : Serialises(kk, p, r)
    <2>1. \A t \in DOMAIN kk : kk[t] \in Nat
      BY <1>6
    <2>2. q \in Serial(kk, p)
      BY DEF kk
    <2> QED
      BY <1>4, <2>1, <2>2, SerialPattern
  <1>8. /\ r \in [1..p -> S] /\ S \in SUBSET Threads
        /\ \A t \in S : \E j \in 1..p : r[j] = t
        /\ \A j \in 2..p : r[j] # r[j - 1]
        /\ \A t \in Threads : CountIn(r, t, p) <= kk[t]
    BY <1>6, <1>7 DEF Serialises, Owners
  <1>9. PICK d : Sorted(d) /\ Elements(d) = S /\ Len(d) = Cardinality(S)
    BY <1>8, SortedOf
  <1>10. Len(d) <= p
    BY <1>4, <1>8, <1>9, EnoughPeriods
  <1>11. Len(d) \in Nat /\ Len(d) # 0 /\ d \in Seq(Threads)
    <2>1. 1 \in 1..p
      BY <1>4
    <2>2. r[1] \in S
      BY <1>8, <2>1
    <2>3. IsFiniteSet(S)
      BY <1>9, SortedCount
    <2>4. Cardinality(S) # 0
      BY <2>2, <2>3, FS_EmptySet
    <2>5. Len(d) \in Nat /\ d \in Seq(Threads)
      BY <1>9, SortedType
    <2> QED
      BY <1>9, <2>4, <2>5
  <1>12. Eligible(d) /\ Sooner(<<>>, d)
    <2>1. Len(<<>>) = 0
      OBVIOUS
    <2>2. Len(<<>>) < Len(d)
      BY <1>11, <2>1
    <2> QED
      BY <1>4, <1>9, <1>10, <2>2 DEF Eligible, Sooner
  <1> DEFINE x == SearchOf(d)
  <1>13. /\ x \in Searches(Threads) /\ x.p = p /\ x.mustDo = S /\ x.last = NoThread
         /\ x.kps = ChosenKps(d) /\ DOMAIN x.kps = Threads
    BY <1>4, <1>9, <1>11, SearchOfType
  <1>14. ASSUME NEW t \in Threads PROVE CountIn(r, t, p) <= x.kps[t]
    <2>1. ChosenKps(d)[t] = IF t \in S THEN kps[t] ELSE 0
      BY <1>5, <1>9 DEF ChosenKps
    <2>2. t \in S <=> kk[t] > 0
      BY <1>6 DEF Owners
    <2>3. CountIn(r, t, p) <= kk[t] /\ CountIn(r, t, p) \in Nat
      BY <1>4, <1>8, CountType
    <2>4. kk[t] = (IF t \in ch THEN kps[t] ELSE 0) /\ kk[t] \in Nat /\ kps[t] \in Nat
      BY <1>5, <1>6
    <2> DEFINE y == CountIn(r, t, p)
               z == ChosenKps(d)[t]
    <2> HIDE DEF y, z, S, x
    <2>5. y <= z
      BY <2>1, <2>2, <2>3, <2>4 DEF y, z
    <2> QED
      BY <1>13, <2>5 DEF y, z
  <1> HIDE DEF x
  <1>15. Fits(x, r)
    <2>1. r \in [1..p -> Threads]
      BY <1>8
    <2>2. r[1] # x.last
      <3>1. 1 \in 1..p
        BY <1>4
      <3>2. r[1] \in Nat
        BY <1>4, <2>1, <3>1
      <3> QED
        BY <1>13, <3>2 DEF NoThread
    <2> QED
      BY <1>4, <1>8, <1>13, <1>14, <2>1, <2>2 DEF Fits
  <1>16. InitPattern(x) # None
    BY <1>4, <1>13, <1>15, InitPatternFinds
  <1> QED
    BY <1>12, <1>16 DEF PatternFor, x

-----------------------------------------------------------------------------
(* The schedules there are, while the KPs are those of the input; and the  *)
(* constructor gives up only if there is none.                             *)
RefusedInv ==
    fixed = <<>> =>
        /\ all = Mixed(kps, p)
        /\ iter = "refused" => all = {}

(* Without a prefix _init_helper leaves the KPs as they are. *)
LEMMA HelperKeepsKps ==
    ASSUME Sizes, InitHelper, fixed = <<>>
    PROVE  kps' = kps
  <1>1. kps' = [t \in Threads |-> Max({kps[t], Used(fixed, t)})]
    BY DEF InitHelper
  <1>2. kps = [t \in Threads |-> kps[t]]
    BY DEF Sizes
  <1>3. ASSUME NEW t \in Threads PROVE Max({kps[t], Used(fixed, t)}) = kps[t]
    <2> DEFINE x == [j \in DOMAIN fixed |-> IF fixed[j].thread = t THEN fixed[j].kps ELSE 0]
    <2>1. Used(fixed, t) = SumUpto(x, 0)
      BY DEF Used
    <2> HIDE DEF x
    <2>2. SumUpto(x, 0) = 0
      <3>1. \A j \in 1..0 : x[j] \in Nat
        OBVIOUS
      <3>2. 0 \in Nat
        OBVIOUS
      <3> QED
        BY <3>1, <3>2, SumSteps
    <2>3. kps[t] \in Nat
      BY DEF Sizes
    <2>4. Max({kps[t], 0}) = kps[t]
      BY <2>3, MaxOfTwo
    <2> QED
      BY <2>1, <2>2, <2>4
  <1> QED
    BY <1>1, <1>2, <1>3

(* Without a prefix the constructor gives up only if there is no schedule. *)
LEMMA RefusedEmpty ==
    ASSUME Ready, fixed = <<>>, ConstructChoice.pattern = None
    PROVE  Mixed(kps, p) = {}
  <1> DEFINE r == NextChoice(<<>>, FALSE)
  <1>1. ConstructChoice = r
    <2>1. start = 0
      BY DEF start
    <2> QED
      BY <2>1 DEF ConstructChoice
  <1>2. ChoiceFrom(<<>>, FALSE, r)
    BY EmptyEligible, NextChoiceIs
  <1> HIDE DEF r
  <1>3. \A d : Eligible(d) /\ Sooner(<<>>, d) => PatternFor(d, FALSE) = None
    BY <1>1, <1>2 DEF ChoiceFrom
  <1>4. ASSUME NEW s \in Mixed(kps, p) PROVE FALSE
    BY <1>3, ScheduleFound
  <1> QED
    BY <1>4

LEMMA RefusedInvStep == SchedInv /\ RefusedInv /\ [Next]_vars => RefusedInv'
  <1> SUFFICES ASSUME SchedInv, RefusedInv, [Next]_vars PROVE RefusedInv'
    OBVIOUS
  <1>1. CASE InitHelper
    <2>1. p' = p /\ fixed' = fixed /\ all' = all /\ iter' = "helped" /\ Sizes
      BY <1>1 DEF InitHelper, SchedInv
    <2>2. ASSUME fixed = <<>> PROVE all' = Mixed(kps', p')
      <3>1. kps' = kps
        BY <1>1, <2>1, <2>2, HelperKeepsKps
      <3> QED
        BY <2>1, <2>2, <3>1 DEF RefusedInv
    <2> QED
      BY <2>1, <2>2 DEF RefusedInv
  <1>8. CASE RefuseWhole
    <2>1. fixed # <<>>
      <3>1. start >= p /\ p \in Nat \ {0} /\ start = Len(fixed)
        BY <1>8 DEF RefuseWhole, SchedInv, Sizes, start
      <3> QED
        BY <3>1
    <2> QED
      BY <1>8, <2>1 DEF RefuseWhole, RefusedInv
  <1>2. CASE Construct
    <2>1. /\ iter = "helped" /\ UNCHANGED Static /\ all' = all
          /\ iter' = IF ConstructChoice.pattern = None THEN "refused" ELSE "first"
      BY <1>2, ConstructIs
    <2>2. kps' = kps /\ p' = p /\ fixed' = fixed
      BY <2>1 DEF Static
    <2>3. Ready
      BY <2>1 DEF SchedInv
    <2>4. ASSUME fixed = <<>>, iter' = "refused" PROVE all' = {}
      <3>1. ConstructChoice.pattern = None
        BY <2>1, <2>4
      <3> QED
        BY <2>1, <2>3, <2>4, <3>1, RefusedEmpty DEF RefusedInv
    <2> QED
      BY <2>1, <2>2, <2>4 DEF RefusedInv
  <1>3. CASE FirstIter
    BY <1>3 DEF FirstIter, RefusedInv
  <1>4. CASE NextIterSched
    BY <1>4 DEF NextIterSched, RefusedInv
  <1>5. CASE NextIterPattern
    BY <1>5 DEF NextIterPattern, RefusedInv
  <1>6. CASE StopIteration
    BY <1>6 DEF StopIteration, RefusedInv
  <1>7. CASE UNCHANGED vars
    BY <1>7 DEF vars, RefusedInv
  <1> QED
    BY <1>1, <1>2, <1>3, <1>4, <1>5, <1>6, <1>7, <1>8 DEF Next

LEMMA RefusedInvInit == Init => RefusedInv
  BY DEF Init, RefusedInv

(* The constructor raises ValueError for the KPs of a program and a number *)
(* of periods only if no schedule of the threads exists: the search over   *)
(* the sets of threads and their patterns misses no pattern.               *)
THEOREM RefusesOnlyTheImpossible == Spec => []RefusedRightly
  <1>1. Spec => []RefusedInv
    BY RefusedInvInit, RefusedInvStep, SchedInvAlways, PTL DEF Spec
  <1>2. RefusedInv => RefusedRightly
    BY DEF RefusedInv, RefusedRightly
  <1> QED
    BY <1>1, <1>2, PTL

-----------------------------------------------------------------------------
(* No count is above the greatest number of KPs. *)
LEMMA MostIs ==
    ASSUME NEW n \in Nat, NEW kk \in [0..(n - 1) -> Nat], NEW t \in 0..(n - 1)
    PROVE  MostInPeriod(kk) \in Nat /\ kk[t] <= MostInPeriod(kk)
  <1> DEFINE r == [i \in 1..n |-> kk[i - 1]]
  <1>1. n \in Nat \ {0} /\ \A u \in 0..(n - 1) : kk[u] \in Nat
    OBVIOUS
  <1>2. \A i \in 1..n : i - 1 \in 0..(n - 1)
    OBVIOUS
  <1>3. r \in [1..n -> Nat] /\ \A i \in 1..n : r[i] = kk[i - 1]
    BY <1>1, <1>2
  <1> HIDE DEF r
  <1>4. PICK i \in 1..n : \A j \in 1..n : r[i] >= r[j]
    BY <1>1, <1>3, GreatestEntry
  <1> DEFINE b == kk[i - 1]
             S == {kk[u] : u \in 0..(n - 1)}
  <1>5. Range(kk) = S
    BY DEF Range
  <1>6. b \in Nat /\ \A u \in 0..(n - 1) : kk[u] <= b
    <2>1. b \in Nat
      BY <1>1, <1>2
    <2>2. ASSUME NEW u \in 0..(n - 1) PROVE kk[u] <= b
      <3>1. u + 1 \in 1..n /\ (u + 1) - 1 = u
        OBVIOUS
      <3>2. r[u + 1] = kk[u] /\ r[i] = b /\ r[i] >= r[u + 1]
        BY <1>3, <1>4, <3>1
      <3> QED
        BY <1>1, <2>1, <3>2
    <2> QED
      BY <2>1, <2>2
  <1> HIDE DEF b
  <1>7. S \in SUBSET (0..b) /\ kk[t] \in S
    <2>1. \A u \in 0..(n - 1) : kk[u] \in 0..b
      BY <1>1, <1>6
    <2> QED
      BY <2>1
  <1> HIDE DEF S
  <1>8. Max(S) \in S /\ \A x \in S : x <= Max(S)
    BY <1>6, <1>7, MaxOfSet
  <1>9. Max(S) \in Nat
    <2>1. Max(S) \in 0..b
      BY <1>7, <1>8, Zenon
    <2> QED
      BY <1>6, <2>1
  <1> QED
    BY <1>5, <1>7, <1>8, <1>9 DEF MostInPeriod

(* A pattern and counts that run all KPs of their threads are a serialised *)
(* schedule.                                                               *)
LEMMA SerialIs ==
    ASSUME NEW n \in Nat, NEW m \in Nat, NEW kk \in [0..(n - 1) -> Nat],
           NEW w \in [1..m -> Owners(kk)], NEW k \in Counts(m),
           \A t \in Owners(kk) : \E j \in 1..m : w[j] = t,
           \A j \in 2..m : w[j] # w[j - 1],
           \A t \in DOMAIN kk : OwnSum(w, k, t, m) = kk[t]
    PROVE  Periods(DOMAIN kk, w, k) \in Serial(kk, m)
  <1> DEFINE D == DOMAIN kk
             s == Periods(D, w, k)
             S == Owners(kk)
  <1>1. D = 0..(n - 1) /\ DOMAIN w = 1..m /\ S \in SUBSET D
    BY DEF Owners
  <1>2. DOMAIN s = 1..m /\ \A j \in 1..m : s[j] = [u \in D |-> IF u = w[j] THEN k[j] ELSE 0]
    BY <1>1 DEF Periods, Period
  <1>3. \A j \in 1..m : w[j] \in S /\ w[j] \in D /\ k[j] \in Nat /\ k[j] >= 1
    BY <1>1 DEF Counts
  <1>4. \A j \in 1..m : \A t \in D : s[j][t] \in Nat /\ s[j][t] = (IF w[j] = t THEN k[j] ELSE 0)
    <2> HIDE DEF s, D, S
    <2> QED
      BY <1>2, <1>3
  <1>5. ASSUME NEW t \in D PROVE Upto(s, t, m) = kk[t]
    <2> DEFINE x == OwnKps(w, k, t)
               y == [i \in DOMAIN s |-> s[i][t]]
    <2>1. Upto(s, t, m) = SumUpto(y, m) /\ OwnSum(w, k, t, m) = SumUpto(x, m)
      BY DEF Upto, OwnSum
    <2>2. \A j \in 1..m : x[j] = (IF w[j] = t THEN k[j] ELSE 0)
      BY <1>1 DEF OwnKps
    <2>3. \A j \in 1..m : y[j] = s[j][t]
      BY <1>2
    <2> HIDE DEF x, y, s
    <2>4. \A j \in 1..m : x[j] \in Nat /\ y[j] = x[j]
      <3>1. \A j \in 1..m : s[j][t] \in Nat /\ s[j][t] = (IF w[j] = t THEN k[j] ELSE 0)
        BY <1>4
      <3> HIDE DEF D, S
      <3> QED
        BY ONLY <2>2, <2>3, <3>1
    <2>5. SumUpto(y, m) = SumUpto(x, m)
      BY <2>4, SameSums
    <2>6. OwnSum(w, k, t, m) = kk[t]
      OBVIOUS
    <2> QED
      BY <2>1, <2>5, <2>6
  <1> HIDE DEF s
  <1>6. ASSUME NEW j \in 1..m PROVE k[j] \in 1..MostInPeriod(kk)
    <2> DEFINE t == w[j]
    <2>1. t \in D /\ k[j] \in Nat /\ k[j] >= 1
      BY <1>3
    <2>2. s[j][t] = k[j]
      BY <1>3, <1>4
    <2> HIDE DEF t
    <2>3. /\ \A i \in 1..m : Upto(s, t, i) = Upto(s, t, i - 1) + s[i][t]
          /\ \A i \in 0..m : Upto(s, t, i) \in Nat
          /\ \A i \in 0..m : \A h \in 0..m : i <= h => Upto(s, t, i) <= Upto(s, t, h)
      <3>1. \A i \in 1..m : s[i][t] \in Nat
        BY <1>4, <2>1
      <3>2. DOMAIN s = 1..m
        BY <1>2
      <3>3. /\ Upto(s, t, 0) = 0
            /\ \A i \in 1..m : Upto(s, t, i) = Upto(s, t, i - 1) + s[i][t]
            /\ \A i \in 0..m : Upto(s, t, i) \in Nat
            /\ \A i \in 0..m : \A h \in 0..m : i <= h => Upto(s, t, i) <= Upto(s, t, h)
        BY <3>1, <3>2, UptoSteps
      <3> QED
        BY <3>3
    <2>4. j \in 0..m /\ j - 1 \in 0..m /\ m \in 0..m /\ j <= m
      OBVIOUS
    <2>5. Upto(s, t, j) = Upto(s, t, j - 1) + k[j] /\ Upto(s, t, j - 1) \in Nat
          /\ Upto(s, t, j) <= Upto(s, t, m) /\ Upto(s, t, m) \in Nat /\ Upto(s, t, j) \in Nat
      BY <2>2, <2>3, <2>4
    <2>6. Upto(s, t, m) = kk[t]
      BY <1>5, <2>1
    <2>7. MostInPeriod(kk) \in Nat /\ kk[t] <= MostInPeriod(kk)
      BY <1>1, <2>1, MostIs
    <2> QED
      BY <2>1, <2>5, <2>6, <2>7
  <1>7. w \in [1..m -> S] /\ Range(w) = S /\ \A j \in 2..m : w[j] # w[j - 1]
    <2>1. Range(w) = {w[j] : j \in 1..m}
      BY <1>1 DEF Range
    <2>2. \A t \in S : \E j \in 1..m : w[j] = t
      OBVIOUS
    <2>3. Range(w) = S
      BY <1>3, <2>1, <2>2
    <2> QED
      BY <2>3
  <1>8. k \in [1..m -> 1..MostInPeriod(kk)]
    <2>1. k = [j \in 1..m |-> k[j]]
      BY DEF Counts
    <2> QED
      BY <1>6, <2>1
  <1> DEFINE patterns == {pat \in [1..m -> S] : Range(pat) = S /\ \A j \in 2..m : pat[j] # pat[j - 1]}
             counts == [1..m -> 1..MostInPeriod(kk)]
             lot == {Periods(D, pat, r) : pat \in patterns, r \in counts}
  <1>9. Serial(kk, m) = {x \in lot : \A t \in D : Upto(x, t, m) = kk[t]}
    BY DEF Serial, Owners
  <1>10. w \in patterns /\ k \in counts
    BY <1>7, <1>8
  <1>11. s \in lot
    <2> HIDE DEF patterns, counts
    <2> QED
      BY <1>10 DEF s
  <1>12. s \in Serial(kk, m)
    <2> HIDE DEF lot, D
    <2> QED
      BY <1>5, <1>9, <1>11
  <1> QED
    BY <1>12 DEF s

(* What the scheduler makes of threads that all have KPs is a schedule     *)
(* with a mixed end.                                                       *)
LEMMA SchedMixed ==
    ASSUME Ready, fixed = <<>>, \A t \in Threads : kps[t] > 0,
           NEW c, NEW w, NEW k, Shape(c, w, k), Totals(c, w, k)
    PROVE  SchedOf(c, w, k) \in Mixed(kps, p)
  <1> DEFINE Pool(ch) == [t \in DOMAIN kps |-> IF t \in ch THEN kps[t] ELSE 0]
             Add(ch, q) ==
                [q EXCEPT ![p] = [t \in DOMAIN kps |-> IF t \in ch THEN @[t] ELSE kps[t]]]
             ch == Elements(c)
             kk == Pool(ch)
             q == Periods(Threads, w, k)
  <1>1. /\ start = 0 /\ p \in Nat /\ p >= 1 /\ p - start = p /\ N \in Nat /\ Threads = 0..(N - 1)
        /\ kps \in [Threads -> Nat] /\ DOMAIN kps = Threads
        /\ \A t \in Threads : kps[t] \in Nat /\ pool[t] = kps[t] /\ Used(fixed, t) = 0
    BY PoolIsKps
  <1>2. /\ Sorted(c) /\ c \in Seq(Threads) /\ w \in [1..p -> Threads] /\ k \in Counts(p)
        /\ GoodFor(SearchOf(c), TailOf(w))
    BY DEF Shape, Eligible, Sorted
  <1>3. TailOf(w) = w
    <2>1. w = [j \in 1..p |-> w[j]]
      BY <1>2
    <2>2. TailOf(w) = [j \in 1..p |-> w[0 + j]]
      BY <1>1 DEF TailOf
    <2>3. \A j \in 1..p : 0 + j = j
      OBVIOUS
    <2>4. [j \in 1..p |-> w[0 + j]] = [j \in 1..p |-> w[j]]
      BY <2>3
    <2> QED
      BY <2>1, <2>2, <2>4
  <1>4. ch \in SUBSET Threads
    BY <1>2, SearchOfType
  <1>5. /\ \A t \in ch : \E j \in 1..p : w[j] = t
        /\ \A j \in 1..p : w[j] \in ch
        /\ \A j \in 2..p : w[j] # w[j - 1]
    <2>1. GoodFor(SearchOf(c), w)
      BY <1>2, <1>3
    <2>2. \A t \in ch : \E j \in 1..(p - start) : w[j] = t
      BY <1>2, <2>1, TailType
    <2>3. \A j \in 1..(p - start) : w[j] \in ch
      BY <1>2, <2>1, TailRange
    <2>4. SearchOf(c).p = p
      BY <1>1, <1>2, SearchOfType
    <2>5. \A j \in 2..p : w[j] # w[j - 1]
      BY <2>1, <2>4 DEF GoodFor
    <2> QED
      BY <1>1, <2>2, <2>3, <2>5
  <1>6. /\ kk \in [0..(N - 1) -> Nat] /\ DOMAIN kk = Threads
        /\ \A t \in Threads : kk[t] = IF t \in ch THEN kps[t] ELSE 0
    <2>1. \A t \in Threads : (IF t \in ch THEN kps[t] ELSE 0) \in Nat
      BY <1>1
    <2> HIDE DEF ch
    <2> QED
      BY <1>1, <2>1
  <1> HIDE DEF kk
  <1>7. Owners(kk) = ch
    <2>1. \A t \in Threads : kk[t] > 0 <=> t \in ch
      BY <1>1, <1>6
    <2> HIDE DEF ch
    <2> QED
      BY <1>4, <1>6, <2>1 DEF Owners
  <1>8. ASSUME NEW t \in Threads PROVE OwnSum(w, k, t, p) = kk[t]
    <2>1. RunsThread(c, w, k, t)
      BY DEF Totals
    <2>2. kps[t] \in Nat /\ kps[t] > 0 /\ pool[t] = kps[t] /\ Used(fixed, t) = 0
      BY <1>1
    <2>3. CASE t \in ch
      BY <1>6, <2>1, <2>2, <2>3 DEF RunsThread
    <2>4. CASE t \notin ch
      BY <1>6, <2>1, <2>2, <2>4 DEF RunsThread
    <2> QED
      BY <2>3, <2>4
  <1>9. q \in Serial(kk, p)
    <2>1. w \in [1..p -> Owners(kk)]
      <3>1. w = [j \in 1..p |-> w[j]]
        BY <1>2
      <3>2. \A j \in 1..p : w[j] \in Owners(kk)
        BY <1>5, <1>7
      <3> QED
        BY <3>1, <3>2
    <2>2. \A t \in Owners(kk) : \E j \in 1..p : w[j] = t
      BY <1>5, <1>7
    <2>3. \A t \in DOMAIN kk : OwnSum(w, k, t, p) = kk[t]
      BY <1>6, <1>8
    <2>4. Periods(DOMAIN kk, w, k) \in Serial(kk, p)
      <3> HIDE DEF ch
      <3> QED
        BY <1>1, <1>2, <1>5, <1>6, <2>1, <2>2, <2>3, SerialIs
    <2> QED
      BY <1>6, <2>4
  <1>10. SchedOf(c, w, k) = Add(ch, q)
    <2>1. DOMAIN q = 1..p /\ \A j \in 1..p : q[j] = [u \in Threads |-> IF u = w[j] THEN k[j] ELSE 0]
      BY <1>2 DEF Periods, Period
    <2>2. q = [j \in 1..p |-> q[j]]
      BY <2>1 DEF Periods
    <2> HIDE DEF q
    <2>3. Add(ch, q) = [j \in 1..p |-> IF j = p THEN [t \in Threads |-> IF t \in ch THEN q[p][t] ELSE kps[t]] ELSE q[j]]
      <3>1. p \in 1..p
        BY <1>1
      <3> HIDE DEF ch
      <3> QED
        BY <1>1, <2>2, <3>1
    <2>4. ASSUME NEW j \in 1..p, j # p PROVE [t \in Threads |-> RunIn(c, w, k, j, t)] = q[j]
      <3>1. \A t \in Threads : RunIn(c, w, k, j, t) = IF t = w[j] THEN k[j] ELSE 0
        <4>1. k[j] \in Nat
          BY <1>2 DEF Counts
        <4> QED
          BY <2>4, <4>1 DEF RunIn
      <3> QED
        BY <2>1, <3>1
    <2>5. [t \in Threads |-> RunIn(c, w, k, p, t)] = [t \in Threads |-> IF t \in ch THEN q[p][t] ELSE kps[t]]
      <3>1. p \in 1..p /\ k[p] \in Nat /\ w[p] \in ch
        <4>1. p \in 1..p
          BY <1>1
        <4> QED
          BY <1>2, <1>5, <4>1 DEF Counts
      <3>2. ASSUME NEW t \in Threads
            PROVE  RunIn(c, w, k, p, t) = IF t \in ch THEN q[p][t] ELSE kps[t]
        <4>1. q[p] = [u \in Threads |-> IF u = w[p] THEN k[p] ELSE 0]
          BY <2>1, <3>1
        <4>2. q[p][t] = IF t = w[p] THEN k[p] ELSE 0
          BY <4>1
        <4>3. pool[t] = kps[t] /\ kps[t] \in Nat
          BY <1>1
        <4>4. CASE t \in ch
          BY <3>1, <4>2, <4>3, <4>4 DEF RunIn, Dumped
        <4>5. CASE t \notin ch
          BY <3>1, <4>2, <4>3, <4>5 DEF RunIn, Dumped
        <4> QED
          BY <4>4, <4>5
      <3> HIDE DEF ch
      <3> QED
        BY <3>2
    <2>6. ASSUME NEW j \in 1..p
          PROVE  [t \in Threads |-> RunIn(c, w, k, j, t)] =
                 IF j = p THEN [t \in Threads |-> IF t \in ch THEN q[p][t] ELSE kps[t]] ELSE q[j]
      <3>1. CASE j = p
        BY <2>5, <3>1
      <3>2. CASE j # p
        BY <2>4, <3>2
      <3> QED
        BY <3>1, <3>2
    <2> HIDE DEF Add, ch
    <2> QED
      BY <2>3, <2>6 DEF SchedOf
  <1>11. ch # {}
    <2>1. 1 \in 1..p
      BY <1>1
    <2> QED
      BY <1>5, <2>1
  <1>12. Mixed(kps, p) = UNION {{Add(x, y) : y \in Serial(Pool(x), p)} : x \in (SUBSET DOMAIN kps) \ {{}}}
    BY DEF Mixed
  <1>13. ch \in (SUBSET DOMAIN kps) \ {{}} /\ q \in Serial(Pool(ch), p)
    <2> HIDE DEF Pool, ch, q
    <2>1. q \in Serial(Pool(ch), p)
      BY <1>9 DEF kk
    <2>2. ch \in SUBSET DOMAIN kps /\ ch \notin {{}}
      BY ONLY <1>1, <1>4, <1>11
    <2> QED
      BY ONLY <2>1, <2>2
  <1> HIDE DEF Add, Pool, ch, q
  <1> QED
    BY <1>10, <1>12, <1>13

(* While the scheduler iterates, its schedule is one of those there are.   *)
AllHaveKps == fixed = <<>> /\ \A t \in Threads : kps[t] > 0
OneOfMixed == AllHaveKps => (iter \in {"first", "next"} => Sched \in Mixed(kps, p))

LEMMA SchedOfMixed == SchedInv => OneOfMixed
  <1> SUFFICES ASSUME SchedInv, AllHaveKps, iter \in {"first", "next"}
               PROVE  Sched \in Mixed(kps, p)
    BY DEF OneOfMixed
  <1>1. Ready /\ Choosing
    BY DEF SchedInv
  <1>2. Sched = SchedOf(chosen, pattern, count)
    BY <1>1, ChoosingSched
  <1> QED
    BY <1>1, <1>2, SchedMixed DEF Choosing, AllHaveKps

(* Every schedule yielded is one of the schedules with a mixed end: its    *)
(* periods have one thread each, no period is empty, adjacent ones differ, *)
(* and only the last one also runs the KPs of threads not chosen.          *)
OnlySchedules == AllHaveKps => emitted \subseteq all

LEMMA OnlySchedulesStep ==
    /\ SchedInv /\ EmittedInv /\ RefusedInv /\ RefusedInv' /\ OneOfMixed /\ OneOfMixed'
    /\ OnlySchedules /\ [Next]_vars
    => OnlySchedules'
  <1> SUFFICES ASSUME SchedInv, EmittedInv, RefusedInv, RefusedInv', OneOfMixed, OneOfMixed',
                      OnlySchedules, [Next]_vars, AllHaveKps'
               PROVE  emitted' \subseteq all'
    BY DEF OnlySchedules
  <1>1. fixed' = <<>> /\ all' = Mixed(kps', p')
    BY DEF RefusedInv, AllHaveKps
  <1>2. CASE InitHelper
    <2>1. emitted' = {}
      BY <1>2 DEF InitHelper, EmittedInv, history
    <2> QED
      BY <2>1
  <1>3. CASE Construct
    <2>1. iter = "helped" /\ emitted' = emitted
      BY <1>3, ConstructIs
    <2> QED
      BY <2>1 DEF EmittedInv
  <1>4. ASSUME kps' = kps, fixed' = fixed, all' = all PROVE emitted \subseteq all'
    <2>1. AllHaveKps
      BY <1>4 DEF AllHaveKps, Threads
    <2> QED
      BY <1>4, <2>1 DEF OnlySchedules
  <1>9. CASE RefuseWhole
    <2>1. kps' = kps /\ fixed' = fixed /\ all' = all /\ emitted' = emitted
      BY <1>9 DEF RefuseWhole, history
    <2> QED
      BY <1>4, <2>1
  <1>5. CASE FirstIter
    <2>1. /\ iter = "first" /\ kps' = kps /\ fixed' = fixed /\ all' = all /\ p' = p
          /\ emitted' = emitted \cup {Sched}
      BY <1>5 DEF FirstIter, Emit
    <2>2. AllHaveKps
      BY <2>1 DEF AllHaveKps, Threads
    <2>3. Sched \in Mixed(kps, p)
      BY <2>1, <2>2 DEF OneOfMixed
    <2>4. Sched \in all'
      BY <1>1, <2>1, <2>3
    <2>5. emitted \subseteq all'
      BY <1>4, <2>1
    <2> QED
      BY <2>1, <2>4, <2>5
  <1>6. CASE NextIterSched \/ NextIterPattern
    <2>1. /\ iter' = "next" /\ kps' = kps /\ fixed' = fixed /\ all' = all /\ p' = p
          /\ emitted' = emitted \cup {Sched'}
      BY <1>6 DEF NextIterSched, NextIterPattern, Emit
    <2>2. Sched' \in Mixed(kps', p')
      BY <2>1 DEF OneOfMixed
    <2>3. emitted \subseteq all'
      BY <1>4, <2>1
    <2> QED
      BY <1>1, <2>1, <2>2, <2>3
  <1>7. CASE StopIteration
    <2>1. kps' = kps /\ fixed' = fixed /\ all' = all /\ emitted' = emitted
      BY <1>7 DEF StopIteration, history
    <2> QED
      BY <1>4, <2>1
  <1>8. CASE UNCHANGED vars
    <2>1. kps' = kps /\ fixed' = fixed /\ all' = all /\ emitted' = emitted
      BY <1>8 DEF vars, history
    <2> QED
      BY <1>4, <2>1
  <1> QED
    BY <1>2, <1>3, <1>5, <1>6, <1>7, <1>8, <1>9 DEF Next

(* For threads that have KPs and without a prefix to keep, the scheduler   *)
(* yields no schedule but those of the reference definition Mixed: the     *)
(* half of EnumeratesAll that holds for every number of threads, KPs and   *)
(* periods.                                                                *)
THEOREM YieldsOnlySchedules == Spec => []OnlySchedules
  <1>1. Init => OnlySchedules
    BY DEF Init, OnlySchedules
  <1>2. Spec => []EmittedInv
    BY EmittedInvInit, EmittedInvStep, SchedInvAlways, PTL DEF Spec
  <1>3. Spec => []RefusedInv
    BY RefusedInvInit, RefusedInvStep, SchedInvAlways, PTL DEF Spec
  <1>4. Spec => []OneOfMixed
    BY SchedOfMixed, SchedInvAlways, PTL
  <1> QED
    BY <1>1, <1>2, <1>3, <1>4, OnlySchedulesStep, SchedInvAlways, PTL DEF Spec
=============================================================================
