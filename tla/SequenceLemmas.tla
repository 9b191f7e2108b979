--------------------------- MODULE SequenceLemmas ---------------------------
(***************************************************************************)
(* What the proofs need to know of numbers and of the library's operators: *)
(* that least and greatest elements exist, that Min and Max give them,     *)
(* what FlattenSeq returns and where its entries lie, what sums of partial *)
(* sums are, how to count below a bound; and of schedules: that their sums *)
(* rise, what the yields made from them add up to, and that those with a   *)
(* mixed end run all key points of all threads.                            *)
(***************************************************************************)
EXTENDS Integers, Sequences, SequencesExt, Schedules, WellFoundedInduction,
        SequenceTheorems, FiniteSetTheorems, FunctionTheorems, TLAPS

(* Induction in the form in which the provers can use it. *)
LEMMA LeastNumber ==
    ASSUME NEW S \in SUBSET Nat, S # {}
    PROVE  \E m \in S : \A x \in S : m <= x
  <1>1. PICK m \in S : \A x \in S : <<x, m>> \notin OpToRel(<, Nat)
    BY WFMin, NatLessThanWellFounded
  <1>2. \A x \in S : ~(x < m)
    BY <1>1 DEF OpToRel
  <1> QED
    BY <1>2

LEMMA MinOfSet ==
    ASSUME NEW S \in SUBSET Nat, S # {}
    PROVE  Min(S) \in S /\ \A x \in S : Min(S) <= x
  <1>1. \E m \in S : \A x \in S : m <= x
    BY LeastNumber
  <1> QED
    BY <1>1 DEF Min

LEMMA MaxOfSet ==
    ASSUME NEW bound \in Nat, NEW S \in SUBSET (0..bound), S # {}
    PROVE  Max(S) \in S /\ \A x \in S : x <= Max(S)
  <1> DEFINE U == {u \in Nat : \A x \in S : x <= u}
  <1>1. bound \in U /\ U \in SUBSET Nat
    OBVIOUS
  <1>2. PICK u \in U : \A w \in U : u <= w
    BY <1>1, LeastNumber
  <1>3. u \in S
    <2>1. SUFFICES ASSUME u \notin S PROVE FALSE
      OBVIOUS
    <2>2. \A x \in S : x <= u /\ x # u /\ x \in Nat
      BY <1>2, <2>1
    <2>3. u - 1 \in U
      <3>1. PICK x \in S : TRUE
        OBVIOUS
      <3>2. u - 1 \in Nat
        BY <1>2, <2>2, <3>1
      <3> QED
        BY <1>2, <2>2, <3>2
    <2> QED
      BY <1>2, <2>3
  <1>4. \A x \in S : x <= u
    BY <1>2
  <1>5. \E m \in S : \A x \in S : m >= x
    BY <1>3, <1>4
  <1>6. Max(S) \in S /\ \A x \in S : Max(S) >= x
    BY <1>5 DEF Max
  <1> QED
    BY <1>6

(* A sequence of numbers has a greatest one. *)
LEMMA GreatestEntry ==
    ASSUME NEW L \in Nat \ {0}, NEW s \in [1..L -> Nat]
    PROVE  \E i \in 1..L : \A j \in 1..L : s[i] >= s[j]
  <1> DEFINE Top(i, k) == \A j \in 1..k : s[i] >= s[j]
             tops == {k \in 1..L : \A i \in 1..k : ~Top(i, k)}
  <1>1. \A i \in 1..L : s[i] \in Nat
    OBVIOUS
  <1>2. tops = {}
    <2> SUFFICES ASSUME tops # {} PROVE FALSE
      OBVIOUS
    <2>1. PICK k \in tops : \A l \in tops : k <= l
      <3>1. tops \in SUBSET Nat
        OBVIOUS
      <3> QED
        BY <3>1, LeastNumber
    <2>2. k \in 1..L /\ k \in 1..k /\ \A i \in 1..k : ~Top(i, k)
      OBVIOUS
    <2>3. k # 1
      <3>1. k = 1 => Top(1, k)
        BY <1>1, <2>2
      <3> QED
        BY <2>2, <3>1
    <2>4. k - 1 \in 1..L /\ k - 1 \notin tops
      <3>1. k - 1 \in 1..L /\ ~(k <= k - 1)
        BY <2>2, <2>3
      <3> QED
        BY <2>1, <3>1
    <2>5. PICK i \in 1..(k - 1) : Top(i, k - 1)
      BY <2>4
    <2>6. i \in 1..k /\ i \in 1..L /\ \A j \in 1..k : j = k \/ j \in 1..(k - 1)
      BY <2>2, <2>4
    <2>7. s[i] \in Nat /\ s[k] \in Nat
      BY <1>1, <2>2, <2>6
    <2>8. ~(s[i] >= s[k])
      <3>1. s[i] >= s[k] => Top(i, k)
        BY <2>5, <2>6
      <3> QED
        BY <2>2, <2>6, <3>1
    <2>9. Top(k, k)
      <3>1. ASSUME NEW j \in 1..k PROVE s[k] >= s[j]
        <4>1. CASE j = k
          BY <2>7, <4>1
        <4>2. CASE j # k
          <5>1. j \in 1..(k - 1) /\ j \in 1..L
            BY <2>2, <2>6, <4>2
          <5>2. s[i] >= s[j] /\ s[j] \in Nat
            BY <1>1, <2>5, <5>1
          <5> DEFINE x == s[i]
                     y == s[j]
                     z == s[k]
          <5> HIDE DEF x, y, z
          <5>3. x \in Nat /\ y \in Nat /\ z \in Nat /\ x >= y /\ ~(x >= z)
            BY <2>7, <2>8, <5>2 DEF x, y, z
          <5>4. z >= y
            BY ONLY <5>3
          <5> QED
            BY <5>4 DEF y, z
        <4> QED
          BY <4>1, <4>2
      <3> QED
        BY <3>1
    <2> QED
      BY <2>2, <2>9
  <1>3. L \in 1..L
    OBVIOUS
  <1> HIDE DEF Top
  <1>4. \E i \in 1..L : Top(i, L)
    BY <1>2, <1>3
  <1> QED
    BY <1>4 DEF Top

(* Concatenation of a sequence of sequences: there are steps that lead to  *)
(* it, and any steps of this kind do.                                      *)
LEMMA FlattenSteps ==
    ASSUME NEW k \in Nat \ {0}, NEW seqs, Len(seqs) = k
    PROVE  \E f : /\ f = [i \in 1..k |-> IF i = 1 THEN seqs[i] ELSE f[i - 1] \o seqs[i]]
                  /\ FlattenSeq(seqs) = f[k]
  <1> DEFINE Solves(f, m) == f = [i \in 1..m |-> IF i = 1 THEN seqs[i] ELSE f[i - 1] \o seqs[i]]
             unsolved == {m \in 1..k : ~ \E f : Solves(f, m)}
  <1> HIDE DEF Solves
  <1>1. unsolved = {}
    <2> SUFFICES ASSUME unsolved # {} PROVE FALSE
      OBVIOUS
    <2>1. PICK m \in unsolved : \A l \in unsolved : m <= l
      <3>1. unsolved \in SUBSET Nat
        OBVIOUS
      <3> QED
        BY <3>1, LeastNumber
    <2>2. m \in 1..k
      OBVIOUS
    <2>3. CASE m = 1
      <3>1. Solves([i \in 1..1 |-> seqs[i]], 1)
        BY DEF Solves
      <3> QED
        BY <2>3, <3>1
    <2>4. CASE m > 1
      <3>1. m - 1 \in 1..k /\ m - 1 \notin unsolved
        BY <2>1, <2>2, <2>4
      <3>2. PICK g : Solves(g, m - 1)
        BY <3>1
      <3> DEFINE f == [i \in 1..m |-> IF i = m THEN g[m - 1] \o seqs[m] ELSE g[i]]
      <3>3. \A i \in 1..(m - 1) : f[i] = g[i]
        BY <2>2, <2>4
      <3>4. f[m] = f[m - 1] \o seqs[m]
        <4>1. m \in 1..m /\ m - 1 \in 1..m /\ m - 1 # m
          BY <2>2, <2>4
        <4> QED
          BY <4>1
      <3>5. \A i \in 1..(m - 1) : g[i] = IF i = 1 THEN seqs[i] ELSE g[i - 1] \o seqs[i]
        BY <3>2 DEF Solves
      <3>6. \A i \in 1..m : f[i] = IF i = 1 THEN seqs[i] ELSE f[i - 1] \o seqs[i]
        <4> SUFFICES ASSUME NEW i \in 1..m
                     PROVE  f[i] = IF i = 1 THEN seqs[i] ELSE f[i - 1] \o seqs[i]
          OBVIOUS
        <4> HIDE DEF f
        <4>1. CASE i = m
          <5>1. i # 1
            BY <2>4, <4>1
          <5> QED
            BY <3>4, <4>1, <5>1
        <4>2. CASE i = 1 /\ i # m
          <5>1. i \in 1..(m - 1)
            BY <4>2
          <5> QED
            BY <3>3, <3>5, <4>2, <5>1
        <4>3. CASE i # 1 /\ i # m
          <5>1. i \in 1..(m - 1) /\ i - 1 \in 1..(m - 1)
            BY <2>2, <4>3
          <5> QED
            BY <3>3, <3>5, <4>3, <5>1
        <4> QED
          BY <4>1, <4>2, <4>3
      <3>7. f = [i \in 1..m |-> f[i]]
        OBVIOUS
      <3> HIDE DEF f
      <3>8. Solves(f, m)
        BY <3>6, <3>7 DEF Solves
      <3> QED
        BY <3>8
    <2> QED
      BY <2>2, <2>3, <2>4
  <1>2. \E f : Solves(f, k)
    BY <1>1
  <1> DEFINE flatten == CHOOSE f : Solves(f, k)
  <1>3. Solves(flatten, k)
    BY <1>2
  <1>4. FlattenSeq(seqs) = flatten[k]
    BY DEF FlattenSeq, Solves
  <1> QED
    BY <1>3, <1>4 DEF Solves

LEMMA FlattenIs ==
    ASSUME NEW k \in Nat \ {0}, NEW seqs, NEW f, Len(seqs) = k,
           f[1] = seqs[1], \A i \in 2..k : f[i] = f[i - 1] \o seqs[i]
    PROVE  FlattenSeq(seqs) = f[k]
  <1>1. PICK g : /\ g = [i \in 1..k |-> IF i = 1 THEN seqs[i] ELSE g[i - 1] \o seqs[i]]
                 /\ FlattenSeq(seqs) = g[k]
    BY FlattenSteps
  <1>2. \A i \in 1..k : g[i] = IF i = 1 THEN seqs[i] ELSE g[i - 1] \o seqs[i]
    BY <1>1
  <1> DEFINE differs == {i \in 1..k : g[i] # f[i]}
  <1>3. differs = {}
    <2> SUFFICES ASSUME differs # {} PROVE FALSE
      OBVIOUS
    <2>1. PICK i \in differs : \A l \in differs : i <= l
      <3>1. differs \in SUBSET Nat
        OBVIOUS
      <3> QED
        BY <3>1, LeastNumber
    <2>2. i # 1
      BY <1>2
    <2>3. i \in 2..k /\ i - 1 \in 1..k /\ i - 1 \notin differs
      BY <2>1, <2>2
    <2>4. g[i] = g[i - 1] \o seqs[i]
      BY <1>2, <2>3
    <2> QED
      BY <2>3, <2>4
  <1>4. k \in 1..k /\ k \notin differs
    BY <1>3
  <1> QED
    BY <1>1, <1>4


(* What does not fall from one step to the next does not fall at all. *)
LEMMA NeverFalls ==
    ASSUME NEW n \in Nat, NEW off \in [0..n -> Nat], \A i \in 1..n : off[i - 1] <= off[i],
           NEW i \in 0..n, NEW k \in 0..n, i <= k
    PROVE  off[i] <= off[k]
  <1> DEFINE less == {x \in i..n : off[x] < off[i]}
  <1>0. less = {} => off[k] >= off[i]
    <2>1. k \in i..n /\ off[k] \in Nat /\ off[i] \in Nat
      OBVIOUS
    <2>2. off[k] < off[i] => k \in less
      BY <2>1
    <2> HIDE DEF less
    <2> QED
      BY <2>1, <2>2
  <1>1. SUFFICES ASSUME less # {} PROVE FALSE
    <2> HIDE DEF less
    <2> QED
      BY <1>0
  <1>2. less \in SUBSET Nat
    OBVIOUS
  <1>3. PICK x \in less : \A y \in less : x <= y
    <2> HIDE DEF less
    <2> QED
      BY <1>1, <1>2, LeastNumber
  <1>4. x \in 1..n /\ x # i /\ x - 1 \in i..n /\ x - 1 \in 0..n
    BY <1>3
  <1>5. x - 1 \notin less
    BY <1>3, <1>4
  <1>6. off[i] <= off[x - 1] /\ off[x - 1] <= off[x] /\ off[x] < off[i]
    BY <1>3, <1>4, <1>5
  <1> QED
    BY <1>4, <1>6

(* Where the entries of sequences come to be in their concatenation: the   *)
(* i-th sequence fills the places behind off[i - 1] up to off[i].          *)
Places(seqs, k, off, s) ==
    /\ off \in [0..k -> Nat] /\ off[0] = 0
    /\ \A i \in 1..k : off[i] = off[i - 1] + Len(seqs[i])
    /\ \A i \in 1..k : \A l \in 1..Len(seqs[i]) : s[off[i - 1] + l] = seqs[i][l]
    /\ \A j \in 1..off[k] : \E i \in 1..k : \E l \in 1..Len(seqs[i]) : j = off[i - 1] + l

LEMMA PlacesSame ==
    ASSUME NEW k, NEW a, NEW b, NEW off, NEW s, Places(a, k, off, s), \A i \in 1..k : a[i] = b[i]
    PROVE  Places(b, k, off, s)
  <1>1. /\ off \in [0..k -> Nat] /\ off[0] = 0
        /\ \A i \in 1..k : off[i] = off[i - 1] + Len(a[i])
        /\ \A i \in 1..k : \A l \in 1..Len(a[i]) : s[off[i - 1] + l] = a[i][l]
        /\ \A j \in 1..off[k] : \E i \in 1..k : \E l \in 1..Len(a[i]) : j = off[i - 1] + l
    BY Zenon DEF Places
  <1>2. \A i \in 1..k : off[i] = off[i - 1] + Len(b[i])
    BY <1>1, Zenon
  <1>3. \A i \in 1..k : \A l \in 1..Len(b[i]) : s[off[i - 1] + l] = b[i][l]
    <2> TAKE i \in 1..k
    <2>1. a[i] = b[i]
      OBVIOUS
    <2>2. \A l \in 1..Len(a[i]) : s[off[i - 1] + l] = a[i][l]
      BY <1>1, Zenon
    <2> QED
      BY <2>1, <2>2, Zenon
  <1>4. ASSUME NEW j \in 1..off[k] PROVE \E i \in 1..k : \E l \in 1..Len(b[i]) : j = off[i - 1] + l
    <2>1. PICK i \in 1..k : \E l \in 1..Len(a[i]) : j = off[i - 1] + l
      BY <1>1, Zenon
    <2>2. \E l \in 1..Len(b[i]) : j = off[i - 1] + l
      BY <2>1, Zenon
    <2> QED
      BY <2>2, Zenon
  <1> QED
    BY <1>1, <1>2, <1>3, <1>4, Zenon DEF Places

LEMMA PlacesOneMore ==
    ASSUME NEW S, NEW m \in Nat \ {0}, NEW seqs \in [1..m -> Seq(S)], NEW off, NEW s \in Seq(S),
           Places(seqs, m - 1, off, s), Len(s) = off[m - 1]
    PROVE  \E next : /\ Places(seqs, m, next, s \o seqs[m])
                     /\ s \o seqs[m] \in Seq(S)
                     /\ Len(s \o seqs[m]) = next[m]
  <1> DEFINE k == m - 1
             t == seqs[m]
             r == s \o t
             next == [i \in 0..m |-> IF i = m THEN off[k] + Len(t) ELSE off[i]]
  <1>0. k \in Nat /\ k \in 0..k /\ m - 1 = k /\ m = k + 1 /\ m \in 1..m
    OBVIOUS
  <1>1. /\ t \in Seq(S) /\ Len(t) \in Nat /\ off \in [0..k -> Nat] /\ off[k] \in Nat
        /\ k \in Nat /\ m \in Nat /\ m - 1 = k /\ m = k + 1 /\ m \in 1..m
    BY <1>0 DEF Places
  <1>p. Places(seqs, k, off, s) /\ Len(s) = off[k]
    OBVIOUS
  <1> HIDE DEF t, k
  <1>2. /\ r \in Seq(S) /\ Len(r) = off[k] + Len(t)
        /\ \A j \in 1..off[k] : r[j] = s[j]
        /\ \A l \in 1..Len(t) : r[off[k] + l] = t[l]
    <2>1. Len(s) = off[k] /\ s \in Seq(S) /\ Len(s) \in Nat
      BY <1>p
    <2>2. r \in Seq(S) /\ Len(r) = Len(s) + Len(t)
      <3>1. t \in Seq(S) /\ s \in Seq(S)
        BY <1>1
      <3>2. s \o t \in Seq(S) /\ Len(s \o t) = Len(s) + Len(t)
        BY ONLY <3>1, ConcatProperties, Zenon
      <3> QED
        BY <3>2
    <2>3. \A j \in 1..Len(s) : r[j] = s[j]
      BY <1>1, <2>1
    <2>4. ASSUME NEW l \in 1..Len(t) PROVE r[Len(s) + l] = t[l]
      <3>1. Len(s) + l \in (Len(s) + 1)..(Len(s) + Len(t)) /\ (Len(s) + l) - Len(s) = l
        BY <1>1, <2>1
      <3> QED
        BY <1>1, <2>1, <3>1
    <2> HIDE DEF r
    <2> QED
      BY <2>1, <2>2, <2>3, <2>4
  <1> HIDE DEF r
  <1>3. /\ next \in [0..m -> Nat] /\ next[m] = off[k] + Len(t)
        /\ \A i \in 0..k : next[i] = off[i]
    BY <1>1
  <1> HIDE DEF next
  <1>4. next[0] = 0
    BY <1>1, <1>3, <1>p DEF Places
  <1>5. ASSUME NEW i \in 1..m PROVE next[i] = next[i - 1] + Len(seqs[i])
    <2>1. CASE i = m
      BY <1>1, <1>3, <2>1 DEF t
    <2>2. CASE i # m
      <3>1. i \in 1..k /\ i \in 0..k /\ i - 1 \in 0..k
        BY <1>1, <2>2
      <3> QED
        BY <1>3, <1>p, <3>1 DEF Places
    <2> QED
      BY <2>1, <2>2
  <1>6. ASSUME NEW i \in 1..m, NEW l \in 1..Len(seqs[i])
        PROVE  r[next[i - 1] + l] = seqs[i][l]
    <2>1. CASE i = m
      <3>1. next[i - 1] = off[k] /\ seqs[i] = t /\ l \in 1..Len(t)
        BY <1>1, <1>3, <2>1 DEF t
      <3> QED
        BY <1>2, <3>1
    <2>2. CASE i # m
      <3>1. i \in 1..k /\ i \in 0..k /\ i - 1 \in 0..k /\ l \in Nat /\ i \in Nat
        BY <1>1, <2>2
      <3>2. s[off[i - 1] + l] = seqs[i][l] /\ off[i - 1] \in Nat
        BY <1>1, <1>p, <3>1 DEF Places
      <3>3. off[i - 1] + l \in 1..off[k]
        <4>1. off[i] = off[i - 1] + Len(seqs[i]) /\ off[i] \in Nat
          BY <1>1, <1>p, <3>1 DEF Places
        <4>2. \A x \in i..k : off[i] <= off[x]
          <5>1. ASSUME NEW x \in 1..k PROVE off[x - 1] <= off[x]
            <6>1. off[x] = off[x - 1] + Len(seqs[x])
              BY <1>p, <5>1 DEF Places
            <6>2. seqs[x] \in Seq(S)
              BY <1>1, <5>1
            <6>3. Len(seqs[x]) \in Nat /\ off[x - 1] \in Nat
              BY <1>1, <5>1, <6>2
            <6> QED
              BY <6>1, <6>3
          <5>2. ASSUME NEW x \in i..k PROVE off[i] <= off[x]
            <6>1. i \in 0..k /\ x \in 0..k /\ i <= x
              BY <1>1, <3>1, <5>2
            <6> QED
              BY <1>1, <5>1, <6>1, NeverFalls
          <5> QED
            BY <5>2
        <4>3. off[i] <= off[k] /\ k \in i..k
          BY <1>1, <3>1, <4>2
        <4>4. off[k] \in Nat /\ off[i] \in Nat /\ off[i - 1] \in Nat /\ l \in 1..Len(seqs[i])
          BY <1>1, <3>1, <3>2, <4>1
        <4> DEFINE x == off[i - 1]
                   y == off[i]
                   z == off[k]
                   n == Len(seqs[i])
        <4> HIDE DEF x, y, z, n
        <4>5. x \in Nat /\ y \in Nat /\ z \in Nat /\ y = x + n /\ y <= z /\ l \in 1..n /\ l \in Nat
          BY <3>1, <4>1, <4>3, <4>4 DEF x, y, z, n
        <4>6. n \in Int
          BY <3>1, <4>4 DEF n
        <4>7. x + l \in 1..z
          BY ONLY <4>5, <4>6
        <4> QED
          BY <4>7 DEF x, z
      <3> QED
        BY <1>2, <1>3, <3>1, <3>2, <3>3
    <2> QED
      BY <2>1, <2>2
  <1>7. ASSUME NEW j \in 1..next[m]
        PROVE  \E i \in 1..m : \E l \in 1..Len(seqs[i]) : j = next[i - 1] + l
    <2>1. CASE j <= off[k]
      <3>1. j \in 1..off[k]
        BY <1>1, <2>1
      <3>2. PICK i \in 1..k : \E l \in 1..Len(seqs[i]) : j = off[i - 1] + l
        BY <1>p, <3>1 DEF Places
      <3>3. i \in 1..m /\ i - 1 \in 0..k
        BY <1>1
      <3> QED
        BY <1>3, <3>2, <3>3
    <2>2. CASE j > off[k]
      <3>1. j - off[k] \in 1..Len(t) /\ j = off[k] + (j - off[k])
        BY <1>1, <1>3, <2>2
      <3>2. next[m - 1] = off[k]
        BY <1>1, <1>3
      <3>3. \E l \in 1..Len(seqs[m]) : j = next[m - 1] + l
        BY <3>1, <3>2 DEF t
      <3> QED
        BY <1>1, <3>3
    <2> QED
      BY <1>1, <1>3, <2>1, <2>2
  <1>8. Places(seqs, m, next, r)
    BY <1>3, <1>4, <1>5, <1>6, <1>7 DEF Places
  <1> QED
    BY <1>2, <1>3, <1>8 DEF r, t

LEMMA FlattenPlaces ==
    ASSUME NEW S, NEW k \in Nat, NEW seqs \in [1..k -> Seq(S)]
    PROVE  \E off : /\ Places(seqs, k, off, FlattenSeq(seqs))
                    /\ FlattenSeq(seqs) \in Seq(S) /\ Len(FlattenSeq(seqs)) = off[k]
  <1>1. Len(seqs) = k
    OBVIOUS
  <1>2. CASE k = 0
    <2>1. seqs = <<>> /\ FlattenSeq(seqs) = seqs
      BY <1>1, <1>2 DEF FlattenSeq
    <2> DEFINE off == [i \in 0..0 |-> 0]
    <2>2. Places(seqs, 0, off, <<>>)
      BY DEF Places
    <2>3. <<>> \in Seq(S) /\ Len(<<>>) = off[0]
      OBVIOUS
    <2> HIDE DEF off
    <2> QED
      BY <1>2, <2>1, <2>2, <2>3
  <1>3. CASE k # 0
    <2>1. k \in Nat \ {0}
      BY <1>3
    <2>2. PICK f : /\ f = [i \in 1..k |-> IF i = 1 THEN seqs[i] ELSE f[i - 1] \o seqs[i]]
                   /\ FlattenSeq(seqs) = f[k]
      BY <1>1, <2>1, FlattenSteps
    <2>3. \A i \in 1..k : f[i] = IF i = 1 THEN seqs[i] ELSE f[i - 1] \o seqs[i]
      BY <2>2
    <2> DEFINE Placed(m) == \E off : /\ Places(seqs, m, off, f[m])
                                     /\ f[m] \in Seq(S) /\ Len(f[m]) = off[m]
               others == {m \in 1..k : ~Placed(m)}
    <2> HIDE DEF Placed
    <2>4. others = {}
      <3> SUFFICES ASSUME others # {} PROVE FALSE
        OBVIOUS
      <3>1. PICK m \in others : \A j \in others : m <= j
        <4>1. others \in SUBSET Nat
          OBVIOUS
        <4> QED
          BY <4>1, LeastNumber
      <3>2. m \in 1..k /\ m - 1 \in Nat /\ (m - 1) + 1 = m
        OBVIOUS
      <3> DEFINE g == IF m = 1 THEN <<>> ELSE f[m - 1]
      <3>3. f[m] = g \o seqs[m]
        <4>1. seqs[m] \in Seq(S)
          BY <3>2
        <4>2. CASE m = 1
          BY <2>3, <3>2, <4>1, <4>2
        <4>3. CASE m # 1
          BY <2>3, <3>2, <4>3
        <4> QED
          BY <4>2, <4>3
      <3>4. \E off : Places(seqs, m - 1, off, g) /\ g \in Seq(S) /\ Len(g) = off[m - 1]
        <4>1. CASE m = 1
          <5> DEFINE off == [i \in 0..0 |-> 0]
          <5>1. Places(seqs, 0, off, <<>>)
            BY DEF Places
          <5>2. <<>> \in Seq(S) /\ Len(<<>>) = off[0]
            OBVIOUS
          <5> HIDE DEF off
          <5>3. m - 1 = 0 /\ g = <<>>
            BY <4>1
          <5> QED
            BY <5>1, <5>2, <5>3
        <4>2. CASE m # 1
          <5>1. m - 1 \in 1..k /\ m - 1 \notin others
            BY <3>1, <3>2, <4>2
          <5> QED
            BY <4>2, <5>1 DEF Placed
        <4> QED
          BY <4>1, <4>2
      <3> HIDE DEF g
      <3>5. PICK off : Places(seqs, m - 1, off, g) /\ g \in Seq(S) /\ Len(g) = off[m - 1]
        BY <3>4
      <3> DEFINE part == [i \in 1..m |-> seqs[i]]
      <3>6. part \in [1..m -> Seq(S)] /\ \A i \in 1..m : part[i] = seqs[i]
        BY <3>2
      <3>7. part[m] = seqs[m] /\ m \in Nat \ {0} /\ \A i \in 1..(m - 1) : part[i] = seqs[i]
        BY <3>2
      <3> HIDE DEF part
      <3>8. Places(part, m - 1, off, g)
        <4>1. Places(seqs, m - 1, off, g)
          BY <3>5
        <4>2. \A i \in 1..(m - 1) : seqs[i] = part[i]
          BY <3>7
        <4> QED
          BY <4>1, <4>2, PlacesSame, Zenon
      <3>9. \E next : /\ Places(part, m, next, g \o part[m])
                      /\ g \o part[m] \in Seq(S) /\ Len(g \o part[m]) = next[m]
        BY <3>5, <3>6, <3>7, <3>8, PlacesOneMore
      <3>10. PICK next : Places(part, m, next, f[m]) /\ f[m] \in Seq(S) /\ Len(f[m]) = next[m]
        BY <3>3, <3>7, <3>9
      <3>11. Places(seqs, m, next, f[m])
        BY <3>6, <3>10, PlacesSame, Zenon
      <3> QED
        BY <3>10, <3>11 DEF Placed
    <2>5. k \in 1..k /\ k \notin others
      BY <2>1, <2>4
    <2> QED
      BY <2>2, <2>5 DEF Placed
  <1> QED
    BY <1>2, <1>3

-----------------------------------------------------------------------------
(* A sequence of partial sums gives the sum. *)
LEMMA SumIs ==
    ASSUME NEW k \in Nat, NEW s, NEW f, f[0] = 0, \A j \in 1..k : f[j] = f[j - 1] + s[j]
    PROVE  SumUpto(s, k) = f[k]
  <1> DEFINE Solves(g) == g = [j \in 0..k |-> IF j = 0 THEN 0 ELSE g[j - 1] + s[j]]
             r == [j \in 0..k |-> f[j]]
             sum == CHOOSE g : Solves(g)
  <1>1. Solves(r)
    <2>1. \A j \in 0..k : r[j] = IF j = 0 THEN 0 ELSE r[j - 1] + s[j]
      <3> TAKE j \in 0..k
      <3>1. CASE j = 0
        BY <3>1
      <3>2. CASE j # 0
        <4>1. j \in 1..k /\ j - 1 \in 0..k
          BY <3>2
        <4> QED
          BY <3>2, <4>1
      <3> QED
        BY <3>1, <3>2
    <2> QED
      BY <2>1
  <1>2. SumUpto(s, k) = sum[k]
    BY DEF SumUpto
  <1> HIDE DEF Solves
  <1>3. Solves(sum)
    BY <1>1
  <1> HIDE DEF sum
  <1>4. \A j \in 0..k : sum[j] = IF j = 0 THEN 0 ELSE sum[j - 1] + s[j]
    BY <1>3 DEF Solves
  <1> DEFINE differs == {j \in 0..k : sum[j] # f[j]}
  <1>5. differs = {}
    <2> SUFFICES ASSUME differs # {} PROVE FALSE
      OBVIOUS
    <2>1. PICK j \in differs : \A i \in differs : j <= i
      <3>1. differs \in SUBSET Nat
        OBVIOUS
      <3> QED
        BY <3>1, LeastNumber
    <2>2. j # 0
      BY <1>4
    <2>3. j \in 1..k /\ j - 1 \in 0..k /\ j - 1 \notin differs
      BY <2>1, <2>2
    <2>4. sum[j] = sum[j - 1] + s[j]
      BY <1>4, <2>3
    <2> QED
      BY <2>3, <2>4
  <1> QED
    BY <1>2, <1>5

-----------------------------------------------------------------------------
(* How many members of a set of numbers are less than a bound. *)
CountBelow(S, a) == Cardinality({x \in S : x < a})

LEMMA BelowType ==
    ASSUME NEW S \in SUBSET Nat, NEW a \in Nat
    PROVE  CountBelow(S, a) \in Nat /\ IsFiniteSet({x \in S : x < a})
  <1> DEFINE B == {x \in S : x < a}
  <1>1. B \in SUBSET Nat /\ \A x \in B : x <= a
    <2>1. \A x \in B : x \in Nat /\ x <= a
      OBVIOUS
    <2> QED
      BY <2>1
  <1>2. IsFiniteSet(B)
    <2> HIDE DEF B
    <2> QED
      BY <1>1, FS_BoundedSetOfNaturals
  <1> QED
    BY <1>2, FS_CardinalityType DEF CountBelow

LEMMA BelowZero ==
    ASSUME NEW S \in SUBSET Nat
    PROVE  CountBelow(S, 0) = 0
  <1>1. {x \in S : x < 0} = {}
    <2>1. \A x \in S : x \in Nat /\ ~(x < 0)
      OBVIOUS
    <2> QED
      BY <2>1
  <1> QED
    BY <1>1, FS_EmptySet DEF CountBelow

LEMMA BelowNext ==
    ASSUME NEW S \in SUBSET Nat, NEW a \in Nat
    PROVE  CountBelow(S, a + 1) = IF a \in S THEN CountBelow(S, a) + 1 ELSE CountBelow(S, a)
  <1> DEFINE B == {x \in S : x < a}
             C == {x \in S : x < a + 1}
  <1>1. IsFiniteSet(B) /\ a \notin B
    BY BelowType
  <1>2. CASE a \in S
    <2>1. C = B \cup {a}
      <3>1. \A x \in S : x \in Nat /\ (x < a + 1 <=> x < a \/ x = a)
        OBVIOUS
      <3> QED
        BY <1>2, <3>1
    <2>2. Cardinality(C) = Cardinality(B) + 1
      <3> HIDE DEF B, C
      <3> QED
        BY <1>1, <2>1, FS_AddElement
    <2> QED
      BY <1>2, <2>2 DEF CountBelow
  <1>3. CASE a \notin S
    <2>1. C = B
      <3>1. \A x \in S : x \in Nat /\ (x < a + 1 <=> x < a \/ x = a)
        OBVIOUS
      <3> QED
        BY <1>3, <3>1
    <2> QED
      BY <1>3, <2>1 DEF CountBelow
  <1> QED
    BY <1>2, <1>3

LEMMA BelowMonotone ==
    ASSUME NEW S \in SUBSET Nat, NEW a \in Nat, NEW b \in Nat, a <= b
    PROVE  CountBelow(S, a) <= CountBelow(S, b)
  <1> DEFINE A == {x \in S : x < a}
             B == {x \in S : x < b}
  <1>1. IsFiniteSet(B) /\ A \in SUBSET B
    <2>1. \A x \in S : x \in Nat /\ (x < a => x < b)
      OBVIOUS
    <2> QED
      BY <2>1, BelowType
  <1>2. Cardinality(A) <= Cardinality(B)
    <2> HIDE DEF A, B
    <2> QED
      BY <1>1, FS_Subset
  <1> QED
    BY <1>2 DEF CountBelow

LEMMA BelowStrict ==
    ASSUME NEW S \in SUBSET Nat, NEW a \in S, NEW b \in Nat, a < b
    PROVE  CountBelow(S, a) + 1 <= CountBelow(S, b)
  <1>1. a \in Nat /\ a + 1 \in Nat /\ a + 1 <= b
    OBVIOUS
  <1>2. CountBelow(S, a + 1) = CountBelow(S, a) + 1
    BY <1>1, BelowNext
  <1>3. CountBelow(S, a + 1) <= CountBelow(S, b)
    BY <1>1, BelowMonotone
  <1> QED
    BY <1>2, <1>3

(* Where the count stands still there are no members. *)
LEMMA BelowSame ==
    ASSUME NEW S \in SUBSET Nat, NEW a \in Nat, NEW b \in Nat, CountBelow(S, a) = CountBelow(S, b),
           NEW x \in S, x < b
    PROVE  x < a
  <1>1. x \in Nat /\ CountBelow(S, x) \in Nat /\ CountBelow(S, b) \in Nat
    BY BelowType
  <1>2. CountBelow(S, x) + 1 <= CountBelow(S, b)
    BY BelowStrict
  <1>3. SUFFICES ASSUME a <= x PROVE FALSE
    BY <1>1
  <1>4. CountBelow(S, a) <= CountBelow(S, x)
    BY <1>1, <1>3, BelowMonotone
  <1> QED
    BY <1>1, <1>2, <1>4

LEMMA BelowAll ==
    ASSUME NEW S \in SUBSET Nat, NEW a \in Nat, \A x \in S : x < a
    PROVE  CountBelow(S, a) = Cardinality(S) /\ IsFiniteSet(S) /\ Cardinality(S) \in Nat
  <1>1. {x \in S : x < a} = S
    OBVIOUS
  <1> QED
    BY <1>1, BelowType DEF CountBelow

(* The n-th member. *)
LEMMA NthMember ==
    ASSUME NEW S \in SUBSET Nat, NEW a \in Nat, NEW n \in Nat, n < CountBelow(S, a)
    PROVE  \E x \in S : x < a /\ CountBelow(S, x) = n
  <1> DEFINE U == {u \in Nat : n < CountBelow(S, u)}
  <1>1. U \in SUBSET Nat /\ a \in U
    OBVIOUS
  <1>2. PICK u \in U : \A v \in U : u <= v
    <2> HIDE DEF U
    <2> QED
      BY <1>1, LeastNumber
  <1>3. u \in Nat /\ u # 0 /\ u <= a
    BY <1>1, <1>2, BelowZero
  <1> DEFINE x == u - 1
  <1>4. x \in Nat /\ x + 1 = u /\ x < a
    BY <1>3
  <1>5. CountBelow(S, x) <= n
    <2>1. CountBelow(S, x) \in Nat
      BY <1>4, BelowType
    <2>2. x \notin U
      BY <1>2, <1>4
    <2> QED
      BY <1>4, <2>1, <2>2
  <1>6. n < CountBelow(S, x + 1)
    BY <1>2, <1>4
  <1> HIDE DEF x, U
  <1>7. x \in S /\ CountBelow(S, x) = n
    <2>1. CountBelow(S, x) \in Nat
      BY <1>4, BelowType
    <2>2. CountBelow(S, x + 1) = IF x \in S THEN CountBelow(S, x) + 1 ELSE CountBelow(S, x)
      BY <1>4, BelowNext
    <2> QED
      BY <1>5, <1>6, <2>1, <2>2
  <1> QED
    BY <1>4, <1>7

(* Two members with the same count are one. *)
LEMMA SameNth ==
    ASSUME NEW S \in SUBSET Nat, NEW x \in S, NEW y \in S, CountBelow(S, x) = CountBelow(S, y)
    PROVE  x = y
  <1>1. x \in Nat /\ y \in Nat /\ CountBelow(S, x) \in Nat /\ CountBelow(S, y) \in Nat
    BY BelowType
  <1>2. ~(x < y)
    BY <1>1, BelowStrict
  <1>3. ~(y < x)
    BY <1>1, BelowStrict
  <1> QED
    BY <1>1, <1>2, <1>3

(* Counting along a bijection. *)
LEMMA SameCount ==
    ASSUME NEW S \in SUBSET Nat, NEW T \in SUBSET Nat, NEW g \in [S -> T],
           NEW a \in Nat, NEW b \in Nat,
           \A x \in S : \A y \in S : g[x] = g[y] => x = y,
           \A z \in T : \E x \in S : g[x] = z,
           \A x \in S : x < a <=> g[x] < b
    PROVE  CountBelow(S, a) = CountBelow(T, b)
  <1> DEFINE A == {x \in S : x < a}
             B == {x \in T : x < b}
             h == [x \in A |-> g[x]]
  <1>1. IsFiniteSet(A)
    BY BelowType
  <1>2. h \in [A -> B]
    OBVIOUS
  <1>3. \A x, y \in A : h[x] = h[y] => x = y
    OBVIOUS
  <1>4. \A z \in B : \E x \in A : h[x] = z
    OBVIOUS
  <1> HIDE DEF A, B, h
  <1>5. h \in Bijection(A, B)
    BY <1>2, <1>3, <1>4, Fun_IsInj, Fun_IsSurj DEF Bijection
  <1>6. ExistsBijection(A, B)
    BY <1>5 DEF ExistsBijection
  <1>7. Cardinality(B) = Cardinality(A)
    BY <1>1, <1>6, FS_Bijection
  <1> QED
    BY <1>7 DEF CountBelow, A, B

-----------------------------------------------------------------------------
(* A partial sum is the one before it and an entry. *)
LEMMA SumSteps ==
    ASSUME NEW k \in Nat, NEW s, \A j \in 1..k : s[j] \in Nat
    PROVE  /\ SumUpto(s, 0) = 0
           /\ \A j \in 1..k : SumUpto(s, j) = SumUpto(s, j - 1) + s[j]
           /\ \A j \in 0..k : SumUpto(s, j) \in Nat
  <1> DEFINE Solves(f, m) == /\ f[0] = 0 /\ \A j \in 1..m : f[j] = f[j - 1] + s[j]
                             /\ \A j \in 0..m : f[j] \in Nat
             unsolved == {m \in 0..k : ~ \E f : Solves(f, m)}
  <1>1. unsolved = {}
    <2> SUFFICES ASSUME unsolved # {} PROVE FALSE
      OBVIOUS
    <2> HIDE DEF Solves
    <2>1. PICK m \in unsolved : \A l \in unsolved : m <= l
      <3>1. unsolved \in SUBSET Nat
        OBVIOUS
      <3> HIDE DEF unsolved
      <3> QED
        BY <3>1, LeastNumber
    <2>2. m \in 0..k /\ ~ \E f : Solves(f, m)
      OBVIOUS
    <2>3. m # 0
      <3>1. Solves([j \in 0..0 |-> 0], 0)
        BY DEF Solves
      <3> QED
        BY <2>2, <3>1
    <2> DEFINE b == m - 1
    <2>4. b \in 0..k /\ b \notin unsolved /\ b \in Nat /\ m = b + 1 /\ m \in 1..k
      BY <2>1, <2>2, <2>3
    <2> HIDE DEF b
    <2>5. PICK g : Solves(g, b)
      BY <2>4
    <2>6. /\ g[0] = 0 /\ \A j \in 1..b : g[j] = g[j - 1] + s[j]
          /\ \A j \in 0..b : g[j] \in Nat
      BY <2>5 DEF Solves
    <2> DEFINE f == [j \in 0..m |-> IF j = m THEN g[b] + s[m] ELSE g[j]]
    <2>7. f[0] = 0
      BY <2>2, <2>3, <2>6
    <2>8. ASSUME NEW j \in 1..m PROVE f[j] = f[j - 1] + s[j]
      <3>1. CASE j = m
        <4>1. j - 1 = b /\ b \in 0..m /\ b # m /\ m \in 0..m
          BY <2>4, <3>1
        <4> QED
          BY <3>1, <4>1
      <3>2. CASE j # m
        <4>1. j \in 1..b /\ j - 1 \in 0..m /\ j - 1 # m /\ j \in 0..m
          BY <2>4, <3>2
        <4> QED
          BY <2>6, <3>2, <4>1
      <3> QED
        BY <3>1, <3>2
    <2>9. ASSUME NEW j \in 0..m PROVE f[j] \in Nat
      <3>1. CASE j = m
        <4>1. g[b] \in Nat /\ s[m] \in Nat
          BY <2>4, <2>6
        <4> QED
          BY <3>1, <4>1
      <3>2. CASE j # m
        <4>1. j \in 0..b
          BY <2>4, <3>2
        <4> QED
          BY <2>6, <3>2, <4>1
      <3> QED
        BY <3>1, <3>2
    <2> HIDE DEF f
    <2>10. Solves(f, m)
      BY <2>7, <2>8, <2>9 DEF Solves
    <2> QED
      BY <2>2, <2>10
  <1>2. PICK f : Solves(f, k)
    <2> HIDE DEF Solves
    <2>1. k \in 0..k /\ k \notin unsolved
      BY <1>1
    <2> HIDE DEF unsolved
    <2> QED
      BY <2>1 DEF unsolved
  <1>3. \A j \in 0..k : SumUpto(s, j) = f[j]
    <2> TAKE j \in 0..k
    <2>1. j \in Nat /\ f[0] = 0 /\ \A i \in 1..j : f[i] = f[i - 1] + s[i]
      BY <1>2
    <2> QED
      BY <2>1, SumIs
  <1>4. 0 \in 0..k /\ \A j \in 1..k : j \in 0..k /\ j - 1 \in 0..k
    OBVIOUS
  <1> QED
    BY <1>2, <1>3, <1>4

(* Sequences with the same entries have the same sums. *)
LEMMA SameSums ==
    ASSUME NEW k \in Nat, NEW s, NEW r, \A j \in 1..k : s[j] \in Nat /\ r[j] = s[j]
    PROVE  SumUpto(r, k) = SumUpto(s, k)
  <1> DEFINE f == [j \in 0..k |-> SumUpto(s, j)]
  <1>1. /\ SumUpto(s, 0) = 0
        /\ \A j \in 1..k : SumUpto(s, j) = SumUpto(s, j - 1) + s[j]
    BY SumSteps
  <1>2. f[0] = 0 /\ \A j \in 1..k : f[j] = f[j - 1] + r[j]
    BY <1>1
  <1>3. f[k] = SumUpto(s, k)
    OBVIOUS
  <1> HIDE DEF f
  <1> QED
    BY <1>2, <1>3, SumIs

(* KPs up to a period. *)
LEMMA UptoSteps ==
    ASSUME NEW p \in Nat, NEW s, NEW t, DOMAIN s = 1..p, \A j \in 1..p : s[j][t] \in Nat
    PROVE  /\ Upto(s, t, 0) = 0
           /\ \A j \in 1..p : Upto(s, t, j) = Upto(s, t, j - 1) + s[j][t]
           /\ \A j \in 0..p : Upto(s, t, j) \in Nat
           /\ \A i \in 0..p : \A j \in 0..p : i <= j => Upto(s, t, i) <= Upto(s, t, j)
  <1> DEFINE c == [j \in DOMAIN s |-> s[j][t]]
  <1>1. \A j \in 1..p : c[j] = s[j][t] /\ c[j] \in Nat
    OBVIOUS
  <1>2. \A j : Upto(s, t, j) = SumUpto(c, j)
    BY DEF Upto
  <1> HIDE DEF c
  <1>3. /\ SumUpto(c, 0) = 0
        /\ \A j \in 1..p : SumUpto(c, j) = SumUpto(c, j - 1) + c[j]
        /\ \A j \in 0..p : SumUpto(c, j) \in Nat
    BY <1>1, SumSteps
  <1> DEFINE u == [j \in 0..p |-> Upto(s, t, j)]
  <1>4. u \in [0..p -> Nat]
    BY <1>2, <1>3
  <1>5. \A j \in 1..p : u[j - 1] <= u[j]
    <2> TAKE j \in 1..p
    <2>1. j - 1 \in 0..p /\ j \in 0..p
      OBVIOUS
    <2>2. SumUpto(c, j) = SumUpto(c, j - 1) + c[j]
      BY <1>3
    <2>3. SumUpto(c, j - 1) \in Nat /\ c[j] \in Nat
      BY <1>1, <1>3, <2>1
    <2>4. SumUpto(c, j - 1) <= SumUpto(c, j)
      BY <2>2, <2>3
    <2> QED
      BY <1>2, <2>1, <2>4
  <1>6. ASSUME NEW i \in 0..p, NEW j \in 0..p, i <= j PROVE Upto(s, t, i) <= Upto(s, t, j)
    <2>1. u[i] = Upto(s, t, i) /\ u[j] = Upto(s, t, j)
      OBVIOUS
    <2> HIDE DEF u
    <2>2. u[i] <= u[j]
      BY <1>4, <1>5, <1>6, NeverFalls
    <2> QED
      BY <2>1, <2>2
  <1> QED
    BY <1>1, <1>2, <1>3, <1>6

(* With u[j] the KPs up to period j: the periods that end behind the k-th   *)
(* KP and before the next, and those that end before the k-th.             *)
EndingAt(u, p, k) == {j \in 1..p : u[j] = k}
EndingBelow(u, p, k) == {j \in 1..p : u[j] < k}

LEMMA YieldSum ==
    ASSUME NEW p \in Nat, NEW u, NEW n \in Nat, NEW y, NEW k \in 0..n,
           \A j \in 1..p : u[j] \in Nat,
           \A i \in 1..n : y[i] = Cardinality(EndingAt(u, p, i - 1))
    PROVE  SumUpto(y, k) = Cardinality(EndingBelow(u, p, k))
  <1> DEFINE B(l) == {j \in 1..p : u[j] < l}
             E(l) == {j \in 1..p : u[j] = l - 1}
             f == [l \in 0..k |-> Cardinality(B(l))]
  <1>1. IsFiniteSet(1..p)
    <2>1. 1 \in Int /\ p \in Int
      OBVIOUS
    <2> QED
      BY <2>1, FS_Interval, Zenon
  <1>2. \A l : IsFiniteSet(B(l)) /\ IsFiniteSet(E(l))
    BY <1>1, FS_Subset
  <1>3. \A l : Cardinality(B(l)) \in Nat /\ Cardinality(E(l)) \in Nat
    <2> HIDE DEF B, E
    <2> QED
      BY <1>2, FS_CardinalityType
  <1>4. f[0] = 0
    <2>1. B(0) = {}
      OBVIOUS
    <2>2. Cardinality(B(0)) = 0
      BY <2>1, FS_EmptySet
    <2> HIDE DEF B
    <2> QED
      BY <2>2
  <1>5. ASSUME NEW l \in 1..k PROVE f[l] = f[l - 1] + y[l]
    <2>1. B(l) = B(l - 1) \cup E(l) /\ B(l - 1) \cap E(l) = {}
      <3>1. \A j \in 1..p : /\ u[j] < l <=> (u[j] < l - 1 \/ u[j] = l - 1)
                            /\ ~(u[j] < l - 1 /\ u[j] = l - 1)
        OBVIOUS
      <3> QED
        BY <3>1
    <2>2. Cardinality(B(l - 1) \cap E(l)) = 0
      BY <2>1, FS_EmptySet
    <2>3. Cardinality(B(l)) = Cardinality(B(l - 1)) + Cardinality(E(l))
      <3> HIDE DEF B, E
      <3> DEFINE a == Cardinality(B(l - 1))
                 e == Cardinality(E(l))
      <3>1. Cardinality(B(l - 1) \cup E(l))
              = a + e - Cardinality(B(l - 1) \cap E(l))
        BY <1>2, FS_Union
      <3>2. a \in Nat /\ e \in Nat
        BY <1>3
      <3> HIDE DEF a, e
      <3>3. Cardinality(B(l)) = a + e
        BY <2>1, <2>2, <3>1, <3>2
      <3> QED
        BY <3>3 DEF a, e
    <2>4. y[l] = Cardinality(E(l)) /\ l \in 0..k /\ l - 1 \in 0..k
      BY DEF EndingAt
    <2> HIDE DEF B, E
    <2> QED
      BY <2>3, <2>4
  <1>6. f[k] = Cardinality(B(k))
    OBVIOUS
  <1> HIDE DEF f
  <1>7. SumUpto(y, k) = f[k]
    BY <1>4, <1>5, SumIs
  <1> QED
    BY <1>6, <1>7 DEF EndingBelow

(* The periods in front of the one that a KP is in. *)
LEMMA PeriodIs ==
    ASSUME NEW p \in Nat, NEW s, NEW t, NEW k \in Nat \ {0},
           DOMAIN s = 1..p, \A j \in 1..p : s[j][t] \in Nat, k <= Upto(s, t, p)
    PROVE  /\ PeriodOf(s, t, k) \in 1..p
           /\ {j \in 1..p : Upto(s, t, j) < k} = 1..(PeriodOf(s, t, k) - 1)
  <1> DEFINE D == {j \in DOMAIN s : Upto(s, t, j) >= k}
  <1>1. /\ Upto(s, t, 0) = 0 /\ \A j \in 0..p : Upto(s, t, j) \in Nat
        /\ \A i \in 0..p : \A j \in 0..p : i <= j => Upto(s, t, i) <= Upto(s, t, j)
    BY UptoSteps
  <1>2. p \in D /\ D \in SUBSET Nat
    <2>1. p # 0
      BY <1>1
    <2> QED
      BY <1>1, <2>1
  <1>3. PeriodOf(s, t, k) = Min(D)
    BY DEF PeriodOf
  <1>4. Min(D) \in D /\ \A x \in D : Min(D) <= x
    <2> HIDE DEF D
    <2>1. D # {}
      BY <1>2
    <2> QED
      BY <1>2, <2>1, MinOfSet
  <1> DEFINE m == PeriodOf(s, t, k)
  <1>5. m \in 1..p /\ Upto(s, t, m) >= k /\ \A j \in 1..p : Upto(s, t, j) >= k => m <= j
    BY <1>3, <1>4
  <1> HIDE DEF m
  <1>6. \A j \in 1..p : Upto(s, t, j) < k <=> j < m
    <2> TAKE j \in 1..p
    <2>1. j \in 0..p /\ m \in 0..p /\ Upto(s, t, j) \in Nat /\ Upto(s, t, m) \in Nat
      BY <1>1, <1>5
    <2>2. m <= j => Upto(s, t, m) <= Upto(s, t, j)
      BY <1>1, <2>1
    <2> QED
      BY <1>5, <2>1, <2>2
  <1>7. {j \in 1..p : Upto(s, t, j) < k} = 1..(m - 1)
    <2>1. \A j : (j \in 1..p /\ j < m) <=> j \in 1..(m - 1)
      BY <1>5
    <2> QED
      BY <1>6, <2>1
  <1> QED
    BY <1>5, <1>7 DEF m

(* The yields of get_yield_pattern (bp_sched.py 141-156), added up to a KP  *)
(* of a thread that the schedule runs at least that often, are the periods *)
(* that end before the one the schedule runs it in.                        *)
THEOREM YieldsLeadToPeriods ==
    ASSUME NEW p \in Nat, NEW s, NEW kps, NEW t \in DOMAIN kps, NEW k \in 1..kps[t],
           DOMAIN s = 1..p, \A j \in 1..p : s[j][t] \in Nat,
           kps[t] \in Nat, Upto(s, t, p) >= kps[t]
    PROVE  YieldsUpto(YieldPattern(kps, s), t, k) = PeriodOf(s, t, k) - 1
  <1> DEFINE u == [j \in 1..p |-> Upto(s, t, j)]
             y == YieldPattern(kps, s)[t]
             n == kps[t]
             m == PeriodOf(s, t, k)
  <1>1. \A j \in 1..p : u[j] = Upto(s, t, j) /\ u[j] \in Nat
    <2>1. \A j \in 0..p : Upto(s, t, j) \in Nat
      BY UptoSteps
    <2> QED
      BY <2>1
  <1>2. \A i \in 1..n : y[i] = Cardinality({j \in 1..p : Upto(s, t, j) = i - 1})
    BY DEF YieldPattern
  <1>3. \A i : /\ {j \in 1..p : Upto(s, t, j) = i - 1} = EndingAt(u, p, i - 1)
               /\ {j \in 1..p : Upto(s, t, j) < i} = EndingBelow(u, p, i)
    BY <1>1 DEF EndingAt, EndingBelow
  <1> HIDE DEF u, y
  <1>4. \A i \in 1..n : y[i] = Cardinality(EndingAt(u, p, i - 1))
    BY <1>2, <1>3
  <1>5. n \in Nat /\ k \in 0..n /\ k \in Nat \ {0} /\ k <= Upto(s, t, p)
    <2>1. \A j \in 0..p : Upto(s, t, j) \in Nat
      BY UptoSteps
    <2>2. Upto(s, t, p) \in Nat
      BY <2>1
    <2> QED
      BY <2>2
  <1>6. SumUpto(y, k) = Cardinality(EndingBelow(u, p, k))
    <2>1. \A j \in 1..p : u[j] \in Nat
      BY <1>1
    <2>2. p \in Nat /\ n \in Nat /\ k \in 0..n
      BY <1>5
    <2> HIDE DEF n
    <2> QED
      BY ONLY <1>4, <2>1, <2>2, YieldSum
  <1>7. m \in 1..p /\ {j \in 1..p : Upto(s, t, j) < k} = 1..(m - 1)
    BY <1>5, PeriodIs
  <1> HIDE DEF m
  <1>8. Cardinality(1..(m - 1)) = m - 1
    <2> DEFINE l == m - 1
    <2>1. l \in Nat
      BY <1>7
    <2> HIDE DEF l
    <2>2. 1 \in Int /\ l \in Int
      BY <2>1
    <2>3. Cardinality(1..l) = IF 1 > l THEN 0 ELSE l - 1 + 1
      BY <2>2, FS_Interval, Zenon
    <2>4. Cardinality(1..l) = l
      BY <2>1, <2>3
    <2> QED
      BY <2>4 DEF l
  <1>9. SumUpto(y, k) = m - 1
    BY <1>3, <1>6, <1>7, <1>8
  <1> QED
    BY <1>9 DEF YieldsUpto, y, m

-----------------------------------------------------------------------------
(* A schedule has its number of periods. *)
LEMMA SerialLength ==
    ASSUME NEW pool, NEW p, NEW q \in Serial(pool, p)
    PROVE  DOMAIN q = 1..p
  <1> DEFINE owners == {t \in DOMAIN pool : pool[t] > 0}
             patterns == {pat \in [1..p -> owners] :
                            Range(pat) = owners /\ \A j \in 2..p : pat[j] # pat[j - 1]}
             counts == [1..p -> 1..MostInPeriod(pool)]
  <1>1. q \in {Periods(DOMAIN pool, pat, c) : pat \in patterns, c \in counts}
    BY DEF Serial
  <1> HIDE DEF counts
  <1>2. PICK pat \in patterns, c \in counts : q = Periods(DOMAIN pool, pat, c)
    BY <1>1
  <1>3. DOMAIN pat = 1..p
    OBVIOUS
  <1> QED
    BY <1>2, <1>3 DEF Periods

LEMMA MixedLength ==
    ASSUME NEW kps, NEW p \in Nat \ {0}, NEW s \in Mixed(kps, p)
    PROVE  DOMAIN s = 1..p
  <1> DEFINE Pool(chosen) == [t \in DOMAIN kps |-> IF t \in chosen THEN kps[t] ELSE 0]
             Add(chosen, q) ==
                [q EXCEPT ![p] = [t \in DOMAIN kps |-> IF t \in chosen THEN @[t] ELSE kps[t]]]
  <1>1. Mixed(kps, p) = UNION {{Add(chosen, q) : q \in Serial(Pool(chosen), p)} :
                                  chosen \in (SUBSET DOMAIN kps) \ {{}}}
    BY DEF Mixed
  <1>2. \A chosen, q : DOMAIN Add(chosen, q) = DOMAIN q
    OBVIOUS
  <1> HIDE DEF Pool, Add
  <1>3. PICK chosen \in SUBSET DOMAIN kps : \E q \in Serial(Pool(chosen), p) : s = Add(chosen, q)
    BY <1>1
  <1>4. PICK q \in Serial(Pool(chosen), p) : s = Add(chosen, q)
    BY <1>3
  <1>5. DOMAIN q = 1..p
    BY SerialLength
  <1> QED
    BY <1>2, <1>4, <1>5

(* A serialised schedule gives each thread its KPs. *)
LEMMA SerialRuns ==
    ASSUME NEW pool, NEW p \in Nat, NEW q \in Serial(pool, p)
    PROVE  /\ DOMAIN q = 1..p
           /\ \A t \in DOMAIN pool :
                 /\ Upto(q, t, p) = pool[t]
                 /\ \A j \in 1..p : q[j][t] \in Nat /\ (pool[t] = 0 => q[j][t] = 0)
           /\ \A j \in 1..p : DOMAIN q[j] = DOMAIN pool
  <1> DEFINE owners == {t \in DOMAIN pool : pool[t] > 0}
             patterns == {pat \in [1..p -> owners] :
                            Range(pat) = owners /\ \A j \in 2..p : pat[j] # pat[j - 1]}
             most == MostInPeriod(pool)
             counts == [1..p -> 1..most]
             all == {Periods(DOMAIN pool, pat, c) : pat \in patterns, c \in counts}
  <1>1. /\ q \in {Periods(DOMAIN pool, pat, c) : pat \in patterns, c \in counts}
        /\ \A t \in DOMAIN pool : Upto(q, t, p) = pool[t]
    <2>1. Serial(pool, p) = {x \in all : \A t \in DOMAIN pool : Upto(x, t, p) = pool[t]}
      BY DEF Serial
    <2>2. q \in all /\ \A t \in DOMAIN pool : Upto(q, t, p) = pool[t]
      <3> HIDE DEF all
      <3> QED
        BY <2>1
    <2> QED
      BY <2>2
  <1> HIDE DEF most
  <1>2. PICK pat \in patterns, c \in counts : q = Periods(DOMAIN pool, pat, c)
    <2> HIDE DEF counts, patterns
    <2> QED
      BY <1>1
  <1>3. DOMAIN pat = 1..p /\ \A j \in 1..p : pat[j] \in owners /\ c[j] \in 1..most
    OBVIOUS
  <1>4. \A j \in 1..p : c[j] \in Nat
    BY <1>3
  <1>5. \A j \in 1..p : q[j] = [u \in DOMAIN pool |-> IF u = pat[j] THEN c[j] ELSE 0]
    BY <1>2, <1>3 DEF Periods, Period
  <1>6. DOMAIN q = 1..p
    BY SerialLength
  <1>7. ASSUME NEW t \in DOMAIN pool, NEW j \in 1..p
        PROVE  q[j][t] \in Nat /\ (pool[t] = 0 => q[j][t] = 0)
    <2>1. q[j][t] = IF t = pat[j] THEN c[j] ELSE 0
      <3>1. q[j] = [u \in DOMAIN pool |-> IF u = pat[j] THEN c[j] ELSE 0]
        BY <1>5, Zenon
      <3> QED
        BY <3>1, Zenon
    <2>2. pool[t] = 0 => t # pat[j]
      BY <1>3
    <2> QED
      BY <1>4, <2>1, <2>2
  <1> QED
    BY <1>1, <1>5, <1>6, <1>7

(* So does one with a mixed end: what the chosen threads leave of the KPs  *)
(* runs in the last period (sbp_sched_mixed_end.py 125-131).               *)
THEOREM MixedRunsAll ==
    ASSUME NEW kps, NEW p \in Nat \ {0}, NEW s \in Mixed(kps, p),
           \A t \in DOMAIN kps : kps[t] \in Nat
    PROVE  /\ DOMAIN s = 1..p
           /\ \A t \in DOMAIN kps : /\ \A j \in 1..p : s[j][t] \in Nat
                                    /\ Upto(s, t, p) = kps[t]
  <1> DEFINE Pool(chosen) == [t \in DOMAIN kps |-> IF t \in chosen THEN kps[t] ELSE 0]
             Add(chosen, q) ==
                [q EXCEPT ![p] = [t \in DOMAIN kps |-> IF t \in chosen THEN @[t] ELSE kps[t]]]
  <1>1. Mixed(kps, p) = UNION {{Add(chosen, q) : q \in Serial(Pool(chosen), p)} :
                                  chosen \in (SUBSET DOMAIN kps) \ {{}}}
    BY DEF Mixed
  <1> HIDE DEF Pool, Add
  <1>2. PICK chosen \in SUBSET DOMAIN kps : \E q \in Serial(Pool(chosen), p) : s = Add(chosen, q)
    BY <1>1
  <1>3. PICK q \in Serial(Pool(chosen), p) : s = Add(chosen, q)
    BY <1>2
  <1>4. /\ DOMAIN Pool(chosen) = DOMAIN kps
        /\ \A t \in DOMAIN kps : Pool(chosen)[t] = IF t \in chosen THEN kps[t] ELSE 0
    BY DEF Pool
  <1>5. /\ DOMAIN q = 1..p
        /\ \A t \in DOMAIN kps :
              /\ Upto(q, t, p) = Pool(chosen)[t]
              /\ \A j \in 1..p : q[j][t] \in Nat /\ (Pool(chosen)[t] = 0 => q[j][t] = 0)
    BY <1>4, SerialRuns
  <1>6. p \in 1..p
    OBVIOUS
  <1>7. /\ DOMAIN s = 1..p
        /\ \A j \in 1..p : j # p => s[j] = q[j]
        /\ \A t \in DOMAIN kps : s[p][t] = IF t \in chosen THEN q[p][t] ELSE kps[t]
    BY <1>3, <1>5, <1>6 DEF Add
  <1>8. ASSUME NEW t \in DOMAIN kps
        PROVE  (\A j \in 1..p : s[j][t] \in Nat) /\ Upto(s, t, p) = kps[t]
    <2>1. \A j \in 1..p : q[j][t] \in Nat
      BY <1>5
    <2>2. \A j \in 1..p : s[j][t] \in Nat
      <3> TAKE j \in 1..p
      <3>1. CASE j = p
        BY <1>7, <2>1, <3>1
      <3>2. CASE j # p
        BY <1>7, <2>1, <3>2
      <3> QED
        BY <3>1, <3>2
    <2>3. CASE t \in chosen
      <3> DEFINE a == [j \in DOMAIN s |-> s[j][t]]
                 b == [j \in DOMAIN q |-> q[j][t]]
      <3>1. \A j \in 1..p : s[j][t] = q[j][t]
        BY <1>7, <2>3
      <3>2. a = b
        BY <1>5, <1>7, <3>1
      <3>3. Upto(s, t, p) = Upto(q, t, p)
        BY <3>2 DEF Upto
      <3> QED
        BY <1>4, <1>5, <2>2, <2>3, <3>3
    <2>4. CASE t \notin chosen
      <3>1. /\ \A j \in 1..p : j # p => s[j][t] = 0
            /\ s[p][t] = kps[t]
        BY <1>4, <1>5, <1>7, <2>4
      <3>2. /\ Upto(s, t, 0) = 0
            /\ \A j \in 1..p : Upto(s, t, j) = Upto(s, t, j - 1) + s[j][t]
            /\ \A j \in 0..p : Upto(s, t, j) \in Nat
        <4>1. p \in Nat /\ DOMAIN s = 1..p
          BY <1>7
        <4> QED
          BY <2>2, <4>1, UptoSteps
      <3> DEFINE c == [j \in DOMAIN s |-> s[j][t]]
                 f == [j \in 0..p |-> IF j = p THEN kps[t] ELSE 0]
      <3>3. f[0] = 0
        OBVIOUS
      <3>4. ASSUME NEW j \in 1..p PROVE f[j] = f[j - 1] + c[j]
        <4>1. c[j] = s[j][t] /\ j - 1 \in 0..p /\ j - 1 # p /\ j \in 0..p /\ kps[t] \in Nat
          BY <1>7
        <4>2. c[j] = IF j = p THEN kps[t] ELSE 0
          BY <3>1, <4>1
        <4> QED
          BY <4>1, <4>2
      <3>5. f[p] = kps[t]
        OBVIOUS
      <3> HIDE DEF c, f
      <3>6. SumUpto(c, p) = f[p]
        BY <3>3, <3>4, SumIs
      <3> QED
        BY <2>2, <3>5, <3>6 DEF Upto, c
    <2> QED
      BY <2>3, <2>4
  <1> QED
    BY <1>7, <1>8
=============================================================================
