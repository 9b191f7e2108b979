-------------------------- MODULE InterleavingProofs --------------------------
(***************************************************************************)
(* That the generator enumerates what it promises, for every number of     *)
(* threads and KPs and every parent: interleaving_init builds the least    *)
(* arrangement in dictionary order, interleaving_next leads to the very    *)
(* next one, and there is none behind the last.                            *)
(***************************************************************************)
EXTENDS Interleaving, SequenceLemmas, FiniteSetTheorems, SequenceTheorems

(* Dictionary order. *)
Before(s, t) == \E i \in DOMAIN s : s[i] < t[i] /\ \A j \in 1..(i - 1) : s[j] = t[j]
UpTo(s, t) == s = t \/ Before(s, t)

-----------------------------------------------------------------------------
(* The first difference of two sequences. *)

LEMMA FirstDifference ==
    ASSUME NEW L \in Nat, NEW s \in [1..L -> Int], NEW t \in [1..L -> Int], s # t
    PROVE  \E i \in 1..L : s[i] # t[i] /\ \A j \in 1..(i - 1) : s[j] = t[j]
  <1> DEFINE differ == {i \in 1..L : s[i] # t[i]}
  <1>1. differ # {} /\ differ \in SUBSET Nat
    OBVIOUS
  <1>2. PICK i \in differ : \A j \in differ : i <= j
    BY <1>1, LeastNumber
  <1> QED
    BY <1>2

(* Two arrangements that agree up to a position and then differ in what    *)
(* order the rest comes: the entry of one is found in the rest of the other.*)
LEMMA RestHasEntry ==
    ASSUME NEW L \in Nat, NEW s \in [1..L -> Int], NEW t \in [1..L -> Int],
           \A v \in Int : Count(s, v) = Count(t, v),
           NEW i \in 1..L, \A j \in 1..(i - 1) : s[j] = t[j]
    PROVE  \E j \in i..L : s[j] = t[i]
  <1> DEFINE v == t[i]
             A == {k \in 1..L : s[k] = v}
             B == {k \in 1..L : t[k] = v}
  <1>1. IsFiniteSet(B)
    BY FS_Interval, FS_Subset
  <1>2. Cardinality(A) = Cardinality(B)
    <2>1. v \in Int /\ Count(s, v) = Count(t, v)
      OBVIOUS
    <2> QED
      BY <2>1 DEF Count
  <1>3. SUFFICES ASSUME \A j \in i..L : s[j] # v
                 PROVE  FALSE
    OBVIOUS
  <1>4. A \subseteq B /\ i \in B /\ i \notin A
    BY <1>3
  <1> QED
    BY <1>1, <1>2, <1>4, FS_Subset

(* A sequence that falls from step to step falls altogether; one that      *)
(* rises, rises.                                                           *)
LEMMA FallsAltogether ==
    ASSUME NEW L \in Nat, NEW s \in [1..L -> Int], NEW a \in Nat,
           \A i \in (a + 2)..L : s[i] <= s[i - 1]
    PROVE  \A i, j \in (a + 1)..L : i <= j => s[j] <= s[i]
  <1> SUFFICES ASSUME NEW i \in (a + 1)..L, NEW k \in (a + 1)..L, i <= k, s[k] > s[i]
               PROVE  FALSE
    OBVIOUS
  <1> DEFINE above == {j \in i..L : s[j] > s[i]}
  <1>0. k \in above /\ above \in SUBSET Nat
    OBVIOUS
  <1>1. PICK m \in above : \A j \in above : m <= j
    BY <1>0, LeastNumber
  <1>2. m \in i..L /\ s[m] > s[i] /\ m # i
    BY <1>1
  <1>3. m - 1 \in i..L /\ m \in (a + 2)..L /\ m - 1 \notin above
    BY <1>1, <1>2
  <1>4. s[m - 1] <= s[i] /\ s[m] <= s[m - 1]
    BY <1>3
  <1> QED
    BY <1>2, <1>3, <1>4

LEMMA RisesAltogether ==
    ASSUME NEW L \in Nat, NEW s \in [1..L -> Int], NEW a \in Nat,
           \A i \in (a + 1)..(L - 1) : s[i] <= s[i + 1]
    PROVE  \A i, j \in (a + 1)..L : i <= j => s[i] <= s[j]
  <1> DEFINE r == [i \in 1..L |-> 0 - s[i]]
  <1>1. r \in [1..L -> Int] /\ \A i \in 1..L : r[i] = 0 - s[i]
    OBVIOUS
  <1>2. \A i \in (a + 2)..L : r[i] <= r[i - 1]
    <2> SUFFICES ASSUME NEW i \in (a + 2)..L
                 PROVE  0 - s[i] <= 0 - s[i - 1]
      BY <1>1
    <2>1. i - 1 \in (a + 1)..(L - 1) /\ (i - 1) + 1 = i
      OBVIOUS
    <2>2. s[i - 1] <= s[i]
      BY <2>1
    <2> QED
      BY <2>2
  <1> HIDE DEF r
  <1>3. \A i, j \in (a + 1)..L : i <= j => r[j] <= r[i]
    BY <1>1, <1>2, FallsAltogether
  <1> QED
    BY <1>1, <1>3

(* Of the arrangements that share the first a entries, the one whose rest  *)
(* rises is the least, the one whose rest falls is the greatest.           *)
LEMMA RisingIsLeast ==
    ASSUME NEW L \in Nat, NEW s \in [1..L -> Int], NEW t \in [1..L -> Int], NEW a \in Nat,
           \A v \in Int : Count(s, v) = Count(t, v),
           \A i \in 1..a : s[i] = t[i],
           \A i, j \in (a + 1)..L : i <= j => s[i] <= s[j]
    PROVE  UpTo(s, t)
  <1> SUFFICES ASSUME s # t PROVE Before(s, t)
    BY DEF UpTo
  <1>1. PICK i \in 1..L : s[i] # t[i] /\ \A j \in 1..(i - 1) : s[j] = t[j]
    BY FirstDifference
  <1>2. PICK j \in i..L : s[j] = t[i]
    <2>1. \A j \in 1..(i - 1) : s[j] = t[j]
      BY <1>1
    <2>2. \A v \in Int : Count(s, v) = Count(t, v)
      OBVIOUS
    <2> QED
      BY ONLY <2>1, <2>2, RestHasEntry, L \in Nat, i \in 1..L, s \in [1..L -> Int], t \in [1..L -> Int]
  <1>3. i \in (a + 1)..L /\ j \in (a + 1)..L
    BY <1>1, <1>2
  <1>4. s[i] <= t[i]
    BY <1>2, <1>3
  <1> QED
    BY <1>1, <1>4 DEF Before

LEMMA FallingIsGreatest ==
    ASSUME NEW L \in Nat, NEW s \in [1..L -> Int], NEW t \in [1..L -> Int], NEW a \in Nat,
           \A v \in Int : Count(s, v) = Count(t, v),
           \A i \in 1..a : s[i] = t[i],
           \A i, j \in (a + 1)..L : i <= j => s[j] <= s[i]
    PROVE  UpTo(t, s)
  <1> SUFFICES ASSUME s # t PROVE Before(t, s)
    BY DEF UpTo
  <1>1. PICK i \in 1..L : s[i] # t[i] /\ \A j \in 1..(i - 1) : s[j] = t[j]
    BY FirstDifference
  <1>2. PICK j \in i..L : s[j] = t[i]
    <2>1. \A j \in 1..(i - 1) : s[j] = t[j]
      BY <1>1
    <2>2. \A v \in Int : Count(s, v) = Count(t, v)
      OBVIOUS
    <2> QED
      BY ONLY <2>1, <2>2, RestHasEntry, L \in Nat, i \in 1..L, s \in [1..L -> Int], t \in [1..L -> Int]
  <1>3. i \in (a + 1)..L /\ j \in (a + 1)..L
    BY <1>1, <1>2
  <1>4. t[i] <= s[i]
    BY <1>2, <1>3
  <1> QED
    BY <1>1, <1>4 DEF Before

(* The order is strict and total on arrangements. *)
LEMMA BeforeIsStrict ==
    ASSUME NEW L \in Nat, NEW s \in [1..L -> Int], NEW t \in [1..L -> Int], Before(s, t)
    PROVE  ~UpTo(t, s)
  <1>1. PICK i \in 1..L : s[i] < t[i] /\ \A j \in 1..(i - 1) : s[j] = t[j]
    BY DEF Before
  <1>2. s # t
    BY <1>1
  <1>3. ASSUME Before(t, s) PROVE FALSE
    <2>1. PICK k \in 1..L : t[k] < s[k] /\ \A j \in 1..(k - 1) : t[j] = s[j]
      BY <1>3 DEF Before
    <2>2. ~(i < k) /\ ~(k < i)
      BY <1>1, <2>1
    <2> QED
      BY <1>1, <2>1, <2>2
  <1> QED
    BY <1>2, <1>3 DEF UpTo

-----------------------------------------------------------------------------
(* What interleaving_next builds: with a the last entry that is less than  *)
(* its successor, the entries behind it in reverse, but for the first of   *)
(* these that is greater than the entry at a, which changes places with it.*)
Swapped(s, L, a, b) ==
    [i \in 1..L |-> IF i < a THEN s[i]
                    ELSE IF i = a THEN s[L + a + 1 - b]
                    ELSE IF i = b THEN s[a]
                    ELSE s[L + a + 1 - i]]

LEMMA TurnedSuffix ==
    ASSUME NEW L \in Nat, NEW s \in [1..L -> Int], NEW a \in 1..(L - 1)
    PROVE  SubSeq(s, 1, a) \o Reverse(SubSeq(s, a + 1, L))
               = [i \in 1..L |-> IF i <= a THEN s[i] ELSE s[L + a + 1 - i]]
  <1> DEFINE front == SubSeq(s, 1, a)
             back == SubSeq(s, a + 1, L)
             rev == Reverse(back)
  <1>1. front \in Seq(Int) /\ Len(front) = a /\ \A i \in 1..a : front[i] = s[i]
    <2>1. \A i \in 1..a : s[i] \in Int
      OBVIOUS
    <2> QED
      BY <2>1, SubSeqProperties, a \in Int, 1 \in Int
  <1>2. back \in Seq(Int) /\ Len(back) = L - a /\ \A i \in 1..(L - a) : back[i] = s[a + i]
    <2>1. \A i \in (a + 1)..L : s[i] \in Int
      OBVIOUS
    <2> QED
      BY <2>1, SubSeqProperties, a + 1 \in Int, L \in Int
  <1> HIDE DEF front, back
  <1>3. rev = [i \in 1..(L - a) |-> back[L - a - i + 1]]
    BY <1>2 DEF Reverse
  <1>4. \A i \in 1..(L - a) : L - a - i + 1 \in 1..(L - a)
    OBVIOUS
  <1>5. \A i \in 1..(L - a) : back[L - a - i + 1] = s[L + 1 - i] /\ s[L + 1 - i] \in Int
    BY <1>2, <1>4
  <1>6. rev \in Seq(Int) /\ Len(rev) = L - a /\ \A i \in 1..(L - a) : rev[i] = s[L + 1 - i]
    <2>1. rev \in [1..(L - a) -> Int]
      BY <1>3, <1>5
    <2>2. rev \in Seq(Int) /\ Len(rev) = L - a
      BY <2>1, L - a \in Nat
    <2> QED
      BY <1>3, <1>5, <2>2
  <1> HIDE DEF rev
  <1> DEFINE all == front \o rev
  <1>7. all \in Seq(Int) /\ Len(all) = L
        /\ \A i \in 1..L : all[i] = IF i <= a THEN front[i] ELSE rev[i - a]
    <2>1. /\ all \in Seq(Int)
          /\ Len(all) = Len(front) + Len(rev)
          /\ \A i \in 1..(Len(front) + Len(rev)) :
                all[i] = IF i <= Len(front) THEN front[i] ELSE rev[i - Len(front)]
      BY <1>1, <1>6, ConcatProperties
    <2>2. Len(front) + Len(rev) = L
      BY <1>1, <1>6
    <2> QED
      BY <1>1, <2>1, <2>2
  <1> HIDE DEF all
  <1>8. \A i \in 1..L : all[i] = IF i <= a THEN s[i] ELSE s[L + a + 1 - i]
    <2> SUFFICES ASSUME NEW i \in 1..L
                 PROVE  all[i] = IF i <= a THEN s[i] ELSE s[L + a + 1 - i]
      OBVIOUS
    <2>1. CASE i <= a
      BY <1>1, <1>7, <2>1
    <2>2. CASE ~(i <= a)
      <3>1. i - a \in 1..(L - a) /\ L + 1 - (i - a) = L + a + 1 - i
        BY <2>2
      <3>2. rev[i - a] = s[L + 1 - (i - a)]
        BY <1>6, <3>1
      <3> QED
        BY <1>7, <2>2, <3>1, <3>2
    <2> QED
      BY <2>1, <2>2
  <1>9. all = [i \in 1..L |-> all[i]]
    BY <1>7
  <1>10. all = [i \in 1..L |-> IF i <= a THEN s[i] ELSE s[L + a + 1 - i]]
    BY <1>8, <1>9
  <1> QED
    BY <1>10 DEF all, front, rev, back

LEMMA NextShape ==
    ASSUME NEW L \in Nat, NEW s \in [1..L -> Int],
           {i \in 2..L : s[i] > s[i - 1]} # {}
    PROVE  \E a \in 1..(L - 1) : \E b \in (a + 1)..L :
               /\ \A i \in (a + 2)..L : s[i] <= s[i - 1]
               /\ s[L + a + 1 - b] > s[a]
               /\ \A i \in (a + 1)..(b - 1) : s[L + a + 1 - i] <= s[a]
               /\ InterleavingNext(s) = Swapped(s, L, a, b)
  <1> DEFINE ascents == {i \in 2..L : s[i] > s[i - 1]}
             a == Max(ascents) - 1
             turned == SubSeq(s, 1, a) \o Reverse(SubSeq(s, a + 1, L))
             above == {i \in (a + 1)..L : turned[i] > turned[a]}
             b == Min(above)
  <1>0. Len(s) = L
    OBVIOUS
  <1>1. Max(ascents) \in ascents /\ \A x \in ascents : x <= Max(ascents)
    <2>1. ascents \in SUBSET (0..L)
      OBVIOUS
    <2> QED
      BY <2>1, MaxOfSet
  <1>2. InterleavingNext(s) = [turned EXCEPT ![a] = turned[b], ![b] = turned[a]]
    BY <1>0 DEF InterleavingNext
  <1>3. a \in 1..(L - 1) /\ s[a + 1] > s[a]
    BY <1>1
  <1>4. \A i \in (a + 2)..L : s[i] <= s[i - 1]
    <2> SUFFICES ASSUME NEW i \in (a + 2)..L PROVE s[i] <= s[i - 1]
      OBVIOUS
    <2>1. i \in 2..L /\ i - 1 \in 1..L /\ i > a + 1 /\ i \in Int
      BY <1>3
    <2>2. Max(ascents) = a + 1
      BY <1>1
    <2>3. i \notin ascents
      <3> HIDE DEF ascents, a
      <3> QED
        BY <1>1, <1>3, <2>1, <2>2
    <2> QED
      BY <2>1, <2>3
  <1>5. turned = [i \in 1..L |-> IF i <= a THEN s[i] ELSE s[L + a + 1 - i]]
    BY <1>3, TurnedSuffix
  <1> HIDE DEF a, turned
  <1>6. /\ \A i \in (a + 1)..L : turned[i] = s[L + a + 1 - i]
        /\ turned[a] = s[a]
    BY <1>3, <1>5
  <1>7. b \in above /\ \A x \in above : b <= x
    <2>1. above \in SUBSET Nat
      BY <1>3
    <2>2. L \in above
      <3>1. L \in (a + 1)..L /\ L + a + 1 - L = a + 1
        BY <1>3
      <3> QED
        BY <1>3, <1>6, <3>1
    <2> QED
      BY <2>1, <2>2, MinOfSet
  <1>8. b \in (a + 1)..L /\ turned[b] > turned[a] /\ \A i \in (a + 1)..(b - 1) : ~(turned[i] > turned[a])
    <2>1. b \in (a + 1)..L /\ turned[b] > turned[a]
      BY <1>7
    <2>2. ASSUME NEW i \in (a + 1)..(b - 1) PROVE ~(turned[i] > turned[a])
      <3>1. i \in (a + 1)..L /\ ~(b <= i)
        BY <1>3, <2>1
      <3>2. i \notin above
        BY <1>7, <3>1
      <3> QED
        BY <3>1, <3>2
    <2> QED
      BY <2>1, <2>2
  <1> HIDE DEF above, b
  <1>9. s[L + a + 1 - b] > s[a]
    BY <1>6, <1>8
  <1>10. \A i \in (a + 1)..(b - 1) : s[L + a + 1 - i] <= s[a]
    <2> SUFFICES ASSUME NEW i \in (a + 1)..(b - 1) PROVE s[L + a + 1 - i] <= s[a]
      OBVIOUS
    <2>1. i \in (a + 1)..L /\ L + a + 1 - i \in 1..L /\ a \in 1..L
      BY <1>3, <1>8
    <2>2. ~(s[L + a + 1 - i] > s[a])
      BY <1>6, <1>8, <2>1
    <2> QED
      BY <2>1, <2>2
  <1>11. [turned EXCEPT ![a] = turned[b], ![b] = turned[a]] = Swapped(s, L, a, b)
    <2> DEFINE ex == [turned EXCEPT ![a] = turned[b], ![b] = turned[a]]
    <2>1. ex = [i \in 1..L |-> IF i = b THEN turned[a] ELSE IF i = a THEN turned[b] ELSE turned[i]]
      <3>1. turned \in [1..L -> Int]
        BY <1>3, <1>5
      <3>2. a \in 1..L /\ b \in 1..L /\ a # b
        BY <1>3, <1>8
      <3> QED
        BY ONLY <3>1, <3>2
    <2>2. \A i \in 1..L : turned[i] = IF i <= a THEN s[i] ELSE s[L + a + 1 - i]
      BY <1>5
    <2>3. turned[b] = s[L + a + 1 - b]
      BY <1>6, <1>8
    <2> HIDE DEF ex
    <2>4. \A i \in 1..L : ex[i] = Swapped(s, L, a, b)[i]
      BY <1>3, <1>6, <1>8, <2>1, <2>2, <2>3 DEF Swapped
    <2>5. ex = [i \in 1..L |-> ex[i]]
      BY <2>1
    <2>6. Swapped(s, L, a, b) = [i \in 1..L |-> Swapped(s, L, a, b)[i]]
      BY DEF Swapped
    <2>7. ex = Swapped(s, L, a, b)
      BY <2>4, <2>5, <2>6
    <2> QED
      BY <2>7 DEF ex
  <1> QED
    BY <1>2, <1>3, <1>4, <1>8, <1>9, <1>10, <1>11

(* It moves entries about, no more: every thread keeps its KPs. *)
LEMMA SwappedKeepsCounts ==
    ASSUME NEW L \in Nat, NEW s \in [1..L -> Int],
           NEW a \in 1..(L - 1), NEW b \in (a + 1)..L
    PROVE  /\ Swapped(s, L, a, b) \in [1..L -> Int]
           /\ \A v \in Int : Count(Swapped(s, L, a, b), v) = Count(s, v)
  <1> DEFINE r == Swapped(s, L, a, b)
             From(i) == IF i < a THEN i
                        ELSE IF i = a THEN L + a + 1 - b
                        ELSE IF i = b THEN a
                        ELSE L + a + 1 - i
  <1>1. \A i \in 1..L : From(i) \in 1..L
    OBVIOUS
  <1>2. \A i, j \in 1..L : From(i) = From(j) => i = j
    OBVIOUS
  <1>3. \A j \in 1..L : \E i \in 1..L : From(i) = j
    <2> TAKE j \in 1..L
    <2>1. CASE j < a
      BY <2>1
    <2>2. CASE j = a
      <3>1. b \in 1..L /\ From(b) = j
        BY <2>2
      <3> QED
        BY <3>1
    <2>3. CASE j = L + a + 1 - b
      <3>1. a \in 1..L /\ From(a) = j
        BY <2>3
      <3> QED
        BY <3>1
    <2>4. CASE j > a /\ j # L + a + 1 - b
      <3>1. L + a + 1 - j \in 1..L /\ From(L + a + 1 - j) = j
        BY <2>4
      <3> QED
        BY <3>1
    <2> QED
      BY <2>1, <2>2, <2>3, <2>4
  <1>4. \A i \in 1..L : r[i] = s[From(i)]
    BY DEF Swapped
  <1>5. r = [i \in 1..L |-> s[From(i)]]
    BY DEF Swapped
  <1> HIDE DEF r, From
  <1>6. r \in [1..L -> Int]
    BY <1>1, <1>5
  <1>7. ASSUME NEW v \in Int
        PROVE  Count(r, v) = Count(s, v)
    <2> DEFINE R == {i \in 1..L : r[i] = v}
               S == {i \in 1..L : s[i] = v}
               f == [i \in R |-> From(i)]
    <2>1. f \in [R -> S]
      BY <1>1, <1>4
    <2>2. \A i, j \in R : f[i] = f[j] => i = j
      BY <1>2
    <2>3. \A j \in S : \E i \in R : f[i] = j
      BY <1>3, <1>4
    <2> HIDE DEF f
    <2>4. f \in Bijection(R, S)
      BY <2>1, <2>2, <2>3 DEF Bijection, Injection, Surjection, IsInjective
    <2>5. ExistsBijection(R, S)
      BY <2>4 DEF ExistsBijection
    <2>6. IsFiniteSet(R)
      BY FS_Interval, FS_Subset
    <2>7. Cardinality(S) = Cardinality(R)
      BY <2>5, <2>6, FS_Bijection
    <2>8. DOMAIN r = 1..L /\ DOMAIN s = 1..L
      BY <1>6
    <2> QED
      BY <2>7, <2>8 DEF Count
  <1> QED
    BY <1>6, <1>7 DEF r

(* It is greater, and its rest is as small as can be. *)
LEMMA SwappedRises ==
    ASSUME NEW L \in Nat, NEW s \in [1..L -> Int],
           NEW a \in 1..(L - 1), NEW b \in (a + 1)..L,
           \A i, j \in (a + 1)..L : i <= j => s[j] <= s[i],
           s[L + a + 1 - b] > s[a],
           \A i \in (a + 1)..(b - 1) : s[L + a + 1 - i] <= s[a]
    PROVE  /\ Before(s, Swapped(s, L, a, b))
           /\ \A i, j \in (a + 1)..L : i <= j
                => Swapped(s, L, a, b)[i] <= Swapped(s, L, a, b)[j]
  <1> DEFINE r == Swapped(s, L, a, b)
  <1>1. \A i \in 1..L : r[i] = IF i < a THEN s[i]
                                ELSE IF i = a THEN s[L + a + 1 - b]
                                ELSE IF i = b THEN s[a]
                                ELSE s[L + a + 1 - i]
    BY DEF Swapped
  <1> HIDE DEF r
  <1>2. Before(s, r)
    <2>1. a \in DOMAIN s /\ s[a] < r[a] /\ \A j \in 1..(a - 1) : s[j] = r[j]
      BY <1>1
    <2> QED
      BY <2>1 DEF Before
  <1>3. ASSUME NEW i \in (a + 1)..L, NEW j \in (a + 1)..L, i <= j
        PROVE  r[i] <= r[j]
    <2>1. L + a + 1 - i \in (a + 1)..L /\ L + a + 1 - j \in (a + 1)..L
          /\ L + a + 1 - b \in (a + 1)..L /\ L + a + 1 - j <= L + a + 1 - i
      BY <1>3
    <2>2. s[L + a + 1 - i] <= s[L + a + 1 - j]
      BY <2>1
    <2>3. CASE i # b /\ j # b
      BY <1>1, <2>2, <2>3
    <2>4. CASE i = b /\ j # b
      <3>1. r[i] = s[a] /\ r[j] = s[L + a + 1 - j]
        BY <1>1, <2>4
      <3>2. s[a] \in Int /\ s[L + a + 1 - j] \in Int /\ s[L + a + 1 - i] \in Int
        BY <2>1
      <3> QED
        BY <2>2, <2>4, <3>1, <3>2
    <2>5. CASE i # b /\ j = b
      <3>1. r[i] = s[L + a + 1 - i] /\ r[j] = s[a]
        BY <1>1, <2>5
      <3>2. i \in (a + 1)..(b - 1)
        BY <1>3, <2>5
      <3> QED
        BY <3>1, <3>2
    <2>6. CASE i = b /\ j = b
      <3>1. r[i] = s[a] /\ r[j] = s[a] /\ s[a] \in Int
        BY <1>1, <2>6
      <3> QED
        BY <3>1
    <2> QED
      BY <2>3, <2>4, <2>5, <2>6
  <1> QED
    BY <1>2, <1>3 DEF r

(* interleaving_next leads to the next arrangement: nothing lies between.  *)
LEMMA NextIsSuccessor ==
    ASSUME NEW L \in Nat, NEW s \in [1..L -> Int], InterleavingNext(s) # None
    PROVE  /\ InterleavingNext(s) \in [1..L -> Int]
           /\ \A v \in Int : Count(InterleavingNext(s), v) = Count(s, v)
           /\ Before(s, InterleavingNext(s))
           /\ \A t \in [1..L -> Int] :
                 (\A v \in Int : Count(s, v) = Count(t, v)) /\ Before(s, t)
                    => UpTo(InterleavingNext(s), t)
  <1> DEFINE r == InterleavingNext(s)
  <1>1. {i \in 2..L : s[i] > s[i - 1]} # {}
    <2>1. Len(s) = L
      OBVIOUS
    <2>2. SUFFICES ASSUME {i \in 2..L : s[i] > s[i - 1]} = {} PROVE InterleavingNext(s) = None
      OBVIOUS
    <2> QED
      BY <2>1, <2>2 DEF InterleavingNext
  <1>shape. PICK a \in 1..(L - 1) : \E b \in (a + 1)..L :
               /\ \A i \in (a + 2)..L : s[i] <= s[i - 1]
               /\ s[L + a + 1 - b] > s[a]
               /\ \A i \in (a + 1)..(b - 1) : s[L + a + 1 - i] <= s[a]
               /\ InterleavingNext(s) = Swapped(s, L, a, b)
    BY <1>1, NextShape
  <1>2. PICK b \in (a + 1)..L :
               /\ \A i \in (a + 2)..L : s[i] <= s[i - 1]
               /\ s[L + a + 1 - b] > s[a]
               /\ \A i \in (a + 1)..(b - 1) : s[L + a + 1 - i] <= s[a]
               /\ InterleavingNext(s) = Swapped(s, L, a, b)
    BY <1>shape
  <1>3. \A i, j \in (a + 1)..L : i <= j => s[j] <= s[i]
    <2>1. \A i \in (a + 2)..L : s[i] <= s[i - 1]
      BY <1>2
    <2> QED
      BY ONLY <2>1, FallsAltogether, L \in Nat, a \in Nat, s \in [1..L -> Int]
  <1>4. r \in [1..L -> Int] /\ \A v \in Int : Count(r, v) = Count(s, v)
    <2>1. /\ Swapped(s, L, a, b) \in [1..L -> Int]
          /\ \A v \in Int : Count(Swapped(s, L, a, b), v) = Count(s, v)
      BY SwappedKeepsCounts
    <2> QED
      BY <1>2, <2>1
  <1>5. Before(s, r) /\ \A i, j \in (a + 1)..L : i <= j => r[i] <= r[j]
    BY <1>2, <1>3, SwappedRises
  <1>6. /\ \A i \in 1..(a - 1) : r[i] = s[i]
        /\ r[a] = s[L + a + 1 - b]
    BY <1>2 DEF Swapped
  <1> HIDE DEF r
  <1>7. ASSUME NEW t \in [1..L -> Int], \A v \in Int : Count(s, v) = Count(t, v), Before(s, t)
        PROVE  UpTo(r, t)
    <2>1. PICK i \in 1..L : s[i] < t[i] /\ \A j \in 1..(i - 1) : s[j] = t[j]
      BY <1>7 DEF Before
    <2>2. PICK j \in i..L : s[j] = t[i]
      <3>1. \A j \in 1..(i - 1) : s[j] = t[j]
        BY <2>1
      <3> QED
        BY ONLY <1>7, <3>1, RestHasEntry, L \in Nat, i \in 1..L, s \in [1..L -> Int], t \in [1..L -> Int]
    <2>3. j # i /\ j \in 1..L
      BY <2>1, <2>2
    <2>4. CASE i > a
      <3>1. s[j] <= s[i]
        BY <1>3, <2>2, <2>4
      <3> QED
        BY <2>1, <2>2, <2>3, <3>1
    <2>5. CASE i < a
      <3>1. r[i] < t[i] /\ \A k \in 1..(i - 1) : r[k] = t[k]
        BY <1>6, <2>1, <2>5
      <3>2. i \in DOMAIN r
        BY <1>4
      <3> QED
        BY <3>1, <3>2 DEF UpTo, Before
    <2>6. CASE i = a
      <3>1. j \in (a + 1)..L /\ s[j] > s[a]
        BY <2>1, <2>2, <2>3, <2>6
      <3>2. s[L + a + 1 - b] <= s[j]
        <4>1. CASE j <= L + a + 1 - b
          <5>1. L + a + 1 - b \in (a + 1)..L
            OBVIOUS
          <5> QED
            BY <1>3, <3>1, <4>1, <5>1
        <4>2. CASE j > L + a + 1 - b
          <5>1. L + a + 1 - j \in (a + 1)..(b - 1) /\ L + a + 1 - (L + a + 1 - j) = j
            BY <3>1, <4>2
          <5>2. s[j] <= s[a]
            BY <1>2, <5>1
          <5> QED
            BY <3>1, <5>2
        <4> QED
          BY <3>1, <4>1, <4>2
      <3>3. \A k \in 1..(a - 1) : r[k] = t[k]
        BY <1>6, <2>1, <2>6
      <3>4. CASE r[a] = t[a]
        <4>1. \A k \in 1..a : r[k] = t[k]
          BY <3>3, <3>4
        <4>2. \A v \in Int : Count(r, v) = Count(t, v)
          BY <1>4, <1>7
        <4>3. \A k, l \in (a + 1)..L : k <= l => r[k] <= r[l]
          BY <1>5
        <4>4. r \in [1..L -> Int]
          BY <1>4
        <4> QED
          BY ONLY <4>1, <4>2, <4>3, <4>4, RisingIsLeast, L \in Nat, a \in Nat, t \in [1..L -> Int]
      <3>5. CASE r[a] # t[a]
        <4>1. r[a] < t[a] /\ a \in DOMAIN r
          BY <1>4, <1>6, <2>2, <2>6, <3>2, <3>5
        <4> QED
          BY <3>3, <4>1 DEF UpTo, Before
      <3> QED
        BY <3>4, <3>5
    <2> QED
      BY <2>4, <2>5, <2>6
  <1> QED
    BY <1>4, <1>5, <1>7 DEF r

(* When it finds none, there is none. *)
LEMMA NoneIsLast ==
    ASSUME NEW L \in Nat, NEW s \in [1..L -> Int], InterleavingNext(s) = None,
           NEW t \in [1..L -> Int], \A v \in Int : Count(s, v) = Count(t, v)
    PROVE  UpTo(t, s)
  <1>1. \A i \in 2..L : s[i] <= s[i - 1]
    <2>1. {i \in 2..L : s[i] > s[i - 1]} = {}
      <3> SUFFICES ASSUME {i \in 2..L : s[i] > s[i - 1]} # {} PROVE FALSE
        OBVIOUS
      <3>1. \E a \in 1..(L - 1) : \E b \in (a + 1)..L : InterleavingNext(s) = Swapped(s, L, a, b)
        BY NextShape
      <3>2. DOMAIN InterleavingNext(s) = 1..L /\ L > 0
        BY <3>1 DEF Swapped
      <3>3. DOMAIN None = {}
        BY DEF None
      <3>4. 1 \in 1..L
        BY <3>2
      <3> QED
        BY <3>2, <3>3, <3>4
    <2> TAKE i \in 2..L
    <2>2. ~(s[i] > s[i - 1])
      BY <2>1, Zenon
    <2>3. i \in 1..L /\ i - 1 \in 1..L
      OBVIOUS
    <2> QED
      BY <2>2, <2>3
  <1>2. \A i, j \in (0 + 1)..L : i <= j => s[j] <= s[i]
    <2>1. \A i \in (0 + 2)..L : s[i] <= s[i - 1]
      BY <1>1
    <2> QED
      BY <2>1, FallsAltogether, 0 \in Nat
  <1>3. \A i \in 1..0 : s[i] = t[i]
    OBVIOUS
  <1> QED
    BY <1>2, <1>3, FallingIsGreatest, 0 \in Nat

-----------------------------------------------------------------------------
(* interleaving_init builds an arrangement in which the threads rise. *)
LEMMA TimesFacts ==
    ASSUME NEW t \in Int, NEW k \in Int
    PROVE  /\ Times(t, k) \in Seq(Int)
           /\ Len(Times(t, k)) = Cardinality(1..k)
           /\ Cardinality(1..k) \in Nat
           /\ Cardinality(1..k) = IF k > 0 THEN k ELSE 0
           /\ \A i \in 1..Cardinality(1..k) : Times(t, k)[i] = t
  <1>1. Cardinality(1..k) = (IF k > 0 THEN k ELSE 0) /\ 1..k = 1..Cardinality(1..k)
    BY FS_Interval, 1 \in Int
  <1> DEFINE c == Cardinality(1..k)
  <1>2. c \in Nat
    BY <1>1
  <1>3. Times(t, k) = [i \in 1..c |-> t]
    BY <1>1 DEF Times
  <1>4. Times(t, k) \in [1..c -> Int]
    BY <1>3
  <1> QED
    BY <1>1, <1>2, <1>3, <1>4

(* All KPs of a thread appended to those of threads with lower numbers.    *)
Rising(s) == \A i, j \in DOMAIN s : i <= j => s[i] <= s[j]
SameCounts(r, s, threads) == \A v \in threads : Count(r, v) = Count(s, v)

LEMMA AppendThread ==
    ASSUME NEW L \in Nat, NEW t \in Nat, NEW s \in [1..L -> 0..(t - 1)], NEW k \in Int, Rising(s)
    PROVE  /\ s \o Times(t, k) \in [1..(L + Cardinality(1..k)) -> 0..t]
           /\ Rising(s \o Times(t, k))
           /\ Count(s \o Times(t, k), t) = Cardinality(1..k)
           /\ SameCounts(s \o Times(t, k), s, 0..(t - 1))
  <1> DEFINE c == Cardinality(1..k)
             block == Times(t, k)
             r == s \o block
  <1>1. block \in Seq(Int) /\ Len(block) = c /\ c \in Nat /\ \A i \in 1..c : block[i] = t
    <2>1. t \in Int
      OBVIOUS
    <2> QED
      BY <2>1, TimesFacts
  <1>2. s \in [1..L -> Int] /\ s \in Seq(Int) /\ Len(s) = L
    OBVIOUS
  <1> HIDE DEF c, block
  <1>3. r \in Seq(Int) /\ Len(r) = L + c
    BY <1>1, <1>2, ConcatProperties
  <1>4. \A i \in 1..(L + c) : r[i] = IF i <= L THEN s[i] ELSE block[i - L]
    BY <1>1, <1>2, ConcatProperties
  <1>5. DOMAIN r = 1..(L + c)
    BY <1>3
  <1> HIDE DEF r
  <1>6. \A i \in 1..(L + c) : r[i] = IF i <= L THEN s[i] ELSE t
    <2> TAKE i \in 1..(L + c)
    <2>1. CASE i <= L
      BY <1>4, <2>1
    <2>2. CASE ~(i <= L)
      <3>1. i - L \in 1..c
        BY <1>1, <2>2
      <3> QED
        BY <1>1, <1>4, <2>2, <3>1
    <2> QED
      BY <2>1, <2>2
  <1>7. r \in [1..(L + c) -> 0..t]
    <2>1. \A i \in 1..(L + c) : r[i] \in 0..t
      <3> TAKE i \in 1..(L + c)
      <3>1. CASE i <= L
        <4>1. i \in 1..L
          BY <3>1
        <4> QED
          BY <1>6, <3>1, <4>1
      <3>2. CASE ~(i <= L)
        BY <1>6, <3>2
      <3> QED
        BY <3>1, <3>2
    <2>2. r = [i \in 1..(L + c) |-> r[i]]
      BY <1>3, <1>5
    <2> QED
      BY <2>1, <2>2
  <1>8. ASSUME NEW i \in 1..(L + c), NEW j \in 1..(L + c), i <= j
        PROVE  r[i] <= r[j]
    <2>1. CASE j <= L
      <3>1. i \in 1..L /\ j \in 1..L
        BY <1>8, <2>1
      <3> QED
        BY <1>6, <1>8, <3>1 DEF Rising
    <2>2. CASE ~(j <= L)
      <3>1. r[j] = t /\ r[i] \in 0..t
        BY <1>6, <1>7, <2>2
      <3> QED
        BY <3>1
    <2> QED
      BY <2>1, <2>2
  <1>9. Count(r, t) = c
    <2>1. {i \in DOMAIN r : r[i] = t} = (L + 1)..(L + c)
      <3>1. ASSUME NEW i \in 1..(L + c)
            PROVE  r[i] = t <=> i \in (L + 1)..(L + c)
        <4>1. CASE i <= L
          <5>1. i \in 1..L /\ r[i] = s[i]
            BY <1>6, <4>1
          <5>2. s[i] # t
            BY <5>1
          <5> QED
            BY <4>1, <5>1, <5>2
        <4>2. CASE ~(i <= L)
          BY <1>6, <4>2
        <4> QED
          BY <4>1, <4>2
      <3>2. (L + 1)..(L + c) \subseteq 1..(L + c)
        BY <1>1
      <3> QED
        BY <1>5, <3>1, <3>2
    <2>2. Cardinality((L + 1)..(L + c)) = c
      BY <1>1, FS_Interval, L + 1 \in Int, L + c \in Int
    <2> QED
      BY <2>1, <2>2 DEF Count
  <1>10. ASSUME NEW v \in 0..(t - 1)
         PROVE  Count(r, v) = Count(s, v)
    <2>1. {i \in DOMAIN r : r[i] = v} = {i \in DOMAIN s : s[i] = v}
      <3>1. DOMAIN s = 1..L /\ 1..L \subseteq 1..(L + c)
        BY <1>1
      <3>2. ASSUME NEW i \in 1..(L + c)
            PROVE  r[i] = v <=> i \in 1..L /\ s[i] = v
        BY <1>6, <3>1
      <3> QED
        BY <1>5, <3>1, <3>2
    <2> QED
      BY <2>1 DEF Count
  <1> QED
    BY <1>5, <1>7, <1>8, <1>9, <1>10 DEF c, block, r, Rising, SameCounts

(* The KPs of the threads below k, and the sequence that has them in order.*)
KPsBelow(pool, k) == UNION {{t} \X (1..pool[t]) : t \in 0..(k - 1)}
Sorted(s, pool, k) ==
    /\ IsFiniteSet(KPsBelow(pool, k))
    /\ s \in [1..Cardinality(KPsBelow(pool, k)) -> 0..(k - 1)]
    /\ \A t \in 0..(k - 1) : Count(s, t) = Cardinality(1..pool[t])
    /\ Rising(s)

LEMMA KPsOfOneMore ==
    ASSUME NEW k \in Nat, NEW pool, \A t \in 0..k : pool[t] \in Int,
           IsFiniteSet(KPsBelow(pool, k))
    PROVE  /\ IsFiniteSet(KPsBelow(pool, k + 1))
           /\ Cardinality(KPsBelow(pool, k + 1))
                = Cardinality(KPsBelow(pool, k)) + Cardinality(1..pool[k])
  <1> DEFINE old == KPsBelow(pool, k)
             own == {k} \X (1..pool[k])
  <1>1. KPsBelow(pool, k + 1) = old \cup own
    <2>1. 0..((k + 1) - 1) = 0..(k - 1) \cup {k}
      OBVIOUS
    <2> QED
      BY <2>1 DEF KPsBelow
  <1>2. old \cap own = {}
    <2>1. \A x \in old : x[1] \in 0..(k - 1)
      BY DEF KPsBelow
    <2>2. \A x \in own : x[1] = k
      OBVIOUS
    <2> HIDE DEF old, own
    <2>3. k \notin 0..(k - 1)
      OBVIOUS
    <2> QED
      BY <2>1, <2>2, <2>3
  <1>3. IsFiniteSet(own) /\ Cardinality(own) = Cardinality(1..pool[k])
    <2>1. pool[k] \in Int
      OBVIOUS
    <2>2. IsFiniteSet(1..pool[k]) /\ Cardinality(1..pool[k]) \in Nat
      BY <2>1, FS_Interval, FS_CardinalityType, 1 \in Int
    <2>3. IsFiniteSet({k}) /\ Cardinality({k}) = 1
      BY FS_Singleton
    <2>4. IsFiniteSet(own) /\ Cardinality(own) = 1 * Cardinality(1..pool[k])
      BY <2>2, <2>3, FS_Product
    <2> QED
      BY <2>2, <2>4
  <1>0. IsFiniteSet(old)
    OBVIOUS
  <1> HIDE DEF old, own
  <1>4. /\ IsFiniteSet(old \cup own)
        /\ Cardinality(old \cup own) = Cardinality(old) + Cardinality(own) - 0
    <2>1. /\ IsFiniteSet(old \cup own)
          /\ Cardinality(old \cup own)
                = Cardinality(old) + Cardinality(own) - Cardinality(old \cap own)
      BY <1>0, <1>3, FS_Union
    <2> QED
      BY <1>2, <2>1, FS_EmptySet
  <1>5. Cardinality(old) \in Nat /\ Cardinality(own) \in Nat
    BY <1>0, <1>3, FS_CardinalityType
  <1>6. Cardinality(old \cup own) = Cardinality(old) + Cardinality(1..pool[k])
    BY <1>3, <1>4, <1>5
  <1> QED
    BY <1>1, <1>4, <1>6 DEF old

LEMMA SortedEmpty ==
    ASSUME NEW pool
    PROVE  Sorted(<<>>, pool, 0)
  <1>1. KPsBelow(pool, 0) = {}
    BY DEF KPsBelow
  <1>2. IsFiniteSet(KPsBelow(pool, 0)) /\ Cardinality(KPsBelow(pool, 0)) = 0
    BY <1>1, FS_EmptySet
  <1>3. <<>> \in [1..0 -> 0..(0 - 1)] /\ DOMAIN <<>> = {}
    OBVIOUS
  <1> QED
    BY <1>2, <1>3 DEF Sorted, Rising

LEMMA SortedOneMore ==
    ASSUME NEW k \in Nat, NEW pool, \A t \in 0..k : pool[t] \in Int,
           NEW s, Sorted(s, pool, k)
    PROVE  Sorted(s \o Times(k, pool[k]), pool, k + 1)
  <1> DEFINE L == Cardinality(KPsBelow(pool, k))
             c == Cardinality(1..pool[k])
             r == s \o Times(k, pool[k])
  <1>1. L \in Nat
    BY FS_CardinalityType DEF Sorted
  <1>2. /\ IsFiniteSet(KPsBelow(pool, k + 1))
        /\ Cardinality(KPsBelow(pool, k + 1)) = L + c
    BY KPsOfOneMore DEF Sorted
  <1>3. s \in [1..L -> 0..(k - 1)]
    BY DEF Sorted
  <1>4. pool[k] \in Int
    OBVIOUS
  <1>5. Rising(s) /\ \A t \in 0..(k - 1) : Count(s, t) = Cardinality(1..pool[t])
    BY DEF Sorted
  <1> HIDE DEF L
  <1>6. /\ r \in [1..(L + c) -> 0..k]
        /\ Rising(r)
        /\ Count(r, k) = c
        /\ \A v \in 0..(k - 1) : Count(r, v) = Count(s, v)
    <2>1. Rising(s)
      BY <1>5
    <2>2. /\ s \o Times(k, pool[k]) \in [1..(L + Cardinality(1..pool[k])) -> 0..k]
          /\ Rising(s \o Times(k, pool[k]))
          /\ Count(s \o Times(k, pool[k]), k) = Cardinality(1..pool[k])
          /\ SameCounts(s \o Times(k, pool[k]), s, 0..(k - 1))
      <3> HIDE DEF c, r
      <3> QED
        BY ONLY <1>1, <1>3, <1>4, <2>1, AppendThread, k \in Nat
    <2> QED
      BY <2>2 DEF SameCounts
  <1> HIDE DEF c, r
  <1>7. \A t \in 0..((k + 1) - 1) : Count(r, t) = Cardinality(1..pool[t])
    <2> TAKE t \in 0..((k + 1) - 1)
    <2>1. CASE t = k
      BY <1>6, <2>1 DEF c
    <2>2. CASE t # k
      <3>1. t \in 0..(k - 1)
        BY <2>2
      <3> QED
        BY <1>5, <1>6, <3>1
    <2> QED
      BY <2>1, <2>2
  <1>8. (k + 1) - 1 = k /\ DOMAIN r = 1..(L + c)
    BY <1>6
  <1>9. Sorted(r, pool, k + 1)
    BY <1>2, <1>6, <1>7, <1>8 DEF Sorted
  <1> QED
    BY <1>9 DEF r

(* interleaving_init builds it. *)
LEMMA InitIsSorted ==
    ASSUME NEW k \in Nat, NEW pool \in [0..(k - 1) -> Int]
    PROVE  Sorted(InterleavingInit(k, pool), pool, k)
  <1> DEFINE seqs == [i \in 1..k |-> Times(i - 1, pool[i - 1])]
  <1>1. InterleavingInit(k, pool) = FlattenSeq(seqs) /\ Len(seqs) = k
    BY DEF InterleavingInit
  <1>2. CASE k = 0
    <2>1. FlattenSeq(seqs) = seqs
      BY <1>1, <1>2 DEF FlattenSeq
    <2>2. seqs = <<>>
      BY <1>2
    <2> QED
      BY <1>1, <1>2, <2>1, <2>2, SortedEmpty
  <1>3. CASE k # 0
    <2>1. \A i \in 1..k : seqs[i] = Times(i - 1, pool[i - 1])
      OBVIOUS
    <2> HIDE DEF seqs
    <2>2. PICK f : /\ f = [i \in 1..k |-> IF i = 1 THEN seqs[i] ELSE f[i - 1] \o seqs[i]]
                   /\ FlattenSeq(seqs) = f[k]
      <3>1. k \in Nat \ {0}
        BY <1>3
      <3> QED
        BY <1>1, <3>1, FlattenSteps
    <2> DEFINE unsorted == {j \in 1..k : ~Sorted(f[j], pool, j)}
    <2>3. SUFFICES ASSUME unsorted # {} PROVE FALSE
      <3>1. k \in 1..k
        BY <1>3
      <3>2. k \notin unsorted
        BY <2>3
      <3>3. Sorted(f[k], pool, k)
        BY <3>1, <3>2
      <3>4. InterleavingInit(k, pool) = f[k]
        BY <1>1, <2>2
      <3> QED
        BY <3>3, <3>4
    <2>4. PICK m \in unsorted : \A j \in unsorted : m <= j
      <3>1. unsorted \in SUBSET Nat
        OBVIOUS
      <3> QED
        BY <2>3, <3>1, LeastNumber
    <2>5. m \in 1..k /\ m - 1 \in Nat /\ (m - 1) + 1 = m /\ \A t \in 0..(m - 1) : pool[t] \in Int
      OBVIOUS
    <2> DEFINE before == IF m = 1 THEN <<>> ELSE f[m - 1]
    <2>6. Sorted(before, pool, m - 1)
      <3>1. CASE m = 1
        BY <3>1, SortedEmpty
      <3>2. CASE m # 1
        <4>1. m - 1 \in 1..k /\ m - 1 \notin unsorted
          BY <2>4, <2>5, <3>2
        <4> QED
          BY <3>2, <4>1
      <3> QED
        BY <3>1, <3>2
    <2>7. f[m] = before \o seqs[m]
      <3>1. CASE m = 1
        <4>1. f[m] = seqs[m]
          BY <2>2, <2>5, <3>1
        <4>2. seqs[m] \in Seq(Int)
          <5>1. m - 1 \in Int /\ pool[m - 1] \in Int
            BY <2>5
          <5>2. Times(m - 1, pool[m - 1]) \in Seq(Int)
            BY <5>1, TimesFacts
          <5>3. seqs[m] = Times(m - 1, pool[m - 1])
            BY <2>1, <2>5
          <5> QED
            BY <5>2, <5>3
        <4> QED
          BY <3>1, <4>1, <4>2, ConcatEmptySeq
      <3>2. CASE m # 1
        BY <2>2, <2>5, <3>2
      <3> QED
        BY <3>1, <3>2
    <2> HIDE DEF before
    <2>8. seqs[m] = Times(m - 1, pool[m - 1])
      BY <2>1, <2>5
    <2>9. Sorted(f[m], pool, m)
      BY <2>5, <2>6, <2>7, <2>8, SortedOneMore
    <2> QED
      BY <2>4, <2>9
  <1> QED
    BY <1>2, <1>3

-----------------------------------------------------------------------------
(* The same, of the arrangements of a pool of KPs.                         *)

LEMMA InitIsArrangement ==
    ASSUME NEW k \in Nat, NEW pool \in [0..(k - 1) -> Int]
    PROVE  /\ Cardinality(KPs(pool)) \in Nat
           /\ InterleavingInit(k, pool) \in Arrangements(pool)
           /\ Rising(InterleavingInit(k, pool))
  <1>1. Sorted(InterleavingInit(k, pool), pool, k)
    BY InitIsSorted
  <1>2. DOMAIN pool = 0..(k - 1) /\ KPs(pool) = KPsBelow(pool, k)
    BY DEF KPs, KPsBelow
  <1>3. Cardinality(KPs(pool)) \in Nat
    BY <1>1, <1>2, FS_CardinalityType DEF Sorted
  <1> QED
    BY <1>1, <1>2, <1>3 DEF Sorted, Arrangements

LEMMA ArrangementType ==
    ASSUME NEW k \in Nat, NEW pool \in [0..(k - 1) -> Int], NEW s \in Arrangements(pool)
    PROVE  /\ s \in [1..Cardinality(KPs(pool)) -> 0..(k - 1)]
           /\ s \in [1..Cardinality(KPs(pool)) -> Int]
           /\ s \in Seq(Nat)
           /\ s \in Seq(0..(k - 1))
  <1>1. s \in [1..Cardinality(KPs(pool)) -> 0..(k - 1)]
    BY DEF Arrangements
  <1>2. Cardinality(KPs(pool)) \in Nat
    BY InitIsArrangement
  <1>3. s \in Seq(0..(k - 1))
    BY <1>1, <1>2
  <1>4. s \in [1..Cardinality(KPs(pool)) -> Nat]
    BY <1>1
  <1>5. s \in Seq(Nat)
    BY <1>2, <1>4
  <1> QED
    BY <1>1, <1>3, <1>4, <1>5

(* No thread outside the pool has KPs in an arrangement. *)
LEMMA NoOtherThread ==
    ASSUME NEW L, NEW T, NEW s \in [1..L -> T], NEW v, v \notin T
    PROVE  Count(s, v) = 0
  <1>1. {i \in DOMAIN s : s[i] = v} = {}
    OBVIOUS
  <1> QED
    BY <1>1, FS_EmptySet DEF Count

LEMMA ArrangementsAgree ==
    ASSUME NEW k \in Nat, NEW pool \in [0..(k - 1) -> Int],
           NEW s \in Arrangements(pool), NEW t \in Arrangements(pool)
    PROVE  SameCounts(s, t, Int)
  <1>1. /\ s \in [1..Cardinality(KPs(pool)) -> 0..(k - 1)]
        /\ t \in [1..Cardinality(KPs(pool)) -> 0..(k - 1)]
    BY ArrangementType
  <1>2. ASSUME NEW v \in Int PROVE Count(s, v) = Count(t, v)
    <2>1. CASE v \in 0..(k - 1)
      BY <2>1 DEF Arrangements
    <2>2. CASE v \notin 0..(k - 1)
      <3>1. Count(s, v) = 0
        BY <1>1, <2>2, NoOtherThread
      <3>2. Count(t, v) = 0
        BY <1>1, <2>2, NoOtherThread
      <3> QED
        BY <3>1, <3>2
    <2> QED
      BY <2>1, <2>2
  <1> QED
    BY <1>2 DEF SameCounts

LEMMA SameCountsArrange ==
    ASSUME NEW k \in Nat, NEW pool \in [0..(k - 1) -> Int], NEW s \in Arrangements(pool),
           NEW r \in [1..Cardinality(KPs(pool)) -> Int], SameCounts(r, s, Int)
    PROVE  r \in Arrangements(pool)
  <1> DEFINE L == Cardinality(KPs(pool))
  <1>1. s \in [1..L -> 0..(k - 1)] /\ L \in Nat
    BY ArrangementType, InitIsArrangement
  <1> HIDE DEF L
  <1>2. r \in [1..L -> Int]
    BY DEF L
  <1>3. ASSUME NEW i \in 1..L PROVE r[i] \in 0..(k - 1)
    <2> SUFFICES ASSUME r[i] \notin 0..(k - 1) PROVE FALSE
      OBVIOUS
    <2> DEFINE at == {j \in 1..L : r[j] = r[i]}
    <2>1. IsFiniteSet(at) /\ at # {}
      BY <1>1, FS_Interval, FS_Subset, 1 \in Int, L \in Int
    <2>2. Cardinality(at) # 0
      BY <2>1, FS_EmptySet
    <2>3. Count(r, r[i]) = Cardinality(at)
      BY <1>2 DEF Count
    <2>4. Count(s, r[i]) = 0
      BY <1>1, NoOtherThread
    <2>5. r[i] \in Int
      BY <1>2
    <2>6. Count(r, r[i]) = Count(s, r[i])
      BY <2>5 DEF SameCounts
    <2> QED
      BY <2>2, <2>3, <2>4, <2>6
  <1>4. r \in [1..L -> 0..(k - 1)]
    BY <1>2, <1>3
  <1>5. \A t \in 0..(k - 1) : Count(r, t) = Cardinality(1..pool[t])
    BY DEF SameCounts, Arrangements
  <1> QED
    BY <1>4, <1>5 DEF Arrangements, L

LEMMA RisingIsFirstOfAll ==
    ASSUME NEW L \in Nat, NEW s \in [1..L -> Int], NEW t \in [1..L -> Int],
           SameCounts(s, t, Int), Rising(s)
    PROVE  UpTo(s, t)
  <1>1. \A v \in Int : Count(s, v) = Count(t, v)
    BY DEF SameCounts
  <1>2. \A i, j \in (0 + 1)..L : i <= j => s[i] <= s[j]
    BY DEF Rising
  <1>3. \A i \in 1..0 : s[i] = t[i]
    OBVIOUS
  <1> QED
    BY <1>1, <1>2, <1>3, 0 \in Nat, RisingIsLeast

LEMMA RisingIsFirst ==
    ASSUME NEW k \in Nat, NEW pool \in [0..(k - 1) -> Int],
           NEW s \in Arrangements(pool), NEW t \in Arrangements(pool), Rising(s)
    PROVE  UpTo(s, t)
  <1> DEFINE L == Cardinality(KPs(pool))
  <1>1. s \in [1..L -> Int] /\ t \in [1..L -> Int] /\ L \in Nat
    BY ArrangementType, InitIsArrangement
  <1>2. SameCounts(s, t, Int)
    BY ArrangementsAgree
  <1> HIDE DEF L
  <1> QED
    BY <1>1, <1>2, RisingIsFirstOfAll

LEMMA NextArrangement ==
    ASSUME NEW k \in Nat, NEW pool \in [0..(k - 1) -> Int],
           NEW s \in Arrangements(pool), InterleavingNext(s) # None
    PROVE  /\ InterleavingNext(s) \in Arrangements(pool)
           /\ Before(s, InterleavingNext(s))
           /\ \A t \in Arrangements(pool) : Before(s, t) => UpTo(InterleavingNext(s), t)
  <1> DEFINE L == Cardinality(KPs(pool))
             r == InterleavingNext(s)
  <1>1. s \in [1..L -> Int] /\ L \in Nat
    BY ArrangementType, InitIsArrangement
  <1> HIDE DEF L
  <1>2. /\ r \in [1..L -> Int]
        /\ \A v \in Int : Count(r, v) = Count(s, v)
        /\ Before(s, r)
        /\ \A t \in [1..L -> Int] :
              (\A v \in Int : Count(s, v) = Count(t, v)) /\ Before(s, t) => UpTo(r, t)
    BY <1>1, NextIsSuccessor
  <1> HIDE DEF r
  <1>3. r \in Arrangements(pool)
    <2>1. SameCounts(r, s, Int)
      BY <1>2 DEF SameCounts
    <2> QED
      BY <1>2, <2>1, SameCountsArrange DEF L
  <1>4. ASSUME NEW t \in Arrangements(pool), Before(s, t) PROVE UpTo(r, t)
    <2>1. t \in [1..L -> Int]
      BY ArrangementType DEF L
    <2>2. \A v \in Int : Count(s, v) = Count(t, v)
      BY ArrangementsAgree DEF SameCounts
    <2> QED
      BY <1>2, <1>4, <2>1, <2>2
  <1> QED
    BY <1>2, <1>3, <1>4 DEF r

LEMMA LastArrangement ==
    ASSUME NEW k \in Nat, NEW pool \in [0..(k - 1) -> Int],
           NEW s \in Arrangements(pool), NEW t \in Arrangements(pool),
           InterleavingNext(s) = None
    PROVE  UpTo(t, s)
  <1> DEFINE L == Cardinality(KPs(pool))
  <1>1. s \in [1..L -> Int] /\ t \in [1..L -> Int] /\ L \in Nat
    BY ArrangementType, InitIsArrangement
  <1>2. \A v \in Int : Count(s, v) = Count(t, v)
    BY ArrangementsAgree DEF SameCounts
  <1> HIDE DEF L
  <1> QED
    BY <1>1, <1>2, NoneIsLast

(* Dictionary order is a strict total order on them. *)
LEMMA OrderOfArrangements ==
    ASSUME NEW k \in Nat, NEW pool \in [0..(k - 1) -> Int],
           NEW s \in Arrangements(pool), NEW t \in Arrangements(pool)
    PROVE  /\ UpTo(s, t) \/ Before(t, s)
           /\ Before(s, t) => ~UpTo(t, s)
           /\ \A r \in Arrangements(pool) : Before(r, s) /\ Before(s, t) => Before(r, t)
  <1> DEFINE L == Cardinality(KPs(pool))
  <1>1. /\ L \in Nat
        /\ \A r \in Arrangements(pool) : r \in [1..L -> Int]
    BY ArrangementType, InitIsArrangement
  <1> HIDE DEF L
  <1>2. s \in [1..L -> Int] /\ t \in [1..L -> Int]
    BY <1>1
  <1>3. UpTo(s, t) \/ Before(t, s)
    <2> SUFFICES ASSUME s # t PROVE Before(s, t) \/ Before(t, s)
      BY DEF UpTo
    <2>1. PICK i \in 1..L : s[i] # t[i] /\ \A j \in 1..(i - 1) : s[j] = t[j]
      BY <1>1, <1>2, FirstDifference
    <2>2. s[i] < t[i] \/ t[i] < s[i]
      BY <1>2, <2>1
    <2> QED
      BY <1>2, <2>1, <2>2 DEF Before
  <1>4. Before(s, t) => ~UpTo(t, s)
    BY <1>1, <1>2, BeforeIsStrict
  <1>5. ASSUME NEW r \in Arrangements(pool), Before(r, s), Before(s, t)
        PROVE  Before(r, t)
    <2>0. r \in [1..L -> Int]
      BY <1>1
    <2>1. PICK i \in 1..L : r[i] < s[i] /\ \A j \in 1..(i - 1) : r[j] = s[j]
      BY <1>5, <2>0 DEF Before
    <2>2. PICK l \in 1..L : s[l] < t[l] /\ \A j \in 1..(l - 1) : s[j] = t[j]
      BY <1>2, <1>5 DEF Before
    <2>3. CASE i <= l
      <3>1. r[i] < t[i]
        BY <1>2, <2>0, <2>1, <2>2, <2>3
      <3>2. \A j \in 1..(i - 1) : r[j] = t[j]
        BY <2>1, <2>2, <2>3
      <3> QED
        BY <2>0, <3>1, <3>2 DEF Before
    <2>4. CASE ~(i <= l)
      <3>1. r[l] < t[l]
        BY <1>2, <2>0, <2>1, <2>2, <2>4
      <3>2. \A j \in 1..(l - 1) : r[j] = t[j]
        BY <2>1, <2>2, <2>4
      <3> QED
        BY <2>0, <3>1, <3>2 DEF Before
    <2> QED
      BY <2>3, <2>4
  <1> QED
    BY <1>3, <1>4, <1>5

-----------------------------------------------------------------------------
(* The parent, cut where its last rise begins. *)

LEMMA PrefixAndRest ==
    ASSUME NEW p \in Seq(Nat)
    PROVE  /\ GetPrefix(p) \in Seq(Nat)
           /\ \A i, j \in (Len(GetPrefix(p)) + 1)..Len(p) : i <= j => p[i] <= p[j]
  <1> DEFINE L == Len(p)
             falls == {i \in 1..(L - 1) : p[i] > p[i + 1]}
             c == Max({0} \cup falls)
  <1>1. L \in Nat /\ p \in [1..L -> Nat] /\ p \in [1..L -> Int]
    OBVIOUS
  <1>2. c \in {0} \cup falls /\ \A x \in {0} \cup falls : x <= c
    <2>1. {0} \cup falls \in SUBSET (0..L) /\ {0} \cup falls # {}
      OBVIOUS
    <2> HIDE DEF falls, L
    <2> QED
      BY <1>1, <2>1, MaxOfSet
  <1>3. GetPrefix(p) = SubSeq(p, 1, c)
    BY DEF GetPrefix
  <1> HIDE DEF c, L
  <1>4. c \in 0..L
    BY <1>1, <1>2
  <1>5. GetPrefix(p) \in Seq(Nat) /\ Len(GetPrefix(p)) = c
    <2>1. \A i \in 1..c : p[i] \in Nat
      BY <1>1, <1>4
    <2>2. /\ SubSeq(p, 1, c) \in Seq(Nat)
          /\ Len(SubSeq(p, 1, c)) = IF 1 <= c THEN c - 1 + 1 ELSE 0
      BY <1>4, <2>1, SubSeqProperties, 1 \in Int, c \in Int
    <2> QED
      BY <1>3, <1>4, <2>2
  <1>6. \A i \in (c + 1)..(L - 1) : p[i] <= p[i + 1]
    <2> TAKE i \in (c + 1)..(L - 1)
    <2>1. i \in 1..(L - 1) /\ i > c /\ i + 1 \in 1..L /\ i \in 1..L
      BY <1>1, <1>4
    <2>2. i \notin falls
      <3> HIDE DEF falls
      <3> QED
        BY <1>2, <1>4, <2>1
    <2>3. ~(p[i] > p[i + 1])
      BY <2>1, <2>2
    <2> QED
      BY <1>1, <2>1, <2>3
  <1>7. \A i, j \in (c + 1)..L : i <= j => p[i] <= p[j]
    BY <1>1, <1>4, <1>6, RisesAltogether, c \in Nat
  <1> QED
    BY <1>5, <1>7 DEF L

(* If the parent is one of the interleavings to enumerate, its rest is the *)
(* first arrangement.                                                      *)
LEMMA ParentIsFirst ==
    ASSUME NEW k \in Nat, NEW pool \in [0..(k - 1) -> Int], NEW p \in Seq(Nat),
           NEW s \in Arrangements(pool), p = GetPrefix(p) \o s
    PROVE  s = InterleavingInit(k, pool)
  <1> DEFINE c == Len(GetPrefix(p))
             first == InterleavingInit(k, pool)
  <1>1. /\ GetPrefix(p) \in Seq(Nat)
        /\ \A i, j \in (c + 1)..Len(p) : i <= j => p[i] <= p[j]
    BY PrefixAndRest
  <1>2. s \in Seq(Nat) /\ Len(s) \in Nat /\ c \in Nat
    BY <1>1, ArrangementType
  <1>3. /\ Len(p) = c + Len(s)
        /\ \A i \in 1..(c + Len(s)) : p[i] = IF i <= c THEN GetPrefix(p)[i] ELSE s[i - c]
    BY <1>1, <1>2, ConcatProperties
  <1> HIDE DEF c
  <1>4. Rising(s)
    <2> SUFFICES ASSUME NEW i \in 1..Len(s), NEW j \in 1..Len(s), i <= j
                 PROVE  s[i] <= s[j]
      <3>1. DOMAIN s = 1..Len(s)
        BY <1>2
      <3> QED
        BY <3>1 DEF Rising
    <2>1. c + i \in (c + 1)..Len(p) /\ c + j \in (c + 1)..Len(p) /\ c + i <= c + j
      BY <1>2, <1>3
    <2>2. p[c + i] <= p[c + j]
      BY <1>1, <2>1
    <2>3. ASSUME NEW l \in 1..Len(s) PROVE p[c + l] = s[l]
      <3>1. c + l \in 1..(c + Len(s)) /\ ~(c + l <= c) /\ (c + l) - c = l
        BY <1>2
      <3> QED
        BY <1>3, <3>1
    <2> QED
      BY <2>2, <2>3
  <1>5. first \in Arrangements(pool) /\ Rising(first)
    BY InitIsArrangement
  <1> HIDE DEF first
  <1>6. UpTo(s, first) /\ UpTo(first, s)
    BY <1>4, <1>5, RisingIsFirst
  <1>7. Before(s, first) => ~UpTo(first, s)
    BY <1>5, OrderOfArrangements
  <1> QED
    BY <1>6, <1>7 DEF UpTo, first

-----------------------------------------------------------------------------
(* The inductive invariant: the suffix is an arrangement of the KPs that   *)
(* remain, and what was yielded are the arrangements up to it.             *)
Yielded == {prefix \o s : s \in {t \in Arrangements(M) : UpTo(t, suffix)}}
GeneratorInv ==
    /\ n \in Nat /\ M \in [0..(n - 1) -> Int]
    /\ parent \in Seq(Nat) /\ prefix = GetPrefix(parent)
    /\ pc \in {"init", "next", "ended"}
    /\ suffix \in Arrangements(M)
    /\ yields \in Nat
    /\ yields <= 1 => suffix = InterleavingInit(n, M)
    /\ pc = "init" => emitted = {} /\ yields = 0
    /\ pc # "init" => emitted = Yielded /\ yields > 0
    /\ pc = "ended" => emitted = All

LEMMA CountIsNumber ==
    ASSUME NEW s \in Seq(Nat), NEW t
    PROVE  Count(s, t) \in Nat
  <1>1. IsFiniteSet(1..Len(s)) /\ {i \in DOMAIN s : s[i] = t} \subseteq 1..Len(s)
    BY FS_Interval
  <1>2. IsFiniteSet({i \in DOMAIN s : s[i] = t})
    BY <1>1, FS_Subset
  <1> QED
    BY <1>2, FS_CardinalityType DEF Count

LEMMA GeneratorInit == Init => GeneratorInv
  <1> SUFFICES ASSUME Init PROVE GeneratorInv
    OBVIOUS
  <1>1. PICK input \in Inputs :
            /\ n = input.n
            /\ parent = input.parent
            /\ prefix = GetPrefix(parent)
            /\ M = [t \in 0..(n - 1) |-> input.M[t] - Count(prefix, t)]
            /\ suffix = InterleavingInit(n, M)
            /\ pc = "init"
            /\ emitted = {} /\ yields = 0
    BY DEF Init
  <1>2. n \in Nat /\ input.M \in [0..(n - 1) -> Nat] /\ parent \in Seq(Nat)
    BY <1>1, InputsAssumption
  <1>3. prefix \in Seq(Nat)
    BY <1>1, <1>2, PrefixAndRest
  <1>4. M \in [0..(n - 1) -> Int]
    <2>1. \A t \in 0..(n - 1) : input.M[t] - Count(prefix, t) \in Int
      BY <1>2, <1>3, CountIsNumber
    <2> QED
      BY <1>1, <2>1
  <1>5. suffix \in Arrangements(M)
    BY <1>1, <1>2, <1>4, InitIsArrangement
  <1> QED
    BY <1>1, <1>2, <1>4, <1>5 DEF GeneratorInv

(* The first yield, and the next ones. *)
LEMMA FirstYielded ==
    ASSUME GeneratorInv, First
    PROVE  /\ Yielded' = {prefix \o suffix}
           /\ prefix \o suffix \in All
           /\ GeneratorInv'
  <1>1. /\ pc = "init" /\ pc' = "next"
        /\ emitted' = emitted \cup {prefix \o suffix} /\ yields' = yields + 1
        /\ n' = n /\ M' = M /\ parent' = parent /\ prefix' = prefix /\ suffix' = suffix
    BY DEF First, Emit
  <1>2. emitted = {} /\ yields = 0 /\ suffix = InterleavingInit(n, M) /\ suffix \in Arrangements(M)
    BY <1>1 DEF GeneratorInv
  <1>3. n \in Nat /\ M \in [0..(n - 1) -> Int]
    BY DEF GeneratorInv
  <1>4. \A t \in Arrangements(M) : UpTo(t, suffix) <=> t = suffix
    <2> TAKE t \in Arrangements(M)
    <2>1. Rising(suffix)
      BY <1>2, <1>3, InitIsArrangement
    <2>2. UpTo(suffix, t)
      BY <1>2, <1>3, <2>1, RisingIsFirst
    <2>3. Before(t, suffix) => ~UpTo(suffix, t)
      BY <1>2, <1>3, OrderOfArrangements
    <2> QED
      BY <2>2, <2>3 DEF UpTo
  <1>5. Yielded' = Yielded
    BY <1>1 DEF Yielded
  <1>6. Yielded = {prefix \o suffix}
    BY <1>2, <1>4 DEF Yielded
  <1>7. prefix \o suffix \in All
    BY <1>2 DEF All
  <1>8. GeneratorInv'
    BY <1>1, <1>2, <1>5, <1>6 DEF GeneratorInv
  <1> QED
    BY <1>5, <1>6, <1>7, <1>8

LEMMA FollowingYielded ==
    ASSUME GeneratorInv, Following
    PROVE  /\ prefix \o suffix' \in All \ emitted
           /\ emitted' = emitted \cup {prefix \o suffix'}
           /\ GeneratorInv'
  <1> DEFINE r == InterleavingNext(suffix)
  <1>1. /\ pc = "next" /\ pc' = pc /\ r # None /\ suffix' = r
        /\ emitted' = emitted \cup {prefix \o r} /\ yields' = yields + 1
        /\ n' = n /\ M' = M /\ parent' = parent /\ prefix' = prefix
    BY DEF Following, Emit
  <1>2. /\ n \in Nat /\ M \in [0..(n - 1) -> Int] /\ suffix \in Arrangements(M)
        /\ parent \in Seq(Nat) /\ prefix = GetPrefix(parent)
        /\ emitted = Yielded /\ yields \in Nat /\ yields > 0
    BY <1>1 DEF GeneratorInv
  <1>3. /\ r \in Arrangements(M)
        /\ Before(suffix, r)
        /\ \A t \in Arrangements(M) : Before(suffix, t) => UpTo(r, t)
    BY <1>1, <1>2, NextArrangement
  <1> HIDE DEF r
  <1>4. \A t \in Arrangements(M) : UpTo(t, r) <=> UpTo(t, suffix) \/ t = r
    <2> TAKE t \in Arrangements(M)
    <2>1. UpTo(t, suffix) => UpTo(t, r)
      <3>1. Before(t, suffix) /\ Before(suffix, r) => Before(t, r)
        BY <1>2, <1>3, OrderOfArrangements
      <3> QED
        BY <1>3, <3>1 DEF UpTo
    <2>2. UpTo(t, r) /\ ~UpTo(t, suffix) => t = r
      <3>1. UpTo(t, suffix) \/ Before(suffix, t)
        BY <1>2, OrderOfArrangements
      <3>2. Before(suffix, t) => UpTo(r, t)
        BY <1>3
      <3>3. Before(t, r) => ~UpTo(r, t)
        BY <1>2, <1>3, OrderOfArrangements
      <3> QED
        BY <3>1, <3>2, <3>3 DEF UpTo
    <2> QED
      BY <2>1, <2>2 DEF UpTo
  <1>5. ~UpTo(r, suffix)
    BY <1>2, <1>3, OrderOfArrangements
  <1>6. prefix \o r \notin emitted
    <2> SUFFICES ASSUME NEW t \in Arrangements(M), UpTo(t, suffix), prefix \o r = prefix \o t
                 PROVE  FALSE
      BY <1>2 DEF Yielded
    <2>1. prefix \in Seq(Nat) /\ r \in Seq(Nat) /\ t \in Seq(Nat)
      BY <1>2, <1>3, PrefixAndRest, ArrangementType
    <2>2. r = t
      BY <2>1, ConcatSimplifications
    <2> QED
      BY <1>5, <2>2
  <1>7. prefix \o r \in All
    BY <1>3 DEF All
  <1>8. Yielded' = emitted'
    <2>1. Yielded' = {prefix \o s : s \in {t \in Arrangements(M) : UpTo(t, r)}}
      BY <1>1 DEF Yielded
    <2>2. {t \in Arrangements(M) : UpTo(t, r)}
             = {t \in Arrangements(M) : UpTo(t, suffix)} \cup {r}
      BY <1>3, <1>4
    <2> QED
      BY <1>1, <1>2, <2>1, <2>2 DEF Yielded
  <1>9. GeneratorInv'
    <2>1. yields' \in Nat /\ yields' > 1
      BY <1>1, <1>2
    <2>2. pc' = "next"
      BY <1>1
    <2> QED
      BY <1>1, <1>2, <1>3, <1>8, <2>1, <2>2 DEF GeneratorInv
  <1> QED
    BY <1>1, <1>6, <1>7, <1>9

LEMMA EndedYielded ==
    ASSUME GeneratorInv, Ended
    PROVE  emitted = All /\ GeneratorInv'
  <1>1. /\ pc = "next" /\ pc' = "ended" /\ InterleavingNext(suffix) = None
        /\ n' = n /\ M' = M /\ parent' = parent /\ prefix' = prefix /\ suffix' = suffix
        /\ emitted' = emitted /\ yields' = yields
    BY DEF Ended
  <1>2. /\ n \in Nat /\ M \in [0..(n - 1) -> Int] /\ suffix \in Arrangements(M)
        /\ emitted = Yielded
    BY <1>1 DEF GeneratorInv
  <1>3. \A t \in Arrangements(M) : UpTo(t, suffix)
    BY <1>1, <1>2, LastArrangement
  <1>4. emitted = All
    BY <1>2, <1>3 DEF Yielded, All
  <1>5. Yielded' = Yielded /\ All' = All
    BY <1>1 DEF Yielded, All
  <1>6. GeneratorInv'
    BY <1>1, <1>4, <1>5 DEF GeneratorInv
  <1> QED
    BY <1>4, <1>6

(* The invariant of the generator: what it has yielded are the             *)
(* interleavings up to the current one in dictionary order.                *)
THEOREM GeneratorInvariant == Spec => []GeneratorInv
<1>1. Init => GeneratorInv
  BY GeneratorInit
<1>2. GeneratorInv /\ [Next]_vars => GeneratorInv'
  <2> SUFFICES ASSUME GeneratorInv, [Next]_vars PROVE GeneratorInv'
    OBVIOUS
  <2>1. CASE First
    BY <2>1, FirstYielded
  <2>2. CASE Following
    BY <2>2, FollowingYielded
  <2>3. CASE Ended
    BY <2>3, EndedYielded
  <2>4. CASE UNCHANGED vars
    <3>1. /\ n' = n /\ M' = M /\ parent' = parent /\ prefix' = prefix /\ suffix' = suffix
          /\ pc' = pc /\ emitted' = emitted /\ yields' = yields
      BY <2>4 DEF vars
    <3>2. Yielded' = Yielded /\ All' = All
      BY <3>1 DEF Yielded, All
    <3> QED
      BY <3>1, <3>2 DEF GeneratorInv
  <2> QED
    BY <2>1, <2>2, <2>3, <2>4 DEF Next
<1> QED
  BY <1>1, <1>2, PTL DEF Spec

(* The suffix always has the KPs that the prefix leaves of each thread     *)
(* (interleaving_iter's M), no other thread's, and no more.                *)
THEOREM TypeCorrect == Spec => []TypeOK
<1>1. GeneratorInv => TypeOK
  <2> SUFFICES ASSUME GeneratorInv PROVE TypeOK
    OBVIOUS
  <2>1. /\ n \in Nat /\ M \in [0..(n - 1) -> Int] /\ suffix \in Arrangements(M)
        /\ parent \in Seq(Nat) /\ prefix = GetPrefix(parent)
        /\ pc \in {"init", "next", "ended"}
    BY DEF GeneratorInv
  <2>2. prefix \in Seq(Nat) /\ suffix \in Seq(0..(n - 1))
    BY <2>1, PrefixAndRest, ArrangementType
  <2>3. ASSUME NEW t \in 0..(n - 1) PROVE Count(suffix, t) = Max({0, M[t]})
    <3>1. Count(suffix, t) = Cardinality(1..M[t])
      BY <2>1 DEF Arrangements
    <3>2. M[t] \in Int
      BY <2>1
    <3>3. Cardinality(1..M[t]) = IF M[t] > 0 THEN M[t] ELSE 0
      BY <3>2, FS_Interval, 1 \in Int
    <3>4. \A x \in Int : Max({0, x}) = IF x > 0 THEN x ELSE 0
      <4> TAKE x \in Int
      <4>1. \E m \in {0, x} : \A y \in {0, x} : m >= y
        OBVIOUS
      <4>2. Max({0, x}) \in {0, x} /\ \A y \in {0, x} : Max({0, x}) >= y
        BY <4>1 DEF Max
      <4> QED
        BY <4>2
    <3> QED
      BY <3>1, <3>2, <3>3, <3>4
  <2> QED
    BY <2>1, <2>2, <2>3 DEF TypeOK
<1> QED
  BY <1>1, GeneratorInvariant, PTL

(* get_prefix and interleaving_init together resume at the parent, if it   *)
(* is one of the interleavings to enumerate.                               *)
THEOREM StartsAtParent == Spec => []ResumesAtParent
<1>1. GeneratorInv => ResumesAtParent
  <2> SUFFICES ASSUME GeneratorInv, yields = 1, parent \in All PROVE emitted = {parent}
    BY DEF ResumesAtParent
  <2>1. /\ n \in Nat /\ M \in [0..(n - 1) -> Int] /\ suffix \in Arrangements(M)
        /\ parent \in Seq(Nat) /\ prefix = GetPrefix(parent)
        /\ suffix = InterleavingInit(n, M) /\ emitted = Yielded
    BY DEF GeneratorInv
  <2>2. PICK s \in Arrangements(M) : parent = prefix \o s
    BY DEF All
  <2>3. s = suffix
    BY <2>1, <2>2, ParentIsFirst
  <2>4. \A t \in Arrangements(M) : UpTo(t, suffix) <=> t = suffix
    <3> TAKE t \in Arrangements(M)
    <3>1. UpTo(suffix, t)
      BY <2>1, InitIsArrangement, RisingIsFirst
    <3>2. Before(t, suffix) => ~UpTo(suffix, t)
      BY <2>1, OrderOfArrangements
    <3> QED
      BY <3>1, <3>2 DEF UpTo
  <2> QED
    BY <2>1, <2>2, <2>3, <2>4 DEF Yielded
<1> QED
  BY <1>1, GeneratorInvariant, PTL

(* interleaving_iter enumerates: it yields every interleaving that begins  *)
(* with the prefix and has each thread's KPs, none twice, and ends when    *)
(* there are no more.                                                      *)
THEOREM EachYieldedOnce == Spec => EnumeratesAll
<1>1. Init => Enumerator!Init
  BY DEF Init, Enumerator!Init
<1>2. GeneratorInv /\ [Next]_vars
        => [Enumerator!Yield \/ Enumerator!End]_(Enumerator!vars)
  <2> SUFFICES ASSUME GeneratorInv, [Next]_vars
               PROVE  Enumerator!Yield \/ Enumerator!End
                        \/ UNCHANGED <<All, emitted, yields, pc = "ended">>
    BY DEF Enumerator!vars
  <2>1. CASE First
    <3>1. /\ pc = "init" /\ pc' = "next" /\ M' = M /\ prefix' = prefix
          /\ emitted' = emitted \cup {prefix \o suffix} /\ yields' = yields + 1
      BY <2>1 DEF First, Emit
    <3>2. emitted = {} /\ prefix \o suffix \in All
      BY <2>1, <3>1, FirstYielded DEF GeneratorInv
    <3>3. All' = All
      BY <3>1 DEF All
    <3> QED
      BY <3>1, <3>2, <3>3 DEF Enumerator!Yield
  <2>2. CASE Following
    <3>1. pc = "next" /\ pc' = pc /\ M' = M /\ prefix' = prefix /\ yields' = yields + 1
      BY <2>2 DEF Following, Emit
    <3>2. prefix \o suffix' \in All \ emitted /\ emitted' = emitted \cup {prefix \o suffix'}
      BY <2>2, FollowingYielded
    <3>3. All' = All
      BY <3>1 DEF All
    <3> QED
      BY <3>1, <3>2, <3>3 DEF Enumerator!Yield
  <2>3. CASE Ended
    <3>1. pc' = "ended" /\ M' = M /\ prefix' = prefix /\ emitted' = emitted /\ yields' = yields
      BY <2>3 DEF Ended
    <3>2. emitted = All
      BY <2>3, EndedYielded
    <3>3. All' = All
      BY <3>1 DEF All
    <3> QED
      BY <3>1, <3>2, <3>3 DEF Enumerator!End
  <2>4. CASE UNCHANGED vars
    <3>1. pc' = pc /\ M' = M /\ prefix' = prefix /\ emitted' = emitted /\ yields' = yields
      BY <2>4 DEF vars
    <3> QED
      BY <3>1 DEF All
  <2> QED
    BY <2>1, <2>2, <2>3, <2>4 DEF Next
<1> QED
  BY <1>1, <1>2, GeneratorInvariant, PTL DEF Spec, EnumeratesAll, Enumerator!Spec

-----------------------------------------------------------------------------
(* What the yields computed for an interleaving amount to, for every       *)
(* interleaving: added up, they give the period of each key point, and no  *)
(* period has key points of two threads.                                   *)
(* How many KPs of t there are up to position i. *)
CountTo(inter, t, i) == Cardinality({j \in 1..i : inter[j] = t})

-----------------------------------------------------------------------------
(* Counting from one position to the next. *)

LEMMA CountOneMore ==
    ASSUME NEW S, IsFiniteSet(S), NEW i, i \notin S
    PROVE  Cardinality(S) \in Nat /\ Cardinality(S \cup {i}) = Cardinality(S) + 1
  BY FS_AddElement, FS_CardinalityType

LEMMA CountToSteps ==
    ASSUME NEW inter \in Seq(Nat), NEW t
    PROVE  /\ CountTo(inter, t, 0) = 0
           /\ \A i \in 0..Len(inter) : CountTo(inter, t, i) \in Nat
           /\ \A i \in 1..Len(inter) :
                 CountTo(inter, t, i) = CountTo(inter, t, i - 1) + (IF inter[i] = t THEN 1 ELSE 0)
           /\ CountTo(inter, t, Len(inter)) = Count(inter, t)
  <1> DEFINE at(i) == {j \in 1..i : inter[j] = t}
  <1>1. \A i \in Nat : IsFiniteSet(at(i))
    <2> TAKE i \in Nat
    <2>1. IsFiniteSet(1..i) /\ at(i) \subseteq 1..i
      BY FS_Interval, 1 \in Int, i \in Int
    <2> QED
      BY <2>1, FS_Subset
  <1>2. at(0) = {}
    OBVIOUS
  <1>3. \A i \in 0..Len(inter) : CountTo(inter, t, i) \in Nat
    BY <1>1, FS_CardinalityType DEF CountTo
  <1>4. ASSUME NEW i \in 1..Len(inter)
        PROVE  CountTo(inter, t, i) = CountTo(inter, t, i - 1) + (IF inter[i] = t THEN 1 ELSE 0)
    <2>1. i - 1 \in Nat /\ i \notin at(i - 1) /\ i - 1 \in 0..Len(inter)
      OBVIOUS
    <2>2. IsFiniteSet(at(i - 1))
      BY <1>1, <2>1
    <2>3. at(i) = IF inter[i] = t THEN at(i - 1) \cup {i} ELSE at(i - 1)
      <3>1. 1..i = 1..(i - 1) \cup {i}
        OBVIOUS
      <3> QED
        BY <3>1
    <2> HIDE DEF at
    <2>4. CASE inter[i] = t
      <3>1. Cardinality(at(i - 1) \cup {i}) = Cardinality(at(i - 1)) + 1
        BY <2>1, <2>2, CountOneMore
      <3> QED
        BY <2>3, <2>4, <3>1 DEF CountTo, at
    <2>5. CASE inter[i] # t
      <3>1. CountTo(inter, t, i) = CountTo(inter, t, i - 1)
        BY <2>3, <2>5 DEF CountTo, at
      <3> QED
        BY <1>3, <2>1, <2>5, <3>1
    <2> QED
      BY <2>4, <2>5
  <1>5. CountTo(inter, t, Len(inter)) = Count(inter, t)
    <2>1. DOMAIN inter = 1..Len(inter)
      OBVIOUS
    <2> QED
      BY <2>1 DEF CountTo, Count
  <1>6. CountTo(inter, t, 0) = 0
    BY <1>2, FS_EmptySet DEF CountTo
  <1> QED
    BY <1>3, <1>4, <1>5, <1>6

LEMMA BlockSteps ==
    ASSUME NEW inter \in Seq(Nat)
    PROVE  /\ inter # <<>> => Block(inter, 1) = 0
           /\ \A i \in 1..Len(inter) : Block(inter, i) \in Nat
           /\ \A i \in 2..Len(inter) :
                 Block(inter, i) = Block(inter, i - 1)
                                   + (IF inter[i] # inter[i - 1] THEN 1 ELSE 0)
  <1> DEFINE turns(i) == {j \in 2..i : inter[j] # inter[j - 1]}
  <1>1. \A i \in Nat : IsFiniteSet(turns(i))
    <2> TAKE i \in Nat
    <2>1. IsFiniteSet(2..i) /\ turns(i) \subseteq 2..i
      BY FS_Interval, 2 \in Int, i \in Int
    <2> QED
      BY <2>1, FS_Subset
  <1>2. turns(1) = {}
    OBVIOUS
  <1>3. \A i \in 1..Len(inter) : Block(inter, i) \in Nat
    BY <1>1, FS_CardinalityType DEF Block
  <1>4. ASSUME NEW i \in 2..Len(inter)
        PROVE  Block(inter, i) = Block(inter, i - 1) + (IF inter[i] # inter[i - 1] THEN 1 ELSE 0)
    <2>1. i - 1 \in Nat /\ i \notin turns(i - 1) /\ i - 1 \in 1..Len(inter)
      OBVIOUS
    <2>2. IsFiniteSet(turns(i - 1))
      BY <1>1, <2>1
    <2>3. turns(i) = IF inter[i] # inter[i - 1] THEN turns(i - 1) \cup {i} ELSE turns(i - 1)
      <3>1. 2..i = 2..(i - 1) \cup {i}
        OBVIOUS
      <3> QED
        BY <3>1
    <2> HIDE DEF turns
    <2>4. CASE inter[i] # inter[i - 1]
      <3>1. Cardinality(turns(i - 1) \cup {i}) = Cardinality(turns(i - 1)) + 1
        BY <2>1, <2>2, CountOneMore
      <3> QED
        BY <2>3, <2>4, <3>1 DEF Block, turns
    <2>5. CASE inter[i] = inter[i - 1]
      <3>1. Block(inter, i) = Block(inter, i - 1)
        BY <2>3, <2>5 DEF Block, turns
      <3> QED
        BY <1>3, <2>1, <2>5, <3>1
    <2> QED
      BY <2>4, <2>5
  <1>5. Block(inter, 1) = 0
    BY <1>2, FS_EmptySet DEF Block
  <1> QED
    BY <1>3, <1>4, <1>5

(* Later positions have no smaller counts, and no earlier periods. *)
LEMMA Later ==
    ASSUME NEW inter \in Seq(Nat), NEW i \in 1..Len(inter), NEW j \in 1..Len(inter), i <= j
    PROVE  Block(inter, i) <= Block(inter, j)
  <1> DEFINE L == Len(inter)
             b == [m \in 1..L |-> Block(inter, m)]
  <1>1. L \in Nat /\ b \in [1..L -> Int]
    BY BlockSteps
  <1>2. \A m \in (0 + 1)..(L - 1) : b[m] <= b[m + 1]
    <2> TAKE m \in (0 + 1)..(L - 1)
    <2>1. m + 1 \in 2..L /\ m \in 1..L /\ m + 1 \in 1..L /\ (m + 1) - 1 = m
      OBVIOUS
    <2>2. Block(inter, m) \in Nat
      BY <2>1, BlockSteps
    <2>3. \/ Block(inter, m + 1) = Block(inter, m) + 1
          \/ Block(inter, m + 1) = Block(inter, m) + 0
      <3>1. Block(inter, m + 1) = Block(inter, m) + (IF inter[m + 1] # inter[m] THEN 1 ELSE 0)
        BY <2>1, BlockSteps
      <3> QED
        BY <3>1
    <2> QED
      BY <2>1, <2>2, <2>3
  <1>3. i \in (0 + 1)..L /\ j \in (0 + 1)..L /\ b[i] = Block(inter, i) /\ b[j] = Block(inter, j)
    OBVIOUS
  <1> HIDE DEF b
  <1>4. \A x, y \in (0 + 1)..L : x <= y => b[x] <= b[y]
    BY <1>1, <1>2, RisesAltogether, 0 \in Nat
  <1> QED
    BY <1>3, <1>4

LEMMA CountToGrows ==
    ASSUME NEW inter \in Seq(Nat), NEW t,
           NEW i \in 1..Len(inter), NEW j \in 1..Len(inter), i < j, inter[j] = t
    PROVE  CountTo(inter, t, i) < CountTo(inter, t, j)
  <1> DEFINE A == {m \in 1..i : inter[m] = t}
             B == {m \in 1..j : inter[m] = t}
  <1>1. A \subseteq B /\ j \in B /\ j \notin A
    OBVIOUS
  <1>2. IsFiniteSet(1..j) /\ B \subseteq 1..j
    BY FS_Interval, 1 \in Int, j \in Int
  <1>3. IsFiniteSet(B)
    BY <1>2, FS_Subset
  <1>4. IsFiniteSet(A) /\ Cardinality(A) <= Cardinality(B) /\ Cardinality(A) # Cardinality(B)
    BY <1>1, <1>3, FS_Subset
  <1>5. Cardinality(A) \in Nat /\ Cardinality(B) \in Nat
    BY <1>3, <1>4, FS_CardinalityType
  <1> QED
    BY <1>4, <1>5 DEF CountTo

(* Two positions in one period are of one thread. *)
LEMMA OneThreadPerBlock ==
    ASSUME NEW inter \in Seq(Nat), NEW i \in 1..Len(inter), NEW j \in 1..Len(inter),
           i <= j, Block(inter, i) = Block(inter, j)
    PROVE  inter[i] = inter[j]
  <1> DEFINE other == {m \in i..j : inter[m] # inter[i]}
  <1>1. SUFFICES ASSUME other # {} PROVE FALSE
    <2>1. j \in i..j
      OBVIOUS
    <2> QED
      BY <2>1
  <1>2. PICK m \in other : \A l \in other : m <= l
    <2>1. other \in SUBSET Nat
      OBVIOUS
    <2> QED
      BY <1>1, <2>1, LeastNumber
  <1>3. m \in i..j /\ inter[m] # inter[i] /\ m # i
    OBVIOUS
  <1>4. m - 1 \in i..j /\ m \in 2..Len(inter) /\ m - 1 \in 1..Len(inter) /\ m \in 1..Len(inter)
    BY <1>3
  <1>5. inter[m - 1] = inter[i]
    <2>1. m - 1 \notin other
      <3>1. ~(m <= m - 1)
        BY <1>3
      <3> QED
        BY <1>2, <3>1
    <2> QED
      BY <1>4, <2>1
  <1>6. Block(inter, m) = Block(inter, m - 1) + 1
    <2>1. inter[m] # inter[m - 1]
      BY <1>3, <1>5
    <2> QED
      BY <1>4, <2>1, BlockSteps
  <1>7. Block(inter, i) <= Block(inter, m - 1) /\ Block(inter, m) <= Block(inter, j)
    BY <1>3, <1>4, Later
  <1>8. Block(inter, m - 1) \in Nat /\ Block(inter, i) \in Nat
    BY <1>4, BlockSteps
  <1> QED
    BY <1>6, <1>7, <1>8

(* Positions are in one period if and only if nothing else lies between. *)
LEMMA BlockIsStretch ==
    ASSUME NEW inter \in Seq(Nat), NEW i \in 1..Len(inter), NEW j \in 1..Len(inter), i <= j
    PROVE  Block(inter, i) = Block(inter, j) <=> \A x \in i..j : inter[x] = inter[i]
  <1>1. \A x \in i..j : x \in 1..Len(inter) /\ Block(inter, x) \in Nat
    BY BlockSteps
  <1>2. ASSUME Block(inter, i) = Block(inter, j), NEW x \in i..j
        PROVE  inter[x] = inter[i]
    <2>1. Block(inter, i) <= Block(inter, x) /\ Block(inter, x) <= Block(inter, j)
      BY <1>1, Later
    <2>2. Block(inter, i) = Block(inter, x) /\ i <= x
      BY <1>1, <1>2, <2>1
    <2> QED
      BY <1>1, <2>2, OneThreadPerBlock
  <1>3. ASSUME \A x \in i..j : inter[x] = inter[i]
        PROVE  Block(inter, i) = Block(inter, j)
    <2> DEFINE later == {m \in i..j : Block(inter, m) # Block(inter, i)}
    <2>1. SUFFICES ASSUME later # {} PROVE FALSE
      <3>1. j \in i..j
        OBVIOUS
      <3> QED
        BY <3>1
    <2>2. PICK m \in later : \A l \in later : m <= l
      <3>1. later \in SUBSET Nat
        OBVIOUS
      <3> QED
        BY <2>1, <3>1, LeastNumber
    <2>3. m \in i..j /\ m # i /\ Block(inter, m) # Block(inter, i)
      OBVIOUS
    <2>4. m - 1 \in i..j /\ m \in 2..Len(inter) /\ ~(m <= m - 1)
      BY <2>3
    <2>5. Block(inter, m - 1) = Block(inter, i)
      BY <2>2, <2>4
    <2>6. Block(inter, m) = Block(inter, m - 1) + 0
      <3>1. inter[m] = inter[i] /\ inter[m - 1] = inter[i]
        BY <1>3, <2>3, <2>4
      <3>2. Block(inter, m) = Block(inter, m - 1) + (IF inter[m] # inter[m - 1] THEN 1 ELSE 0)
        BY <2>4, BlockSteps
      <3> QED
        BY <3>1, <3>2
    <2> QED
      BY <1>1, <2>3, <2>4, <2>5, <2>6
  <1> QED
    BY <1>2, <1>3

-----------------------------------------------------------------------------
(* The positions of a thread. *)

LEMMA PositionsFacts ==
    ASSUME NEW inter \in Seq(Nat), NEW t
    PROVE  /\ DOMAIN Positions(inter, t) = 1..Count(inter, t)
           /\ Count(inter, t) \in Nat
           /\ \A k \in 1..Count(inter, t) :
                 /\ Positions(inter, t)[k] \in 1..Len(inter)
                 /\ inter[Positions(inter, t)[k]] = t
                 /\ CountTo(inter, t, Positions(inter, t)[k]) = k
  <1> DEFINE L == Len(inter)
             Is(i, k) == inter[i] = t /\ Count(SubSeq(inter, 1, i), t) = k
  <1>1. L \in Nat /\ DOMAIN inter = 1..L
    OBVIOUS
  <1>2. ASSUME NEW i \in 1..L
        PROVE  Count(SubSeq(inter, 1, i), t) = CountTo(inter, t, i)
    <2>1. \A j \in 1..i : inter[j] \in Nat
      OBVIOUS
    <2>2. /\ SubSeq(inter, 1, i) \in Seq(Nat)
          /\ Len(SubSeq(inter, 1, i)) = i
          /\ \A j \in 1..i : SubSeq(inter, 1, i)[j] = inter[j]
      <3>1. /\ SubSeq(inter, 1, i) \in Seq(Nat)
            /\ Len(SubSeq(inter, 1, i)) = IF 1 <= i THEN i - 1 + 1 ELSE 0
            /\ \A j \in 1..(i - 1 + 1) : SubSeq(inter, 1, i)[j] = inter[1 + j - 1]
        BY <2>1, SubSeqProperties, 1 \in Int, i \in Int
      <3> QED
        BY <3>1
    <2>3. {j \in DOMAIN SubSeq(inter, 1, i) : SubSeq(inter, 1, i)[j] = t}
             = {j \in 1..i : inter[j] = t}
      BY <2>2
    <2> QED
      BY <2>3 DEF Count, CountTo
  <1>3. Count(inter, t) \in Nat
    BY CountIsNumber
  <1>4. ASSUME NEW k \in 1..Count(inter, t)
        PROVE  \E i \in 1..L : Is(i, k)
    <2> DEFINE enough == {i \in 0..L : CountTo(inter, t, i) >= k}
    <2>1. L \in enough /\ enough \in SUBSET Nat
      BY <1>1, <1>3, CountToSteps
    <2>2. PICK i \in enough : \A l \in enough : i <= l
      BY <2>1, LeastNumber
    <2>3. i \in 1..L
      <3>1. CountTo(inter, t, 0) = 0
        BY CountToSteps
      <3>2. i # 0
        BY <1>3, <3>1
      <3> QED
        BY <3>2
    <2>4. i - 1 \in 0..L /\ i - 1 \notin enough
      BY <2>2, <2>3
    <2>5. CountTo(inter, t, i - 1) < k /\ CountTo(inter, t, i - 1) \in Nat
      BY <1>1, <1>3, <2>4, CountToSteps
    <2>6. CountTo(inter, t, i) = CountTo(inter, t, i - 1) + (IF inter[i] = t THEN 1 ELSE 0)
      BY <2>3, CountToSteps
    <2>7. inter[i] = t /\ CountTo(inter, t, i) = k
      BY <2>2, <2>5, <2>6
    <2> QED
      BY <1>2, <2>3, <2>7
  <1>5. ASSUME NEW k \in 1..Count(inter, t)
        PROVE  LET i == Positions(inter, t)[k]
               IN  i \in 1..L /\ Is(i, k)
    <2>1. Positions(inter, t)[k] = CHOOSE i \in 1..L : Is(i, k)
      BY <1>1 DEF Positions
    <2> HIDE DEF Is
    <2> QED
      BY <1>4, <2>1
  <1>6. DOMAIN Positions(inter, t) = 1..Count(inter, t)
    BY DEF Positions
  <1> QED
    BY <1>2, <1>3, <1>5, <1>6

LEMMA PositionOf ==
    ASSUME NEW inter \in Seq(Nat), NEW t, NEW i \in 1..Len(inter), inter[i] = t
    PROVE  /\ CountTo(inter, t, i) \in 1..Count(inter, t)
           /\ Positions(inter, t)[CountTo(inter, t, i)] = i
  <1> DEFINE k == CountTo(inter, t, i)
             p == Positions(inter, t)[k]
  <1>1. i - 1 \in 0..Len(inter) /\ i \in 0..Len(inter) /\ Len(inter) \in 1..Len(inter) /\ Len(inter) \in Nat
    OBVIOUS
  <1>2. k = CountTo(inter, t, i - 1) + 1 /\ CountTo(inter, t, i - 1) \in Nat
    BY <1>1, CountToSteps
  <1>3. k <= Count(inter, t)
    <2> DEFINE A == {m \in 1..i : inter[m] = t}
               B == {m \in 1..Len(inter) : inter[m] = t}
    <2>1. A \subseteq B
      OBVIOUS
    <2>2. IsFiniteSet(1..Len(inter)) /\ B \subseteq 1..Len(inter)
      BY FS_Interval, 1 \in Int, Len(inter) \in Int
    <2>3. Cardinality(A) <= Cardinality(B)
      BY <2>1, <2>2, FS_Subset
    <2>4. Cardinality(B) = Count(inter, t)
      <3>1. DOMAIN inter = 1..Len(inter)
        OBVIOUS
      <3> QED
        BY <3>1 DEF Count
    <2> QED
      BY <2>3, <2>4 DEF CountTo
  <1>4. Count(inter, t) \in Nat
    BY CountIsNumber
  <1>5. k \in 1..Count(inter, t)
    BY <1>2, <1>3, <1>4
  <1> HIDE DEF k
  <1>6. p \in 1..Len(inter) /\ inter[p] = t /\ CountTo(inter, t, p) = k
    BY <1>5, PositionsFacts
  <1> HIDE DEF p
  <1>7. ~(p < i)
    <2>1. SUFFICES ASSUME p < i PROVE FALSE
      OBVIOUS
    <2>2. CountTo(inter, t, p) < CountTo(inter, t, i)
      BY <1>6, <2>1, CountToGrows
    <2> QED
      BY <1>2, <1>6, <2>2 DEF k
  <1>8. ~(i < p)
    <2>1. SUFFICES ASSUME i < p PROVE FALSE
      OBVIOUS
    <2>2. CountTo(inter, t, i) < CountTo(inter, t, p)
      BY <1>6, <2>1, CountToGrows
    <2> QED
      BY <1>2, <1>6, <2>2 DEF k
  <1>9. p = i
    BY <1>6, <1>7, <1>8
  <1> QED
    BY <1>5, <1>9 DEF k, p

-----------------------------------------------------------------------------
(* The sum of the yields in front of a KP is its period. *)

LEMMA SumOfDifferences ==
    ASSUME NEW k \in Nat, NEW s, NEW b \in [1..k -> Nat],
           \A j \in 1..k : s[j] = b[j] - (IF j = 1 THEN 0 ELSE b[j - 1])
    PROVE  SumUpto(s, k) = IF k = 0 THEN 0 ELSE b[k]
  <1> DEFINE f == [j \in 0..k |-> IF j = 0 THEN 0 ELSE b[j]]
  <1>1. \A j \in 1..k : f[j] = f[j - 1] + s[j]
    <2> TAKE j \in 1..k
    <2>1. b[j] \in Nat
      OBVIOUS
    <2>2. CASE j = 1
      BY <2>1, <2>2
    <2>3. CASE j # 1
      <3>1. j - 1 \in 1..k /\ j - 1 \in 0..k
        BY <2>3
      <3>2. b[j - 1] \in Nat
        BY <3>1
      <3>3. f[j - 1] = b[j - 1] /\ f[j] = b[j]
        BY <3>1
      <3> QED
        BY <2>1, <2>3, <3>2, <3>3
    <2> QED
      BY <2>2, <2>3
  <1>2. f[0] = 0 /\ f[k] = IF k = 0 THEN 0 ELSE b[k]
    OBVIOUS
  <1> HIDE DEF f
  <1> QED
    BY <1>1, <1>2, SumIs

(* The periods of the KPs of a thread. *)
LEMMA DueFacts ==
    ASSUME NEW inter \in Seq(Nat), NEW t, NEW k \in 0..Count(inter, t), NEW s,
           \A j \in 1..k : s[j] = Block(inter, Positions(inter, t)[j])
                                  - (IF j = 1 THEN 0 ELSE Block(inter, Positions(inter, t)[j - 1]))
    PROVE  SumUpto(s, k) = IF k = 0 THEN 0 ELSE Block(inter, Positions(inter, t)[k])
  <1> DEFINE at == Positions(inter, t)
             b == [j \in 1..k |-> Block(inter, at[j])]
  <1>1. k \in Nat /\ \A j \in 1..k : j \in 1..Count(inter, t)
    BY PositionsFacts
  <1>2. b \in [1..k -> Nat]
    BY <1>1, PositionsFacts, BlockSteps
  <1>3. \A j \in 1..k : s[j] = b[j] - (IF j = 1 THEN 0 ELSE b[j - 1])
    <2> TAKE j \in 1..k
    <2>1. j # 1 => j - 1 \in 1..k
      BY <1>1
    <2> QED
      BY <2>1
  <1>4. k # 0 => b[k] = Block(inter, at[k])
    BY <1>1
  <1> HIDE DEF b
  <1>5. SumUpto(s, k) = IF k = 0 THEN 0 ELSE b[k]
    BY <1>1, <1>2, <1>3, SumOfDifferences
  <1> QED
    BY <1>4, <1>5

LEMMA SumOfYields ==
    ASSUME NEW inter \in Seq(Nat), NEW m \in Nat, NEW t \in 0..(m - 1),
           NEW k \in DOMAIN YieldPatternGen(m, inter)[t]
    PROVE  /\ k \in 1..Count(inter, t)
           /\ SumUpto(YieldPatternGen(m, inter)[t], k) = Block(inter, Positions(inter, t)[k])
  <1> DEFINE y == YieldPatternGen(m, inter)[t]
             at == Positions(inter, t)
  <1>1. y = [j \in DOMAIN at |-> Block(inter, at[j]) - (IF j = 1 THEN 0 ELSE Block(inter, at[j - 1]))]
    BY DEF YieldPatternGen
  <1>2. DOMAIN at = 1..Count(inter, t) /\ Count(inter, t) \in Nat
    BY PositionsFacts
  <1>3. k \in 1..Count(inter, t) /\ k \in 0..Count(inter, t)
    BY <1>1, <1>2
  <1> HIDE DEF y
  <1>4. \A j \in 1..k : y[j] = Block(inter, at[j]) - (IF j = 1 THEN 0 ELSE Block(inter, at[j - 1]))
    BY <1>1, <1>2, <1>3
  <1>5. SumUpto(y, k) = IF k = 0 THEN 0 ELSE Block(inter, at[k])
    BY <1>3, <1>4, DueFacts
  <1> QED
    BY <1>2, <1>3, <1>5 DEF y

LEMMA WholeInterleaving == GeneratorInv => prefix \o suffix \in Seq(Nat) /\ n \in Nat
  <1> SUFFICES ASSUME GeneratorInv PROVE prefix \o suffix \in Seq(Nat) /\ n \in Nat
    OBVIOUS
  <1>1. /\ n \in Nat /\ M \in [0..(n - 1) -> Int] /\ suffix \in Arrangements(M)
        /\ parent \in Seq(Nat) /\ prefix = GetPrefix(parent)
    BY DEF GeneratorInv
  <1>2. prefix \in Seq(Nat) /\ suffix \in Seq(Nat)
    BY <1>1, PrefixAndRest, ArrangementType
  <1> QED
    BY <1>1, <1>2

(* The yields that yield_pattern_gen computes for an interleaving, added   *)
(* up, cut it into its stretches of one thread: no period holds KPs of two *)
(* threads, and a thread's KPs with nothing between them share theirs.     *)
THEOREM YieldsSeparateThreads == Spec => []OneThreadPerPeriod
<1>1. GeneratorInv => OneThreadPerPeriod
  <2> DEFINE inter == prefix \o suffix
             y == YieldPatternGen(n, inter)
             Goal(t, k, u, l) ==
                 SumUpto(y[t], k) = SumUpto(y[u], l)
                   <=> \A x \in (Positions(inter, t)[k]..Positions(inter, u)[l])
                                \cup (Positions(inter, u)[l]..Positions(inter, t)[k]) : inter[x] = t
  <2> SUFFICES ASSUME GeneratorInv,
                      NEW t \in 0..(n - 1), NEW u \in 0..(n - 1),
                      NEW k \in DOMAIN y[t], NEW l \in DOMAIN y[u]
               PROVE  Goal(t, k, u, l)
    BY DEF OneThreadPerPeriod
  <2> DEFINE i == Positions(inter, t)[k]
             j == Positions(inter, u)[l]
  <2>1. inter \in Seq(Nat) /\ n \in Nat
    BY WholeInterleaving
  <2> HIDE DEF inter
  <2>2. /\ k \in 1..Count(inter, t) /\ SumUpto(y[t], k) = Block(inter, i)
        /\ l \in 1..Count(inter, u) /\ SumUpto(y[u], l) = Block(inter, j)
    BY <2>1, SumOfYields
  <2>3. /\ i \in 1..Len(inter) /\ inter[i] = t
        /\ j \in 1..Len(inter) /\ inter[j] = u
    BY <2>1, <2>2, PositionsFacts
  <2> DEFINE between == (i..j) \cup (j..i)
  <2>4. SUFFICES Block(inter, i) = Block(inter, j) <=> \A x \in between : inter[x] = t
    BY <2>2
  <2> HIDE DEF i, j, y
  <2>5. CASE i <= j
    <3>1. between = i..j
      BY <2>3, <2>5
    <3>2. Block(inter, i) = Block(inter, j) <=> \A x \in i..j : inter[x] = inter[i]
      BY <2>1, <2>3, <2>5, BlockIsStretch
    <3> QED
      BY <2>3, <3>1, <3>2
  <2>6. CASE j < i
    <3>1. between = j..i /\ i \in j..i /\ j \in j..i
      BY <2>3, <2>6
    <3>2. Block(inter, j) = Block(inter, i) <=> \A x \in j..i : inter[x] = inter[j]
      BY <2>1, <2>3, <2>6, BlockIsStretch
    <3> QED
      BY <2>3, <3>1, <3>2
  <2> QED
    BY <2>3, <2>5, <2>6
<1> QED
  BY <1>1, GeneratorInvariant, PTL

-----------------------------------------------------------------------------
(* Running the periods one after the other. *)

(* A period in which one thread runs, whatever its number. *)
LEMMA OneThreadRuns ==
    ASSUME NEW m \in Nat, NEW c \in 0..(m - 1), NEW k \in Nat, NEW w,
           \A t \in 0..(m - 1) : w[t] = IF t = c THEN k ELSE 0
    PROVE  FlattenSeq([i \in 1..m |-> Times(i - 1, w[i - 1])]) = Times(c, k)
  <1> DEFINE seqs == [i \in 1..m |-> Times(i - 1, w[i - 1])]
             f == [i \in 1..m |-> IF i - 1 < c THEN <<>> ELSE Times(c, k)]
  <1>1. m \in Nat \ {0} /\ Len(seqs) = m
    OBVIOUS
  <1>2. \A t \in Int : Times(t, 0) = <<>>
    BY DEF Times
  <1>3. Times(c, k) \in Seq(Int)
    BY TimesFacts
  <1>4. \A i \in 1..m : seqs[i] = IF i - 1 = c THEN Times(c, k) ELSE <<>>
    <2> TAKE i \in 1..m
    <2>1. i - 1 \in 0..(m - 1)
      OBVIOUS
    <2>2. seqs[i] = Times(i - 1, IF i - 1 = c THEN k ELSE 0)
      BY <2>1
    <2> QED
      BY <1>2, <2>2
  <1> HIDE DEF seqs
  <1>5. f[1] = seqs[1]
    <2>1. 1 \in 1..m
      BY <1>1
    <2>2. f[1] = IF 0 < c THEN <<>> ELSE Times(c, k)
      BY <2>1
    <2>3. seqs[1] = IF 0 = c THEN Times(c, k) ELSE <<>>
      BY <1>4, <2>1
    <2> QED
      BY <2>2, <2>3
  <1>6. \A i \in 2..m : f[i] = f[i - 1] \o seqs[i]
    <2> TAKE i \in 2..m
    <2>1. i \in 1..m /\ i - 1 \in 1..m
      OBVIOUS
    <2>2. f[i] = IF i - 1 < c THEN <<>> ELSE Times(c, k)
      BY <2>1
    <2>3. f[i - 1] = IF i - 2 < c THEN <<>> ELSE Times(c, k)
      BY <2>1
    <2>4. seqs[i] = IF i - 1 = c THEN Times(c, k) ELSE <<>>
      BY <1>4, <2>1
    <2>5. <<>> \o <<>> = <<>> /\ <<>> \o Times(c, k) = Times(c, k) /\ Times(c, k) \o <<>> = Times(c, k)
      BY <1>3
    <2> HIDE DEF f
    <2>6. CASE i - 1 < c
      <3>1. f[i] = <<>> /\ f[i - 1] = <<>> /\ seqs[i] = <<>>
        BY <2>2, <2>3, <2>4, <2>6
      <3> QED
        BY <2>5, <3>1
    <2>7. CASE i - 1 = c
      <3>1. f[i] = Times(c, k) /\ f[i - 1] = <<>> /\ seqs[i] = Times(c, k)
        BY <2>2, <2>3, <2>4, <2>7
      <3> QED
        BY <2>5, <3>1
    <2>8. CASE i - 1 > c
      <3>1. f[i] = Times(c, k) /\ f[i - 1] = Times(c, k) /\ seqs[i] = <<>>
        BY <2>2, <2>3, <2>4, <2>8
      <3> QED
        BY <2>5, <3>1
    <2>9. i - 1 < c \/ i - 1 = c \/ i - 1 > c
      OBVIOUS
    <2> QED
      BY <2>6, <2>7, <2>8, <2>9
  <1>7. f[m] = Times(c, k)
    OBVIOUS
  <1> HIDE DEF f
  <1>8. FlattenSeq(seqs) = f[m]
    BY <1>1, <1>5, <1>6, FlattenIs
  <1> QED
    BY <1>7, <1>8 DEF seqs

(* The KPs of the periods up to r. *)
UptoPeriod(inter, r) == Max({0} \cup {i \in 1..Len(inter) : Block(inter, i) <= r})
Opening(inter, k) == [i \in 1..k |-> inter[i]]

LEMMA UptoPeriodFacts ==
    ASSUME NEW inter \in Seq(Nat), NEW r \in Int
    PROVE  /\ UptoPeriod(inter, r) \in 0..Len(inter)
           /\ \A i \in 1..Len(inter) : i <= UptoPeriod(inter, r) <=> Block(inter, i) <= r
  <1> DEFINE L == Len(inter)
             S == {0} \cup {i \in 1..L : Block(inter, i) <= r}
             e == Max(S)
  <1>1. L \in Nat /\ S \in SUBSET (0..L) /\ S # {}
    OBVIOUS
  <1>2. e \in S /\ \A x \in S : x <= e
    BY <1>1, MaxOfSet
  <1>3. e = UptoPeriod(inter, r)
    BY DEF UptoPeriod
  <1> HIDE DEF e
  <1>4. e \in 0..L
    BY <1>1, <1>2
  <1>5. ASSUME NEW i \in 1..L, i <= e PROVE Block(inter, i) <= r
    <2>1. e \in 1..L /\ Block(inter, e) <= r
      BY <1>2, <1>5
    <2>2. Block(inter, i) <= Block(inter, e)
      BY <1>5, <2>1, Later
    <2>3. Block(inter, i) \in Nat /\ Block(inter, e) \in Nat
      BY <2>1, BlockSteps
    <2> QED
      BY <2>1, <2>2, <2>3
  <1>6. ASSUME NEW i \in 1..L, Block(inter, i) <= r PROVE i <= e
    BY <1>2, <1>6
  <1> QED
    BY <1>3, <1>4, <1>5, <1>6

LEMMA OpeningGrows ==
    ASSUME NEW inter \in Seq(Nat), NEW a \in 0..Len(inter), NEW b \in a..Len(inter), NEW c \in Nat,
           \A i \in (a + 1)..b : inter[i] = c
    PROVE  Opening(inter, a) \o Times(c, b - a) = Opening(inter, b)
  <1> DEFINE x == Opening(inter, a)
             y == Times(c, b - a)
             z == Opening(inter, b)
             whole == x \o y
  <1>1. a \in Nat /\ b \in Nat /\ a <= b
    OBVIOUS
  <1>2. x \in Seq(Nat) /\ Len(x) = a /\ \A i \in 1..a : x[i] = inter[i]
    BY <1>1 DEF Opening
  <1>3. y \in Seq(Nat) /\ Len(y) = b - a /\ \A i \in 1..(b - a) : y[i] = c
    BY <1>1 DEF Times
  <1>4. z \in Seq(Nat) /\ Len(z) = b /\ \A i \in 1..b : z[i] = inter[i]
    BY <1>1 DEF Opening
  <1> HIDE DEF x, y, z
  <1>5. /\ whole \in Seq(Nat) /\ Len(whole) = a + (b - a)
        /\ \A i \in 1..(a + (b - a)) : whole[i] = IF i <= a THEN x[i] ELSE y[i - a]
    <2>1. x \in Seq(Nat) /\ y \in Seq(Nat) /\ Len(x) = a /\ Len(y) = b - a
      BY <1>2, <1>3
    <2>2. /\ x \o y \in Seq(Nat) /\ Len(x \o y) = Len(x) + Len(y)
          /\ \A i \in 1..(Len(x) + Len(y)) :
                (x \o y)[i] = IF i <= Len(x) THEN x[i] ELSE y[i - Len(x)]
      BY ONLY <2>1, ConcatProperties
    <2> QED
      BY <2>1, <2>2
  <1> HIDE DEF whole
  <1>6. a + (b - a) = b
    BY <1>1
  <1>7. ASSUME NEW i \in 1..b PROVE whole[i] = z[i]
    <2>1. i \in Nat /\ (i <= a \/ i > a)
      BY <1>1
    <2>2. whole[i] = (IF i <= a THEN x[i] ELSE y[i - a]) /\ z[i] = inter[i]
      BY <1>4, <1>5, <1>6
    <2>3. CASE i <= a
      BY <1>1, <1>2, <2>1, <2>2, <2>3
    <2>4. CASE i > a
      <3>1. i \in (a + 1)..b /\ i - a \in 1..(b - a) /\ ~(i <= a)
        BY <1>1, <2>4
      <3> QED
        BY <1>3, <2>2, <3>1
    <2> QED
      BY <2>1, <2>3, <2>4
  <1>8. whole = z
    BY <1>4, <1>5, <1>6, <1>7
  <1> QED
    BY <1>8 DEF whole, x, y, z

(* The period that the yields lead the k-th KP of t to. *)
DueAt(inter, t, k) == IF k = 0 THEN 0 ELSE Block(inter, Positions(inter, t)[k])
LedTo(inter, t, r) == {k \in 1..Count(inter, t) : DueAt(inter, t, k) = r}
InPeriod(inter, t, r) == {i \in 1..Len(inter) : inter[i] = t /\ Block(inter, i) = r}

LEMMA LastPeriod ==
    ASSUME NEW m \in Nat, NEW inter \in Seq(0..(m - 1)), inter # <<>>
    PROVE  Max({DueAt(inter, t, Count(inter, t)) : t \in 0..(m - 1)}) = Block(inter, Len(inter))
  <1> DEFINE L == Len(inter)
             last == Block(inter, L)
             D == {DueAt(inter, t, Count(inter, t)) : t \in 0..(m - 1)}
  <1>1. inter \in Seq(Nat) /\ L \in 1..L /\ L \in Nat /\ inter[L] \in 0..(m - 1)
    OBVIOUS
  <1>2. last \in Nat
    BY <1>1, BlockSteps
  <1>3. ASSUME NEW t \in 0..(m - 1) PROVE DueAt(inter, t, Count(inter, t)) \in 0..last
    <2> DEFINE k == Count(inter, t)
    <2>1. k \in Nat
      BY <1>1, CountIsNumber
    <2>2. CASE k = 0
      BY <1>2, <2>2 DEF DueAt
    <2>3. CASE k # 0
      <3> DEFINE i == Positions(inter, t)[k]
      <3>1. k \in 1..k
        BY <2>1, <2>3
      <3>2. i \in 1..L /\ i <= L
        BY <1>1, <3>1, PositionsFacts
      <3>3. Block(inter, i) \in Nat /\ Block(inter, i) <= last
        BY <1>1, <3>2, BlockSteps, Later
      <3> QED
        BY <1>2, <2>3, <3>3 DEF DueAt
    <2> QED
      BY <2>2, <2>3
  <1>4. last \in D
    <2> DEFINE t == inter[L]
               k == Count(inter, t)
    <2>1. CountTo(inter, t, L) = k
      BY <1>1, CountToSteps
    <2>2. k \in 1..k /\ Positions(inter, t)[k] = L
      BY <1>1, <2>1, PositionOf
    <2>3. k \in Nat
      BY <1>1, CountIsNumber
    <2>4. DueAt(inter, t, k) = last
      BY <2>2, <2>3 DEF DueAt
    <2> QED
      BY <1>1, <2>4
  <1>5. D \in SUBSET (0..last) /\ D # {}
    BY <1>3, <1>4
  <1> HIDE DEF D, last
  <1>6. Max(D) \in D /\ \A x \in D : x <= Max(D)
    BY <1>2, <1>5, MaxOfSet
  <1>7. Max(D) \in 0..last /\ last <= Max(D)
    BY <1>4, <1>5, <1>6
  <1>8. Max(D) = last
    BY <1>2, <1>7
  <1> QED
    BY <1>8 DEF D, last

LEMMA RunsOfThread ==
    ASSUME NEW inter \in Seq(Nat), NEW t, NEW r
    PROVE  Cardinality(LedTo(inter, t, r)) = Cardinality(InPeriod(inter, t, r))
  <1> DEFINE at == Positions(inter, t)
             K == {k \in 1..Count(inter, t) : DueAt(inter, t, k) = r}
             I == {i \in 1..Len(inter) : inter[i] = t /\ Block(inter, i) = r}
             f == [k \in K |-> at[k]]
  <1>1. \A k \in 1..Count(inter, t) :
           /\ at[k] \in 1..Len(inter) /\ inter[at[k]] = t /\ CountTo(inter, t, at[k]) = k
           /\ DueAt(inter, t, k) = Block(inter, at[k])
    <2> TAKE k \in 1..Count(inter, t)
    <2>1. k # 0 /\ Count(inter, t) \in Nat
      BY PositionsFacts
    <2> QED
      BY <2>1, PositionsFacts DEF DueAt
  <1>2. \A i \in I : CountTo(inter, t, i) \in 1..Count(inter, t) /\ at[CountTo(inter, t, i)] = i
    BY PositionOf
  <1>3. IsFiniteSet(K)
    <2>1. IsFiniteSet(1..Count(inter, t)) /\ K \subseteq 1..Count(inter, t)
      BY PositionsFacts, FS_Interval, 1 \in Int
    <2> QED
      BY <2>1, FS_Subset
  <1> HIDE DEF at
  <1>4. f \in [K -> I]
    BY <1>1
  <1>5. \A k, l \in K : f[k] = f[l] => k = l
    <2> TAKE k \in K, l \in K
    <2> HAVE f[k] = f[l]
    <2>1. at[k] = at[l] /\ k \in 1..Count(inter, t) /\ l \in 1..Count(inter, t)
      OBVIOUS
    <2> QED
      BY <1>1, <2>1
  <1>6. \A i \in I : \E k \in K : f[k] = i
    <2> TAKE i \in I
    <2>1. CountTo(inter, t, i) \in K
      BY <1>1, <1>2
    <2> QED
      BY <1>2, <2>1
  <1> HIDE DEF K, I, f
  <1>7. f \in Bijection(K, I)
    BY <1>4, <1>5, <1>6 DEF Bijection, Injection, Surjection, IsInjective
  <1>8. ExistsBijection(K, I)
    BY <1>7 DEF ExistsBijection
  <1>9. Cardinality(I) = Cardinality(K)
    BY <1>3, <1>8, FS_Bijection
  <1> QED
    BY <1>9 DEF K, I, LedTo, InPeriod

LEMMA RunsOfPeriod ==
    ASSUME NEW m \in Nat, NEW inter \in Seq(0..(m - 1)), inter # <<>>, NEW r \in Nat
    PROVE  LET a == UptoPeriod(inter, r - 1)
               b == UptoPeriod(inter, r)
           IN  /\ b \in a..Len(inter)
               /\ \E c \in 0..(m - 1) :
                     /\ \A i \in (a + 1)..b : inter[i] = c
                     /\ \A t \in 0..(m - 1) :
                           Cardinality(InPeriod(inter, t, r)) = IF t = c THEN b - a ELSE 0
  <1> DEFINE a == UptoPeriod(inter, r - 1)
             b == UptoPeriod(inter, r)
             L == Len(inter)
             c == IF a < b THEN inter[b] ELSE inter[1]
             Of(t) == InPeriod(inter, t, r)
  <1>1. inter \in Seq(Nat) /\ L \in Nat /\ L # 0 /\ \A i \in 1..L : inter[i] \in 0..(m - 1)
    OBVIOUS
  <1>2. /\ a \in 0..L /\ \A i \in 1..L : i <= a <=> Block(inter, i) <= r - 1
        /\ b \in 0..L /\ \A i \in 1..L : i <= b <=> Block(inter, i) <= r
    <2>1. a \in 0..L /\ \A i \in 1..L : i <= a <=> Block(inter, i) <= r - 1
      BY <1>1, r - 1 \in Int, UptoPeriodFacts
    <2>2. b \in 0..L /\ \A i \in 1..L : i <= b <=> Block(inter, i) <= r
      BY <1>1, r \in Int, UptoPeriodFacts
    <2> QED
      BY <2>1, <2>2
  <1> HIDE DEF a, b
  <1>3. \A i \in 1..L : Block(inter, i) \in Nat
    BY <1>1, BlockSteps
  <1>4. a <= b
    <2> SUFFICES ASSUME a # 0 PROVE a <= b
      BY <1>2
    <2>1. a \in 1..L /\ Block(inter, a) <= r - 1
      BY <1>2
    <2> QED
      BY <1>2, <1>3, <2>1
  <1>5. \A i \in 1..L : Block(inter, i) = r <=> i \in (a + 1)..b
    <2> TAKE i \in 1..L
    <2>1. Block(inter, i) \in Nat
      BY <1>3
    <2>2. Block(inter, i) = r <=> Block(inter, i) <= r /\ ~(Block(inter, i) <= r - 1)
      BY <2>1
    <2>3. i \in (a + 1)..b <=> i <= b /\ ~(i <= a)
      BY <1>2
    <2> QED
      BY <1>2, <2>2, <2>3
  <1>6. c \in 0..(m - 1)
    BY <1>1, <1>2
  <1>7. ASSUME NEW i \in (a + 1)..b PROVE inter[i] = c
    <2>1. a < b /\ i \in 1..L /\ b \in 1..L /\ b \in (a + 1)..b /\ i <= b
      BY <1>2
    <2>2. Block(inter, i) = Block(inter, b)
      BY <1>5, <2>1
    <2>3. inter[i] = inter[b]
      BY <1>1, <2>1, <2>2, OneThreadPerBlock
    <2> QED
      BY <2>1, <2>3
  <1> HIDE DEF c
  <1>8. ASSUME NEW t \in 0..(m - 1) PROVE Cardinality(Of(t)) = IF t = c THEN b - a ELSE 0
    <2>1. Of(t) = IF t = c THEN (a + 1)..b ELSE {}
      <3>1. (a + 1)..b \subseteq 1..L
        BY <1>2
      <3> QED
        BY <1>5, <1>7, <3>1 DEF InPeriod
    <2>2. Cardinality((a + 1)..b) = b - a
      <3>1. a + 1 \in Int /\ b \in Int
        BY <1>2
      <3>2. Cardinality((a + 1)..b) = IF a + 1 > b THEN 0 ELSE b - (a + 1) + 1
        BY <3>1, FS_Interval
      <3> QED
        BY <1>2, <1>4, <3>2
    <2>3. Cardinality({}) = 0
      BY FS_EmptySet
    <2> HIDE DEF Of
    <2> QED
      BY <2>1, <2>2, <2>3
  <1>9. b \in a..L
    BY <1>2, <1>4
  <1> QED
    BY <1>6, <1>7, <1>8, <1>9 DEF a, b

(* yield_pattern_gen and yp_to_inter are inverse to each other. *)
LEMMA YieldsLeadBack ==
    ASSUME NEW m \in Nat, NEW inter \in Seq(0..(m - 1)), inter # <<>>
    PROVE  YpToInter([t \in 0..(m - 1) |-> Count(inter, t)], YieldPatternGen(m, inter)) = inter
  <1> DEFINE kps == [t \in 0..(m - 1) |-> Count(inter, t)]
             YP == YieldPatternGen(m, inter)
             Yields(t, k) == IF k \in DOMAIN YP[t] THEN YP[t][k] ELSE 0
             Due(t, k) == SumUpto([l \in 1..k |-> Yields(t, l)], k)
             Runs(t, r) == Times(t, Cardinality({k \in 1..kps[t] : Due(t, k) = r}))
             last == Max({Due(t, kps[t]) : t \in DOMAIN kps})
             period(r) == FlattenSeq([i \in 1..Cardinality(DOMAIN kps) |-> Runs(i - 1, r - 1)])
             periods == [r \in 1..(last + 1) |-> period(r)]
             L == Len(inter)
             upto(r) == UptoPeriod(inter, r)
  <1>1. YpToInter(kps, YP) = FlattenSeq(periods)
    BY DEF YpToInter
  <1>2. inter \in Seq(Nat) /\ L \in 1..L /\ L \in Nat
    OBVIOUS
  <1>3. \A t \in 0..(m - 1) : kps[t] = Count(inter, t) /\ Count(inter, t) \in Nat
    BY <1>2, CountIsNumber
  <1>4. ASSUME NEW t \in 0..(m - 1), NEW k \in 0..Count(inter, t)
        PROVE  Due(t, k) = DueAt(inter, t, k)
    <2> DEFINE at == Positions(inter, t)
               s == [l \in 1..k |-> Yields(t, l)]
    <2>1. DOMAIN at = 1..Count(inter, t)
      BY <1>2, PositionsFacts
    <2>2. YP[t] = [j \in DOMAIN at |-> Block(inter, at[j])
                                      - (IF j = 1 THEN 0 ELSE Block(inter, at[j - 1]))]
      BY DEF YieldPatternGen
    <2> HIDE DEF YP
    <2>3. \A j \in 1..k : s[j] = Block(inter, at[j])
                                 - (IF j = 1 THEN 0 ELSE Block(inter, at[j - 1]))
      BY <1>3, <2>1, <2>2
    <2> HIDE DEF s
    <2>4. SumUpto(s, k) = IF k = 0 THEN 0 ELSE Block(inter, at[k])
      BY <1>2, <2>3, DueFacts
    <2> QED
      BY <2>4 DEF s, DueAt
  <1>5. DOMAIN kps = 0..(m - 1) /\ Cardinality(DOMAIN kps) = m
    <2>1. 0 \in Int /\ m - 1 \in Int
      OBVIOUS
    <2>2. Cardinality(0..(m - 1)) = IF 0 > m - 1 THEN 0 ELSE (m - 1) - 0 + 1
      BY <2>1, FS_Interval
    <2> QED
      BY <2>2
  <1> HIDE DEF Due
  <1>6. last = Block(inter, L) /\ last \in Nat
    <2>1. \A t \in DOMAIN kps : Due(t, kps[t]) = DueAt(inter, t, Count(inter, t))
      BY <1>3, <1>4, <1>5
    <2>2. {Due(t, kps[t]) : t \in DOMAIN kps}
             = {DueAt(inter, t, Count(inter, t)) : t \in 0..(m - 1)}
      BY <1>5, <2>1
    <2>3. Max({DueAt(inter, t, Count(inter, t)) : t \in 0..(m - 1)}) = Block(inter, L)
      BY LastPeriod
    <2> QED
      BY <1>2, <2>2, <2>3, BlockSteps
  <1>7. ASSUME NEW r \in Nat
        PROVE  /\ upto(r) \in upto(r - 1)..L
               /\ Opening(inter, upto(r - 1)) \o period(r + 1) = Opening(inter, upto(r))
               /\ period(r + 1) \in Seq(Int)
    <2> DEFINE a == upto(r - 1)
               b == upto(r)
               w == [t \in 0..(m - 1) |-> Cardinality({k \in 1..kps[t] : Due(t, k) = r})]
    <2>1. b \in a..L
      BY RunsOfPeriod
    <2>2. PICK c \in 0..(m - 1) :
             /\ \A i \in (a + 1)..b : inter[i] = c
             /\ \A t \in 0..(m - 1) :
                   Cardinality(InPeriod(inter, t, r)) = IF t = c THEN b - a ELSE 0
      BY RunsOfPeriod
    <2>3. a \in 0..L
      BY <1>2, r - 1 \in Int, UptoPeriodFacts
    <2>4. \A t \in 0..(m - 1) : w[t] = IF t = c THEN b - a ELSE 0
      <3> TAKE t \in 0..(m - 1)
      <3>1. {k \in 1..kps[t] : Due(t, k) = r} = LedTo(inter, t, r)
        BY <1>3, <1>4 DEF LedTo
      <3>2. Cardinality(LedTo(inter, t, r)) = Cardinality(InPeriod(inter, t, r))
        BY <1>2, RunsOfThread
      <3> QED
        BY <2>2, <3>1, <3>2
    <2>5. period(r + 1) = FlattenSeq([i \in 1..m |-> Times(i - 1, w[i - 1])])
      <3>1. \A i \in 1..m : Runs(i - 1, (r + 1) - 1) = Times(i - 1, w[i - 1])
        <4> TAKE i \in 1..m
        <4>1. i - 1 \in 0..(m - 1) /\ (r + 1) - 1 = r
          OBVIOUS
        <4> QED
          BY <4>1
      <3> HIDE DEF Runs, w
      <3> QED
        BY <1>5, <3>1
    <2> HIDE DEF a, b, w, period
    <2>6. b - a \in Nat
      BY <2>1, <2>3
    <2>7. period(r + 1) = Times(c, b - a)
      <3>1. FlattenSeq([i \in 1..m |-> Times(i - 1, w[i - 1])]) = Times(c, b - a)
        BY <2>4, <2>6, OneThreadRuns
      <3> QED
        BY <2>5, <3>1
    <2>8. Times(c, b - a) \in Seq(Int)
      BY <2>6, TimesFacts
    <2>9. Opening(inter, a) \o Times(c, b - a) = Opening(inter, b)
      <3>1. c \in Nat /\ inter \in Seq(Nat) /\ a \in 0..Len(inter) /\ b \in a..Len(inter)
        BY <1>2, <2>1, <2>3
      <3>2. \A i \in (a + 1)..b : inter[i] = c
        BY <2>2
      <3> QED
        BY <3>1, <3>2, OpeningGrows
    <2> QED
      BY <2>1, <2>7, <2>8, <2>9 DEF a, b
  <1> HIDE DEF period, last, kps, YP, upto
  <1> DEFINE f == [r \in 1..(last + 1) |-> Opening(inter, upto(r - 1))]
  <1>8. Len(periods) = last + 1 /\ last + 1 \in Nat \ {0}
    BY <1>6
  <1>9. f[1] = periods[1]
    <2>1. upto(0 - 1) = 0
      <3>1. 0 - 1 \in Int
        OBVIOUS
      <3>2. /\ UptoPeriod(inter, 0 - 1) \in 0..L
            /\ \A i \in 1..L : i <= UptoPeriod(inter, 0 - 1) <=> Block(inter, i) <= 0 - 1
        BY <1>2, <3>1, UptoPeriodFacts
      <3>3. \A i \in 1..L : ~(Block(inter, i) <= 0 - 1)
        BY <1>2, BlockSteps
      <3> QED
        BY <3>2, <3>3 DEF upto
    <2>2. Opening(inter, 0) = <<>>
      BY DEF Opening
    <2>3. Opening(inter, upto(0 - 1)) \o period(0 + 1) = Opening(inter, upto(0))
          /\ period(0 + 1) \in Seq(Int)
      BY <1>7, 0 \in Nat
    <2>4. period(1) = Opening(inter, upto(0))
      <3>1. \A s \in Seq(Int) : <<>> \o s = s
        OBVIOUS
      <3>2. 0 + 1 = 1
        OBVIOUS
      <3> QED
        BY <2>1, <2>2, <2>3, <3>1, <3>2
    <2> QED
      BY <1>6, <2>4
  <1>10. \A r \in 2..(last + 1) : f[r] = f[r - 1] \o periods[r]
    <2> TAKE r \in 2..(last + 1)
    <2>1. r - 1 \in Nat /\ r \in 1..(last + 1) /\ r - 1 \in 1..(last + 1) /\ (r - 1) + 1 = r
      BY <1>6
    <2>2. Opening(inter, upto((r - 1) - 1)) \o period((r - 1) + 1) = Opening(inter, upto(r - 1))
      BY <1>7, <2>1
    <2> QED
      BY <2>1, <2>2
  <1>11. f[last + 1] = inter
    <2>1. upto(last) = L
      <3>1. /\ UptoPeriod(inter, last) \in 0..L
            /\ \A i \in 1..L : i <= UptoPeriod(inter, last) <=> Block(inter, i) <= last
        BY <1>2, <1>6, UptoPeriodFacts
      <3>2. L <= UptoPeriod(inter, last)
        BY <1>2, <1>6, <3>1
      <3> QED
        BY <1>2, <3>1, <3>2 DEF upto
    <2>2. Opening(inter, L) = inter
      BY <1>2 DEF Opening
    <2>3. last + 1 \in 1..(last + 1) /\ (last + 1) - 1 = last
      BY <1>6
    <2> QED
      BY <2>1, <2>2, <2>3
  <1> HIDE DEF f, periods
  <1>12. FlattenSeq(periods) = f[last + 1]
    BY <1>8, <1>9, <1>10, FlattenIs
  <1> QED
    BY <1>1, <1>11, <1>12 DEF kps, YP

(* The yields that yield_pattern_gen computes for an interleaving lead     *)
(* back to it by yp_to_inter, for every interleaving generated.            *)
THEOREM YieldsLeadToTheInterleaving == Spec => []RoundTrip
<1>1. GeneratorInv => RoundTrip
  <2> SUFFICES ASSUME GeneratorInv, prefix \o suffix \in Seq(0..(n - 1)), prefix \o suffix # <<>>
               PROVE  YpToInter([t \in 0..(n - 1) |-> Count(prefix \o suffix, t)],
                                YieldPatternGen(n, prefix \o suffix)) = prefix \o suffix
    BY DEF RoundTrip
  <2>1. n \in Nat
    BY WholeInterleaving
  <2> QED
    BY <2>1, YieldsLeadBack
<1> QED
  BY <1>1, GeneratorInvariant, PTL
=============================================================================
