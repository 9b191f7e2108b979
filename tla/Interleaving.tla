------------------------------ MODULE Interleaving ------------------------------
(***************************************************************************)
(* The exhaustive scheduler of interleaving.py.  An interleaving is a      *)
(* sequence of threads, one entry per key point (KP); the generator        *)
(* interleaving_iter yields those that share the prefix of a parent, in    *)
(* dictionary order, and yield_pattern_gen turns each into the yields that *)
(* the runtime is given.  Threads are numbered from 0.                     *)
(***************************************************************************)
EXTENDS Integers, Sequences, SequencesExt, Sums

CONSTANT Inputs     \* [n, M, parent]: what the generator is called with; M
                    \* gives the KPs of each of the n threads

ASSUME InputsAssumption ==
    \A input \in Inputs :
        /\ input.n \in Nat
        /\ input.M \in [0..(input.n - 1) -> Nat]
        /\ input.parent \in Seq(Nat)

None == <<>>

Times(t, k) == [j \in 1..k |-> t]
Count(inter, t) == Cardinality({i \in DOMAIN inter : inter[i] = t})

-----------------------------------------------------------------------------
(* Mutant of InterleavingInit: one KP of every thread is forgotten. *)
InterleavingInitShort(threads, kps) ==
    FlattenSeq([i \in 1..threads |-> Times(i - 1, kps[i - 1] - 1)])

(* The first interleaving: all of thread 0, all of thread 1, ... *)
InterleavingInit(threads, kps) ==
    FlattenSeq([i \in 1..threads |-> Times(i - 1, kps[i - 1])])

(* Mutant of InterleavingNext: swaps with the greatest of the suffix. *)
InterleavingNextLast(inter) ==
    LET ascents == {i \in 2..Len(inter) : inter[i] > inter[i - 1]}
        a == Max(ascents) - 1
        turned == SubSeq(inter, 1, a) \o Reverse(SubSeq(inter, a + 1, Len(inter)))
    IN  IF ascents = {} THEN None
        ELSE [turned EXCEPT ![a] = turned[Len(inter)], ![Len(inter)] = turned[a]]

(* The next one in dictionary order: turn the falling suffix round, then   *)
(* swap the entry before it with the first greater one in it.              *)
InterleavingNext(inter) ==
    LET ascents == {i \in 2..Len(inter) : inter[i] > inter[i - 1]}
        a == Max(ascents) - 1
        turned == SubSeq(inter, 1, a) \o Reverse(SubSeq(inter, a + 1, Len(inter)))
        b == Min({i \in (a + 1)..Len(inter) : turned[i] > turned[a]})
    IN  IF ascents = {} THEN None
        ELSE [turned EXCEPT ![a] = turned[b], ![b] = turned[a]]

(* Mutant of GetPrefix: the entry before the rising suffix goes with it. *)
GetPrefixShort(inter) ==
    SubSeq(inter, 1, Max({1} \cup {i \in 1..(Len(inter) - 1) : inter[i] > inter[i + 1]}) - 1)

(* An interleaving without its longest rising suffix. *)
GetPrefix(inter) ==
    SubSeq(inter, 1, Max({0} \cup {i \in 1..(Len(inter) - 1) : inter[i] > inter[i + 1]}))

-----------------------------------------------------------------------------
(* Mutant of Block: every KP starts a period. *)
BlockEvery(inter, i) == Cardinality(2..i)

(* Periods: a KP that does not follow one of its own thread starts one. *)
Block(inter, i) == Cardinality({j \in 2..i : inter[j] # inter[j - 1]})

(* Where the KPs of a thread are, the first one first. *)
Positions(inter, t) ==
    [k \in 1..Count(inter, t) |->
        CHOOSE i \in DOMAIN inter : inter[i] = t /\ Count(SubSeq(inter, 1, i), t) = k]

(* Mutant of YieldPatternGen: periods are counted from the start. *)
YieldPatternGenAbsolute(threads, inter) ==
    [t \in 0..(threads - 1) |->
        LET at == Positions(inter, t) IN [k \in DOMAIN at |-> Block(inter, at[k])]]

(* How many periods a thread skips in front of each of its KPs. *)
YieldPatternGen(threads, inter) ==
    [t \in 0..(threads - 1) |->
        LET at == Positions(inter, t)
        IN  [k \in DOMAIN at |-> Block(inter, at[k])
                                 - (IF k = 1 THEN 0 ELSE Block(inter, at[k - 1]))]]

(* The interleaving a yield pattern leads to: in every period each thread, *)
(* in the order of their numbers, runs the KPs that have no yields left.   *)
YpToInter(kps, YP) ==
    LET Yields(t, k) == IF k \in DOMAIN YP[t] THEN YP[t][k] ELSE 0
        Due(t, k) == SumUpto([l \in 1..k |-> Yields(t, l)], k)
        Runs(t, r) == Times(t, Cardinality({k \in 1..kps[t] : Due(t, k) = r}))
        last == Max({Due(t, kps[t]) : t \in DOMAIN kps})
    IN  FlattenSeq([r \in 1..(last + 1) |->
            FlattenSeq([i \in 1..Cardinality(DOMAIN kps) |-> Runs(i - 1, r - 1)])])

-----------------------------------------------------------------------------
VARIABLES
    n,              \* the threads
    M,              \* the KPs of each that remain behind the prefix
    parent,         \* the interleaving it continues
    prefix,         \* kept from the parent
    suffix,         \* the part that is permuted
    pc,             \* "init", "next", "ended"
    emitted,        \* the interleavings yielded (history)
    yields          \* the number of them, repetitions included (history)

vars == <<n, M, parent, prefix, suffix, pc, emitted, yields>>

Init ==
    \E input \in Inputs :
        /\ n = input.n
        /\ parent = input.parent
        /\ prefix = GetPrefix(parent)
        /\ M = [t \in 0..(n - 1) |-> input.M[t] - Count(prefix, t)]
        /\ suffix = InterleavingInit(n, M)
        /\ pc = "init"
        /\ emitted = {} /\ yields = 0

Emit(inter) == emitted' = emitted \cup {inter} /\ yields' = yields + 1

First ==
    /\ pc = "init"
    /\ pc' = "next"
    /\ Emit(prefix \o suffix)
    /\ UNCHANGED <<n, M, parent, prefix, suffix>>

Following ==
    LET next == InterleavingNext(suffix)
    IN  /\ pc = "next"
        /\ next # None
        /\ suffix' = next
        /\ Emit(prefix \o next)
        /\ UNCHANGED <<n, M, parent, prefix, pc>>

Ended ==
    /\ pc = "next"
    /\ InterleavingNext(suffix) = None
    /\ pc' = "ended"
    /\ UNCHANGED <<n, M, parent, prefix, suffix, emitted, yields>>

Next == First \/ Following \/ Ended
Spec == Init /\ [][Next]_vars

-----------------------------------------------------------------------------
(* The reference: all sequences in which every thread has the KPs that     *)
(* remain of it (none if there are not enough), behind prefix.             *)
KPs(pool) == UNION {{t} \X (1..pool[t]) : t \in DOMAIN pool}
Arrangements(pool) ==
    {s \in [1..Cardinality(KPs(pool)) -> DOMAIN pool] :
        \A t \in DOMAIN pool : Count(s, t) = Cardinality(1..pool[t])}
All == {prefix \o s : s \in Arrangements(M)}

TypeOK ==
    /\ prefix \in Seq(Nat) /\ suffix \in Seq(0..(n - 1))
    /\ M \in [0..(n - 1) -> Int]
    /\ pc \in {"init", "next", "ended"}
    /\ \A t \in 0..(n - 1) : Count(suffix, t) = Max({0, M[t]})

(* The generator enumerates exactly the interleavings with the parent's    *)
(* prefix: none is missing at the end, and none comes twice.               *)
Enumerator == INSTANCE ScheduleEnumerator
    WITH all <- All, yielded <- emitted, count <- yields, ended <- pc = "ended"
EnumeratesAll == Enumerator!Spec

(* If the threads still have the KPs of the parent, the generator resumes  *)
(* at the parent: what get_prefix cuts off is what interleaving_init       *)
(* builds first.                                                           *)
ResumesAtParent == (yields = 1 /\ parent \in All) => emitted = {parent}

(* The yields computed for an interleaving lead to that interleaving, as   *)
(* yp_to_inter computes it.                                                *)
RoundTrip ==
    LET inter == prefix \o suffix
        kps == [t \in 0..(n - 1) |-> Count(inter, t)]
    IN  inter \in Seq(0..(n - 1)) /\ inter # <<>>
            => YpToInter(kps, YieldPatternGen(n, inter)) = inter

(* A period is an unbroken stretch of one thread: the yields put two KPs   *)
(* into one period exactly if no KP of another thread lies between them,   *)
(* so each change of thread is a new period and nothing else is one.       *)
OneThreadPerPeriod ==
    LET inter == prefix \o suffix
        y == YieldPatternGen(n, inter)
    IN  \A t, u \in 0..(n - 1) : \A k \in DOMAIN y[t], l \in DOMAIN y[u] :
            LET i == Positions(inter, t)[k]
                j == Positions(inter, u)[l]
            IN  SumUpto(y[t], k) = SumUpto(y[u], l)
                  <=> \A x \in (i..j) \cup (j..i) : inter[x] = t
=============================================================================
