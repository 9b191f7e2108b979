------------------------------- MODULE Schedules -------------------------------
(***************************************************************************)
(* Schedules as the driver sees them, and the yields made from them.  A    *)
(* schedule is a sequence of periods, a period a bag of threads: how many  *)
(* of its key points (KPs) each thread runs in it.                         *)
(***************************************************************************)
EXTENDS Integers, Sequences, FiniteSets, FiniteSetsExt, Functions, Sums

Period(threads, t, c) == [u \in threads |-> IF u = t THEN c ELSE 0]

(* The serialised schedule of a pattern (whose each period is) and of      *)
(* counts (how many KPs its owner runs in it).                             *)
Periods(threads, pattern, count) ==
    [j \in DOMAIN pattern |-> Period(threads, pattern[j], count[j])]

(* KPs of t in the first j periods. *)
Upto(s, t, j) == SumUpto([i \in DOMAIN s |-> s[i][t]], j)

(* Mutant of YieldPattern: the last period yields for nobody. *)
YieldPatternShort(kps, s) ==
    [t \in DOMAIN kps |->
        [k \in 1..kps[t] |->
            Cardinality({j \in 1..(Len(s) - 2) : Upto(s, t, j) = k - 1})]]

(* get_yield_pattern (bp_sched.py): every period that ends while the k-th  *)
(* KP of t is the next one of t is one yield in front of that KP.          *)
YieldPattern(kps, s) ==
    [t \in DOMAIN kps |->
        [k \in 1..kps[t] |-> Cardinality({j \in DOMAIN s : Upto(s, t, j) = k - 1})]]

(* Mutant of ChangedPrefix: ends before the changed period. *)
ChangedPrefixShort(s, before) ==
    LET changed == {j \in DOMAIN s : s[j] # before[j]}
    IN  IF changed = {} THEN s ELSE SubSeq(s, 1, Min(changed) - 1)

(* The prefix up to the first period in which s differs from before.       *)
ChangedPrefix(s, before) ==
    LET changed == {j \in DOMAIN s : s[j] # before[j]}
    IN  IF changed = {} THEN s ELSE SubSeq(s, 1, Min(changed))

-----------------------------------------------------------------------------
(* No period has more KPs than its thread. *)
MostInPeriod(pool) == Max(Range(pool))

(* The reference: all ways to run pool in p periods, each with one thread  *)
(* and at least one KP, adjacent ones with different threads.              *)
Serial(pool, p) ==
    LET owners == {t \in DOMAIN pool : pool[t] > 0}
        patterns == {q \in [1..p -> owners] :
                        Range(q) = owners /\ \A j \in 2..p : q[j] # q[j - 1]}
        counts == [1..p -> 1..MostInPeriod(pool)]
    IN  {s \in {Periods(DOMAIN pool, q, c) : q \in patterns, c \in counts} :
            \A t \in DOMAIN pool : Upto(s, t, p) = pool[t]}

(* With a mixed end: some threads are serialised, and the last period also *)
(* runs all KPs of the others.                                             *)
Mixed(kps, p) ==
    LET Serialised(chosen) == [t \in DOMAIN kps |-> IF t \in chosen THEN kps[t] ELSE 0]
        AddOthers(chosen, s) ==
            [s EXCEPT ![p] = [t \in DOMAIN kps |-> IF t \in chosen THEN @[t] ELSE kps[t]]]
    IN  UNION {{AddOthers(chosen, s) : s \in Serial(Serialised(chosen), p)} :
                  chosen \in (SUBSET DOMAIN kps) \ {{}}}

(* The period of the k-th KP of t; the yields in front of it, added up.    *)
PeriodOf(s, t, k) == Min({j \in DOMAIN s : Upto(s, t, j) >= k})
YieldsUpto(y, t, k) == SumUpto(y[t], k)
=============================================================================
