------------------------------ MODULE SBPMESched -------------------------------
(***************************************************************************)
(* The scheduler the driver uses, class SBPMESched (Serialised-Bounded-    *)
(* Periods with a Mixed End) of sbp_sched_mixed_end.py.  A few threads are *)
(* chosen and their key points (KPs) serialised in p periods; the KPs of   *)
(* the other threads are dumped into the last period.  In the second stage *)
(* of a bug depth the driver gives it the prefix of an interesting         *)
(* schedule and asks to keep it (fix_prefix = True).                       *)
(***************************************************************************)
EXTENDS SerialSched

CONSTANT Inputs     \* [kps, p, prefix]: prefix is a sequence of periods
                    \* [thread, kps] of one thread each, <<>> for none

(* The threads are numbered from 0.  A prefix is the part of a schedule up *)
(* to its first change; it may be as long as the schedules asked for.  Its *)
(* periods are of one thread each, so a whole schedule with a mixed end is *)
(* left out where a longer one is asked for: only a schedule that gave a   *)
(* period to a thread without KPs left can differ first at its end.        *)
ASSUME InputsAssumption ==
    \A input \in Inputs :
        /\ IsFiniteSet(DOMAIN input.kps) /\ DOMAIN input.kps # {}
        /\ input.kps \in [0..(Cardinality(DOMAIN input.kps) - 1) -> Nat]
        /\ input.p \in Nat \ {0}
        /\ input.prefix \in Seq([thread : DOMAIN input.kps, kps : Nat \ {0}])

VARIABLES
    kps,            \* KPs of each thread
    p,              \* number of periods
    fixed,          \* the prefix to keep
    pool,           \* self._kp_pool: the KPs behind the prefix
    chosen,         \* self._chosen, sorted
    ckps,           \* self._ckps: the KPs of the chosen threads
    pattern,        \* self._pattern
    count,          \* self._sched_chosen: KPs of pattern[j] in period j
    prefix,         \* self._prefix
    iter,           \* self._iter: "first", "next"; in the constructor "new",
                    \* "helped"; "refused": it raised an exception,
                    \* "stopped": StopIteration
    all,            \* the schedules there are, if there is no prefix to keep
    emitted,        \* the schedules yielded (history)
    yields          \* the number of calls that yielded one (history)

history == <<emitted, yields>>
vars == <<kps, p, fixed, pool, chosen, ckps, pattern, count, prefix, iter, all, history>>

Threads == DOMAIN kps
start == Len(fixed)                 \* self._start
last == IF start = 0 THEN NoThread ELSE fixed[start].thread
lastCount == IF start = 0 THEN 0 ELSE fixed[start].kps

(* KPs of t in the prefix. *)
Used(fix, t) ==
    SumUpto([j \in DOMAIN fix |-> IF fix[j].thread = t THEN fix[j].kps ELSE 0], Len(fix))

Elements(s) == {s[j] : j \in DOMAIN s}

(* _cal_ckps *)
ChosenKps(c) == [t \in Threads |-> IF t \in Elements(c) THEN pool[t] ELSE 0]

(* The schedule: the serialised periods, the others dumped into the last. *)
Sched ==
    [j \in 1..p |->
        [t \in Threads |-> (IF t = pattern[j] THEN count[j] ELSE 0)
                           + (IF j = p /\ ckps[t] = 0 THEN pool[t] ELSE 0)]]

-----------------------------------------------------------------------------
(* _next_chosen: the next set of the same size, then the next size. *)
NextChosen(n, limit, c) ==
    LET num == Len(c)
        movable == {i \in 1..num : c[i] < n + i - 1 - num}
    IN  IF movable # {}
        THEN [j \in 1..num |-> IF j < Max(movable) THEN c[j]
                               ELSE c[Max(movable)] + 1 + (j - Max(movable))]
        ELSE IF num + 1 > limit \/ num + 1 > n THEN None
        ELSE [j \in 1..(num + 1) |-> j - 1]

(* If the last period is the only one of its thread, exchanging the thread *)
(* with a dumped one gives the same schedule: only the least one counts.   *)
Redundant(c, pat) ==
    /\ pat # None
    /\ \A j \in 1..(Len(pat) - 1) : pat[j] # pat[Len(pat)]
    /\ \E t \in Threads \ Elements(c) : pool[t] > 0 /\ t < pat[Len(pat)]

(* The pattern of the chosen threads behind the prefix. *)
SearchOf(c) ==
    [kps |-> ChosenKps(c), p |-> p - start, mustDo |-> Elements(c), last |-> last]
Patterns == [1..(p - start) -> Threads] \cup {None}

(* Mutant of Settle: redundant patterns are not skipped. *)
SettleNot(c, pat) == pat

Settle(c, pat) ==
    LET settled[q \in Patterns] ==
            IF Redundant(c, q) THEN settled[NextPattern(SearchOf(c), q)] ELSE q
    IN  settled[pat]

(* The first set of threads after c that has a pattern, and that pattern.  *)
NextChoice(c, settle) ==
    LET NextOf(d) == NextChosen(Cardinality(Threads), p - start, d)
        PatternOf(d) == IF settle THEN Settle(d, InitPattern(SearchOf(d)))
                                  ELSE InitPattern(SearchOf(d))
        choice[d \in Seq(Int)] ==
            LET next == NextOf(d)
            IN  IF next = None THEN [chosen |-> None, pattern |-> None]
                ELSE IF PatternOf(next) = None THEN choice[next]
                ELSE [chosen |-> next, pattern |-> PatternOf(next)]
    IN  choice[c]

-----------------------------------------------------------------------------
Init ==
    /\ \E input \in Inputs : kps = input.kps /\ p = input.p /\ fixed = input.prefix
    /\ all = IF fixed = <<>> THEN Mixed(kps, p) ELSE {}
    /\ iter = "new"
    /\ pool = None /\ chosen = None /\ ckps = None
    /\ pattern = None /\ count = None /\ prefix = None
    /\ emitted = {} /\ yields = 0

(* _init_helper raises the KPs of a thread to those of the prefix. *)
InitHelper ==
    /\ iter = "new" /\ start < p
    /\ iter' = "helped"
    /\ kps' = [t \in Threads |-> Max({kps[t], Used(fixed, t)})]
    /\ pool' = [t \in Threads |-> kps'[t] - Used(fixed, t)]
    /\ UNCHANGED <<p, fixed, chosen, ckps, pattern, count, prefix, all, history>>

(* A prefix that fills all periods: KPs remain (36), or the constructor    *)
(* gets by all loops and reads the set of threads that it never chose (73).*)
RefuseWhole ==
    /\ iter = "new" /\ start >= p
    /\ iter' = "refused"
    /\ UNCHANGED <<kps, p, fixed, pool, chosen, ckps, pattern, count, prefix, all, history>>

(* The rest of the constructor: the first set of threads with a pattern. *)
ConstructChoice ==
    IF start = p - 1 /\ start > 0 /\ pool[last] > 0
    THEN [chosen |-> None, pattern |-> None]
    ELSE NextChoice(<<>>, FALSE)

Construct ==
    /\ iter = "helped"
    /\ \E choice \in {ConstructChoice} :
        /\ iter' = IF choice.pattern = None THEN "refused" ELSE "first"
        /\ chosen' = choice.chosen
        /\ ckps' = ChosenKps(choice.chosen)
        /\ pattern' = [j \in 1..start |-> fixed[j].thread] \o choice.pattern
        /\ count' = [j \in 1..start |-> fixed[j].kps] \o InitSched(ckps', choice.pattern)
    /\ UNCHANGED <<kps, p, fixed, pool, all, history>>
    /\ prefix' = IF iter' = "refused" THEN <<>>
                 ELSE SubSeq(Sched', 1, Max({1, start}))

Emit(s) == emitted' = emitted \cup {s} /\ yields' = yields + 1

FirstIter ==
    /\ iter = "first"
    /\ iter' = "next"
    /\ Emit(Sched)
    /\ UNCHANGED <<kps, p, fixed, pool, chosen, ckps, pattern, count, prefix, all>>

(* Mutant of from: all periods. *)
fromFirst == 1

(* _next_sched sees the periods behind the prefix and the last one of it.  *)
from == Max({1, start})
NextCount ==
    LET withLast == [t \in Threads |-> ckps[t] + (IF t = last THEN lastCount ELSE 0)]
    IN  NextSched(withLast, SubSeq(count, from, p), SubSeq(pattern, from, p))

(* The next pattern of the chosen threads, or the first of the next set.   *)
NextPatternOrChoice ==
    LET pat == Settle(chosen, NextPattern(SearchOf(chosen), SubSeq(pattern, start + 1, p)))
    IN  IF pat # None THEN [chosen |-> chosen, pattern |-> pat]
        ELSE NextChoice(chosen, TRUE)

NextIterSched ==
    LET next == NextCount
    IN  /\ iter = "next"
        /\ next # None
        /\ count' = SubSeq(count, 1, from - 1) \o next
        /\ UNCHANGED <<kps, p, fixed, pool, chosen, ckps, pattern, iter, all>>
        /\ prefix' = ChangedPrefix(Sched', Sched)
        /\ Emit(Sched')

NextIterPattern ==
    /\ iter = "next"
    /\ NextCount = None
    /\ \E next \in {NextPatternOrChoice} :
        /\ next.pattern # None
        /\ chosen' = next.chosen
        /\ ckps' = ChosenKps(next.chosen)
        /\ pattern' = SubSeq(pattern, 1, start) \o next.pattern
        /\ count' = [j \in 1..start |-> IF j = start THEN lastCount ELSE count[j]]
                    \o InitSched(ckps', next.pattern)
    /\ UNCHANGED <<kps, p, fixed, pool, iter, all>>
    /\ prefix' = ChangedPrefix(Sched', Sched)
    /\ Emit(Sched')

StopIteration ==
    /\ iter = "next"
    /\ NextCount = None
    /\ NextPatternOrChoice.pattern = None
    /\ iter' = "stopped"
    /\ chosen' = None
    /\ UNCHANGED <<kps, p, fixed, pool, ckps, pattern, count, prefix, all, history>>

Next == InitHelper \/ RefuseWhole \/ Construct \/ FirstIter \/ NextIterSched
        \/ NextIterPattern \/ StopIteration
Spec == Init /\ [][Next]_vars

-----------------------------------------------------------------------------
TypeOK ==
    /\ p \in Nat \ {0} /\ kps \in [Threads -> Nat]
    /\ iter \in {"new", "helped", "first", "next", "refused", "stopped"}
    /\ iter \in {"first", "next", "stopped"} =>
          /\ pattern \in [1..p -> Threads]
          /\ count \in [1..p -> Nat \ {0}]
          /\ iter = "next" => prefix = SubSeq(Sched, 1, Len(prefix)) /\ prefix # <<>>

(* Without a prefix the schedules yielded are valid ones, with a mixed end *)
(* after at most p - 1 periods, and at the end none of them is missing.    *)
EnumeratesAll ==
    fixed = <<>> => emitted \subseteq all /\ (iter = "stopped" => emitted = all)

(* Without a prefix the constructor gives up only if there is no schedule  *)
(* at all.  (Behind a prefix it may give up for other reasons, and what it *)
(* was to yield there has no reference definition.)                        *)
RefusedRightly == (iter = "refused" /\ fixed = <<>>) => all = {}

(* Every schedule runs every KP of every thread once; only a thread with   *)
(* no KP behind the prefix may get a period there all the same.            *)
RunsAllKps ==
    iter = "next" =>
        \A t \in Threads :
            LET scheduled == Upto(Sched, t, p)
            IN  scheduled = kps[t] \/ (pool[t] = 0 /\ scheduled > kps[t])

(* Behind a prefix each schedule begins with it: the threads in its        *)
(* periods stay and are alone there, and so do the counts, but for that of *)
(* the last period, which _next_sched may raise and start over.            *)
PrefixKept ==
    iter = "next" =>
        \A i \in 1..start :
            /\ \A t \in Threads : Sched[i][t] > 0 <=> t = fixed[i].thread
            /\ i < start => Sched[i] = Period(Threads, fixed[i].thread, fixed[i].kps)

(* No schedule is yielded twice, with a prefix or without.                 *)
NoRepetition == yields = Cardinality(emitted)

(* The yields in front of the KPs of a thread put each of them into the    *)
(* period the schedule has it in, counted from 0.                          *)
YieldsMatch ==
    iter = "next" =>
        LET y == YieldPattern(kps, Sched)
        IN  \A t \in Threads : \A k \in 1..kps[t] :
                YieldsUpto(y, t, k) = PeriodOf(Sched, t, k) - 1
=============================================================================
