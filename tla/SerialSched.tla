------------------------------ MODULE SerialSched -------------------------------
(***************************************************************************)
(* The algorithms of the serialised schedulers (sbp_sched.py), shared by   *)
(* SBPSched and SBPMESched.  A pattern says which thread each period       *)
(* belongs to; the counts say how many of its key points (KPs) the thread  *)
(* runs in that period.  Two adjacent periods belong to different threads. *)
(***************************************************************************)
EXTENDS Schedules

None == <<>>                        \* Python's None: no pattern, no counts
NoThread == -1

(* How many periods of the pattern belong to t. *)
Blocks(pattern, t) == Cardinality({j \in DOMAIN pattern : pattern[j] = t})

-----------------------------------------------------------------------------
(* What _init_pattern is asked for: a pattern of p periods that gives every *)
(* thread of mustDo a period, no thread more periods than it has KPs, and  *)
(* does not begin with thread last.                                        *)
Searches(threads) ==
    [kps : [threads -> Int], p : Nat, mustDo : SUBSET threads, last : Int]

(* What is left to ask for behind a period of t. *)
After(search, t) ==
    [kps |-> [search.kps EXCEPT ![t] = @ - 1], p |-> search.p - 1,
     mustDo |-> search.mustDo \ {t}, last |-> t]

Usable(search) == {t \in DOMAIN search.kps : t # search.last /\ search.kps[t] > 0}

(* Mutant of FirstPattern: takes the first usable thread, never backtracks. *)
FirstPatternGreedy(search, found) ==
    LET usable == {t \in Usable(search) : search.p = 1 => search.mustDo \subseteq {t}}
        rest == found[After(search, Min(usable))]
    IN  IF search.p < 1 \/ usable = {} THEN None
        ELSE IF search.p = 1 THEN <<Min(usable)>>
        ELSE IF rest = None THEN None ELSE <<Min(usable)>> \o rest

(* One call of _init_pattern; found is what the calls it makes return.     *)
FirstPattern(search, found) ==
    LET p == search.p
        mustDo == search.mustDo
        Rest(t) == found[After(search, t)]
        good == {t \in Usable(search) : Rest(t) # None}
        first == Min(mustDo \ {search.last})
        others == mustDo \ {first}
        Nth(j) == CHOOSE t \in others : Cardinality({u \in others : u < t}) = j - 2
    IN  IF p < 1 \/ p < Cardinality(mustDo) THEN None
        ELSE IF p = Cardinality(mustDo) THEN
            IF mustDo \subseteq {search.last} THEN None
            ELSE [j \in 1..p |-> IF j = 1 THEN first ELSE Nth(j)]
        ELSE IF p = 1 THEN IF Usable(search) = {} THEN None ELSE <<Min(Usable(search))>>
        ELSE IF good = {} THEN None
        ELSE <<Min(good)>> \o Rest(Min(good))

(* _init_pattern: the first pattern in lexicographic order. *)
InitPattern(search) ==
    LET found[s \in Searches(DOMAIN search.kps)] == FirstPattern(s, found)
    IN  found[search]

-----------------------------------------------------------------------------
(* What is left to ask for behind the first i - 1 periods of a pattern.    *)
Behind(search, pattern, i) ==
    [kps |-> [t \in DOMAIN search.kps |->
                 search.kps[t] - Cardinality({j \in 1..(i - 1) : pattern[j] = t})],
     p |-> search.p - (i - 1),
     mustDo |-> search.mustDo \ {pattern[j] : j \in 1..(i - 1)},
     last |-> IF i = 1 THEN search.last ELSE pattern[i - 1]]

(* The first pattern with a later thread than head in its first period.    *)
OtherHead(search, head) ==
    LET mustDo == search.mustDo
        later == {t \in Usable(search) : t > head}
        Rest(t) == InitPattern(After(search, t))
        good == {t \in later : Rest(t) # None}
    IN  IF search.p = 1 THEN
            IF Cardinality(mustDo) > 1 \/ mustDo \cap {head, search.last} # {} THEN None
            ELSE IF mustDo # {} THEN <<Min(mustDo)>>
            ELSE IF later = {} THEN None ELSE <<Min(later)>>
        ELSE IF good = {} THEN None ELSE <<Min(good)>> \o Rest(Min(good))

(* Mutant of NextPattern: changes only the last period. *)
NextPatternTail(search, pattern) ==
    LET other == OtherHead(Behind(search, pattern, search.p), pattern[search.p])
    IN  IF other = None THEN None ELSE [pattern EXCEPT ![search.p] = other[1]]

(* _next_pattern: the next one in lexicographic order.  The recursion tries *)
(* the calls behind the head first: the last period that can be changed is. *)
NextPattern(search, pattern) ==
    LET Other(i) == OtherHead(Behind(search, pattern, i), pattern[i])
        changeable == {i \in 1..search.p : Other(i) # None}
        i == Max(changeable)
    IN  IF changeable = {} THEN None
        ELSE [j \in 1..search.p |-> IF j < i THEN pattern[j] ELSE Other(i)[j - i + 1]]

-----------------------------------------------------------------------------
(* Mutant of InitSched: forgets the KPs that remain. *)
InitSchedOne(kps, pattern) == [j \in DOMAIN pattern |-> 1]

(* _init_sched: one KP per period, what remains of a thread in its last.   *)
InitSched(kps, pattern) ==
    [j \in DOMAIN pattern |->
        LET t == pattern[j]
        IN  IF \E l \in DOMAIN pattern : l > j /\ pattern[l] = t THEN 1
            ELSE 1 + Max({0, kps[t] - Blocks(pattern, t)})]

(* _next_sched: the greatest thread that can moves one KP from its last    *)
(* period with two or more to its period before that; the greater threads  *)
(* start over.                                                             *)
NextSched(kps, count, pattern) ==
    LET Donors(t) == {j \in DOMAIN pattern : j > 1 /\ pattern[j] = t /\ count[j] > 1}
        Takers(t) == {j \in DOMAIN pattern : pattern[j] = t /\ j < Max(Donors(t))}
        movable == {t \in DOMAIN kps : Donors(t) # {} /\ Takers(t) # {}}
        mover == Max(movable)
    IN  IF movable = {} THEN None
        ELSE [j \in DOMAIN pattern |->
                 CASE j = Max(Donors(mover)) -> count[j] - 1
                   [] j = Max(Takers(mover)) -> count[j] + 1
                   [] pattern[j] > mover     -> InitSched(kps, pattern)[j]
                   [] OTHER                  -> count[j]]
=============================================================================
