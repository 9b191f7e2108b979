------------------------------ MODULE Exploration -------------------------------
(***************************************************************************)
(* The main loop of the driver (run_PDS.py): for every number of periods   *)
(* it first explores all schedules (stage 1), then those that continue the *)
(* prefixes of interesting runs (stage 2).  A run is the tested program    *)
(* started on the shared memory: it loads the numbers N of threads and M   *)
(* of key points (KPs) per thread, which say where the row of a thread     *)
(* begins in the pattern, and leaves what it has seen there.               *)
(*                                                                         *)
(* The scheduler is a number of schedules that remain; what a run meets    *)
(* and its coverage hash are whatever the program does.  All variables are *)
(* considered (VarModeFlag = 0) and every thread has KPs (zero_in_KP = 0). *)
(***************************************************************************)
EXTENDS Integers, Sequences, FiniteSetsExt

CONSTANTS
    Outcomes,       \* what a run may meet: a sequence, the KPs of each thread
    DefaultOutcome, \* the counts of the run under the default schedule
    Hashes,         \* coverage hashes
    DefaultHash,    \* the one of the run under the default schedule
    PrefixLengths,  \* prefixes of schedules, by their number of KPs
    PeriodLimit,    \* bugDepth + 1
    FullDeepRun, NoPrefixRun,   \* options of the driver
    RunsLimits,     \* values of runs_limit, 0 is none
    MaxSchedules,   \* bound: schedules of one scheduler
    MaxLate         \* bound: programs that outlive their timeout

ASSUME PositiveLimit ==
    /\ PeriodLimit \in Nat \ {0, 1}
    /\ DefaultOutcome \in Outcomes
    /\ RunsLimits \subseteq Nat
    /\ MaxSchedules \in Nat

(* There is a greatest number of threads. *)
ASSUME OutcomesAssumption ==
    /\ Outcomes \subseteq Seq(Nat)
    /\ \E o \in Outcomes : \A p \in Outcomes : Len(p) <= Len(o)

None == -1
NoPrefix == 0

VARIABLES
    pc,             \* where the driver is
    period,         \* iterPeriod
    stage,          \* DBDS_stage
    left,           \* schedules left in the scheduler, None if it was refused
    prefix,         \* the prefix the scheduler continues
    N, M,           \* the driver's numbers
    kps,            \* the counts the scheduler was made for
    arrays,         \* parentArray and parentArrayCopy, and whether they are
                    \* one list: [parent, copy, same]
    waiting,        \* waited_to_explore: entries [hash, num, prefix] in order
    saved,          \* waited_to_explore_save
    shm,            \* shared memory: N, M, num (kpNumArray)
    rows,           \* the lengths of the rows in the pattern last written
    loaded,         \* the M the running program has loaded
    crashed,        \* it did not get to its destructor
    errors,         \* error files: the row lengths saved and the one that ran
    late,           \* a program the driver has given up on: "no" (there is
                    \* none), "running", or "counted" at its end
    lateMet,        \* what that one has met
    lates,          \* how many there have been
    limit,          \* runs_limit
    rounds,         \* schedules tested, counted if there is a limit
    limited,        \* reach_runs_limit
    disturbed,      \* N or M changed since the driver wrote them (history)
    popped,         \* hashes explored at this number of periods (history)
    found           \* hashes ever added to waited_to_explore (history)

search == <<period, stage, left, prefix, kps>>
dicts == <<waiting, saved, popped, found>>
program == <<shm, rows, loaded, crashed, disturbed>>
budget == <<limit, rounds, limited>>
rest == <<late, lateMet, lates, budget>>
vars == <<pc, search, N, M, arrays, dicts, program, errors, rest>>

Lengths == {Len(o) : o \in Outcomes}
ThreadIds == 1..Max(Lengths)
Padded(num) == [t \in ThreadIds |-> IF t \in DOMAIN num THEN num[t] ELSE 0]
Most(num) == Max({0} \cup {num[t] : t \in DOMAIN num})
Larger(a, b) == Max({a, b})
Zeros == [t \in ThreadIds |-> 0]

Keys(dict) == {dict[i].hash : i \in DOMAIN dict}

(* Mutant of Written: the main thread is counted. *)
WrittenWithMain(o) == [N |-> Len(o) + 1, M |-> Most(o), num |-> Padded(o)]

(* traceEnd: what a program that gets to its end leaves in shared memory. *)
Written(o) == [N |-> Len(o), M |-> Most(o), num |-> Padded(o)]

(* Mutant of AddToExplore: forgets what it replaces. *)
AddToExploreOnly(dict, entry) == <<entry>>

(* add_to_explore_dict: of two entries with a hash the shorter prefix stays. *)
AddToExplore(dict, entry) ==
    IF entry.hash \in Keys(dict)
    THEN [i \in DOMAIN dict |->
             IF dict[i].hash = entry.hash /\ dict[i].prefix > entry.prefix
             THEN entry ELSE dict[i]]
    ELSE Append(dict, entry)

(* Mutant of Copied: an assignment in place of a copy. *)
CopiedByReference(a) == [parent |-> a.parent, copy |-> a.parent, same |-> TRUE]

(* parentArrayCopy = parentArray.copy() *)
Copied(a) == [parent |-> a.parent, copy |-> a.parent, same |-> FALSE]

(* new_max_kpNumArray raises parentArray in place: the list both names may *)
(* stand for.                                                              *)
Raised(a, num) ==
    LET greatest == [t \in ThreadIds |-> IF t <= N THEN Larger(num[t], a.parent[t]) ELSE a.parent[t]]
    IN  [parent |-> greatest, copy |-> IF a.same THEN greatest ELSE a.copy, same |-> a.same]

(* parentArray = parentArrayCopy, by reference. *)
Restored(a) == [parent |-> a.copy, copy |-> a.copy, same |-> TRUE]

(* parentArray is a new list with the counts of a prefix. *)
Loaded(a, num) == [parent |-> Padded(num), copy |-> a.copy, same |-> FALSE]

(* SBPMESched(...): refused, or with some schedules. *)
Construct == left' \in {None} \cup 1..MaxSchedules

-----------------------------------------------------------------------------
Init ==
    /\ pc = "period" /\ period = 2 /\ stage = 1
    /\ left = None /\ prefix = NoPrefix
    /\ N = Len(DefaultOutcome) /\ M = Most(DefaultOutcome)
    /\ kps = DefaultOutcome
    /\ arrays = [parent |-> Padded(kps), copy |-> Padded(kps), same |-> FALSE]
    /\ waiting = <<>> /\ saved = <<>> /\ popped = {} /\ found = {}
    /\ shm = Written(DefaultOutcome)
    /\ rows = {M} /\ loaded = M /\ crashed = FALSE /\ disturbed = FALSE
    /\ errors = {} /\ late = "no" /\ lateMet = DefaultOutcome /\ lates = 0
    /\ limit \in RunsLimits /\ rounds = 0 /\ limited = FALSE

BeginPeriod ==
    /\ pc = "period"
    /\ Construct
    /\ kps' = DefaultOutcome
    /\ arrays' = Restored(arrays)
    /\ waiting' = saved
    /\ popped' = {}
    /\ pc' = "iterate"
    /\ UNCHANGED <<period, stage, prefix, N, M, saved, found, program, errors, rest>>

(* For a deep bug stage 1 is left at its first schedule. *)
TooDeep == stage = 1 /\ period - 1 >= 4 /\ ~FullDeepRun
Iterating == pc = "iterate" /\ left > 0 /\ ~TooDeep
AtLimit == limit # 0 /\ rounds >= limit

(* is_redundant_with_prefix *)
SkipRedundant ==
    /\ Iterating /\ prefix # NoPrefix
    /\ left' = left - 1
    /\ UNCHANGED <<pc, period, stage, prefix, kps, N, M, arrays, dicts, program, errors, rest>>

(* Mutant of WriteConfig: N and M are left as the last run left them. *)
WriteConfigOnce == UNCHANGED shm

WriteConfig == shm' = [shm EXCEPT !.N = N, !.M = M]

(* filled_with_zero: shorter rows than M get that length, longer ones keep *)
(* theirs.                                                                 *)
Filled == {Larger(M, kps[t]) : t \in DOMAIN kps}

(* N, M and the pattern are written and the program is started. *)
Schedule ==
    /\ Iterating /\ ~AtLimit
    /\ left' = left - 1
    /\ rounds' = IF limit = 0 THEN rounds ELSE rounds + 1
    /\ WriteConfig
    /\ rows' = Filled
    /\ disturbed' = FALSE
    /\ pc' = "started"
    /\ UNCHANGED <<period, stage, prefix, kps, N, M, arrays, dicts, loaded, crashed, errors>>
    /\ UNCHANGED <<late, lateMet, lates, limit, limited>>

-----------------------------------------------------------------------------
(* The program: it loads M and clears the counts, ... *)
Load ==
    /\ pc = "started"
    /\ loaded' = shm.M
    /\ shm' = [shm EXCEPT !.num = Zeros]
    /\ pc' = "running"
    /\ UNCHANGED <<search, N, M, arrays, dicts, rows, crashed, disturbed, errors, rest>>

(* ... and writes N, M and the counts at its end, ... *)
ProgramEnds ==
    /\ pc = "running"
    /\ \E o \in Outcomes : shm' = Written(o)
    /\ crashed' = FALSE
    /\ pc' = "ended"
    /\ UNCHANGED <<search, N, M, arrays, dicts, rows, loaded, disturbed, errors, rest>>

(* ... unless it is aborted, ... *)
ProgramCrashes ==
    /\ pc = "running"
    /\ crashed' = TRUE
    /\ pc' = "ended"
    /\ UNCHANGED <<search, N, M, arrays, dicts, shm, rows, loaded, disturbed, errors, rest>>

(* ... or takes too long: the driver sends a signal and goes on at once. *)
Timeout ==
    /\ pc = "running"
    /\ \/ late = "no" /\ late' = "running" /\ lates < MaxLate /\ lates' = lates + 1
          /\ UNCHANGED <<lateMet, budget>>
       \/ UNCHANGED rest
    /\ pc' = "iterate"
    /\ UNCHANGED <<search, N, M, arrays, dicts, program, errors>>

(* A program that gets to its end in spite of the signal: traceEnd writes  *)
(* the counts first ...                                                    *)
LateCounts ==
    /\ late = "running"
    /\ late' = "counted"
    /\ \E o \in Outcomes : lateMet' = o /\ shm' = [shm EXCEPT !.num = Padded(o)]
    /\ UNCHANGED <<pc, search, N, M, arrays, dicts, rows, loaded, crashed, disturbed, errors, lates, budget>>

(* ... and then N and M. *)
LateEnd ==
    /\ late = "counted"
    /\ late' = "no" /\ lateMet' = DefaultOutcome
    /\ shm' = [Written(lateMet) EXCEPT !.num = shm.num]
    /\ disturbed' = TRUE
    /\ UNCHANGED <<pc, search, N, M, arrays, dicts, rows, loaded, crashed, errors, lates, budget>>

-----------------------------------------------------------------------------
(* More threads or KPs than there was room for: the program runs again, on *)
(* the N and M it left itself.                                             *)
TooSmall == shm.N > N \/ shm.M > M
Retest ==
    /\ pc = "ended" /\ TooSmall
    /\ N' = Larger(N, shm.N)
    /\ M' = Larger(M, shm.M)
    /\ disturbed' = TRUE
    /\ pc' = "started"
    /\ UNCHANGED <<search, arrays, dicts, shm, rows, loaded, crashed, errors, rest>>

(* A run that met more KPs of a thread than the parent is interesting. *)
Covers(num) == \E t \in ThreadIds : t <= N /\ num[t] > arrays.parent[t]

(* Mutant of Known: nothing is known. *)
KnownNever(hash) == FALSE

Known(hash) == hash = DefaultHash \/ (stage = 2 /\ hash \in Keys(saved))

(* parentArray is copied, takes the maxima and is restored. *)
Evaluate ==
    /\ pc = "ended" /\ ~TooSmall
    /\ arrays' = Restored(Raised(Copied(arrays), shm.num))
    /\ \E hash \in Hashes, p \in PrefixLengths :
          LET entry == [hash |-> hash, num |-> SubSeq(shm.num, 1, shm.N), prefix |-> p]
              add == Covers(shm.num) /\ ~Known(hash)
          IN  /\ waiting' = IF add THEN AddToExplore(waiting, entry) ELSE waiting
              /\ saved' = IF ~add THEN saved
                          ELSE IF stage = 1 THEN waiting'   \* one dictionary
                          ELSE AddToExplore(saved, entry)
              /\ found' = IF add THEN found \cup {hash} ELSE found
    /\ errors' = IF crashed THEN errors \cup {[saved |-> rows, ran |-> loaded]} ELSE errors
    /\ pc' = "iterate"
    /\ UNCHANGED <<search, N, M, popped, program, rest>>

-----------------------------------------------------------------------------
(* No schedule is left, or no run.  In stage 2 a limit does not keep the    *)
(* driver from making schedulers for the prefixes that wait, to no avail.  *)
Exhausted ==
    /\ pc = "iterate" /\ (Iterating => AtLimit)
    /\ limited' = (limited \/ Iterating)
    /\ saved' = IF stage = 1 THEN waiting ELSE saved
    /\ stage' = 2
    /\ pc' = "pop"
    /\ UNCHANGED <<period, left, prefix, kps, N, M, arrays, waiting, popped, found, program, errors>>
    /\ UNCHANGED <<late, lateMet, lates, limit, rounds>>

(* The next interesting prefix is continued; if there is no schedule for   *)
(* it, the next one.                                                       *)
UsesPrefixes == period > 2 /\ ~NoPrefixRun
PopPrefix ==
    LET entry == Head(waiting)
    IN  /\ pc = "pop" /\ UsesPrefixes /\ waiting # <<>>
        /\ waiting' = Tail(waiting)
        /\ popped' = popped \cup {entry.hash}
        /\ prefix' = entry.prefix
        /\ kps' = entry.num
        /\ arrays' = Loaded(Copied(arrays), entry.num)
        /\ Construct
        /\ pc' = IF left' = None THEN "pop" ELSE "iterate"
        /\ UNCHANGED <<period, stage, N, M, saved, found, program, errors, rest>>

(* Nothing to continue: one period more, unless the limit is reached. *)
EndPeriod ==
    /\ pc = "pop" /\ (UsesPrefixes => waiting = <<>>)
    /\ prefix' = IF UsesPrefixes THEN NoPrefix ELSE prefix
    /\ stage' = 1
    /\ IF period = PeriodLimit \/ limited THEN pc' = "done" /\ UNCHANGED period
       ELSE pc' = "period" /\ period' = period + 1
    /\ UNCHANGED <<left, kps, N, M, arrays, dicts, program, errors, rest>>

Driver ==
    \/ BeginPeriod \/ SkipRedundant \/ Schedule \/ Load \/ ProgramEnds \/ ProgramCrashes
    \/ Timeout \/ Retest \/ Evaluate \/ Exhausted \/ PopPrefix \/ EndPeriod
Done == pc = "done" /\ UNCHANGED vars
Next == Driver \/ LateCounts \/ LateEnd \/ Done

(* The driver goes on: a run ends, or communicate() gives up on it.        *)
Spec == Init /\ [][Next]_vars /\ WF_vars(Driver)

-----------------------------------------------------------------------------
Counts == UNION {[1..n -> Nat] : n \in Lengths}
Entries == [hash : Hashes, num : Counts, prefix : PrefixLengths]
TypeOK ==
    /\ pc \in {"period", "iterate", "started", "running", "ended", "pop", "done"}
    /\ period \in 2..PeriodLimit /\ stage \in {1, 2}
    /\ left \in None..MaxSchedules /\ prefix \in PrefixLengths \cup {NoPrefix}
    /\ N \in Lengths /\ {M, loaded} \cup rows \subseteq Nat
    /\ kps \in Counts
    /\ {arrays.parent, arrays.copy, shm.num} \subseteq [ThreadIds -> Nat]
    /\ arrays.same => arrays.parent = arrays.copy
    /\ late \in {"no", "running", "counted"} /\ lateMet \in Outcomes
    /\ {shm.N, shm.M} \subseteq Nat
    /\ \A i \in DOMAIN waiting : waiting[i] \in Entries
    /\ \A i \in DOMAIN saved : saved[i] \in Entries
    /\ popped \cup found \subseteq Hashes
    /\ limit \in RunsLimits /\ limited \in BOOLEAN
    /\ rounds \in 0..limit

(* In stage 2 each interesting run found so far, at whatever number of     *)
(* periods, has been continued or is waiting for it: none is forgotten.    *)
NoneForgotten ==
    (stage = 2 /\ UsesPrefixes) => popped \cup Keys(waiting) = found

(* No hash is continued twice at one number of periods.                    *)
NoneTwice == stage = 2 => popped \cap Keys(waiting) = {}

(* What makes a run interesting is that it meets more KPs than the run the *)
(* schedules were made from: the counts it is compared with are those the  *)
(* scheduler has.                                                          *)
Exploring == pc \in {"iterate", "started", "running", "ended"}
ComparedWithParent == Exploring => arrays.parent = Padded(kps)

(* So it is while prefixes are continued, and in stage 1 as long as none   *)
(* has been: parentArray and parentArrayCopy are copied, raised in place   *)
(* and restored at each evaluation.                                        *)
PrefixIsParent == (stage = 2 \/ period <= 3) => ComparedWithParent

(* The program that a schedule is written for loads the row length of the  *)
(* pattern, and all rows have it, unless it is a retest or a program has   *)
(* outlived its timeout.                                                   *)
LoadsItsRows == (pc = "running" /\ ~disturbed /\ lates = 0) => rows \subseteq {loaded}

(* The exploration ends.                                                   *)
Terminates == <>(pc = "done")

(* All rows of a saved pattern have the length they had to the run that   *)
(* found the error, so it is read, when it is reproduced, as in that run.  *)
ErrorsReproduce == \A e \in errors : e.saved \subseteq {e.ran}
=============================================================================
