------------------------------ MODULE TestSession -------------------------------
(***************************************************************************)
(* A testing session from the compiler to the first tests of a schedule:   *)
(* the pass instruments the program (Instrumentation), the driver          *)
(* (run_PDS.py 354-541) runs it dry to learn how many threads have key     *)
(* points (KPs) and how many, runs it under a default pattern until the    *)
(* numbers stand, and writes the yield pattern of a schedule               *)
(* (Schedules) for a test.  TestProcess is each execution.                 *)
(*                                                                         *)
(* What happens to the results of tests is in Exploration.                 *)
(***************************************************************************)
EXTENDS TestProcess, Schedules

CONSTANTS
    Sessions,           \* programs under test with a number of periods
    DriverArraySize     \* SHARE_ARRAY_SIZE, the driver's

ASSUME SessionsAssumption ==
    /\ \A s \in Sessions :
          /\ IsProgram(s.prog) /\ s.periods \in Nat \ {0}
          /\ \A ids \in Tids : \* there are ids for all threads
                Cardinality({i \in DOMAIN s.prog.code["main"] :
                                s.prog.code["main"][i].op \in Creations}) < Len(ids)
    /\ DriverArraySize \in 1..ArraySize

VARIABLES
    iterPeriod,         \* the number of periods
    phase,              \* what the driver does next
    N, M, zero_in_KP, kpMaxNumArray,    \* the driver's variables
    returnNormal,       \* of the loop of default runs
    sched               \* the schedule of the test, as kps and periods

driver == <<N, M, zero_in_KP, kpMaxNumArray, returnNormal, sched>>
vars == <<prog, iterPeriod, phase, driver, shm, process>>

NoCounts == [r \in Rows |-> 0]
NoSchedule == [kps |-> <<>>, periods |-> <<>>]

(* The program is compiled, if it can be. *)
Init ==
    /\ \E s \in Sessions : prog = s.prog /\ iterPeriod = s.periods
    /\ phase = IF Compiles(prog) THEN "dry" ELSE "failed"
    /\ code = IF Compiles(prog) THEN Instrument(prog) ELSE <<>>
    /\ N = 0 /\ M = 0 /\ zero_in_KP = 0 /\ kpMaxNumArray = NoCounts
    /\ returnNormal = 0 /\ sched = NoSchedule
    /\ shm = [time |-> 0, N |-> 0, M |-> 0, num |-> NoCounts,
              kp |-> [s \in Slots |-> 0], loc |-> [s \in Slots |-> NoLine]]
    /\ mode = "none"
    /\ num_td = 0 /\ num_kp = 0 /\ DBDSruntime = 0 /\ kpYield = [s \in Slots |-> 0]
    /\ turn = 0 /\ c_tid = 0 /\ tids \in Tids /\ threads = <<>>

DryRun ==
    /\ phase = "dry" /\ mode = "none"
    /\ TraceBegin("dry")
    /\ phase' = "set up"
    /\ UNCHANGED <<prog, iterPeriod, driver>>

-----------------------------------------------------------------------------
(* zero_num: how many threads without KPs there are among those that N     *)
(* leaves out of account, approached in three rounds.                      *)

Zeros(num, n) == Cardinality({r \in Rows : r < n /\ num[r] = 0})

(* Mutants of ZeroNum: no answer when all are zero; one round. *)
ZeroNumUnset(num, most, n) ==
    IF \A r \in Rows : r < n => num[r] = 0 THEN -1
    ELSE Min({Zeros(num, n), Zeros(most, n)})
ZeroNumOnce(num, most, n) ==
    IF \A r \in Rows : r < n => num[r] = 0 THEN 0
    ELSE Min({Zeros(num, n), Zeros(most, n)})

ZeroNum(num, most, n) ==
    LET Round(z) == Min({Zeros(num, n + z), Zeros(most, n + z)})
    IN  IF \A r \in Rows : r < n => num[r] = 0 THEN 0
        ELSE Round(Round(Round(0)))

Longer(num, most, n) ==
    [r \in Rows |-> IF r < n /\ num[r] > most[r] THEN num[r] ELSE most[r]]

(* The segment has kp and kpLoc one behind the other, with ArraySize slots *)
(* each; get_info_from_share_memory looks for kpLoc behind DriverArraySize. *)
KpLocArray ==
    [i \in 0..(DriverArraySize - 1) |->
        IF DriverArraySize + i < ArraySize THEN shm.kp[DriverArraySize + i]
        ELSE shm.loc[DriverArraySize + i - ArraySize]]

(* memmove_pattern_list: rows of m, one behind the other, from slot 0. *)
Written(rows, m) ==
    [s \in Slots |-> IF s < Len(rows) * m THEN rows[(s \div m) + 1][(s % m) + 1] ELSE shm.kp[s]]

(* The default pattern: thread after thread begins one period later, if    *)
(* there are not too many.                                                 *)
ZeroPattern(n, rows, m) ==
    [r \in 1..rows |-> [k \in 1..m |-> IF k = 1 /\ n <= 20 THEN r - 1 ELSE 0]]

(* Very short runs are given ten times their time.  The driver ends if the *)
(* rows do not fit into its arrays.                                        *)
SetUp ==
    /\ phase = "set up" /\ ~Running
    /\ N' = shm.N /\ M' = shm.M
    /\ \E z \in {ZeroNum(shm.num, kpMaxNumArray, shm.N)} :
          /\ zero_in_KP' = z
          /\ kpMaxNumArray' = Longer(shm.num, kpMaxNumArray, shm.N + z)
          /\ IF shm.N + z > ThreadNum \/ shm.M * (shm.N + z) > DriverArraySize
             THEN phase' = "failed" /\ UNCHANGED shm
             ELSE /\ phase' = "default"
                  /\ shm' = [shm EXCEPT !.time = IF @ < 1000 THEN @ * 10 ELSE @,
                                        !.kp = Written(ZeroPattern(shm.N, shm.N + z, shm.M), shm.M)]
    /\ UNCHANGED <<prog, iterPeriod, returnNormal, sched, process>>

DefaultRun ==
    /\ phase = "default"
    /\ TraceBegin("dbds")
    /\ phase' = "learn"
    /\ UNCHANGED <<prog, iterPeriod, driver>>

(* The counts of the first default run replace those of the dry run.  More *)
(* threads or KPs than expected, fewer than two threads or an exit code    *)
(* that means an error ask for another run, the third for the user.  An    *)
(* index behind the counts is an exception.                                *)
Learn ==
    LET rows == N + zero_in_KP
        grown == shm.N > N \/ shm.M > M
        retry == mode # "returned" \/ grown \/ N <= 1
        first == [r \in Rows |->
                     IF returnNormal = 0 /\ r < rows /\ shm.num[r] >= 1 THEN shm.num[r]
                     ELSE Longer(shm.num, kpMaxNumArray, rows)[r]]
    IN  /\ phase = "learn" /\ ~Running
        /\ IF mode = "returned" /\ grown
           THEN /\ N' = Max({N, shm.N}) /\ M' = Max({M, shm.M})
                /\ kpMaxNumArray' = Longer(shm.num, first, N' + zero_in_KP)
           ELSE UNCHANGED <<N, M>> /\ kpMaxNumArray' = first
        /\ returnNormal' = IF retry THEN returnNormal + 1 ELSE 4
        /\ phase' = CASE N' + zero_in_KP > ThreadNum -> "failed"
                      [] N' + zero_in_KP <= ThreadNum /\ ~retry -> "test"
                      [] returnNormal = 2 -> "failed"
                      [] OTHER -> "default"
        /\ shm' = IF mode # "returned" /\ returnNormal' = 2
                  THEN [shm EXCEPT !.kp = Written([r \in 1..N |-> [k \in 1..M |-> 0]], M)]
                  ELSE shm
        /\ UNCHANGED <<prog, iterPeriod, zero_in_KP, sched, process>>

-----------------------------------------------------------------------------
(* filled_with_zero: all rows get the length M.  A count that is greater   *)
(* than M, which only a run that fails can leave, is cut here.             *)
Filled(kps, pattern, m) ==
    [r \in 1..Cardinality(DOMAIN kps) |->
        [k \in 1..m |-> IF k <= kps[r - 1] THEN pattern[r - 1][k] ELSE 0]]

WriteConfig(pattern) == [shm EXCEPT !.N = N, !.M = M, !.kp = Written(pattern, M)]

(* One of the schedules for the greatest numbers of KPs met so far.        *)
WriteTest ==
    LET kps == [t \in 0..(N + zero_in_KP - 1) |-> kpMaxNumArray[t]]
    IN  /\ phase = "test"
        /\ \E s \in Mixed(kps, iterPeriod) :
              \E pattern \in {Filled(kps, YieldPattern(kps, s), M)} :
                  /\ sched' = [kps |-> kps, periods |-> s]
                  /\ shm' = WriteConfig(pattern)
        /\ phase' = "start"
        /\ UNCHANGED <<prog, iterPeriod, N, M, zero_in_KP, kpMaxNumArray, returnNormal, process>>

(* No schedule has that many periods.  The driver goes on with the next    *)
(* number of periods, which is a session of its own here.                  *)
NothingToTest ==
    LET kps == [t \in 0..(N + zero_in_KP - 1) |-> kpMaxNumArray[t]]
    IN  /\ phase = "test"
        /\ Mixed(kps, iterPeriod) = {}
        /\ phase' = "failed"
        /\ UNCHANGED <<prog, iterPeriod, driver, shm, process>>

StartTest ==
    /\ phase = "start"
    /\ TraceBegin("dbds")
    /\ phase' = "testing"
    /\ UNCHANGED <<prog, iterPeriod, driver>>

TestEnds ==
    /\ phase = "testing" /\ ~Running
    /\ phase' = "tested"
    /\ UNCHANGED <<prog, iterPeriod, driver, shm, process>>

Execute(t) == ThreadStep(t) /\ UNCHANGED <<prog, iterPeriod, phase, driver>>

Driver ==
    \/ DryRun \/ SetUp \/ DefaultRun \/ Learn
    \/ WriteTest \/ NothingToTest \/ StartTest \/ TestEnds
Next == Driver \/ \E t \in Thread : Execute(t)

(* The driver waits for the program, and the kernel runs its threads: as   *)
(* long as one of them can go on, one does.                                *)
Spec == Init /\ [][Next]_vars /\ WF_vars(Next)

-----------------------------------------------------------------------------
TypeOK ==
    /\ \E s \in Sessions : prog = s.prog /\ iterPeriod = s.periods
    /\ phase \in {"dry", "set up", "default", "learn", "test", "start",
                  "testing", "tested", "failed"}
    /\ {N, M, zero_in_KP, num_td, num_kp, DBDSruntime, turn, c_tid, returnNormal,
        shm.time, shm.N, shm.M} \subseteq Nat
    /\ {kpMaxNumArray, shm.num} \subseteq [Rows -> Nat]
    /\ {kpYield, shm.kp, shm.loc} \subseteq [Slots -> Nat]
    /\ mode \in {"none", "dry", "dbds", "returned", "refused"}
    /\ \A t \in Thread :
          /\ threads[t].fn \in DOMAIN code
          /\ threads[t].my_tid \in 0..c_tid
          /\ threads[t].idx \in Nat /\ threads[t].yields \in Seq(Nat)

-----------------------------------------------------------------------------
(* What the properties say of a program, from its source.                  *)

(* Where main creates threads, in the order of their creation. *)
Creating == {i \in DOMAIN prog.code["main"] : prog.code["main"][i].op \in Creations}
CreatedAt(c) == CHOOSE i \in Creating : Cardinality({j \in Creating : j <= i}) = c
Children == 1..Cardinality(Creating)
Created == [c \in Children |-> prog.code["main"][CreatedAt(c)]]
KpsOf(c) == LET body == prog.code[Created[c].to]
            IN  Cardinality({i \in DOMAIN body : IsKeyPoint(body, i)})
WithKps == {c \in Children : KpsOf(c) > 0}
ExitsOf(f) == {i \in DOMAIN prog.code[f] : prog.code[f][i].op = "_exit"}
AllJoined ==
    LET main == prog.code["main"]
        joins == {i \in DOMAIN main : main[i].op = "pthread_join"
                                      /\ \A j \in ExitsOf("main") : i < j}
    IN  /\ \A c \in Creating : \E i \in joins : i > c /\ main[i].to = main[c].to
        /\ \A f \in DOMAIN prog.code \ {"main"} : ExitsOf(f) = {}
(* What PERIOD can follow: no thread hidden from the pass, none running on *)
(* when main returns or exits.                                             *)
WellBehaved == Closed(prog) /\ AllJoined
(* And with ASAN its maps are still there when the destructor runs.        *)
WellBuilt == WellBehaved /\ prog.asan

(* The session comes to an end: a program without hidden threads never     *)
(* waits for a number nobody hands out, in the dry run or under a schedule *)
(* (before_pthread_create and instr_PthreadCall, 452-513).                 *)
ClosedRunsEnd == (phase = "dry" /\ Closed(prog)) ~> (phase \in {"tested", "failed"})

(* Whatever thread ids the kernel gives out, traceEnd (344-376) leaves the *)
(* counts of the k-th thread created in row k, and the right maxima.       *)
(* Without ASAN its maps are gone by then: the count of a thread may be    *)
(* lost, but it never ends up in the row of another, and the maxima are    *)
(* right.  This is what the lookup by the id before the thread's own is    *)
(* for (363-367).                                                          *)
CountsInRows ==
    (~Running /\ mode = "returned" /\ phase \in {"set up", "learn", "testing"} /\ WellBehaved) =>
        /\ \A r \in Rows :
              \/ shm.num[r] = IF r + 1 \in Children THEN KpsOf(r + 1) ELSE 0
              \/ ~prog.asan /\ shm.num[r] = 0
        /\ shm.N = Cardinality(WithKps)
        /\ shm.M = Max({KpsOf(c) : c \in Children} \cup {0})

(* From the number of threads with KPs and the zeros between them the      *)
(* driver finds how many rows it needs, if the first of these counts is    *)
(* not all zeros.  Three rounds are enough for five threads.               *)
RowsForAll ==
    (phase \in {"test", "start", "testing", "tested"} /\ WellBuilt) =>
        LET n == Cardinality(WithKps)
        IN  (Cardinality(Children) <= 5 /\ WithKps \cap (1..n) # {})
                => \A c \in WithKps : c <= N + zero_in_KP

(* A thread burns, up to its j-th KP, as many periods as end before the    *)
(* one the schedule has that KP in: from the scheduler's pattern through   *)
(* shared memory, rows and thread numbers to kpYield.                      *)
FollowsSchedule ==
    \A t \in Thread : \A j \in DOMAIN threads[t].yields :
        SumUpto(threads[t].yields, j)
            = PeriodOf(sched.periods, threads[t].my_tid - 1, j) - 1
ScheduleIsRun ==
    (phase = "testing" /\ WellBuilt /\ WithKps = Children) => FollowsSchedule
(* kp[] says how often a thread yields before a KP (DBDSFunction.cpp 38),  *)
(* for every thread that has some.                                         *)
ScheduleIsRunByAll ==
    (phase = "testing" /\ WellBuilt /\ 1 \in WithKps) => FollowsSchedule

(* After a run the driver has the hashes of the KPs it met, in the slots of *)
(* the pattern: calculate_coverage_hashID (run_PDS.py 545, 785) and the     *)
(* directed mode (602) are computed from them.                              *)
DriverSeesRecords ==
    (phase \in {"learn", "testing"} /\ mode = "returned") =>
        \A s \in DOMAIN KpLocArray : s < N * M => KpLocArray[s] = shm.loc[s]

(* The factors of setDeadLineSched keep the kernel from refusing up to     *)
(* seven threads, whatever the dry run took (188, 221-243), from the 21    *)
(* microseconds on that make the kernel's least runtime.                   *)
NeverRefused ==
    (Closed(prog) /\ Cardinality(Children) <= 7 /\ DBDSruntime >= LeastTime) => mode # "refused"
=============================================================================
