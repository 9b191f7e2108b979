------------------------------ MODULE KeyPoints ------------------------------
(***************************************************************************)
(* The threads of the tested program under the runtime library of PERIOD:  *)
(* in front of every key point (KP) the pass calls instr_LOC_string        *)
(* (DBDSFunction.cpp 542-626), which burns whole SCHED_DEADLINE periods    *)
(* with sched_yield() as the schedule in kpYield says, and then records    *)
(* the KP in shared memory.  All threads share one array; a thread owns    *)
(* the row of num_kp slots that its number gives it.                       *)
(*                                                                         *)
(* The kernel is the clock `now': the threads are created at roughly the   *)
(* same time with the same period, so their periods are aligned            *)
(* (tool/DBDS/README.md 161-164).  A thread that yields sleeps until the   *)
(* next period.  A thread that overruns its runtime budget, or that was    *)
(* created late, loses a period without having yielded (Throttle).         *)
(***************************************************************************)
EXTENDS Integers, FiniteSets, Sequences

CONSTANTS
    N,                  \* num_td, the threads of the schedule
    M,                  \* num_kp, the KPs of each of them
    Schedules,          \* the schedules the driver may write
    Hash,               \* the location hashes of KPs; 0 is not one
    Paths,              \* the sequences of KPs each thread may run through
    LoopUnwinded,       \* LOOP_UNWINDED_NUM
    UnsignedMax,        \* the largest value of kpYield's type
    MaxOverruns         \* how often the kernel takes a period from a thread

Thread == 1..N
End == N * M                        \* the slot behind the last row
Slot(t, k) == (t - 1) * M + (k - 1) \* the k-th slot of thread t
Slots == 0..End

(* A schedule is the array kp of yield counts; period[t][k] is what it     *)
(* amounts to, the period in which the k-th KP of t is due.                *)
IsSchedule(s) ==
    /\ s.kp \in [Slots -> Nat] /\ s.kp[End] = 0
    /\ s.period \in [Thread -> [0..M -> Nat]]
    /\ \A t \in Thread :
          /\ s.period[t][0] = 0
          /\ \A k \in 1..M : s.period[t][k] = s.period[t][k-1] + s.kp[Slot(t, k)]

ASSUME SizeAssumption == N \in Nat \ {0} /\ M \in Nat \ {0}
ASSUME ScheduleAssumption == \A s \in Schedules : IsSchedule(s)
ASSUME HashAssumption == 0 \notin Hash
ASSUME PathAssumption == Paths \subseteq [Thread -> Seq(Hash)]
ASSUME BoundAssumption ==
    LoopUnwinded \in Nat \ {0} /\ MaxOverruns \in Nat /\ UnsignedMax \in Nat

VARIABLES
    sched,              \* the schedule of this run: kp and what it means
    path,               \* the KPs each thread still has to run through
    pc,                 \* where each thread is in instr_LOC_string
    idx,                \* idx_kpMap
    kpYield,            \* yields left in front of each slot's KP
    kpLoc, kpOrder,     \* si->kpLoc, si->kpOrder
    curSyncOrder,       \* the order number of the next KP
    kp_order,           \* the local of the same name
    mapTid,             \* KPs counted per thread
    ran,                \* scheduled KPs whose instruction has run
    now,                \* the current period
    wake,               \* first period in which the thread may run
    overruns            \* periods lost so far

kernel == <<now, wake, overruns>>
arrays == <<kpLoc, kpOrder, curSyncOrder>>
vars == <<sched, path, pc, idx, kpYield, arrays, kp_order, mapTid, ran, kernel>>

Orig(t) == Slot(t, 1)               \* idx_original_kpMap
Recorded(t) == idx[t] - Orig(t)     \* KPs of t recorded so far
Awake(t) == wake[t] <= now
PC == {"body", "check", "yielded", "record", "order", "store", "op", "skip", "done"}

(* traceBegin has cleared the records and copied the schedule (289-331);   *)
(* every thread is registered and in its first period (444-506).           *)
Init ==
    /\ sched \in Schedules
    /\ path \in Paths
    /\ pc = [t \in Thread |-> "body"]
    /\ idx = [t \in Thread |-> Orig(t)]
    /\ kpYield = sched.kp
    /\ kpLoc = [s \in Slots |-> 0]
    /\ kpOrder = [s \in Slots |-> 0]
    /\ curSyncOrder = 1
    /\ kp_order = [t \in Thread |-> 0]
    /\ mapTid = [t \in Thread |-> 0]
    /\ ran = [t \in Thread |-> 0]
    /\ now = 0
    /\ wake = [t \in Thread |-> 0]
    /\ overruns = 0

Go(t, from, to) == Awake(t) /\ pc[t] = from /\ pc' = [pc EXCEPT ![t] = to]

-----------------------------------------------------------------------------
(* Mutant of BoundedLocHash: one hit too many. *)
BoundedLocHashLate(t, h) ==
    Cardinality({s \in Orig(t)..(idx[t] - 1) : kpLoc[s] = h}) <= LoopUnwinded

(* isBoundedLocHash: the hash is not yet LoopUnwinded times in [orig, idx) *)
BoundedLocHash(t, h) ==
    Cardinality({s \in Orig(t)..(idx[t] - 1) : kpLoc[s] = h}) < LoopUnwinded

(* Mutant of Skip: a KP beyond the bound is held back, not let through. *)
SkipNever(t) ==
    /\ FALSE
    /\ Go(t, "body", "skip")
    /\ UNCHANGED <<sched, path, idx, kpYield, arrays, kp_order, mapTid, ran, kernel>>

(* A KP that is unwound far enough is neither scheduled nor recorded. *)
Skip(t) ==
    /\ path[t] # <<>>
    /\ ~BoundedLocHash(t, Head(path[t]))
    /\ Go(t, "body", "skip")
    /\ UNCHANGED <<sched, path, idx, kpYield, arrays, kp_order, mapTid, ran, kernel>>

Enter(t) ==
    /\ path[t] # <<>>
    /\ BoundedLocHash(t, Head(path[t]))
    /\ Go(t, "body", "check")
    /\ mapTid' = [mapTid EXCEPT ![t] = @ + 1]
    /\ UNCHANGED <<sched, path, idx, kpYield, arrays, kp_order, ran, kernel>>

(* Mutants of Yield: it does not sleep, or it sleeps one period too long. *)
YieldWithoutSleep(t) ==
    /\ kpYield[idx[t]] > 0
    /\ Go(t, "check", "yielded")
    /\ UNCHANGED <<sched, path, idx, kpYield, arrays, kp_order, mapTid, ran, kernel>>
YieldTwoPeriods(t) ==
    /\ kpYield[idx[t]] > 0
    /\ Go(t, "check", "yielded")
    /\ wake' = [wake EXCEPT ![t] = now + 2]
    /\ UNCHANGED <<sched, path, idx, kpYield, arrays, kp_order, mapTid, ran, now, overruns>>

(* if (kpYield[idx] > 0) sched_yield(): the period is over for t ... *)
Yield(t) ==
    /\ kpYield[idx[t]] > 0
    /\ Go(t, "check", "yielded")
    /\ wake' = [wake EXCEPT ![t] = now + 1]
    /\ UNCHANGED <<sched, path, idx, kpYield, arrays, kp_order, mapTid, ran, now, overruns>>

(* Mutant of Decrement: one yield where the code loops. *)
DecrementOnce(t) ==
    /\ Go(t, "yielded", "record")
    /\ kpYield' = [kpYield EXCEPT ![idx[t]] = @ - 1]
    /\ UNCHANGED <<sched, path, idx, arrays, kp_order, mapTid, ran, kernel>>

(* ... and kpYield[idx]-- is what it does first in the next one. *)
Decrement(t) ==
    /\ Go(t, "yielded", "check")
    /\ kpYield' = [kpYield EXCEPT ![idx[t]] = IF @ = 0 THEN UnsignedMax ELSE @ - 1]
    /\ UNCHANGED <<sched, path, idx, arrays, kp_order, mapTid, ran, kernel>>

NoYieldLeft(t) ==
    /\ kpYield[idx[t]] = 0
    /\ Go(t, "check", "record")
    /\ UNCHANGED <<sched, path, idx, kpYield, arrays, kp_order, mapTid, ran, kernel>>

RecordLoc(t) ==
    /\ Go(t, "record", "order")
    /\ kpLoc' = [kpLoc EXCEPT ![idx[t]] = Head(path[t])]
    /\ UNCHANGED <<sched, path, idx, kpYield, kpOrder, curSyncOrder, kp_order, mapTid, ran, kernel>>

(* Mutant of FetchOrder: the counter is read but not advanced. *)
FetchOrderOnly(t) ==
    /\ Go(t, "order", "store")
    /\ kp_order' = [kp_order EXCEPT ![t] = curSyncOrder]
    /\ UNCHANGED <<sched, path, idx, kpYield, arrays, mapTid, ran, kernel>>

(* __sync_fetch_and_add(&curSyncOrder, 1) on a uint16_t, which N * M KPs   *)
(* do not wrap: the driver refuses schedules of more than 1990 (449-452).  *)
FetchOrder(t) ==
    /\ Go(t, "order", "store")
    /\ kp_order' = [kp_order EXCEPT ![t] = curSyncOrder]
    /\ curSyncOrder' = curSyncOrder + 1
    /\ UNCHANGED <<sched, path, idx, kpYield, kpLoc, kpOrder, mapTid, ran, kernel>>

(* Mutant of StoreOrder: the index advances by bytes. *)
StoreOrderByBytes(t) ==
    /\ Go(t, "store", "op")
    /\ kpOrder' = [kpOrder EXCEPT ![idx[t]] = kp_order[t]]
    /\ idx' = [idx EXCEPT ![t] = @ + 2]
    /\ UNCHANGED <<sched, path, kpYield, kpLoc, curSyncOrder, kp_order, mapTid, ran, kernel>>

(* The order is stored and the index moves on (602-617). *)
StoreOrder(t) ==
    /\ Go(t, "store", "op")
    /\ kpOrder' = [kpOrder EXCEPT ![idx[t]] = kp_order[t]]
    /\ idx' = [idx EXCEPT ![t] = IF idx[t] >= Orig(t) + M THEN End ELSE @ + 1]
    /\ UNCHANGED <<sched, path, kpYield, kpLoc, curSyncOrder, kp_order, mapTid, ran, kernel>>

(* The instruction of the key point itself. *)
Execute(t) ==
    /\ Go(t, "op", "body")
    /\ path' = [path EXCEPT ![t] = Tail(@)]
    /\ ran' = [ran EXCEPT ![t] = @ + 1]
    /\ UNCHANGED <<sched, idx, kpYield, arrays, kp_order, mapTid, kernel>>

ExecuteSkipped(t) ==
    /\ Go(t, "skip", "body")
    /\ path' = [path EXCEPT ![t] = Tail(@)]
    /\ UNCHANGED <<sched, idx, kpYield, arrays, kp_order, mapTid, ran, kernel>>

Return(t) ==
    /\ path[t] = <<>>
    /\ Go(t, "body", "done")
    /\ UNCHANGED <<sched, path, idx, kpYield, arrays, kp_order, mapTid, ran, kernel>>

-----------------------------------------------------------------------------
(* The kernel *)

(* The period ends when every thread has yielded its rest or returned: it  *)
(* is long enough for all that the threads do in it.                       *)
Tick ==
    /\ \E t \in Thread : pc[t] # "done"
    /\ \A t \in Thread : pc[t] = "done" \/ ~Awake(t)
    /\ now' = now + 1
    /\ UNCHANGED <<sched, path, pc, idx, kpYield, arrays, kp_order, mapTid, ran, wake, overruns>>

(* Or it was not long enough for t, which goes on in the next period. *)
Throttle(t) ==
    /\ overruns < MaxOverruns
    /\ Awake(t) /\ pc[t] # "done"
    /\ wake' = [wake EXCEPT ![t] = now + 1]
    /\ overruns' = overruns + 1
    /\ UNCHANGED <<sched, path, pc, idx, kpYield, arrays, kp_order, mapTid, ran, now>>

-----------------------------------------------------------------------------
ThreadStep(t) ==
    \/ Skip(t) \/ Enter(t)
    \/ Yield(t) \/ Decrement(t) \/ NoYieldLeft(t)
    \/ RecordLoc(t) \/ FetchOrder(t) \/ StoreOrder(t)
    \/ Execute(t) \/ ExecuteSkipped(t)
    \/ Return(t)

Next == Tick \/ \E t \in Thread : ThreadStep(t) \/ Throttle(t)

Spec == Init /\ [][Next]_vars
(* Periods pass, and a runnable thread is run in each of them. *)
FairSpec == Spec /\ WF_vars(Tick) /\ \A t \in Thread : WF_vars(ThreadStep(t))

-----------------------------------------------------------------------------
(* Types of the runtime's tables, for every access of every thread.        *)
TypeOK ==
    /\ sched \in Schedules
    /\ path \in [Thread -> Seq(Hash)]
    /\ pc \in [Thread -> PC]
    /\ idx \in [Thread -> Slots]
    /\ kpYield \in [Slots -> Nat]
    /\ kpLoc \in [Slots -> Hash \cup {0}]
    /\ kpOrder \in [Slots -> Nat]
    /\ curSyncOrder \in Nat \ {0}
    /\ kp_order \in [Thread -> Nat]
    /\ mapTid \in [Thread -> Nat]
    /\ ran \in [Thread -> 0..M]
    /\ now \in Nat
    /\ wake \in [Thread -> Nat]
    /\ overruns \in 0..MaxOverruns

(* No thread runs through more KPs than the schedule has room for; the     *)
(* driver enlarges num_kp and tries again when one did (run_PDS.py 762).   *)
PathsFit == \A p \in Paths : \A t \in Thread : Len(p[t]) <= M

AtSlot(t) == pc[t] \in {"check", "yielded", "record", "order", "store"}

(* A thread touches its own row, or the slot behind the last row once its  *)
(* own is full (DBDSFunction.cpp 608).                                     *)
IndexInBounds ==
    \A t \in Thread : AtSlot(t) => idx[t] \in (Slot(t, 1)..Slot(t, M)) \cup {End}

(* Overruns delay key points, but no key point ever runs before the period *)
(* the schedule gives it: the yields in front of it cannot be lost.        *)
NeverEarly ==
    \A t \in Thread : pc[t] = "op" => now >= sched.period[t][Recorded(t)]

(* Without overruns every key point runs exactly in its period.            *)
OnTime ==
    overruns = 0 =>
        \A t \in Thread : pc[t] = "op" => now = sched.period[t][Recorded(t)]

(* Periods order the key points of different threads: what t has run was   *)
(* never due later than what u has yet to run.                             *)
ScheduleOrder ==
    overruns = 0 =>
        \A t, u \in Thread :
            pc[u] # "done" /\ ran[u] < M
                => sched.period[t][ran[t]] <= sched.period[u][ran[u] + 1]

(* The order numbers in shared memory, from which the driver reconstructs  *)
(* the interleaving it has covered, agree with the periods.                *)
RecordedOrder ==
    overruns = 0 =>
        \A t, u \in Thread : \A i \in 1..Recorded(t), j \in 1..Recorded(u) :
            sched.period[t][i] < sched.period[u][j]
                => kpOrder[Slot(t, i)] < kpOrder[Slot(u, j)]

(* A returned thread has recorded exactly the KPs it counted, each hash at *)
(* most LoopUnwinded times and none of its order numbers twice.            *)
RecordsComplete ==
    \A t \in Thread : pc[t] = "done" =>
        /\ mapTid[t] = Recorded(t)
        /\ \A k \in 1..M : kpLoc[Slot(t, k)] # 0 <=> k <= mapTid[t]
        /\ \A h \in Hash :
              Cardinality({k \in 1..M : kpLoc[Slot(t, k)] = h}) <= LoopUnwinded
        /\ \A k \in 1..(mapTid[t] - 1) : kpOrder[Slot(t, k)] < kpOrder[Slot(t, k + 1)]

(* The test run ends: every yield is a period that passes.                 *)
AllReturn == <>(\A t \in Thread : pc[t] = "done")

-----------------------------------------------------------------------------
(* The inductive invariant behind the schedule properties, for PathsFit.   *)

(* The earliest period in which t can take its next step. *)
Earliest(t) == IF now < wake[t] THEN wake[t] ELSE now

Counted(t) ==
    /\ idx[t] \in Orig(t)..(Orig(t) + M)
    /\ Recorded(t) + Len(path[t]) <= IF pc[t] = "op" THEN M + 1 ELSE M
    /\ pc[t] \notin {"body", "done"} => path[t] # <<>>
    /\ ran[t] = IF pc[t] = "op" THEN Recorded(t) - 1 ELSE Recorded(t)
    /\ mapTid[t] = IF AtSlot(t) THEN Recorded(t) + 1 ELSE Recorded(t)
CountInv == \A t \in Thread : Counted(t)

(* The slots a thread has not reached are as the driver wrote them. *)
Pristine(t) ==
    \A k \in 1..M :
        \/ k <= Recorded(t)
        \/ k = Recorded(t) + 1 /\ AtSlot(t)
        \/ kpYield[Slot(t, k)] = sched.kp[Slot(t, k)]
YieldInv == \A t \in Thread : Pristine(t)

(* What t will do, and when: the yields left in front of it bridge the     *)
(* distance between the clock and the period in which it is due.           *)
Arrival(t) ==
    CASE pc[t] = "check" -> Earliest(t) + kpYield[idx[t]]
      [] pc[t] = "yielded" -> Earliest(t) + kpYield[idx[t]] - 1
      [] OTHER -> Earliest(t)
Target(t) == sched.period[t][IF AtSlot(t) THEN Recorded(t) + 1 ELSE Recorded(t)]

Punctual(t) ==
    /\ wake[t] <= now + 1
    /\ pc[t] = "yielded" => kpYield[idx[t]] > 0
    /\ Arrival(t) >= Target(t)
    /\ pc[t] \notin {"check", "yielded"} => Target(t) <= now
    /\ overruns = 0 =>
          /\ pc[t] # "done" => Arrival(t) = Target(t)
          /\ ~Awake(t) => pc[t] = "yielded"
          /\ sched.period[t][ran[t]] <= now
ClockInv == \A t \in Thread : Punctual(t)

(* Order numbers already drawn, stored or still in the local kp_order. *)
Drawn(t) == IF pc[t] = "store" THEN Recorded(t) + 1 ELSE Recorded(t)
Order(t, k) == IF k <= Recorded(t) THEN kpOrder[Slot(t, k)] ELSE kp_order[t]

OrderInv ==
    overruns = 0 =>
        \A t \in Thread : \A i \in 1..Drawn(t) :
            /\ Order(t, i) < curSyncOrder
            /\ sched.period[t][i] <= now
            /\ \A u \in Thread : \A j \in 1..Drawn(u) :
                  sched.period[t][i] < sched.period[u][j] => Order(t, i) < Order(u, j)

(* Counters, yields, clock and order numbers of instr_LOC_string fit       *)
(* together in every state (DBDSFunction.cpp 564-617).                     *)
RunInv == CountInv /\ YieldInv /\ ClockInv /\ OrderInv

-----------------------------------------------------------------------------
(* What the runtime implements, with the clock and the key points as they  *)
(* are: the periods that pass are the kernel's, not the threads' own.      *)
Returned == {t \in Thread : pc[t] = "done"}
Scheduled == INSTANCE ScheduledRun
    WITH period <- sched.period, returned <- Returned, late <- overruns # 0

(* A run of the instrumented program follows the schedule the driver gave  *)
(* it, period by period (tool/DBDS/README.md 158-215).                     *)
RunsSchedule == Scheduled!Spec
=============================================================================
