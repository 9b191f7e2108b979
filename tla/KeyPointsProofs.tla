-------------------------- MODULE KeyPointsProofs ---------------------------
(***************************************************************************)
(* The schedule properties of the key point runtime for any number of      *)
(* threads and key points, any schedule and any paths that fit into it;    *)
(* then that the records a thread leaves in shared memory are complete,    *)
(* bounded and in its own order.                                           *)
(***************************************************************************)
EXTENDS KeyPoints, SequenceTheorems, FunctionTheorems, FiniteSetTheorems, TLAPS

(* The rows of two threads do not overlap, and all lie below End.          *)
LEMMA SlotArithmetic ==
    /\ \A t \in Thread : Orig(t) \in Nat /\ Orig(t) + M <= End
    /\ \A t \in Thread : \A k \in Int : Slot(t, k) = Orig(t) + k - 1
    /\ End \in Nat
<1> USE SizeAssumption
<1>1. \A t \in Thread : Orig(t) = (t - 1) * M /\ (t - 1) * M \in Nat
  BY DEF Orig, Slot, Thread
<1>2. ASSUME NEW t \in Thread PROVE Orig(t) + M <= End
  <2>1. (t - 1) * M + M = t * M
    BY DEF Thread
  <2>2. t \in Nat /\ N - t \in Nat /\ (N - t) * M \in Nat
    BY DEF Thread
  <2>3. N * M = t * M + (N - t) * M
    BY <2>2
  <2>4. t * M \in Nat /\ N * M \in Nat
    BY <2>2
  <2> QED
    BY <1>1, <2>1, <2>2, <2>3, <2>4 DEF End
<1>3. ASSUME NEW t \in Thread, NEW k \in Int PROVE Slot(t, k) = Orig(t) + k - 1
  BY <1>1 DEF Slot, Thread
<1>4. End \in Nat
  BY DEF End
<1> QED
  BY <1>1, <1>2, <1>3, <1>4

LEMMA RowsDisjoint ==
    ASSUME NEW t \in Thread, NEW u \in Thread, NEW i \in 1..M, NEW j \in 1..M,
           Slot(t, i) = Slot(u, j)
    PROVE  t = u /\ i = j
<1> USE SizeAssumption
<1>1. ASSUME NEW a \in Thread, NEW b \in Thread, a < b PROVE Orig(a) + M <= Orig(b)
  <2>1. b - 1 - a \in Nat /\ (b - 1 - a) * M \in Nat
    BY <1>1 DEF Thread
  <2>2. (b - 1) * M = (a - 1) * M + M + (b - 1 - a) * M
    BY DEF Thread
  <2>3. (a - 1) * M \in Nat /\ (b - 1) * M \in Nat
    BY DEF Thread
  <2>4. Orig(a) = (a - 1) * M /\ Orig(b) = (b - 1) * M
    BY DEF Orig, Slot, Thread
  <2> QED
    BY <2>1, <2>2, <2>3, <2>4
<1>2. Orig(t) + i = Orig(u) + j /\ Orig(t) \in Nat /\ Orig(u) \in Nat
  BY SlotArithmetic
<1>3. ~(t < u) /\ ~(u < t)
  BY <1>1, <1>2
<1>4. t = u
  BY <1>3 DEF Thread
<1> QED
  BY <1>2, <1>4
-----------------------------------------------------------------------------
(* TypeOK without the bounds that only PathsFit gives. *)
Types ==
    /\ sched \in Schedules
    /\ path \in [Thread -> Seq(Hash)]
    /\ pc \in [Thread -> PC]
    /\ idx \in [Thread -> Nat]
    /\ kpYield \in [Slots -> Nat]
    /\ kpLoc \in [Slots -> Hash \cup {0}]
    /\ kpOrder \in [Slots -> Nat]
    /\ curSyncOrder \in Nat \ {0}
    /\ kp_order \in [Thread -> Nat]
    /\ mapTid \in [Thread -> Nat]
    /\ ran \in [Thread -> Nat]
    /\ now \in Nat
    /\ wake \in [Thread -> Nat]
    /\ overruns \in 0..MaxOverruns

LEMMA TypesInit == ASSUME Init PROVE Types
<1>1. \A t \in Thread : Orig(t) \in Nat
  BY SlotArithmetic
<1>2. sched \in Schedules /\ path \in [Thread -> Seq(Hash)]
  BY PathAssumption DEF Init
<1>3. kpYield \in [Slots -> Nat]
  BY <1>2, ScheduleAssumption DEF Init, IsSchedule
<1>4. pc \in [Thread -> PC]
  BY DEF Init, PC
<1> QED
  BY <1>1, <1>2, <1>3, <1>4, BoundAssumption DEF Init, Types

(* Heads and tails of the paths. *)
LEMMA PathFacts ==
    ASSUME Types, NEW t \in Thread
    PROVE  /\ Len(path[t]) \in Nat
           /\ path[t] # <<>> =>
                 /\ Len(path[t]) > 0
                 /\ Head(path[t]) \in Hash
                 /\ Tail(path[t]) \in Seq(Hash)
                 /\ Len(Tail(path[t])) = Len(path[t]) - 1
<1>1. path[t] \in Seq(Hash)
  BY DEF Types
<1>2. Len(path[t]) \in Nat
  BY <1>1, LenProperties
<1>3. path[t] # <<>> => Len(path[t]) \in Nat \ {0}
  BY <1>1, EmptySeq
<1>4. path[t] # <<>> =>
        /\ Head(path[t]) \in Hash
        /\ Tail(path[t]) \in Seq(Hash)
        /\ Len(Tail(path[t])) = Len(path[t]) - 1
  BY <1>1, HeadTailProperties
<1> QED
  BY <1>2, <1>3, <1>4

LEMMA TypesStep == ASSUME Types, CountInv, [Next]_vars PROVE Types'
<1> USE DEF Go, arrays, kernel
<1>1. ASSUME NEW t \in Thread, Skip(t) PROVE Types'
  BY <1>1, BoundAssumption DEF Skip, Types, PC
<1>2. ASSUME NEW t \in Thread, Enter(t) PROVE Types'
  BY <1>2, BoundAssumption DEF Enter, Types, PC
<1>3. ASSUME NEW t \in Thread, Yield(t) PROVE Types'
  BY <1>3, BoundAssumption DEF Yield, Types, PC
<1>4. ASSUME NEW t \in Thread, Decrement(t) PROVE Types'
  <2>1. kpYield' \in [Slots -> Nat]
    <3> DEFINE y == IF kpYield[idx[t]] = 0 THEN UnsignedMax ELSE kpYield[idx[t]] - 1
    <3>1. kpYield' = [kpYield EXCEPT ![idx[t]] = y]
      BY <1>4 DEF Decrement
    <3>2. idx[t] \in Slots => y \in Nat
      BY BoundAssumption DEF Types
    <3> HIDE DEF y
    <3> QED
      BY <3>1, <3>2 DEF Types
  <2> QED
    BY <1>4, <2>1, BoundAssumption DEF Decrement, Types, PC
<1>5. ASSUME NEW t \in Thread, NoYieldLeft(t) PROVE Types'
  BY <1>5, BoundAssumption DEF NoYieldLeft, Types, PC
<1>6. ASSUME NEW t \in Thread, RecordLoc(t) PROVE Types'
  <2>1. path[t] # <<>>
    BY <1>6 DEF RecordLoc, CountInv, Counted
  <2> QED
    BY <1>6, <2>1, PathFacts, BoundAssumption DEF RecordLoc, Types, PC
<1>7. ASSUME NEW t \in Thread, FetchOrder(t) PROVE Types'
  BY <1>7, BoundAssumption DEF FetchOrder, Types, PC
<1>8. ASSUME NEW t \in Thread, StoreOrder(t) PROVE Types'
  <2> DEFINE i == IF idx[t] >= Orig(t) + M THEN End ELSE idx[t] + 1
  <2>0. i \in Nat
    <3>1. idx[t] \in Nat /\ End \in Nat
      BY SlotArithmetic DEF Types
    <3> QED
      BY <3>1
  <2>1. idx' = [idx EXCEPT ![t] = i]
    BY <1>8 DEF StoreOrder
  <2> HIDE DEF i
  <2>2. idx' \in [Thread -> Nat]
    BY <2>0, <2>1 DEF Types
  <2> QED
    BY <1>8, <2>2, BoundAssumption DEF StoreOrder, Types, PC
<1>9. ASSUME NEW t \in Thread, Execute(t) PROVE Types'
  <2>1. path[t] # <<>>
    BY <1>9 DEF Execute, CountInv, Counted
  <2> QED
    BY <1>9, <2>1, PathFacts, BoundAssumption DEF Execute, Types, PC
<1>10. ASSUME NEW t \in Thread, ExecuteSkipped(t) PROVE Types'
  <2>1. path[t] # <<>>
    BY <1>10 DEF ExecuteSkipped, CountInv, Counted
  <2> QED
    BY <1>10, <2>1, PathFacts, BoundAssumption DEF ExecuteSkipped, Types, PC
<1>11. ASSUME NEW t \in Thread, Return(t) PROVE Types'
  BY <1>11, BoundAssumption DEF Return, Types, PC
<1>12. ASSUME NEW t \in Thread, Throttle(t) PROVE Types'
  BY <1>12, BoundAssumption DEF Throttle, Types, PC
<1>13. CASE Tick
  BY <1>13 DEF Tick, Types
<1>14. CASE UNCHANGED vars
  BY <1>14 DEF vars, Types
<1> QED
  BY <1>1, <1>2, <1>3, <1>4, <1>5, <1>6, <1>7, <1>8, <1>9, <1>10, <1>11,
     <1>12, <1>13, <1>14 DEF Next, ThreadStep

-----------------------------------------------------------------------------
(* What the schedule and the counters say about one thread. *)
LEMMA ScheduleFacts ==
    ASSUME Types, NEW t \in Thread
    PROVE  /\ \A k \in 0..M : sched.period[t][k] \in Nat
           /\ sched.period[t][0] = 0
           /\ \A k \in 1..M :
                 /\ sched.period[t][k] = sched.period[t][k-1] + sched.kp[Slot(t, k)]
                 /\ sched.kp[Slot(t, k)] \in Nat
<1>1. IsSchedule(sched)
  BY ScheduleAssumption DEF Types
<1>2. \A k \in 1..M : Slot(t, k) \in Slots
  BY SlotArithmetic, SizeAssumption DEF Slots
<1> QED
  BY <1>1, <1>2 DEF IsSchedule

LEMMA CountFacts ==
    ASSUME Types, CountInv, NEW t \in Thread
    PROVE  /\ Recorded(t) \in 0..M /\ idx[t] = Orig(t) + Recorded(t)
           /\ idx[t] \in Slots
           /\ idx[t] = Slot(t, Recorded(t) + 1)
           /\ AtSlot(t) => Recorded(t) < M
           /\ pc[t] = "op" => Recorded(t) > 0
<1>1. idx[t] \in Orig(t)..(Orig(t) + M)
  BY DEF CountInv, Counted
<1>2. Orig(t) \in Nat /\ Orig(t) + M <= End /\ M \in Nat /\ End \in Nat
  BY SlotArithmetic, SizeAssumption
<1>3. Recorded(t) \in 0..M /\ idx[t] = Orig(t) + Recorded(t) /\ idx[t] \in Slots
  BY <1>1, <1>2 DEF Recorded, Slots
<1>4. AtSlot(t) => Recorded(t) < M
  BY <1>3, PathFacts, SizeAssumption DEF CountInv, Counted, AtSlot
<1>5. idx[t] = Slot(t, Recorded(t) + 1)
  BY <1>3, SlotArithmetic
<1>6. pc[t] = "op" => Recorded(t) > 0
  BY <1>3 DEF CountInv, Counted, Types
<1> QED
  BY <1>3, <1>4, <1>5, <1>6

-----------------------------------------------------------------------------
(* A step of t, or of the kernel on behalf of t, as the other threads see  *)
(* it: their own state is the same and so are the slots of their rows.     *)
Aside(u) ==
    /\ pc'[u] = pc[u] /\ idx'[u] = idx[u] /\ path'[u] = path[u]
    /\ ran'[u] = ran[u] /\ mapTid'[u] = mapTid[u] /\ wake'[u] = wake[u]

LEMMA OtherThread ==
    ASSUME Types, CountInv, YieldInv, ClockInv,
           NEW t \in Thread, NEW u \in Thread, u # t,
           Aside(u), sched' = sched, now' = now, overruns' = 0 => overruns = 0,
           \/ kpYield' = kpYield
           \/ AtSlot(t) /\ \A s \in Slots : s # idx[t] => kpYield'[s] = kpYield[s]
    PROVE  Counted(u)' /\ Pristine(u)' /\ Punctual(u)'
<1>1. Counted(u) /\ Pristine(u) /\ Punctual(u)
  BY DEF CountInv, YieldInv, ClockInv
<1>2. Recorded(u)' = Recorded(u) /\ AtSlot(u)' = AtSlot(u)
  BY DEF Aside, Recorded, AtSlot
<1>3. Counted(u)'
  BY <1>1, <1>2 DEF Aside, Counted
<1>4. \A k \in 1..M : kpYield'[Slot(u, k)] = kpYield[Slot(u, k)]
  <2>1. \A k \in 1..M : Slot(u, k) \in Slots
    BY SlotArithmetic, SizeAssumption DEF Slots
  <2>2. AtSlot(t) => \A k \in 1..M : Slot(u, k) # idx[t]
    <3>1. AtSlot(t) => Recorded(t) + 1 \in 1..M /\ idx[t] = Slot(t, Recorded(t) + 1)
      BY CountFacts, SizeAssumption
    <3> QED
      BY <3>1, RowsDisjoint
  <2> QED
    BY <2>1, <2>2
<1>5. Pristine(u)'
  BY <1>1, <1>2, <1>4 DEF Pristine
<1>6. AtSlot(u) => kpYield'[idx[u]] = kpYield[idx[u]]
  BY <1>4, CountFacts, SizeAssumption
<1>7. Earliest(u)' = Earliest(u) /\ Awake(u)' = Awake(u)
  BY DEF Aside, Earliest, Awake
<1>8. Arrival(u)' = Arrival(u)
  BY <1>6, <1>7 DEF Aside, Arrival, AtSlot
<1>9. Target(u)' = Target(u)
  BY <1>2 DEF Target
<1>10. Punctual(u)'
  BY <1>1, <1>6, <1>7, <1>8, <1>9 DEF Punctual, Aside, AtSlot
<1> QED
  BY <1>3, <1>5, <1>10

(* A step that draws no order number leaves OrderInv alone. *)
LEMMA OrderFrame ==
    ASSUME Types, OrderInv, overruns' = 0 => overruns = 0,
           sched' = sched, curSyncOrder' = curSyncOrder, now' \in {now, now + 1},
           \A u \in Thread :
              /\ Drawn(u)' = Drawn(u) /\ Drawn(u) \in 0..M
              /\ \A j \in 1..Drawn(u) : Order(u, j)' = Order(u, j)
    PROVE  OrderInv'
<1> SUFFICES ASSUME overruns' = 0, NEW t \in Thread, NEW i \in 1..Drawn(t)
             PROVE  /\ (Order(t, i) < curSyncOrder)'
                    /\ (sched.period[t][i] <= now)'
                    /\ \A u \in Thread : \A j \in 1..Drawn(u) :
                          (sched.period[t][i] < sched.period[u][j]
                            => Order(t, i) < Order(u, j))'
  BY DEF OrderInv
<1>1. /\ Order(t, i) < curSyncOrder
      /\ sched.period[t][i] <= now
      /\ \A u \in Thread : \A j \in 1..Drawn(u) :
            sched.period[t][i] < sched.period[u][j] => Order(t, i) < Order(u, j)
  BY DEF OrderInv
<1>3. sched.period[t][i] \in Nat /\ now \in Nat
  BY ScheduleFacts, SizeAssumption DEF Types
<1> QED
  BY <1>1, <1>3

LEMMA OrderUntouched ==
    ASSUME Types, OrderInv, overruns' = 0 => overruns = 0,
           sched' = sched, kpOrder' = kpOrder, curSyncOrder' = curSyncOrder,
           kp_order' = kp_order, now' \in {now, now + 1},
           \A u \in Thread : /\ Recorded(u)' = Recorded(u) /\ Drawn(u)' = Drawn(u)
                             /\ Drawn(u) \in 0..M
    PROVE  OrderInv'
<1>1. \A u \in Thread : \A j \in 1..Drawn(u) : Order(u, j)' = Order(u, j)
  BY DEF Order
<1> QED
  BY <1>1, OrderFrame

-----------------------------------------------------------------------------
(* Each step keeps RunInv: the actor's own conjuncts, then the other       *)
(* threads' (OtherThread), then the order numbers (OrderFrame).            *)
LEMMA Together ==
    ASSUME NEW t \in Thread, Counted(t)', Pristine(t)', Punctual(t)', OrderInv',
           \A u \in Thread : u # t => Counted(u)' /\ Pristine(u)' /\ Punctual(u)'
    PROVE  RunInv'
BY DEF RunInv, CountInv, YieldInv, ClockInv

(* A step of t that draws and stores no order number. *)
LEMMA QuietStep ==
    ASSUME Types, RunInv, NEW t \in Thread,
           Counted(t)', Pristine(t)', Punctual(t)',
           \A u \in Thread : u # t => Aside(u),
           Recorded(t)' = Recorded(t), Drawn(t)' = Drawn(t),
           sched' = sched, now' = now, overruns' = 0 => overruns = 0,
           UNCHANGED <<kpOrder, curSyncOrder, kp_order>>,
           \/ kpYield' = kpYield
           \/ AtSlot(t) /\ \A s \in Slots : s # idx[t] => kpYield'[s] = kpYield[s]
    PROVE  RunInv'
<1>1. CountInv /\ YieldInv /\ ClockInv /\ OrderInv
  BY DEF RunInv
<1>2. \A u \in Thread : u # t => Counted(u)' /\ Pristine(u)' /\ Punctual(u)'
  BY <1>1, OtherThread
<1>3. \A u \in Thread : Recorded(u)' = Recorded(u) /\ Drawn(u)' = Drawn(u)
  BY DEF Aside, Recorded, Drawn
<1>4. \A u \in Thread : Drawn(u) \in 0..M
  <2>1. \A u \in Thread : pc[u] = "store" => AtSlot(u)
    BY DEF AtSlot
  <2> QED
    BY <1>1, <2>1, CountFacts, SizeAssumption DEF Drawn
<1>5. OrderInv'
  BY <1>1, <1>3, <1>4, OrderUntouched
<1> QED
  BY <1>2, <1>5, Together

LEMMA ThreadStepKeeps ==
    ASSUME Types, RunInv, NEW t \in Thread, ThreadStep(t) \/ Throttle(t)
    PROVE  RunInv'
<1> USE SizeAssumption DEF arrays, kernel
<1>1. CountInv /\ YieldInv /\ ClockInv /\ OrderInv
  BY DEF RunInv
<1>2. Counted(t) /\ Pristine(t) /\ Punctual(t)
  BY <1>1 DEF CountInv, YieldInv, ClockInv
<1>3. /\ Recorded(t) \in 0..M /\ idx[t] = Orig(t) + Recorded(t) /\ idx[t] \in Slots
      /\ idx[t] = Slot(t, Recorded(t) + 1) /\ (AtSlot(t) => Recorded(t) < M)
      /\ pc[t] = "op" => Recorded(t) > 0
  BY <1>1, CountFacts
<1>4. /\ \A k \in 0..M : sched.period[t][k] \in Nat
      /\ sched.period[t][0] = 0
      /\ \A k \in 1..M :
            /\ sched.period[t][k] = sched.period[t][k-1] + sched.kp[Slot(t, k)]
            /\ sched.kp[Slot(t, k)] \in Nat
  BY ScheduleFacts
<1>5. pc[t] \in PC /\ now \in Nat /\ wake[t] \in Nat /\ overruns \in Nat
      /\ kpYield \in [Slots -> Nat] /\ ran[t] \in Nat /\ mapTid[t] \in Nat
  BY BoundAssumption DEF Types
<1>6. \A u \in Thread : Recorded(u) \in 0..M /\ Drawn(u) \in 0..M
  <2>1. \A u \in Thread : pc[u] = "store" => AtSlot(u)
    BY DEF AtSlot
  <2> QED
    BY <1>1, <2>1, CountFacts DEF Drawn
<1>7. /\ Len(path[t]) \in Nat
      /\ path[t] # <<>> => Len(path[t]) > 0 /\ Len(Tail(path[t])) = Len(path[t]) - 1
  BY PathFacts
<1>8. kpYield[idx[t]] \in Nat /\ (Awake(t) => Earliest(t) = now)
  BY <1>3, <1>5 DEF Awake, Earliest
<1>9. CASE Skip(t)
  <2>1. pc[t] = "body" /\ path[t] # <<>> /\ Awake(t) /\ pc'[t] = "skip"
    BY <1>9, <1>5 DEF Skip, Go, Types
  <2>2. /\ idx'[t] = idx[t]
        /\ path'[t] = path[t]
        /\ ran'[t] = ran[t]
        /\ mapTid'[t] = mapTid[t]
        /\ wake'[t] = wake[t]
        /\ overruns' = overruns
        /\ kpYield' = kpYield
        /\ sched' = sched /\ now' = now
    BY <1>9, <2>1, <1>2, <1>3, <1>5 DEF Skip, Go, Types, Punctual, AtSlot
  <2>3. \A u \in Thread : u # t => Aside(u)
    BY <1>9 DEF Skip, Go, Types, Aside
  <2>4. Counted(t)'
    BY <1>2, <1>3, <1>7, <2>1, <2>2 DEF Counted, Recorded, AtSlot
  <2>5. Pristine(t)'
    BY <1>2, <1>3, <2>1, <2>2 DEF Pristine, Recorded, AtSlot
  <2>6. Punctual(t)'
    BY <1>2, <1>3, <1>4, <1>5, <2>1, <2>2 DEF Punctual, Counted, Pristine, Recorded,
       AtSlot, Awake, Arrival, Target, Earliest
  <2>8. Recorded(t)' = Recorded(t) /\ Drawn(t)' = Drawn(t)
    BY <2>1, <2>2 DEF Recorded, Drawn
  <2>9. UNCHANGED <<kpOrder, curSyncOrder, kp_order>>
    BY <1>9 DEF Skip
  <2> QED
    BY <1>5, <2>1, <2>2, <2>3, <2>4, <2>5, <2>6, <2>8, <2>9, QuietStep
<1>10. CASE Enter(t)
  <2>1. pc[t] = "body" /\ path[t] # <<>> /\ Awake(t) /\ pc'[t] = "check"
    BY <1>10, <1>5 DEF Enter, Go, Types
  <2>2. /\ idx'[t] = idx[t]
        /\ path'[t] = path[t]
        /\ ran'[t] = ran[t]
        /\ mapTid'[t] = mapTid[t] + 1
        /\ wake'[t] = wake[t]
        /\ overruns' = overruns
        /\ kpYield' = kpYield
        /\ sched' = sched /\ now' = now
    BY <1>10, <2>1, <1>2, <1>3, <1>5 DEF Enter, Go, Types, Punctual, AtSlot
  <2>3. \A u \in Thread : u # t => Aside(u)
    BY <1>10 DEF Enter, Go, Types, Aside
  <2>4. Counted(t)'
    BY <1>2, <1>3, <1>7, <2>1, <2>2 DEF Counted, Recorded, AtSlot
  <2>5. Pristine(t)'
    BY <1>2, <1>3, <2>1, <2>2 DEF Pristine, Recorded, AtSlot
  <2>6. Punctual(t)'
    <3> DEFINE k == Recorded(t) + 1
    <3>1. k \in 1..M /\ idx[t] = Slot(t, k) /\ ~AtSlot(t)
      BY <1>2, <1>3, <1>7, <2>1 DEF Counted, AtSlot
    <3>2. sched.period[t][k] = sched.period[t][k - 1] + kpYield[idx[t]] /\ k - 1 = Recorded(t)
      BY <1>2, <1>3, <1>4, <3>1 DEF Pristine
    <3>3. Arrival(t) = now /\ Target(t) = sched.period[t][k - 1]
      BY <1>8, <2>1, <3>1, <3>2 DEF Arrival, Target
    <3>4. Recorded(t)' = Recorded(t) /\ AtSlot(t)' /\ Earliest(t)' = Earliest(t) /\ Awake(t)'
      BY <2>1, <2>2 DEF Recorded, AtSlot, Earliest, Awake
    <3>5. Arrival(t)' = now + kpYield[idx[t]] /\ Target(t)' = sched.period[t][k]
      BY <1>8, <2>1, <2>2, <3>4 DEF Arrival, Target
    <3>6. sched.period[t][k - 1] \in Nat /\ sched.period[t][k] \in Nat
      BY <1>4, <3>1, <3>2
    <3> HIDE DEF k
    <3> QED
      BY <1>2, <1>5, <1>8, <2>1, <2>2, <3>2, <3>3, <3>4, <3>5, <3>6 DEF Punctual
  <2>8. Recorded(t)' = Recorded(t) /\ Drawn(t)' = Drawn(t)
    BY <2>1, <2>2 DEF Recorded, Drawn
  <2>9. UNCHANGED <<kpOrder, curSyncOrder, kp_order>>
    BY <1>10 DEF Enter
  <2> QED
    BY <1>5, <2>1, <2>2, <2>3, <2>4, <2>5, <2>6, <2>8, <2>9, QuietStep
<1>11. CASE Yield(t)
  <2>1. pc[t] = "check" /\ Awake(t) /\ pc'[t] = "yielded" /\ kpYield[idx[t]] > 0
    BY <1>11, <1>5 DEF Yield, Go, Types
  <2>2. /\ idx'[t] = idx[t]
        /\ path'[t] = path[t]
        /\ ran'[t] = ran[t]
        /\ mapTid'[t] = mapTid[t]
        /\ wake'[t] = now + 1
        /\ overruns' = overruns
        /\ kpYield' = kpYield
        /\ sched' = sched /\ now' = now
    BY <1>11, <2>1, <1>2, <1>3, <1>5 DEF Yield, Go, Types, Punctual, AtSlot
  <2>3. \A u \in Thread : u # t => Aside(u)
    BY <1>11 DEF Yield, Go, Types, Aside
  <2>4. Counted(t)'
    BY <1>2, <1>3, <1>7, <2>1, <2>2 DEF Counted, Recorded, AtSlot
  <2>5. Pristine(t)'
    BY <1>2, <1>3, <2>1, <2>2 DEF Pristine, Recorded, AtSlot
  <2>6. Punctual(t)'
    <3>1. Arrival(t) = now + kpYield[idx[t]]
      BY <1>8, <2>1 DEF Arrival
    <3>2. Arrival(t)' = Arrival(t) /\ ~Awake(t)'
      BY <1>5, <1>8, <2>1, <2>2, <3>1 DEF Arrival, Earliest, Awake
    <3>3. Target(t)' = Target(t)
      BY <2>1, <2>2 DEF Target, AtSlot, Recorded
    <3> QED
      BY <1>2, <1>5, <2>1, <2>2, <3>2, <3>3 DEF Punctual
  <2>8. Recorded(t)' = Recorded(t) /\ Drawn(t)' = Drawn(t)
    BY <2>1, <2>2 DEF Recorded, Drawn
  <2>9. UNCHANGED <<kpOrder, curSyncOrder, kp_order>>
    BY <1>11 DEF Yield
  <2> QED
    BY <1>5, <2>1, <2>2, <2>3, <2>4, <2>5, <2>6, <2>8, <2>9, QuietStep
<1>12. CASE Decrement(t)
  <2>1. pc[t] = "yielded" /\ Awake(t) /\ pc'[t] = "check"
    BY <1>12, <1>5 DEF Decrement, Go, Types
  <2>2. /\ idx'[t] = idx[t]
        /\ path'[t] = path[t]
        /\ ran'[t] = ran[t]
        /\ mapTid'[t] = mapTid[t]
        /\ wake'[t] = wake[t]
        /\ overruns' = overruns
        /\ kpYield'[idx[t]] = kpYield[idx[t]] - 1
        /\ sched' = sched /\ now' = now
    BY <1>12, <2>1, <1>2, <1>3, <1>5 DEF Decrement, Go, Types, Punctual, AtSlot
  <2>3. \A u \in Thread : u # t => Aside(u)
    BY <1>12 DEF Decrement, Go, Types, Aside
  <2>4. Counted(t)'
    BY <1>2, <1>3, <1>7, <2>1, <2>2 DEF Counted, Recorded, AtSlot
  <2>5. Pristine(t)'
    <3>1. \A s \in Slots : s # idx[t] => kpYield'[s] = kpYield[s]
      BY <1>12, <1>5 DEF Decrement
    <3>2. ASSUME NEW k \in 1..M, k # Recorded(t) + 1
          PROVE  kpYield'[Slot(t, k)] = kpYield[Slot(t, k)]
      <4>1. Slot(t, k) # idx[t] /\ Slot(t, k) \in Slots
        BY <1>3, <3>2, SlotArithmetic DEF Slots
      <4> QED
        BY <3>1, <4>1
    <3>3. Recorded(t)' = Recorded(t) /\ AtSlot(t) /\ AtSlot(t)'
      BY <2>1, <2>2 DEF Recorded, AtSlot
    <3> QED
      BY <1>2, <1>3, <2>2, <3>2, <3>3 DEF Pristine
  <2>6. Punctual(t)'
    BY <1>2, <1>3, <1>4, <1>5, <2>1, <2>2 DEF Punctual, Counted, Pristine, Recorded,
       AtSlot, Awake, Arrival, Target, Earliest
  <2>7. AtSlot(t) /\ \A s \in Slots : s # idx[t] => kpYield'[s] = kpYield[s]
    BY <1>12, <2>1, <1>5 DEF Decrement, AtSlot
  <2>8. Recorded(t)' = Recorded(t) /\ Drawn(t)' = Drawn(t)
    BY <2>1, <2>2 DEF Recorded, Drawn
  <2>9. UNCHANGED <<kpOrder, curSyncOrder, kp_order>>
    BY <1>12 DEF Decrement
  <2> QED
    BY <1>5, <2>1, <2>2, <2>3, <2>4, <2>5, <2>6, <2>7, <2>8, <2>9, QuietStep
<1>13. CASE NoYieldLeft(t)
  <2>1. pc[t] = "check" /\ Awake(t) /\ pc'[t] = "record" /\ kpYield[idx[t]] = 0
    BY <1>13, <1>5 DEF NoYieldLeft, Go, Types
  <2>2. /\ idx'[t] = idx[t]
        /\ path'[t] = path[t]
        /\ ran'[t] = ran[t]
        /\ mapTid'[t] = mapTid[t]
        /\ wake'[t] = wake[t]
        /\ overruns' = overruns
        /\ kpYield' = kpYield
        /\ sched' = sched /\ now' = now
    BY <1>13, <2>1, <1>2, <1>3, <1>5 DEF NoYieldLeft, Go, Types, Punctual, AtSlot
  <2>3. \A u \in Thread : u # t => Aside(u)
    BY <1>13 DEF NoYieldLeft, Go, Types, Aside
  <2>4. Counted(t)'
    BY <1>2, <1>3, <1>7, <2>1, <2>2 DEF Counted, Recorded, AtSlot
  <2>5. Pristine(t)'
    BY <1>2, <1>3, <2>1, <2>2 DEF Pristine, Recorded, AtSlot
  <2>6. Punctual(t)'
    <3>1. Arrival(t) = now /\ Arrival(t)' = now /\ Awake(t)'
      BY <1>5, <1>8, <2>1, <2>2 DEF Arrival, Earliest, Awake
    <3>2. Target(t)' = Target(t)
      BY <2>1, <2>2 DEF Target, AtSlot, Recorded
    <3>3. now >= Target(t)
      BY <1>2, <3>1 DEF Punctual
    <3> QED
      BY <1>2, <1>5, <2>1, <2>2, <3>1, <3>2, <3>3 DEF Punctual
  <2>8. Recorded(t)' = Recorded(t) /\ Drawn(t)' = Drawn(t)
    BY <2>1, <2>2 DEF Recorded, Drawn
  <2>9. UNCHANGED <<kpOrder, curSyncOrder, kp_order>>
    BY <1>13 DEF NoYieldLeft
  <2> QED
    BY <1>5, <2>1, <2>2, <2>3, <2>4, <2>5, <2>6, <2>8, <2>9, QuietStep
<1>14. CASE RecordLoc(t)
  <2>1. pc[t] = "record" /\ Awake(t) /\ pc'[t] = "order"
    BY <1>14, <1>5 DEF RecordLoc, Go, Types
  <2>2. /\ idx'[t] = idx[t]
        /\ path'[t] = path[t]
        /\ ran'[t] = ran[t]
        /\ mapTid'[t] = mapTid[t]
        /\ wake'[t] = wake[t]
        /\ overruns' = overruns
        /\ kpYield' = kpYield
        /\ sched' = sched /\ now' = now
    BY <1>14, <2>1, <1>2, <1>3, <1>5 DEF RecordLoc, Go, Types, Punctual, AtSlot
  <2>3. \A u \in Thread : u # t => Aside(u)
    BY <1>14 DEF RecordLoc, Go, Types, Aside
  <2>4. Counted(t)'
    BY <1>2, <1>3, <1>7, <2>1, <2>2 DEF Counted, Recorded, AtSlot
  <2>5. Pristine(t)'
    BY <1>2, <1>3, <2>1, <2>2 DEF Pristine, Recorded, AtSlot
  <2>6. Punctual(t)'
    BY <1>2, <1>3, <1>4, <1>5, <2>1, <2>2 DEF Punctual, Counted, Pristine, Recorded,
       AtSlot, Awake, Arrival, Target, Earliest
  <2>8. Recorded(t)' = Recorded(t) /\ Drawn(t)' = Drawn(t)
    BY <2>1, <2>2 DEF Recorded, Drawn
  <2>9. UNCHANGED <<kpOrder, curSyncOrder, kp_order>>
    BY <1>14 DEF RecordLoc
  <2> QED
    BY <1>5, <2>1, <2>2, <2>3, <2>4, <2>5, <2>6, <2>8, <2>9, QuietStep
<1>15. CASE FetchOrder(t)
  <2>1. pc[t] = "order" /\ Awake(t) /\ pc'[t] = "store"
    BY <1>15, <1>5 DEF FetchOrder, Go, Types
  <2>2. /\ idx'[t] = idx[t]
        /\ path'[t] = path[t]
        /\ ran'[t] = ran[t]
        /\ mapTid'[t] = mapTid[t]
        /\ wake'[t] = wake[t]
        /\ overruns' = overruns
        /\ kpYield' = kpYield
        /\ sched' = sched /\ now' = now
    BY <1>15, <2>1, <1>2, <1>3, <1>5 DEF FetchOrder, Go, Types, Punctual, AtSlot
  <2>3. \A u \in Thread : u # t => Aside(u)
    BY <1>15 DEF FetchOrder, Go, Types, Aside
  <2>4. Counted(t)'
    BY <1>2, <1>3, <1>7, <2>1, <2>2 DEF Counted, Recorded, AtSlot
  <2>5. Pristine(t)'
    BY <1>2, <1>3, <2>1, <2>2 DEF Pristine, Recorded, AtSlot
  <2>6. Punctual(t)'
    BY <1>2, <1>3, <1>4, <1>5, <2>1, <2>2 DEF Punctual, Counted, Pristine, Recorded,
       AtSlot, Awake, Arrival, Target, Earliest
  <2>8. \A u \in Thread : u # t => Counted(u)' /\ Pristine(u)' /\ Punctual(u)'
    BY <1>1, <1>5, <2>1, <2>2, <2>3, OtherThread
  <2>9. OrderInv'
    <3> SUFFICES ASSUME overruns = 0,
                        NEW v \in Thread, NEW i \in 1..(Drawn(v)')
                 PROVE  /\ (Order(v, i) < curSyncOrder)'
                        /\ (sched.period[v][i] <= now)'
                        /\ \A u \in Thread : \A j \in 1..(Drawn(u)') :
                              (sched.period[v][i] < sched.period[u][j]
                                => Order(v, i) < Order(u, j))'
      BY <2>2 DEF OrderInv
    <3>1. /\ curSyncOrder' = curSyncOrder + 1 /\ kpOrder' = kpOrder
          /\ kp_order' = [kp_order EXCEPT ![t] = curSyncOrder]
          /\ curSyncOrder \in Nat /\ kp_order \in [Thread -> Nat]
      BY <1>15 DEF FetchOrder, Types
    <3>2. PICK r \in 1..M : r = Recorded(t) + 1
      BY <1>3, <2>1 DEF AtSlot
    <3>3. /\ \A u \in Thread : Recorded(u)' = Recorded(u)
          /\ \A u \in Thread : u # t => Drawn(u)' = Drawn(u)
          /\ Drawn(t) = r - 1 /\ Drawn(t)' = r
      BY <2>1, <2>2, <2>3, <3>2, <1>3 DEF Aside, Recorded, Drawn
    <3>4. \A u \in Thread : \A j \in 1..Drawn(u) : Order(u, j)' = Order(u, j)
      <4> SUFFICES ASSUME NEW u \in Thread, NEW j \in 1..Drawn(u)
                   PROVE  Order(u, j)' = Order(u, j)
        OBVIOUS
      <4>1. u = t => j <= Recorded(u)
        BY <1>3, <3>2, <3>3
      <4>2. u # t => kp_order'[u] = kp_order[u]
        BY <3>1
      <4> QED
        BY <3>1, <3>3, <4>1, <4>2 DEF Order
    <3>5. Order(t, r)' = curSyncOrder
      BY <3>1, <3>2, <3>3, <1>3 DEF Order
    <3>6. sched.period[t][r] = now
      <4>1. Arrival(t) = now /\ Target(t) = sched.period[t][r]
        BY <1>8, <2>1, <3>2 DEF Arrival, Target, AtSlot
      <4> QED
        BY <1>2, <2>1, <4>1 DEF Punctual
    <3>7. \A u \in Thread : \A j \in 1..(Drawn(u)') : (u = t /\ j = r) \/ j \in 1..Drawn(u)
      BY <3>3
    <3>8. \A u \in Thread : \A j \in 1..Drawn(u) :
             /\ Order(u, j) < curSyncOrder /\ sched.period[u][j] <= now
             /\ \A w \in Thread : \A k \in 1..Drawn(w) :
                   sched.period[u][j] < sched.period[w][k] => Order(u, j) < Order(w, k)
      BY <1>1 DEF OrderInv
    <3>9. \A u \in Thread : \A j \in 1..Drawn(u) : Order(u, j) \in Int /\ j \in 1..M
      <4> SUFFICES ASSUME NEW u \in Thread, NEW j \in 1..Drawn(u)
                   PROVE  Order(u, j) \in Int /\ j \in 1..M
        OBVIOUS
      <4>1. j \in 1..M
        BY <1>6
      <4>2. Slot(u, j) \in Slots
        BY <4>1, SlotArithmetic DEF Slots
      <4> QED
        BY <4>1, <4>2 DEF Order, Types
    <3>10. \A u \in Thread : \A j \in 1..M : sched.period[u][j] \in Nat
      BY ScheduleFacts
    <3>11. CASE v = t /\ i = r
      <4>1. (Order(v, i) < curSyncOrder)' /\ (sched.period[v][i] <= now)'
        BY <1>5, <2>2, <3>1, <3>5, <3>6, <3>11
      <4>2. \A u \in Thread : \A j \in 1..(Drawn(u)') : sched.period[u][j] <= now
        BY <1>5, <3>6, <3>7, <3>8
      <4>3. \A u \in Thread : \A j \in 1..(Drawn(u)') : j \in 1..M
        BY <3>7, <3>9
      <4> QED
        BY <1>5, <2>2, <3>6, <3>10, <3>11, <4>1, <4>2, <4>3
    <3>12. CASE i \in 1..Drawn(v)
      <4>1. (Order(v, i) < curSyncOrder)' /\ (sched.period[v][i] <= now)'
        BY <2>2, <3>1, <3>4, <3>8, <3>9, <3>12
      <4>2. ASSUME NEW u \in Thread, NEW j \in 1..(Drawn(u)')
            PROVE  (sched.period[v][i] < sched.period[u][j] => Order(v, i) < Order(u, j))'
        <5>1. CASE u = t /\ j = r
          BY <3>4, <3>5, <3>8, <3>12, <5>1
        <5>2. CASE j \in 1..Drawn(u)
          BY <2>2, <3>4, <3>8, <3>12, <5>2
        <5> QED
          BY <3>7, <5>1, <5>2
      <4> QED
        BY <4>1, <4>2
    <3> QED
      BY <3>7, <3>11, <3>12
  <2> QED
    BY <2>4, <2>5, <2>6, <2>8, <2>9, Together
<1>16. CASE StoreOrder(t)
  <2>1. pc[t] = "store" /\ Awake(t) /\ pc'[t] = "op"
    BY <1>16, <1>5 DEF StoreOrder, Go, Types
  <2>2. /\ idx'[t] = idx[t] + 1
        /\ path'[t] = path[t]
        /\ ran'[t] = ran[t]
        /\ mapTid'[t] = mapTid[t]
        /\ wake'[t] = wake[t]
        /\ overruns' = overruns
        /\ kpYield' = kpYield
        /\ sched' = sched /\ now' = now
    <3>1. Recorded(t) < M /\ ~(idx[t] >= Orig(t) + M) /\ idx[t] + 1 \in Nat
      BY <1>3, <2>1, SlotArithmetic DEF AtSlot
    <3>2. idx'[t] = IF idx[t] >= Orig(t) + M THEN End ELSE idx[t] + 1
      BY <1>16 DEF StoreOrder, Types
    <3> QED
      BY <1>16, <3>1, <3>2 DEF StoreOrder
  <2>3. \A u \in Thread : u # t => Aside(u)
    BY <1>16 DEF StoreOrder, Go, Types, Aside
  <2>a. /\ Recorded(t) < M /\ AtSlot(t) /\ ~AtSlot(t)' /\ Recorded(t)' = Recorded(t) + 1
        /\ path[t] # <<>>
    <3>1. AtSlot(t) /\ ~AtSlot(t)'
      BY <2>1 DEF AtSlot
    <3>2. Recorded(t)' = Recorded(t) + 1
      BY <1>3, <2>2, SlotArithmetic DEF Recorded
    <3>3. path[t] # <<>>
      BY <1>2, <2>1 DEF Counted
    <3> QED
      BY <1>3, <3>1, <3>2, <3>3
  <2>4. Counted(t)'
    <3>1. idx'[t] \in Orig(t)..(Orig(t) + M)
      <4>1. Orig(t) \in Nat /\ Recorded(t) \in 0..M /\ Recorded(t) < M /\ M \in Nat
        BY <1>3, <2>a, SlotArithmetic
      <4>2. idx'[t] = Orig(t) + Recorded(t) + 1
        BY <1>3, <2>2, <4>1
      <4> QED
        BY <4>1, <4>2
    <3>2. Recorded(t)' + Len(path[t]) <= M + 1
      BY <1>2, <1>3, <1>7, <2>1, <2>a DEF Counted
    <3>3. ran[t] = Recorded(t) /\ mapTid[t] = Recorded(t) + 1
      BY <1>2, <2>1, <2>a DEF Counted
    <3> QED
      BY <1>3, <2>1, <2>2, <2>a, <3>1, <3>2, <3>3 DEF Counted
  <2>5. Pristine(t)'
    BY <1>2, <1>3, <2>2, <2>a DEF Pristine
  <2>6. Punctual(t)'
    <3>1. Arrival(t) = now /\ Arrival(t)' = now /\ Awake(t)'
      BY <1>5, <1>8, <2>1, <2>2 DEF Arrival, Earliest, Awake
    <3>2. Target(t)' = Target(t)
      BY <2>2, <2>a DEF Target
    <3>3. ran[t] = Recorded(t)
      BY <1>2, <2>1 DEF Counted
    <3> QED
      BY <1>2, <1>5, <2>1, <2>2, <3>1, <3>2 DEF Punctual
  <2>8. \A u \in Thread : u # t => Counted(u)' /\ Pristine(u)' /\ Punctual(u)'
    BY <1>1, <1>5, <2>1, <2>2, <2>3, OtherThread
  <2>9. OrderInv'
    <3>1. /\ kpOrder' = [kpOrder EXCEPT ![idx[t]] = kp_order[t]]
          /\ curSyncOrder' = curSyncOrder /\ kp_order' = kp_order
          /\ kpOrder \in [Slots -> Nat]
      BY <1>16 DEF StoreOrder, Types
    <3>2. PICK r \in 1..M : r = Recorded(t) + 1 /\ idx[t] = Slot(t, r)
      BY <1>3, <2>a
    <3>3. /\ \A u \in Thread : Drawn(u)' = Drawn(u)
          /\ \A u \in Thread : u # t => Recorded(u)' = Recorded(u)
      BY <2>1, <2>2, <2>3, <2>a DEF Aside, Recorded, Drawn
    <3>4. ASSUME NEW u \in Thread, NEW j \in 1..Drawn(u)
          PROVE  Order(u, j)' = Order(u, j)
      <4>1. j \in 1..M
        BY <1>6
      <4>2. Slot(u, j) \in Slots
        BY <4>1, SlotArithmetic DEF Slots
      <4>3. CASE u = t /\ j = r
        BY <1>3, <2>a, <3>1, <3>2, <4>2, <4>3 DEF Order
      <4>4. CASE ~(u = t /\ j = r)
        <5>1. kpOrder'[Slot(u, j)] = kpOrder[Slot(u, j)]
          BY <3>1, <3>2, <4>1, <4>2, <4>4, RowsDisjoint
        <5>2. u = t => j <= Recorded(t)
          <6>1. Drawn(t) = r
            BY <2>1, <3>2 DEF Drawn
          <6> QED
            BY <1>3, <3>2, <4>1, <4>4, <6>1
        <5>3. u = t => j <= Recorded(t)'
          BY <1>3, <2>a, <4>1, <5>2
        <5> QED
          BY <3>1, <3>3, <5>1, <5>2, <5>3 DEF Order
      <4> QED
        BY <4>3, <4>4
    <3> QED
      BY <1>1, <1>5, <1>6, <2>2, <3>1, <3>3, <3>4, OrderFrame
  <2> QED
    BY <2>4, <2>5, <2>6, <2>8, <2>9, Together
<1>17. CASE Execute(t)
  <2>1. pc[t] = "op" /\ Awake(t) /\ pc'[t] = "body"
    BY <1>17, <1>5 DEF Execute, Go, Types
  <2>2. /\ idx'[t] = idx[t]
        /\ path'[t] = Tail(path[t])
        /\ ran'[t] = ran[t] + 1
        /\ mapTid'[t] = mapTid[t]
        /\ wake'[t] = wake[t]
        /\ overruns' = overruns
        /\ kpYield' = kpYield
        /\ sched' = sched /\ now' = now
    BY <1>17, <2>1, <1>2, <1>3, <1>5 DEF Execute, Go, Types, Punctual, AtSlot
  <2>3. \A u \in Thread : u # t => Aside(u)
    BY <1>17 DEF Execute, Go, Types, Aside
  <2>4. Counted(t)'
    BY <1>2, <1>3, <1>7, <2>1, <2>2 DEF Counted, Recorded, AtSlot
  <2>5. Pristine(t)'
    BY <1>2, <1>3, <2>1, <2>2 DEF Pristine, Recorded, AtSlot
  <2>6. Punctual(t)'
    BY <1>2, <1>3, <1>4, <1>5, <2>1, <2>2 DEF Punctual, Counted, Pristine, Recorded,
       AtSlot, Awake, Arrival, Target, Earliest
  <2>8. Recorded(t)' = Recorded(t) /\ Drawn(t)' = Drawn(t)
    BY <2>1, <2>2 DEF Recorded, Drawn
  <2>9. UNCHANGED <<kpOrder, curSyncOrder, kp_order>>
    BY <1>17 DEF Execute
  <2> QED
    BY <1>5, <2>1, <2>2, <2>3, <2>4, <2>5, <2>6, <2>8, <2>9, QuietStep
<1>18. CASE ExecuteSkipped(t)
  <2>1. pc[t] = "skip" /\ Awake(t) /\ pc'[t] = "body"
    BY <1>18, <1>5 DEF ExecuteSkipped, Go, Types
  <2>2. /\ idx'[t] = idx[t]
        /\ path'[t] = Tail(path[t])
        /\ ran'[t] = ran[t]
        /\ mapTid'[t] = mapTid[t]
        /\ wake'[t] = wake[t]
        /\ overruns' = overruns
        /\ kpYield' = kpYield
        /\ sched' = sched /\ now' = now
    BY <1>18, <2>1, <1>2, <1>3, <1>5 DEF ExecuteSkipped, Go, Types, Punctual, AtSlot
  <2>3. \A u \in Thread : u # t => Aside(u)
    BY <1>18 DEF ExecuteSkipped, Go, Types, Aside
  <2>4. Counted(t)'
    BY <1>2, <1>3, <1>7, <2>1, <2>2 DEF Counted, Recorded, AtSlot
  <2>5. Pristine(t)'
    BY <1>2, <1>3, <2>1, <2>2 DEF Pristine, Recorded, AtSlot
  <2>6. Punctual(t)'
    BY <1>2, <1>3, <1>4, <1>5, <2>1, <2>2 DEF Punctual, Counted, Pristine, Recorded,
       AtSlot, Awake, Arrival, Target, Earliest
  <2>8. Recorded(t)' = Recorded(t) /\ Drawn(t)' = Drawn(t)
    BY <2>1, <2>2 DEF Recorded, Drawn
  <2>9. UNCHANGED <<kpOrder, curSyncOrder, kp_order>>
    BY <1>18 DEF ExecuteSkipped
  <2> QED
    BY <1>5, <2>1, <2>2, <2>3, <2>4, <2>5, <2>6, <2>8, <2>9, QuietStep
<1>19. CASE Return(t)
  <2>1. pc[t] = "body" /\ path[t] = <<>> /\ Awake(t) /\ pc'[t] = "done"
    BY <1>19, <1>5 DEF Return, Go, Types
  <2>2. /\ idx'[t] = idx[t]
        /\ path'[t] = path[t]
        /\ ran'[t] = ran[t]
        /\ mapTid'[t] = mapTid[t]
        /\ wake'[t] = wake[t]
        /\ overruns' = overruns
        /\ kpYield' = kpYield
        /\ sched' = sched /\ now' = now
    BY <1>19, <2>1, <1>2, <1>3, <1>5 DEF Return, Go, Types, Punctual, AtSlot
  <2>3. \A u \in Thread : u # t => Aside(u)
    BY <1>19 DEF Return, Go, Types, Aside
  <2>4. Counted(t)'
    BY <1>2, <1>3, <1>7, <2>1, <2>2 DEF Counted, Recorded, AtSlot
  <2>5. Pristine(t)'
    BY <1>2, <1>3, <2>1, <2>2 DEF Pristine, Recorded, AtSlot
  <2>6. Punctual(t)'
    BY <1>2, <1>3, <1>4, <1>5, <2>1, <2>2 DEF Punctual, Counted, Pristine, Recorded,
       AtSlot, Awake, Arrival, Target, Earliest
  <2>8. Recorded(t)' = Recorded(t) /\ Drawn(t)' = Drawn(t)
    BY <2>1, <2>2 DEF Recorded, Drawn
  <2>9. UNCHANGED <<kpOrder, curSyncOrder, kp_order>>
    BY <1>19 DEF Return
  <2> QED
    BY <1>5, <2>1, <2>2, <2>3, <2>4, <2>5, <2>6, <2>8, <2>9, QuietStep
<1>20. CASE Throttle(t)
  <2>1. Awake(t) /\ pc[t] # "done" /\ pc'[t] = pc[t] /\ overruns' = overruns + 1
    BY <1>20, <1>5 DEF Throttle, Types
  <2>2. /\ idx'[t] = idx[t]
        /\ path'[t] = path[t]
        /\ ran'[t] = ran[t]
        /\ mapTid'[t] = mapTid[t]
        /\ wake'[t] = now + 1
        /\ kpYield' = kpYield
        /\ sched' = sched /\ now' = now
    BY <1>20, <2>1, <1>2, <1>3, <1>5 DEF Throttle, Types, Punctual, AtSlot
  <2>3. \A u \in Thread : u # t => Aside(u)
    BY <1>20 DEF Throttle, Types, Aside
  <2>4. Counted(t)'
    BY <1>2, <1>3, <1>7, <2>1, <2>2 DEF Counted, Recorded, AtSlot
  <2>5. Pristine(t)'
    BY <1>2, <1>3, <2>1, <2>2 DEF Pristine, Recorded, AtSlot
  <2>6. Punctual(t)'
    <3>1. Earliest(t)' = now + 1 /\ Earliest(t) = now
      BY <1>5, <1>8, <2>1, <2>2 DEF Earliest
    <3>2. Arrival(t)' = Arrival(t) + 1
      BY <1>5, <1>8, <2>1, <2>2, <3>1 DEF Arrival
    <3>3. Target(t)' = Target(t)
      BY <2>1, <2>2 DEF Target, AtSlot, Recorded
    <3>4. Arrival(t) \in Int /\ Target(t) \in Nat
      BY <1>3, <1>4, <1>5, <1>8, <3>1 DEF Arrival, Target
    <3> QED
      BY <1>2, <1>5, <2>1, <2>2, <3>2, <3>3, <3>4 DEF Punctual
  <2>8. Recorded(t)' = Recorded(t) /\ Drawn(t)' = Drawn(t)
    BY <2>1, <2>2 DEF Recorded, Drawn
  <2>9. UNCHANGED <<kpOrder, curSyncOrder, kp_order>>
    BY <1>20 DEF Throttle
  <2> QED
    BY <1>5, <2>1, <2>2, <2>3, <2>4, <2>5, <2>6, <2>8, <2>9, QuietStep
<1> QED
  BY <1>9, <1>10, <1>11, <1>12, <1>13, <1>14, <1>15, <1>16, <1>17, <1>18, <1>19, <1>20 DEF ThreadStep

(* A tick finds every thread asleep until the next period, or returned. *)
LEMMA TickKeeps == ASSUME Types, RunInv, Tick PROVE RunInv'
<1> USE SizeAssumption DEF arrays
<1>1. CountInv /\ YieldInv /\ ClockInv /\ OrderInv
  BY DEF RunInv
<1>2. /\ now' = now + 1 /\ now \in Nat /\ overruns' = overruns /\ overruns \in Nat
      /\ sched' = sched /\ path' = path /\ pc' = pc /\ idx' = idx /\ wake' = wake
      /\ kpYield' = kpYield /\ ran' = ran /\ mapTid' = mapTid
      /\ kpOrder' = kpOrder /\ curSyncOrder' = curSyncOrder /\ kp_order' = kp_order
  BY BoundAssumption DEF Tick, Types
<1>3. \A t \in Thread :
        /\ Recorded(t)' = Recorded(t) /\ AtSlot(t)' = AtSlot(t) /\ Drawn(t)' = Drawn(t)
        /\ Target(t)' = Target(t)
  BY <1>2 DEF Recorded, AtSlot, Drawn, Target
<1>4. CountInv'
  BY <1>1, <1>2, <1>3 DEF CountInv, Counted
<1>5. YieldInv'
  BY <1>1, <1>2, <1>3 DEF YieldInv, Pristine
<1>6. ASSUME NEW t \in Thread PROVE Punctual(t)'
  <2>1. Punctual(t) /\ Counted(t)
    BY <1>1 DEF ClockInv, CountInv
  <2>2. wake[t] \in Nat /\ kpYield[idx[t]] \in Nat
    BY <1>1, CountFacts DEF Types
  <2>3. pc[t] = "done" \/ wake[t] = now + 1
    BY <1>2, <2>1, <2>2 DEF Tick, Awake, Punctual
  <2>4. Earliest(t)' = now + 1 /\ Awake(t)'
    BY <1>2, <2>1, <2>2, <2>3 DEF Earliest, Awake, Punctual
  <2>5. pc[t] # "done" => Arrival(t)' = Arrival(t)
    <3>1. pc[t] # "done" => Earliest(t) = now + 1
      BY <1>2, <2>3 DEF Earliest
    <3> QED
      BY <1>2, <2>4, <3>1 DEF Arrival
  <2>6. pc[t] = "done" => Arrival(t) \in {now, now + 1} /\ Arrival(t)' = now + 1
    BY <1>2, <2>1, <2>2, <2>4 DEF Arrival, Earliest, Punctual
  <2>7. Target(t) \in Nat
    BY <1>1, ScheduleFacts, CountFacts DEF Target
  <2>8. ran[t] \in 0..M
    BY <1>1, <2>1, CountFacts DEF Counted
  <2>9. sched.period[t][ran[t]] \in Nat
    BY <2>8, ScheduleFacts
  <2>10. Arrival(t) >= Target(t) /\ (overruns = 0 /\ pc[t] # "done" => Arrival(t) = Target(t))
    BY <2>1 DEF Punctual
  <2>11. Arrival(t)' >= Target(t)
    <3>1. pc[t] = "done" => Target(t) <= now
      BY <2>1 DEF Punctual
    <3> QED
      BY <1>2, <2>5, <2>6, <2>7, <2>10, <3>1
  <2>12. (pc[t] \notin {"check", "yielded"} => Target(t) <= now)
         /\ (pc[t] = "yielded" => kpYield[idx[t]] > 0)
         /\ (overruns = 0 => sched.period[t][ran[t]] <= now)
    BY <2>1 DEF Punctual
  <2>13. wake[t] <= now + 2
    BY <1>2, <2>1, <2>2 DEF Punctual
  <2> QED
    BY <1>2, <1>3, <2>4, <2>5, <2>7, <2>9, <2>10, <2>11, <2>12, <2>13 DEF Punctual
<1>7. OrderInv'
  <2>1. \A t \in Thread : Drawn(t) \in 0..M
    <3>1. \A t \in Thread : pc[t] = "store" => AtSlot(t)
      BY DEF AtSlot
    <3> QED
      BY <1>1, <3>1, CountFacts DEF Drawn
  <2> QED
    BY <1>1, <1>2, <1>3, <2>1, OrderUntouched
<1> QED
  BY <1>4, <1>5, <1>6, <1>7 DEF RunInv, ClockInv

LEMMA RunInvInit == ASSUME Init, PathsFit PROVE RunInv
<1> USE SizeAssumption
<1>1. Types
  BY TypesInit
<1>2. ASSUME NEW t \in Thread
      PROVE  /\ Recorded(t) = 0 /\ pc[t] = "body" /\ ran[t] = 0 /\ mapTid[t] = 0
             /\ idx[t] = Orig(t) /\ Orig(t) \in Nat /\ ~AtSlot(t) /\ Drawn(t) = 0
  <2>1. idx[t] = Orig(t) /\ Orig(t) \in Nat /\ pc[t] = "body"
    BY SlotArithmetic DEF Init
  <2> QED
    BY <2>1 DEF Init, Recorded, AtSlot, Drawn
<1>3. CountInv
  <2> SUFFICES ASSUME NEW t \in Thread PROVE Counted(t)
    BY DEF CountInv
  <2>1. Len(path[t]) \in Nat /\ Len(path[t]) <= M
    BY <1>1, PathFacts DEF PathsFit, Init
  <2> QED
    BY <1>2, <2>1 DEF Counted
<1>4. YieldInv
  BY DEF YieldInv, Pristine, Init
<1>5. ClockInv
  <2> SUFFICES ASSUME NEW t \in Thread PROVE Punctual(t)
    BY DEF ClockInv
  <2>1. now = 0 /\ wake[t] = 0 /\ overruns = 0 /\ Awake(t)
    BY DEF Init, Awake
  <2>2. Arrival(t) = 0
    BY <1>2, <2>1 DEF Arrival, Earliest
  <2>3. Target(t) = 0 /\ sched.period[t][ran[t]] = 0
    BY <1>1, <1>2, ScheduleFacts DEF Target
  <2> QED
    BY <1>2, <2>1, <2>2, <2>3 DEF Punctual
<1>6. OrderInv
  BY <1>2 DEF OrderInv
<1> QED
  BY <1>3, <1>4, <1>5, <1>6 DEF RunInv

LEMMA StutterKeeps == ASSUME Types, RunInv, UNCHANGED vars PROVE RunInv'
<1>1. /\ sched' = sched /\ path' = path /\ pc' = pc /\ idx' = idx /\ wake' = wake
      /\ kpYield' = kpYield /\ ran' = ran /\ mapTid' = mapTid /\ now' = now
      /\ kpOrder' = kpOrder /\ curSyncOrder' = curSyncOrder /\ kp_order' = kp_order
      /\ overruns' = overruns
  BY DEF vars, arrays, kernel
<1>2. CountInv'
  BY <1>1 DEF RunInv, CountInv, Counted, Recorded, AtSlot
<1>3. YieldInv'
  BY <1>1 DEF RunInv, YieldInv, Pristine, Recorded, AtSlot
<1>4. ClockInv'
  BY <1>1 DEF RunInv, ClockInv, Punctual, Arrival, Earliest, Target, Recorded, AtSlot, Awake
<1>5. OrderInv'
  BY <1>1 DEF RunInv, OrderInv, Order, Drawn, Recorded
<1> QED
  BY <1>2, <1>3, <1>4, <1>5 DEF RunInv

-----------------------------------------------------------------------------
(* RunInv is an invariant whenever the paths fit into the rows: the        *)
(* counters, yields, clock and order numbers of instr_LOC_string agree.    *)
THEOREM RunInvariant == PathsFit /\ Spec => [](Types /\ RunInv)
<1> SUFFICES ASSUME PathsFit PROVE Spec => [](Types /\ RunInv)
  OBVIOUS
<1>1. Init => Types /\ RunInv
  BY TypesInit, RunInvInit
<1>2. Types /\ RunInv /\ [Next]_vars => (Types /\ RunInv)'
  <2> SUFFICES ASSUME Types, RunInv, [Next]_vars PROVE Types' /\ RunInv'
    OBVIOUS
  <2>1. Types'
    BY TypesStep DEF RunInv
  <2>2. CASE Tick
    BY <2>1, <2>2, TickKeeps
  <2>3. ASSUME NEW t \in Thread, ThreadStep(t) \/ Throttle(t) PROVE RunInv'
    BY <2>3, ThreadStepKeeps
  <2>4. CASE UNCHANGED vars
    BY <2>1, <2>4, StutterKeeps
  <2> QED
    BY <2>1, <2>2, <2>3, <2>4 DEF Next
<1> QED
  BY <1>1, <1>2, PTL DEF Spec

(* Every table of the runtime keeps its type and every index its range     *)
(* (DBDSFunction.cpp 564-617).                                             *)
THEOREM TypeCorrect == PathsFit /\ Spec => []TypeOK
<1> SUFFICES ASSUME PathsFit PROVE Spec => []TypeOK
  OBVIOUS
<1>1. ASSUME Types, RunInv PROVE TypeOK
  <2>1. \A t \in Thread : idx[t] \in Slots /\ ran[t] \in 0..M
    <3> SUFFICES ASSUME NEW t \in Thread PROVE idx[t] \in Slots /\ ran[t] \in 0..M
      OBVIOUS
    <3>1. /\ idx[t] \in Slots /\ Recorded(t) \in 0..M /\ (pc[t] = "op" => Recorded(t) > 0)
      BY <1>1, CountFacts DEF RunInv
    <3>2. ran[t] = IF pc[t] = "op" THEN Recorded(t) - 1 ELSE Recorded(t)
      BY <1>1 DEF RunInv, CountInv, Counted
    <3> QED
      BY <3>1, <3>2, SizeAssumption
  <2>2. idx \in [Thread -> Slots] /\ ran \in [Thread -> 0..M]
    BY <1>1, <2>1 DEF Types
  <2> QED
    BY <1>1, <2>2 DEF Types, TypeOK
<1>2. Types /\ RunInv => TypeOK
  BY <1>1
<1> QED
  BY <1>2, RunInvariant, PTL

(* A thread whose KPs fit touches no slot but those of its own row.        *)
THEOREM IndexesInBounds == PathsFit /\ Spec => []IndexInBounds
<1> SUFFICES ASSUME PathsFit PROVE Spec => []IndexInBounds
  OBVIOUS
<1>1. ASSUME Types, RunInv PROVE IndexInBounds
  <2> SUFFICES ASSUME NEW t \in Thread, AtSlot(t)
               PROVE  idx[t] \in Slot(t, 1)..Slot(t, M)
    BY DEF IndexInBounds
  <2>1. Recorded(t) \in 0..M /\ Recorded(t) < M /\ idx[t] = Orig(t) + Recorded(t)
    BY <1>1, CountFacts DEF RunInv
  <2>2. Slot(t, 1) = Orig(t) /\ Slot(t, M) = Orig(t) + M - 1 /\ Orig(t) \in Nat
    BY SlotArithmetic, SizeAssumption DEF Orig
  <2> QED
    BY <2>1, <2>2, SizeAssumption
<1>2. Types /\ RunInv => IndexInBounds
  BY <1>1
<1> QED
  BY <1>2, RunInvariant, PTL

(* However often the kernel takes a period from a thread, no key point     *)
(* runs before the period that the schedule gives it (585-588).            *)
THEOREM NoneRunsEarly == PathsFit /\ Spec => []NeverEarly
<1> SUFFICES ASSUME PathsFit PROVE Spec => []NeverEarly
  OBVIOUS
<1>1. ASSUME Types, RunInv PROVE NeverEarly
  <2> SUFFICES ASSUME NEW t \in Thread, pc[t] = "op"
               PROVE  now >= sched.period[t][Recorded(t)]
    BY DEF NeverEarly
  <2>1. Target(t) = sched.period[t][Recorded(t)] /\ Target(t) <= now
    BY <1>1 DEF Target, AtSlot, RunInv, ClockInv, Punctual
  <2>2. Target(t) \in Nat /\ now \in Nat
    BY <1>1, <2>1, CountFacts, ScheduleFacts DEF RunInv, Types
  <2> QED
    BY <2>1, <2>2
<1>2. Types /\ RunInv => NeverEarly
  BY <1>1
<1> QED
  BY <1>2, RunInvariant, PTL

(* As long as every thread gets its budget, each key point runs exactly in *)
(* the period that the schedule gives it (585-588).                        *)
THEOREM AllRunOnTime == PathsFit /\ Spec => []OnTime
<1> SUFFICES ASSUME PathsFit PROVE Spec => []OnTime
  OBVIOUS
<1>1. ASSUME Types, RunInv PROVE OnTime
  <2> SUFFICES ASSUME overruns = 0, NEW t \in Thread, pc[t] = "op"
               PROVE  now = sched.period[t][Recorded(t)]
    BY DEF OnTime
  <2>1. Punctual(t)
    BY <1>1 DEF RunInv, ClockInv
  <2>2. Target(t) = sched.period[t][Recorded(t)] /\ Arrival(t) = Earliest(t)
    BY DEF Target, AtSlot, Arrival
  <2>3. Awake(t) /\ now \in Nat /\ wake[t] \in Nat
    BY <1>1, <2>1 DEF Punctual, Types
  <2>4. Earliest(t) = now
    BY <2>3 DEF Earliest, Awake
  <2> QED
    BY <2>1, <2>2, <2>4 DEF Punctual
<1>2. Types /\ RunInv => OnTime
  BY <1>1
<1> QED
  BY <1>2, RunInvariant, PTL

(* Then a key point that has run was never due after one still to run: the *)
(* schedule fixes the order of key points in different periods.            *)
THEOREM OrderAsScheduled == PathsFit /\ Spec => []ScheduleOrder
<1> SUFFICES ASSUME PathsFit PROVE Spec => []ScheduleOrder
  OBVIOUS
<1>1. ASSUME Types, RunInv PROVE ScheduleOrder
  <2> SUFFICES ASSUME overruns = 0, NEW t \in Thread, NEW u \in Thread,
                      pc[u] # "done", ran[u] < M
               PROVE  sched.period[t][ran[t]] <= sched.period[u][ran[u] + 1]
    BY DEF ScheduleOrder
  <2> USE SizeAssumption
  <2>1. Punctual(t) /\ Punctual(u) /\ Counted(u) /\ Counted(t) /\ CountInv
    BY <1>1 DEF RunInv, ClockInv, CountInv
  <2>2. /\ Recorded(u) \in 0..M /\ Recorded(t) \in 0..M
        /\ (pc[u] = "op" => Recorded(u) > 0) /\ (pc[t] = "op" => Recorded(t) > 0)
        /\ idx[u] \in Slots
    BY <1>1, <2>1, CountFacts
  <2>3. now \in Nat /\ wake[u] \in Nat /\ kpYield[idx[u]] \in Nat
    BY <1>1, <2>2 DEF Types
  <2>4. ran[t] \in 0..M /\ ran[u] \in 0..M
    BY <2>1, <2>2 DEF Counted
  <2>5. /\ \A k \in 0..M : sched.period[u][k] \in Nat
        /\ \A k \in 1..M : sched.period[u][k] >= sched.period[u][k-1]
        /\ sched.period[t][ran[t]] \in Nat
    BY <1>1, <2>4, ScheduleFacts
  <2>6. sched.period[t][ran[t]] <= now
    BY <2>1 DEF Punctual
  <2>7. now <= Target(u)
    <3>1. Arrival(u) = Target(u) /\ (pc[u] = "yielded" => kpYield[idx[u]] > 0)
      BY <2>1 DEF Punctual
    <3>2. Earliest(u) \in Nat /\ Earliest(u) >= now
      BY <2>3 DEF Earliest
    <3>3. Arrival(u) >= now
      BY <2>3, <3>1, <3>2 DEF Arrival
    <3> QED
      BY <3>1, <3>3
  <2>8. Target(u) <= sched.period[u][ran[u] + 1]
    <3>1. CASE AtSlot(u) \/ pc[u] = "op"
      <4>1. Target(u) = sched.period[u][ran[u] + 1]
        BY <2>1, <2>2, <3>1 DEF Counted, Target, AtSlot
      <4> QED
        BY <2>4, <2>5, <4>1
    <3>2. CASE ~AtSlot(u) /\ pc[u] # "op"
      <4>1. Target(u) = sched.period[u][ran[u]]
        BY <2>1, <2>2, <3>2 DEF Counted, Target
      <4>2. ran[u] + 1 \in 1..M /\ ran[u] = (ran[u] + 1) - 1
        BY <2>4
      <4> QED
        BY <2>5, <4>1, <4>2
    <3> QED
      BY <3>1, <3>2
  <2>9. Target(u) \in Nat /\ sched.period[u][ran[u] + 1] \in Nat
    BY <1>1, <2>1, <2>2, <2>4, <2>5, CountFacts DEF Target
  <2> QED
    BY <2>3, <2>5, <2>6, <2>7, <2>8, <2>9
<1>2. Types /\ RunInv => ScheduleOrder
  BY <1>1
<1> QED
  BY <1>2, RunInvariant, PTL

(* And the order numbers the driver reads back say the same (601-602).     *)
THEOREM RecordsInOrder == PathsFit /\ Spec => []RecordedOrder
<1> SUFFICES ASSUME PathsFit PROVE Spec => []RecordedOrder
  OBVIOUS
<1>1. ASSUME Types, RunInv PROVE RecordedOrder
  <2> SUFFICES ASSUME overruns = 0, NEW t \in Thread, NEW u \in Thread,
                      NEW i \in 1..Recorded(t), NEW j \in 1..Recorded(u),
                      sched.period[t][i] < sched.period[u][j]
               PROVE  kpOrder[Slot(t, i)] < kpOrder[Slot(u, j)]
    BY DEF RecordedOrder
  <2>1. Recorded(t) \in 0..M /\ Recorded(u) \in 0..M
    BY <1>1, CountFacts DEF RunInv
  <2>2. i \in 1..Drawn(t) /\ j \in 1..Drawn(u)
    BY <2>1, SizeAssumption DEF Drawn
  <2>3. Order(t, i) = kpOrder[Slot(t, i)] /\ Order(u, j) = kpOrder[Slot(u, j)]
    BY DEF Order
  <2> QED
    BY <1>1, <2>2, <2>3 DEF RunInv, OrderInv
<1>2. Types /\ RunInv => RecordedOrder
  BY <1>1
<1> QED
  BY <1>2, RunInvariant, PTL

-----------------------------------------------------------------------------
(* The steps of the runtime as steps of the abstract run.                  *)

(* A step that is over before the instruction of a key point.              *)
LEMMA InnerStep ==
    ASSUME Types, NEW t \in Thread, pc[t] # "done",
           NEW next \in PC \ {"done"}, pc' = [pc EXCEPT ![t] = next],
           UNCHANGED <<sched, ran, now, overruns>>
    PROVE  UNCHANGED Scheduled!rvars
<1>1. Returned' = Returned
  BY DEF Returned, Types
<1>2. (overruns # 0)' = (overruns # 0)
  OBVIOUS
<1> QED
  BY <1>1, <1>2 DEF Scheduled!rvars

(* The instruction of a key point runs when the schedule has it due.       *)
LEMMA ExecuteRuns ==
    ASSUME Types, RunInv, NEW t \in Thread, Execute(t)
    PROVE  Scheduled!Run(t)
<1> USE SizeAssumption
<1>1. pc[t] = "op" /\ pc' = [pc EXCEPT ![t] = "body"]
  BY DEF Execute, Go
<1>2. /\ ran' = [ran EXCEPT ![t] = @ + 1]
      /\ sched' = sched /\ now' = now /\ overruns' = overruns
  BY DEF Execute, kernel
<1>3. Punctual(t) /\ Counted(t) /\ Recorded(t) \in 0..M /\ Recorded(t) > 0
  BY <1>1, CountFacts DEF RunInv, ClockInv, CountInv
<1>4. ran[t] < M /\ ran[t] + 1 = Recorded(t)
  BY <1>1, <1>3 DEF Counted
<1>5. Scheduled!Due(t) = Target(t)
  BY <1>1, <1>4 DEF Scheduled!Due, Target, AtSlot
<1>6. Target(t) <= now
  BY <1>1, <1>3 DEF Punctual
<1>7. ASSUME overruns = 0 PROVE Target(t) = now
  <2>1. Awake(t) /\ Arrival(t) = Target(t)
    BY <1>1, <1>3, <1>7 DEF Punctual
  <2>2. Earliest(t) = now
    BY <2>1 DEF Earliest, Awake, Types
  <2> QED
    BY <1>1, <2>1, <2>2 DEF Arrival
<1>8. t \notin Returned /\ Returned' = Returned
  BY <1>1 DEF Returned, Types
<1> QED
  BY <1>2, <1>4, <1>5, <1>6, <1>7, <1>8 DEF Scheduled!Run

(* A period passes when nobody has a key point left in it.                 *)
LEMMA TickPasses ==
    ASSUME Types, RunInv, Tick
    PROVE  Scheduled!Pass
<1> USE SizeAssumption
<1>1. /\ now' = now + 1 /\ pc' = pc /\ sched' = sched
      /\ ran' = ran /\ overruns' = overruns
      /\ \A t \in Thread : pc[t] = "done" \/ ~Awake(t)
  BY DEF Tick
<1>2. ASSUME overruns = 0, NEW t \in Thread \ Returned
      PROVE  ran[t] < M /\ Scheduled!Due(t) > now
  <2>1. pc[t] # "done" /\ ~Awake(t)
    BY <1>1, <1>2 DEF Returned
  <2>2. Punctual(t) /\ Counted(t) /\ CountInv
    BY DEF RunInv, ClockInv, CountInv
  <2>3. pc[t] = "yielded" /\ kpYield[idx[t]] > 0 /\ Arrival(t) = Target(t)
    BY <1>2, <2>1, <2>2 DEF Punctual
  <2>4. AtSlot(t) /\ Recorded(t) < M /\ Recorded(t) \in 0..M /\ idx[t] \in Slots
    BY <2>2, <2>3, CountFacts DEF AtSlot
  <2>5. ran[t] = Recorded(t) /\ Scheduled!Due(t) = Target(t)
    BY <2>2, <2>3, <2>4 DEF Counted, Scheduled!Due, Target
  <2>6. kpYield[idx[t]] \in Nat /\ wake[t] \in Nat /\ now \in Nat
    BY <2>4 DEF Types
  <2>7. Earliest(t) = wake[t] /\ wake[t] > now
    BY <2>1, <2>6 DEF Earliest, Awake
  <2>8. Arrival(t) > now
    BY <2>3, <2>6, <2>7 DEF Arrival
  <2> QED
    BY <2>3, <2>4, <2>5, <2>8
<1>3. Returned' = Returned
  BY <1>1 DEF Returned
<1> QED
  BY <1>1, <1>2, <1>3 DEF Scheduled!Pass

(* The runtime implements the abstract run, with any number of overruns:   *)
(* what it executes, and in which period, is what the schedule says.       *)
THEOREM ImplementsScheduledRun == PathsFit /\ Spec => RunsSchedule
<1> SUFFICES ASSUME PathsFit PROVE Spec => RunsSchedule
  OBVIOUS
<1>1. Init => Scheduled!Init
  <2>1. Init => Returned = {}
    BY DEF Init, Returned
  <2> QED
    BY <2>1 DEF Init, Scheduled!Init
<1>2. Types /\ RunInv /\ [Next]_vars => [Scheduled!Next]_Scheduled!rvars
  <2> SUFFICES ASSUME Types, RunInv, [Next]_vars
               PROVE  Scheduled!Next \/ UNCHANGED Scheduled!rvars
    OBVIOUS
  <2> USE DEF Scheduled!Next
  <2>1. CASE Tick
    BY <2>1, TickPasses
  <2>2. ASSUME NEW t \in Thread, Throttle(t) PROVE Scheduled!Lose
    <3>1. /\ overruns' = overruns + 1 /\ pc' = pc /\ now' = now
          /\ sched' = sched /\ ran' = ran
      BY <2>2 DEF Throttle, arrays
    <3>2. Returned' = Returned /\ (overruns # 0)' = TRUE
      BY <3>1 DEF Returned, Types
    <3> QED
      BY <3>1, <3>2 DEF Scheduled!Lose
  <2>3. ASSUME NEW t \in Thread, Return(t) PROVE Scheduled!Return(t)
    <3>1. /\ pc' = [pc EXCEPT ![t] = "done"] /\ sched' = sched /\ ran' = ran
          /\ now' = now /\ overruns' = overruns
      BY <2>3 DEF Return, Go, kernel
    <3>2. Returned' = Returned \cup {t}
      BY <3>1 DEF Returned, Types
    <3> QED
      BY <3>1, <3>2 DEF Scheduled!Return
  <2>4. ASSUME NEW t \in Thread,
               \/ Skip(t) \/ Enter(t) \/ Yield(t) \/ Decrement(t) \/ NoYieldLeft(t)
               \/ RecordLoc(t) \/ FetchOrder(t) \/ StoreOrder(t) \/ ExecuteSkipped(t)
        PROVE  UNCHANGED Scheduled!rvars
    <3>1. UNCHANGED <<sched, ran, now, overruns>>
      BY <2>4 DEF Skip, Enter, Yield, Decrement, NoYieldLeft, RecordLoc, FetchOrder,
                  StoreOrder, ExecuteSkipped, kernel
    <3>2. \E next \in PC \ {"done"} : pc[t] # "done" /\ pc' = [pc EXCEPT ![t] = next]
      BY <2>4 DEF Skip, Enter, Yield, Decrement, NoYieldLeft, RecordLoc, FetchOrder,
                  StoreOrder, ExecuteSkipped, Go, PC
    <3> QED
      BY <3>1, <3>2, InnerStep
  <2>5. CASE UNCHANGED vars
    <3>1. UNCHANGED <<sched, pc, ran, now, overruns>>
      BY <2>5 DEF vars, kernel
    <3>2. Returned' = Returned /\ (overruns # 0)' = (overruns # 0)
      BY <3>1 DEF Returned
    <3> QED
      BY <3>1, <3>2 DEF Scheduled!rvars
  <2> QED
    BY <2>1, <2>2, <2>3, <2>4, <2>5, ExecuteRuns DEF Next, ThreadStep
<1> QED
  BY <1>1, <1>2, RunInvariant, PTL DEF Spec, RunsSchedule, Scheduled!Spec

-----------------------------------------------------------------------------
(* The slots of t that hold a location, and those that hold h. *)
Filled(t) == IF pc[t] \in {"order", "store"} THEN Recorded(t) + 1 ELSE Recorded(t)
Hits(t, h) == {k \in 1..M : kpLoc[Slot(t, k)] = h}
Admitted(t) == pc[t] \in {"check", "yielded", "record"}

Records(t) ==
    /\ \A k \in 1..M : kpLoc[Slot(t, k)] # 0 <=> k <= Filled(t)
    /\ \A h \in Hash : Cardinality(Hits(t, h)) <= LoopUnwinded
    /\ Admitted(t) => Cardinality(Hits(t, Head(path[t]))) < LoopUnwinded
    /\ \A i \in 1..Drawn(t) : Order(t, i) < curSyncOrder
    /\ \A i \in 1..(Drawn(t) - 1) : Order(t, i) < Order(t, i + 1)
RecordsInv == \A t \in Thread : Records(t)

-----------------------------------------------------------------------------
(* The hits of isBoundedLocHash are those among all slots of the thread.   *)
LEMMA HitsFinite ==
    ASSUME NEW t \in Thread, NEW h
    PROVE  IsFiniteSet(Hits(t, h)) /\ Cardinality(Hits(t, h)) \in Nat
<1>1. IsFiniteSet(1..M)
  BY FS_Interval, SizeAssumption
<1>2. IsFiniteSet(Hits(t, h))
  BY <1>1, FS_Subset DEF Hits
<1> QED
  BY <1>2, FS_CardinalityType

LEMMA BoundedHits ==
    ASSUME Types, CountInv, NEW t \in Thread, Records(t), pc[t] = "body",
           NEW h \in Hash, BoundedLocHash(t, h)
    PROVE  Cardinality(Hits(t, h)) < LoopUnwinded
<1> DEFINE S == {s \in Orig(t)..(idx[t] - 1) : kpLoc[s] = h}
           f == [k \in Hits(t, h) |-> Slot(t, k)]
<1>1. /\ Recorded(t) \in 0..M /\ idx[t] = Orig(t) + Recorded(t)
      /\ Orig(t) \in Nat /\ M \in Nat
      /\ \A k \in Int : Slot(t, k) = Orig(t) + k - 1
  BY CountFacts, SlotArithmetic, SizeAssumption
<1>2. \A k \in Hits(t, h) : k \in 1..Recorded(t)
  <2>1. Filled(t) = Recorded(t)
    BY DEF Filled
  <2>2. h # 0
    BY HashAssumption
  <2> QED
    BY <1>1, <2>1, <2>2 DEF Records, Hits
<1>3. \A k \in Hits(t, h) : Slot(t, k) \in S
  BY <1>1, <1>2 DEF Hits
<1>4. \A j, k \in Hits(t, h) : f[j] = f[k] => j = k
  BY <1>1, <1>2
<1>5. f \in Injection(Hits(t, h), S)
  <2>1. f \in [Hits(t, h) -> S]
    BY <1>3
  <2> HIDE DEF S
  <2> QED
    BY <1>4, <2>1 DEF Injection, IsInjective
<1>6. IsFiniteSet(S)
  <2>1. IsFiniteSet(Orig(t)..(idx[t] - 1))
    BY <1>1, FS_Interval
  <2> QED
    BY <2>1, FS_Subset
<1>7. Cardinality(Hits(t, h)) <= Cardinality(S) /\ Cardinality(S) \in Nat
  <2> HIDE DEF S, f
  <2> QED
    BY <1>5, <1>6, FS_Injection, FS_CardinalityType
<1>8. Cardinality(S) < LoopUnwinded
  BY DEF BoundedLocHash
<1> QED
  BY <1>7, <1>8, HitsFinite, BoundAssumption

-----------------------------------------------------------------------------
(* A step that neither fills a slot of u nor draws an order number for it. *)
LEMMA RecordsFrame ==
    ASSUME Types, CountInv, NEW u \in Thread, Records(u),
           Filled(u)' = Filled(u), Drawn(u)' = Drawn(u),
           \A k \in 1..M : kpLoc'[Slot(u, k)] = kpLoc[Slot(u, k)],
           \A i \in 1..Drawn(u) : Order(u, i)' = Order(u, i) /\ Order(u, i) \in Nat,
           curSyncOrder' \in Nat, curSyncOrder' >= curSyncOrder,
           Admitted(u)' => Cardinality(Hits(u, Head(path'[u]))) < LoopUnwinded
    PROVE  Records(u)'
<1>1. \A h : Hits(u, h)' = Hits(u, h)
  BY DEF Hits
<1>2. Drawn(u) \in Nat
  BY CountFacts, SizeAssumption DEF Drawn
<1>3. /\ (\A k \in 1..M : kpLoc[Slot(u, k)] # 0 <=> k <= Filled(u))'
      /\ (\A h \in Hash : Cardinality(Hits(u, h)) <= LoopUnwinded)'
      /\ (Admitted(u) => Cardinality(Hits(u, Head(path[u]))) < LoopUnwinded)'
  BY <1>1 DEF Records
<1>4. (\A i \in 1..Drawn(u) : Order(u, i) < curSyncOrder)'
  BY <1>2 DEF Records, Types
<1>5. (\A i \in 1..(Drawn(u) - 1) : Order(u, i) < Order(u, i + 1))'
  <2> SUFFICES ASSUME NEW i \in 1..(Drawn(u) - 1)
               PROVE  Order(u, i)' < Order(u, i + 1)'
    BY <1>2
  <2>1. i \in 1..Drawn(u) /\ i + 1 \in 1..Drawn(u)
    BY <1>2
  <2>2. Order(u, i) < Order(u, i + 1)
    BY DEF Records
  <2> QED
    BY <2>1, <2>2
<1> QED
  BY <1>3, <1>4, <1>5 DEF Records

(* Order numbers are numbers. *)
LEMMA OrderType ==
    ASSUME Types, CountInv, NEW u \in Thread
    PROVE  /\ Drawn(u) \in 0..M /\ Filled(u) \in 0..M
           /\ \A i \in 1..Drawn(u) : Order(u, i) \in Nat
<1>1. Drawn(u) \in 0..M /\ Filled(u) \in 0..M
  BY CountFacts, SizeAssumption DEF Drawn, Filled, AtSlot
<1>2. ASSUME NEW i \in 1..Drawn(u) PROVE Order(u, i) \in Nat
  <2>1. i \in 1..M /\ M \in Nat
    BY <1>1, SizeAssumption
  <2>2. Slot(u, i) \in Slots
    BY <2>1, SlotArithmetic DEF Slots
  <2> QED
    BY <2>2 DEF Order, Types
<1> QED
  BY <1>1, <1>2

(* A step that leaves the records of u, its index, path and order alone.   *)
LEMMA RecordsUntouched ==
    ASSUME Types, CountInv, NEW u \in Thread, Records(u),
           idx'[u] = idx[u], kp_order'[u] = kp_order[u],
           pc'[u] = pc[u] \/ {pc[u], pc'[u]} \cap {"order", "store"} = {},
           \A k \in 1..M : /\ kpLoc'[Slot(u, k)] = kpLoc[Slot(u, k)]
                           /\ kpOrder'[Slot(u, k)] = kpOrder[Slot(u, k)],
           curSyncOrder' \in Nat, curSyncOrder' >= curSyncOrder,
           \/ Admitted(u)' => Admitted(u) /\ path'[u] = path[u]
           \/ Cardinality(Hits(u, Head(path'[u]))) < LoopUnwinded
    PROVE  Records(u)'
<1>1. Recorded(u)' = Recorded(u) /\ Recorded(u) \in 0..M
  BY CountFacts DEF Recorded
<1>2. Filled(u)' = Filled(u) /\ Drawn(u)' = Drawn(u)
  BY <1>1 DEF Filled, Drawn
<1>3. \A i \in 1..Drawn(u) : Order(u, i)' = Order(u, i) /\ Order(u, i) \in Nat
  BY <1>1, OrderType, SizeAssumption DEF Order
<1>4. Admitted(u)' => Cardinality(Hits(u, Head(path'[u]))) < LoopUnwinded
  BY DEF Records
<1> QED
  BY <1>2, <1>3, <1>4, RecordsFrame

-----------------------------------------------------------------------------
(* Each step keeps the records. *)
LEMMA RecordsStep ==
    ASSUME Types, RunInv, RecordsInv, Types', RunInv', [Next]_vars
    PROVE  RecordsInv'
<1> USE DEF Go, arrays, kernel
<1>0. /\ CountInv /\ CountInv'
      /\ curSyncOrder \in Nat /\ curSyncOrder' \in Nat
      /\ \A u \in Thread : Records(u)
      /\ pc \in [Thread -> PC] /\ kp_order \in [Thread -> Nat]
      /\ path \in [Thread -> Seq(Hash)] /\ idx \in [Thread -> Nat]
  BY DEF RunInv, Types, RecordsInv
<1> SUFFICES ASSUME NEW u \in Thread PROVE Records(u)'
  BY DEF RecordsInv
(* Steps that touch neither records nor indexes. *)
<1>1. ASSUME UNCHANGED <<arrays, idx, kp_order>>,
             pc'[u] = pc[u] \/ {pc[u], pc'[u]} \cap {"order", "store"} = {},
             \/ Admitted(u)' => Admitted(u) /\ path'[u] = path[u]
             \/ Cardinality(Hits(u, Head(path'[u]))) < LoopUnwinded
      PROVE  Records(u)'
  BY <1>0, <1>1, RecordsUntouched
<1>2. ASSUME NEW t \in Thread, Enter(t) PROVE Records(u)'
  <2>1. /\ UNCHANGED <<arrays, idx, kp_order, path>>
        /\ pc[t] = "body" /\ pc' = [pc EXCEPT ![t] = "check"]
        /\ path[t] # <<>> /\ BoundedLocHash(t, Head(path[t]))
    BY <1>2 DEF Enter
  <2>2. CASE u = t
    <3>1. Head(path[t]) \in Hash
      BY <2>1, PathFacts
    <3>2. Cardinality(Hits(t, Head(path[t]))) < LoopUnwinded
      BY <1>0, <2>1, <3>1, BoundedHits
    <3>3. path'[u] = path[u] /\ pc[u] = "body" /\ pc'[u] = "check"
      BY <1>0, <2>1, <2>2
    <3> QED
      BY <1>1, <2>1, <2>2, <3>2, <3>3
  <2>3. CASE u # t
    <3>1. pc'[u] = pc[u] /\ path'[u] = path[u]
      BY <1>0, <2>1, <2>3
    <3>2. Admitted(u)' => Admitted(u)
      BY <3>1 DEF Admitted
    <3> QED
      BY <1>1, <2>1, <3>1, <3>2
  <2> QED
    BY <2>2, <2>3
<1>3. ASSUME NEW t \in Thread,
             \/ Skip(t) \/ Yield(t) \/ Decrement(t) \/ NoYieldLeft(t)
             \/ Execute(t) \/ ExecuteSkipped(t) \/ Return(t) \/ Throttle(t)
      PROVE  Records(u)'
  <2>1. UNCHANGED <<arrays, idx, kp_order>>
    BY <1>3 DEF Skip, Yield, Decrement, NoYieldLeft, Execute, ExecuteSkipped, Return, Throttle
  <2>2. CASE u = t
    <3>1. pc'[u] = pc[u] \/ {pc[u], pc'[u]} \cap {"order", "store"} = {}
      BY <1>0, <1>3, <2>2
         DEF Skip, Yield, Decrement, NoYieldLeft, Execute, ExecuteSkipped, Return, Throttle
    <3>2. Admitted(u)' => Admitted(u) /\ path'[u] = path[u]
      BY <1>0, <1>3, <2>2
         DEF Skip, Yield, Decrement, NoYieldLeft, Execute, ExecuteSkipped, Return, Throttle,
             Admitted
    <3> QED
      BY <1>1, <2>1, <3>1, <3>2
  <2>3. CASE u # t
    <3>1. pc'[u] = pc[u] /\ path'[u] = path[u]
      BY <1>0, <1>3, <2>3
         DEF Skip, Yield, Decrement, NoYieldLeft, Execute, ExecuteSkipped, Return, Throttle
    <3>2. Admitted(u)' => Admitted(u)
      BY <3>1 DEF Admitted
    <3> QED
      BY <1>1, <2>1, <3>1, <3>2
  <2> QED
    BY <2>2, <2>3
<1>4. ASSUME NEW t \in Thread, RecordLoc(t) PROVE Records(u)'
  <2>1. /\ UNCHANGED <<idx, path, kpOrder, curSyncOrder, kp_order>>
        /\ pc[t] = "record" /\ pc' = [pc EXCEPT ![t] = "order"]
        /\ kpLoc' = [kpLoc EXCEPT ![idx[t]] = Head(path[t])]
    BY <1>4 DEF RecordLoc
  <2>2. /\ Recorded(t) + 1 \in 1..M /\ idx[t] = Slot(t, Recorded(t) + 1)
        /\ idx[t] \in Slots
    BY <1>0, <2>1, CountFacts, SizeAssumption DEF AtSlot
  <2>3. \A k \in 1..M : Slot(u, k) \in Slots
    BY SlotArithmetic, SizeAssumption DEF Slots
  <2>4. CASE u # t
    <3>1. \A k \in 1..M : kpLoc'[Slot(u, k)] = kpLoc[Slot(u, k)]
      <4>1. \A k \in 1..M : Slot(u, k) # idx[t]
        BY <2>2, <2>4, RowsDisjoint
      <4> QED
        BY <2>1, <2>3, <4>1 DEF Types
    <3>2. pc'[u] = pc[u] /\ path'[u] = path[u] /\ (Admitted(u)' => Admitted(u))
      BY <1>0, <2>1, <2>4 DEF Admitted
    <3> QED
      BY <1>0, <2>1, <3>1, <3>2, RecordsUntouched
  <2>5. CASE u = t
    <3>0. PICK n \in 1..M : n = Recorded(t) + 1
      BY <2>2
    <3>1. PICK h \in Hash : h = Head(path[t]) /\ h # 0
      <4>1. path[t] # <<>>
        BY <1>0, <2>1 DEF CountInv, Counted
      <4> QED
        BY <4>1, PathFacts, HashAssumption
    <3>2. kpLoc'[Slot(t, n)] = h
      BY <2>1, <2>2, <3>0, <3>1 DEF Types
    <3>3. \A k \in 1..M : k # n => kpLoc'[Slot(t, k)] = kpLoc[Slot(t, k)]
      <4> SUFFICES ASSUME NEW k \in 1..M, k # n
                   PROVE  kpLoc'[Slot(t, k)] = kpLoc[Slot(t, k)]
        OBVIOUS
      <4>1. Slot(t, k) # idx[t]
        BY <2>2, <3>0, RowsDisjoint
      <4> QED
        BY <2>1, <2>3, <2>5, <4>1 DEF Types
    <3>4. Filled(t) = Recorded(t) /\ Recorded(t)' = Recorded(t) /\ Filled(t)' = n
      BY <1>0, <2>1, <3>0 DEF Filled, Recorded
    <3>5. Recorded(t) \in Nat
      BY <1>0, CountFacts
    <3>6. (\A k \in 1..M : kpLoc[Slot(t, k)] # 0 <=> k <= Filled(t))'
      <4>1. \A k \in 1..M : kpLoc[Slot(t, k)] # 0 <=> k <= Recorded(t)
        BY <1>0, <3>4 DEF Records
      <4>2. \A k \in 1..M : kpLoc'[Slot(t, k)] # 0 <=> k <= n
        BY <3>0, <3>1, <3>2, <3>3, <3>5, <4>1, SizeAssumption
      <4> QED
        BY <3>4, <4>2
    <3>7. Hits(t, h)' = Hits(t, h) \cup {n}
      BY <3>2, <3>3 DEF Hits
    <3>8. \A g : g # h => Hits(t, g)' \subseteq Hits(t, g)
      BY <3>2, <3>3 DEF Hits
    <3>9. \A g \in Hash : Cardinality(Hits(t, g)') <= LoopUnwinded
      <4> SUFFICES ASSUME NEW g \in Hash
                   PROVE  Cardinality(Hits(t, g)') <= LoopUnwinded
        OBVIOUS
      <4>1. /\ IsFiniteSet(Hits(t, g)) /\ Cardinality(Hits(t, g)) \in Nat
            /\ Cardinality(Hits(t, g)) <= LoopUnwinded
        BY <1>0, HitsFinite DEF Records
      <4>2. CASE g = h
        <5>1. Cardinality(Hits(t, h)) < LoopUnwinded
          BY <1>0, <2>1, <3>1 DEF Records, Admitted
        <5>2. Cardinality(Hits(t, h) \cup {n}) <= Cardinality(Hits(t, h)) + 1
          BY <4>1, <4>2, FS_AddElement
        <5>3. Cardinality(Hits(t, h) \cup {n}) \in Nat
          BY <4>1, <4>2, FS_AddElement, FS_CardinalityType
        <5>4. Hits(t, g)' = Hits(t, h) \cup {n}
          BY <3>7, <4>2
        <5>5. Cardinality(Hits(t, h)) \in Nat
          BY <4>1, <4>2
        <5>6. Cardinality(Hits(t, h) \cup {n}) <= LoopUnwinded
          BY <5>1, <5>2, <5>3, <5>5, BoundAssumption
        <5> QED
          BY <5>4, <5>6
      <4>3. CASE g # h
        <5>1. Cardinality(Hits(t, g)') <= Cardinality(Hits(t, g))
          BY <3>8, <4>1, <4>3, FS_Subset
        <5>2. IsFiniteSet(Hits(t, g)') /\ Cardinality(Hits(t, g)') \in Nat
          BY <3>8, <4>1, <4>3, FS_Subset, FS_CardinalityType
        <5> QED
          BY <4>1, <5>1, <5>2, BoundAssumption
      <4> QED
        BY <4>2, <4>3
    <3>10. ~Admitted(t)'
      BY <1>0, <2>1 DEF Admitted
    <3>11. /\ Drawn(t)' = Drawn(t)
           /\ \A i \in 1..Drawn(t) : Order(t, i)' = Order(t, i)
      BY <1>0, <2>1, <3>4, OrderType DEF Drawn, Order
    <3>12. Drawn(t) \in Nat
      BY <1>0, OrderType
    <3>13. /\ (\A i \in 1..Drawn(t) : Order(t, i) < curSyncOrder)'
           /\ (\A i \in 1..(Drawn(t) - 1) : Order(t, i) < Order(t, i + 1))'
      <4>1. /\ \A i \in 1..Drawn(t) : Order(t, i) < curSyncOrder
            /\ \A i \in 1..(Drawn(t) - 1) : Order(t, i) < Order(t, i + 1)
        BY <1>0 DEF Records
      <4>2. \A i \in 1..(Drawn(t) - 1) : i \in 1..Drawn(t) /\ i + 1 \in 1..Drawn(t)
        BY <3>12
      <4> QED
        BY <2>1, <3>11, <4>1, <4>2
    <3> QED
      BY <2>5, <3>6, <3>9, <3>10, <3>13 DEF Records
  <2> QED
    BY <2>4, <2>5
<1>5. ASSUME NEW t \in Thread, FetchOrder(t) PROVE Records(u)'
  <2>1. /\ UNCHANGED <<idx, path, kpLoc, kpOrder>>
        /\ pc[t] = "order" /\ pc' = [pc EXCEPT ![t] = "store"]
        /\ kp_order' = [kp_order EXCEPT ![t] = curSyncOrder]
        /\ curSyncOrder' = curSyncOrder + 1
    BY <1>5 DEF FetchOrder
  <2>2. CASE u # t
    <3>1. pc'[u] = pc[u] /\ kp_order'[u] = kp_order[u] /\ (Admitted(u)' => Admitted(u))
      BY <1>0, <2>1, <2>2 DEF Admitted
    <3> QED
      BY <1>0, <2>1, <3>1, RecordsUntouched
  <2>3. CASE u = t
    <3>0. PICK n \in Nat : n = Recorded(t)
      BY <1>0, CountFacts
    <3>1. pc'[t] = "store" /\ kp_order'[t] = curSyncOrder /\ Recorded(t)' = n
      BY <1>0, <2>1, <3>0 DEF Recorded
    <3>2. Filled(t)' = Filled(t) /\ Drawn(t) = n /\ Drawn(t)' = n + 1 /\ ~Admitted(t)'
      BY <2>1, <3>0, <3>1 DEF Filled, Drawn, Admitted
    <3>3. \A h : Hits(t, h)' = Hits(t, h)
      BY <2>1 DEF Hits
    <3>4. Order(t, n + 1)' = curSyncOrder /\ \A i \in 1..n : Order(t, i)' = Order(t, i)
      BY <2>1, <3>0, <3>1 DEF Order
    <3>5. \A i \in 1..n : Order(t, i) \in Nat /\ Order(t, i) < curSyncOrder
      BY <1>0, <3>2, OrderType DEF Records
    <3>6. (\A i \in 1..Drawn(t) : Order(t, i) < curSyncOrder)'
      <4> SUFFICES ASSUME NEW i \in 1..(n + 1) PROVE Order(t, i)' < curSyncOrder'
        BY <3>2
      <4>1. i \in 1..n \/ i = n + 1
        OBVIOUS
      <4> QED
        BY <1>0, <2>1, <3>4, <3>5, <4>1
    <3>7. (\A i \in 1..(Drawn(t) - 1) : Order(t, i) < Order(t, i + 1))'
      <4> SUFFICES ASSUME NEW i \in 1..n PROVE Order(t, i)' < Order(t, i + 1)'
        BY <3>1, <3>2
      <4>1. CASE i = n
        BY <3>4, <3>5, <4>1
      <4>2. CASE i # n
        <5>1. i + 1 \in 1..n /\ i \in 1..(Drawn(t) - 1)
          BY <3>1, <3>2, <4>2
        <5>2. Order(t, i) < Order(t, i + 1)
          BY <1>0, <5>1 DEF Records
        <5> QED
          BY <3>4, <5>1, <5>2
      <4> QED
        BY <4>1, <4>2
    <3> QED
      BY <1>0, <2>1, <2>3, <3>2, <3>3, <3>6, <3>7 DEF Records
  <2> QED
    BY <2>2, <2>3
<1>6. ASSUME NEW t \in Thread, StoreOrder(t) PROVE Records(u)'
  <2>1. /\ UNCHANGED <<path, kpLoc, curSyncOrder, kp_order>>
        /\ pc[t] = "store" /\ pc' = [pc EXCEPT ![t] = "op"]
        /\ kpOrder' = [kpOrder EXCEPT ![idx[t]] = kp_order[t]]
        /\ idx' = [idx EXCEPT ![t] = IF idx[t] >= Orig(t) + M THEN End ELSE idx[t] + 1]
    BY <1>6 DEF StoreOrder
  <2>2. /\ Recorded(t) + 1 \in 1..M /\ idx[t] = Slot(t, Recorded(t) + 1)
        /\ idx[t] \in Slots /\ idx[t] = Orig(t) + Recorded(t)
    BY <1>0, <2>1, CountFacts, SizeAssumption DEF AtSlot
  <2>3. \A k \in 1..M : Slot(u, k) \in Slots
    BY SlotArithmetic, SizeAssumption DEF Slots
  <2>4. CASE u # t
    <3>1. \A k \in 1..M : kpOrder'[Slot(u, k)] = kpOrder[Slot(u, k)]
      <4>1. \A k \in 1..M : Slot(u, k) # idx[t]
        BY <2>2, <2>4, RowsDisjoint
      <4> QED
        BY <2>1, <2>3, <4>1 DEF Types
    <3>2. pc'[u] = pc[u] /\ idx'[u] = idx[u] /\ (Admitted(u)' => Admitted(u))
      BY <1>0, <2>1, <2>4 DEF Admitted
    <3> QED
      BY <1>0, <2>1, <3>1, <3>2, RecordsUntouched
  <2>5. CASE u = t
    <3>0. PICK n \in Nat : n = Recorded(t)
      BY <1>0, CountFacts
    <3>1. idx'[t] = idx[t] + 1 /\ Orig(t) \in Nat
      <4>1. Orig(t) \in Nat /\ M \in Nat /\ ~(idx[t] >= Orig(t) + M)
        BY <2>2, <3>0, SlotArithmetic, SizeAssumption
      <4> QED
        BY <1>0, <2>1, <4>1
    <3>2. Recorded(t)' = n + 1
      BY <2>2, <3>0, <3>1 DEF Recorded, Orig
    <3>3. /\ Filled(t)' = Filled(t) /\ Drawn(t)' = Drawn(t) /\ Drawn(t) = n + 1
          /\ ~Admitted(t)'
      BY <1>0, <2>1, <3>0, <3>2 DEF Filled, Drawn, Admitted
    <3>4. kpOrder'[Slot(t, n + 1)] = kp_order[t]
      BY <2>1, <2>2, <3>0 DEF Types
    <3>5. \A i \in 1..n : kpOrder'[Slot(t, i)] = kpOrder[Slot(t, i)]
      <4> SUFFICES ASSUME NEW i \in 1..n PROVE kpOrder'[Slot(t, i)] = kpOrder[Slot(t, i)]
        OBVIOUS
      <4>1. i \in 1..M /\ i # n + 1
        BY <2>2, <3>0, SizeAssumption
      <4>2. Slot(t, i) # idx[t]
        BY <2>2, <3>0, <4>1, RowsDisjoint
      <4> QED
        BY <2>1, <2>3, <2>5, <4>1, <4>2 DEF Types
    <3>6. \A i \in 1..Drawn(t) : Order(t, i)' = Order(t, i) /\ Order(t, i) \in Nat
      BY <1>0, <2>1, <3>0, <3>2, <3>3, <3>4, <3>5, OrderType DEF Order
    <3> QED
      BY <1>0, <2>1, <2>5, <3>3, <3>6, RecordsFrame
  <2> QED
    BY <2>4, <2>5
<1>7. CASE Tick
  <2>1. UNCHANGED <<arrays, idx, kp_order, pc, path>>
    BY <1>7 DEF Tick
  <2> QED
    BY <1>1, <2>1 DEF Admitted
<1>8. CASE UNCHANGED vars
  <2>1. UNCHANGED <<arrays, idx, kp_order, pc, path>>
    BY <1>8 DEF vars
  <2> QED
    BY <1>1, <2>1 DEF Admitted
<1> QED
  BY <1>2, <1>3, <1>4, <1>5, <1>6, <1>7, <1>8 DEF Next, ThreadStep

LEMMA RecordsInit == ASSUME Init PROVE RecordsInv
<1> SUFFICES ASSUME NEW t \in Thread PROVE Records(t)
  BY DEF RecordsInv
<1>0. Orig(t) \in Nat /\ \A k \in 1..M : Slot(t, k) \in Slots
  BY SlotArithmetic, SizeAssumption DEF Slots
<1>1. /\ pc[t] = "body" /\ idx[t] = Orig(t) /\ Orig(t) \in Nat
      /\ \A k \in 1..M : kpLoc[Slot(t, k)] = 0
  BY <1>0 DEF Init
<1>2. Recorded(t) = 0 /\ Filled(t) = 0 /\ Drawn(t) = 0 /\ ~Admitted(t)
  BY <1>1 DEF Recorded, Filled, Drawn, Admitted
<1>3. \A h \in Hash : Hits(t, h) = {}
  BY <1>1, HashAssumption DEF Hits
<1>4. \A h \in Hash : Cardinality(Hits(t, h)) <= LoopUnwinded
  BY <1>3, FS_EmptySet, BoundAssumption
<1>5. \A k \in 1..M : kpLoc[Slot(t, k)] # 0 <=> k <= Filled(t)
  BY <1>1, <1>2, SizeAssumption
<1> QED
  BY <1>2, <1>4, <1>5 DEF Records

(* The slots that hold a location are the ones a thread has filled, no     *)
(* location more often than the loop bound, and its order numbers rise     *)
(* (DBDSFunction.cpp 548-617).                                             *)
THEOREM RecordsInvariant == PathsFit /\ Spec => []RecordsInv
<1> SUFFICES ASSUME PathsFit PROVE Spec => []RecordsInv
  OBVIOUS
<1>1. Init => RecordsInv
  BY RecordsInit
<1>2. Types /\ RunInv /\ RecordsInv /\ (Types /\ RunInv)' /\ [Next]_vars => RecordsInv'
  BY RecordsStep
<1>3. Spec => [](Types /\ RunInv)
  BY RunInvariant
<1> QED
  BY <1>1, <1>2, <1>3, PTL DEF Spec

(* A thread that has returned has recorded exactly the KPs it counted,     *)
(* each location within the bound, in the order in which it ran them.      *)
THEOREM RecordsAreComplete == PathsFit /\ Spec => []RecordsComplete
<1> SUFFICES ASSUME PathsFit PROVE Spec => []RecordsComplete
  OBVIOUS
<1>1. ASSUME Types, RunInv, RecordsInv PROVE RecordsComplete
  <2> SUFFICES ASSUME NEW t \in Thread, pc[t] = "done"
               PROVE  /\ mapTid[t] = Recorded(t)
                      /\ \A k \in 1..M : kpLoc[Slot(t, k)] # 0 <=> k <= mapTid[t]
                      /\ \A h \in Hash :
                            Cardinality({k \in 1..M : kpLoc[Slot(t, k)] = h}) <= LoopUnwinded
                      /\ \A k \in 1..(mapTid[t] - 1) :
                            kpOrder[Slot(t, k)] < kpOrder[Slot(t, k + 1)]
    BY DEF RecordsComplete
  <2>1. Records(t) /\ Counted(t) /\ Recorded(t) \in 0..M
    BY <1>1, CountFacts DEF RecordsInv, RunInv, CountInv
  <2>2. mapTid[t] = Recorded(t)
    BY <2>1 DEF Counted, AtSlot
  <2>3. Filled(t) = Recorded(t) /\ Drawn(t) = Recorded(t)
    BY DEF Filled, Drawn
  <2>4. ASSUME NEW k \in 1..(mapTid[t] - 1)
        PROVE  kpOrder[Slot(t, k)] < kpOrder[Slot(t, k + 1)]
    <3>1. Order(t, k) < Order(t, k + 1)
      BY <2>1, <2>2, <2>3, <2>4 DEF Records
    <3>2. k <= Recorded(t) /\ k + 1 <= Recorded(t)
      BY <2>1, <2>2, <2>4
    <3> QED
      BY <3>1, <3>2 DEF Order
  <2> QED
    BY <2>1, <2>2, <2>3, <2>4 DEF Records, Hits
<1>2. Types /\ RunInv /\ RecordsInv => RecordsComplete
  BY <1>1
<1> QED
  BY <1>2, RunInvariant, RecordsInvariant, PTL
=============================================================================
