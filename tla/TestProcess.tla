------------------------------ MODULE TestProcess -------------------------------
(***************************************************************************)
(* One execution of the instrumented program, from traceBegin to traceEnd  *)
(* (DBDSFunction.cpp), in a dry run or under a schedule.  The maps that    *)
(* the runtime keeps by thread id are fields of the threads; what a        *)
(* lookup finds depends on the ids the kernel has given out.               *)
(*                                                                         *)
(* Only main creates threads, so the spin and the increment of             *)
(* before_pthread_create are one step (ThreadHandshake has them apart).    *)
(* A key point (KP) is one step as well: KeyPoints has its parts and the   *)
(* clock.  Here the yields in front of a KP are only counted; no line is   *)
(* met more than LOOP_UNWINDED_NUM times by one thread.  joinable is left  *)
(* out: it only decides whether the destructor first waits a second.       *)
(***************************************************************************)
EXTENDS Instrumentation, DeadlineParameters, FiniteSets, FiniteSetsExt

CONSTANTS
    ArraySize,          \* SHARE_MEMORY_ARRAY_SIZE
    ThreadNum,          \* SHARE_MEMORY_THREAD_NUM
    Tids,               \* ids the kernel may give out, in order of creation
    Times,              \* how long a dry run may take (usec)
    Cpus                \* num_cpu, for the whole session

ASSUME SizeAssumption == {ArraySize, ThreadNum, Cpus} \subseteq Nat \ {0}
ASSUME TimesAssumption == Times \subseteq Nat
(* No two threads have one id, and only a thread's successor can have the  *)
(* id behind its own: the kernel counts up, and wraps around.              *)
ASSUME TidsAssumption ==
    \A ids \in Tids :
        /\ ids \in Seq(Nat)
        /\ \A t, u \in DOMAIN ids : /\ ids[t] = ids[u] => t = u
                                    /\ ids[u] = ids[t] - 1 => t = u + 1

Main == 1
Rows == 0..(ThreadNum - 1)
Slots == 0..(ArraySize - 1)

VARIABLES
    prog,               \* the program, for the whole session
    shm,                \* Sched_Info: time, N, M, num (kpNumArray), kp, loc (kpLoc)
    code,               \* the instrumented functions
    mode,               \* "dry", "dbds", or how the last execution ended
    num_td, num_kp, DBDSruntime, kpYield,   \* as loaded by traceBegin
    turn, c_tid,        \* of the creation handshake
    tids,               \* the thread ids of this execution
    threads             \* the threads so far, main first

loaded == <<num_td, num_kp, DBDSruntime>>
process == <<code, mode, loaded, kpYield, turn, c_tid, tids, threads>>

Thread == DOMAIN threads

(* my_tid is the entry of my_tidMap, kps that of mapTid; idx and orig are  *)
(* those of idx_kpMap and idx_original_kpMap, which a lookup creates as 0. *)
(* yields (history) says what the thread has burnt in front of each KP.    *)
NewThread(f) ==
    [fn |-> f, at |-> 1, my_tid |-> 0, kps |-> 0, orig |-> 0, idx |-> 0, yields |-> <<>>]

Running == mode \in {"dry", "dbds"}
Ended(t) == threads[t].at > Len(code[threads[t].fn])
At(t, op) == Running /\ t \in Thread /\ ~Ended(t) /\ code[threads[t].fn][threads[t].at].op = op
About(t) == code[threads[t].fn][threads[t].at].to
Go(t) == [threads EXCEPT ![t].at = @ + 1]

-----------------------------------------------------------------------------
(* traceBegin: counts and records are cleared; a run under a schedule loads it.    *)
TraceBegin(m) ==
    /\ mode' = m
    /\ shm' = [shm EXCEPT !.num = [r \in Rows |-> 0], !.loc = [s \in Slots |-> NoLine]]
    /\ turn' = 0 /\ c_tid' = 0
    /\ IF m = "dbds"
       THEN /\ num_td' = shm.N /\ num_kp' = shm.M /\ DBDSruntime' = shm.time
            /\ kpYield' = [s \in Slots |-> IF s < shm.N * shm.M THEN shm.kp[s] ELSE 0]
       ELSE UNCHANGED <<loaded, kpYield>>
    /\ tids' \in Tids
    /\ threads' = <<NewThread("main")>>
    /\ UNCHANGED code

-----------------------------------------------------------------------------
(* traceEnd: the row of a thread is found through the number of the thread *)
(* with the id before its own, or, if that has none, through its own.      *)
(* my_tidMap is a static object, and without ASAN its memory is gone when  *)
(* the destructor runs (70-71, 363): a lookup then finds the entries that  *)
(* are still intact, and makes those it misses as 0.  mapTid is walked as  *)
(* if it were still there.                                                 *)

MyTid(id, intact) ==
    LET owners == {t \in intact : tids[t] = id}
    IN  IF owners = {} THEN 0 ELSE threads[CHOOSE t \in owners : TRUE].my_tid

(* Mutant of RowOf: without the second lookup. *)
RowByPredecessor(t, intact) == MyTid(tids[t] - 1, intact)

RowOf(t, intact) ==
    LET before == MyTid(tids[t] - 1, intact)
    IN  IF before = 0 THEN MyTid(tids[t], intact) - 1 ELSE before

(* Of two threads with one row the one with the greater id is written last; *)
(* row -1 lies in front of the array.                                       *)
Summary(intact) ==
    LET counted == {t \in Thread : threads[t].kps > 0}
        others == counted \ {Main}
        Writers(r) == {t \in others : RowOf(t, intact) = r}
        Latest(ts) == CHOOSE t \in ts : \A u \in ts : tids[u] <= tids[t]
    IN  [shm EXCEPT
            !.num = [r \in Rows |-> IF Writers(r) = {} THEN @[r]
                                    ELSE threads[Latest(Writers(r))].kps],
            !.N = Cardinality(counted) - 1,
            !.M = Max({threads[t].kps : t \in others} \cup {0})]

TraceEnd(intact) ==
    IF mode = "dry" THEN \E time \in Times : shm' = [Summary(intact) EXCEPT !.time = time]
    ELSE shm' = Summary(intact)

(* traceEnd as the destructor. *)
Destructor == \E intact \in SUBSET Thread : (prog.asan => intact = Thread) /\ TraceEnd(intact)

(* The end of an execution; nothing of it is left but shared memory. *)
End(outcome) ==
    /\ mode' = outcome
    /\ threads' = <<>> /\ kpYield' = [s \in Slots |-> 0]
    /\ UNCHANGED <<code, loaded, turn, c_tid, tids>>

(* main returns: the destructor runs, while threads that were not joined   *)
(* may be anywhere.                                                        *)
MainReturns ==
    /\ Running /\ threads # <<>> /\ Ended(Main)
    /\ Destructor
    /\ End("returned")

(* _exit runs no destructor, so the pass calls traceEnd in front of it,    *)
(* where all maps are intact.                                              *)
CallTraceEnd(t) ==
    /\ At(t, "traceEnd")
    /\ TraceEnd(Thread)
    /\ threads' = Go(t)
    /\ UNCHANGED <<code, mode, loaded, kpYield, turn, c_tid, tids>>
Exit(t) == At(t, "_exit") /\ End("returned") /\ UNCHANGED shm

-----------------------------------------------------------------------------
(* Creation *)
BeforePthreadCreate(t) ==
    /\ At(t, "before_pthread_create")
    /\ turn = 0
    /\ c_tid' = c_tid + 1 /\ turn' = c_tid'
    /\ threads' = Go(t)
    /\ UNCHANGED <<shm, code, mode, loaded, kpYield, tids>>

(* pthread_create, or a wrapper of it *)
PthreadCreate(t) ==
    /\ Running /\ t \in Thread /\ ~Ended(t)
    /\ code[threads[t].fn][threads[t].at].op \in Creations
    /\ threads' = Append(Go(t), NewThread(About(t)))
    /\ UNCHANGED <<shm, code, mode, loaded, kpYield, turn, c_tid, tids>>

(* Mutant of RowStart: rows of the dry run's length in every mode. *)
RowStartDry(n) == IF (n - 1) * (ArraySize \div 10) >= ArraySize THEN 0
                  ELSE (n - 1) * (ArraySize \div 10)

(* tid2index (478-488) *)
RowStart(n) ==
    IF mode = "dbds" THEN (n - 1) * num_kp
    ELSE IF (n - 1) * (ArraySize \div 10) >= ArraySize THEN 0
    ELSE (n - 1) * (ArraySize \div 10)

(* A thread has its reservation until it ends. *)
Reserved == Cardinality({t \in Thread : threads[t].my_tid # 0 /\ ~Ended(t)})
Refused == mode = "dbds" /\ ~Admits(Reserved, DBDSruntime, num_td, Cpus)

(* instr_PthreadCall; a routine is entered once, so the thread is not      *)
(* known yet.  When the kernel refuses the reservation, exit(-1) runs the  *)
(* destructor in this thread.                                              *)
Register(t) ==
    LET entered == [Go(t) EXCEPT ![t].my_tid = turn,
                                 ![t].orig = RowStart(turn), ![t].idx = RowStart(turn)]
    IN  /\ At(t, "instr_PthreadCall")
        /\ turn # 0
        /\ IF Refused
           THEN Destructor /\ End("refused")
           ELSE /\ threads' = entered /\ turn' = 0
                /\ UNCHANGED <<shm, code, mode, loaded, kpYield, c_tid, tids>>

-----------------------------------------------------------------------------
(* Key points *)

(* instr_LOC: the forced KP of main, which makes it an entry of mapTid.    *)
MainKeyPoint(t) ==
    /\ At(t, "instr_LOC")
    /\ threads' = [Go(t) EXCEPT ![t].kps = @ + 1]
    /\ UNCHANGED <<shm, code, mode, loaded, kpYield, turn, c_tid, tids>>

(* The index moves on, in a row that is full to the slot behind all rows.  *)
Advance(th) ==
    IF mode = "dbds" /\ th.idx >= th.orig + num_kp THEN num_td * num_kp ELSE th.idx + 1

(* instr_LOC_string: main's KPs are counted and not scheduled.  The order  *)
(* of the records (kpOrder) is left to KeyPoints; the driver only prints it. *)
KeyPoint(t) ==
    LET th == threads[t]
        line == code[th.fn][th.at].line
        spent == IF mode = "dbds" /\ th.idx \in Slots THEN kpYield[th.idx] ELSE 0
    IN  /\ At(t, "instr_LOC_string")
        /\ IF t = Main
           THEN threads' = [Go(t) EXCEPT ![t].kps = @ + 1] /\ UNCHANGED <<shm, kpYield>>
           ELSE /\ threads' = [Go(t) EXCEPT ![t].kps = @ + 1, ![t].idx = Advance(th),
                                            ![t].yields = Append(@, spent)]
                /\ shm' = [shm EXCEPT !.loc = [s \in Slots |-> IF s = th.idx THEN line ELSE @[s]]]
                /\ kpYield' = [s \in Slots |-> IF s = th.idx /\ mode = "dbds" THEN 0 ELSE kpYield[s]]
        /\ UNCHANGED <<code, mode, loaded, turn, c_tid, tids>>

-----------------------------------------------------------------------------
(* pthread_join waits for the threads that run the routine. *)
PthreadJoin(t) ==
    /\ At(t, "pthread_join")
    /\ \A u \in Thread : threads[u].fn = About(t) => Ended(u)
    /\ threads' = Go(t)
    /\ UNCHANGED <<shm, code, mode, loaded, kpYield, turn, c_tid, tids>>

ThreadStep(t) ==
    \/ BeforePthreadCreate(t) \/ PthreadCreate(t) \/ Register(t)
    \/ MainKeyPoint(t) \/ KeyPoint(t)
    \/ PthreadJoin(t)
    \/ CallTraceEnd(t) \/ Exit(t)
    \/ t = Main /\ MainReturns
=============================================================================
