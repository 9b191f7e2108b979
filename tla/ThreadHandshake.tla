--------------------------- MODULE ThreadHandshake ---------------------------
(***************************************************************************)
(* The thread creation handshake of the runtime library that PERIOD links  *)
(* into the tested program (DBDSFunction.cpp, sched.h).  The pass calls    *)
(* before_pthread_create in front of every pthread_create and              *)
(* instr_PthreadCall at the head of every start routine.  One atomic       *)
(* integer, tid_to_run, carries the number of the thread being created     *)
(* from its creator to it; 0 means that nobody is being created.           *)
(*                                                                         *)
(* One action is one shared memory access (or one call of the kernel), so  *)
(* every interleaving of creators and children is a behaviour.             *)
(***************************************************************************)
EXTENDS Naturals, FiniteSets

CONSTANTS
    Main,               \* the thread that runs main(); gettid() = mainTid
    Child,              \* the threads the program may create
    Parent,             \* Parent[c]: the thread that creates c
    Instrumented,       \* children whose start routine the pass saw
    Unlucky,            \* children whose pthread_create may fail (EAGAIN)
    Admitted            \* how many SCHED_DEADLINE threads are always admitted

ASSUME MainAssumption   == Main \notin Child
ASSUME ParentAssumption == Parent \in [Child -> Child \cup {Main}]
ASSUME SubsetAssumption == Instrumented \subseteq Child /\ Unlucky \subseteq Child
ASSUME AdmitAssumption  == Admitted \in Nat

Thread == Child \cup {Main}

VARIABLES
    pc,                 \* where each thread is
    making,             \* the child a creator is about to create
    tid_to_run,         \* std::atomic<int>, sched.h
    c_tid,              \* the last child number handed out
    reg,                \* a thread's local copy of c_tid, or its sched_tid
    my_tid,             \* my_tidMap; 0 = not in the map
    deadline,           \* the threads that run under SCHED_DEADLINE
    exited,             \* exit(-1) after a refused sched_setattr
    count, rank         \* history: threads created, place in that order

shared == <<tid_to_run, c_tid>>
history == <<count, rank>>
vars == <<pc, making, tid_to_run, c_tid, reg, my_tid, deadline, exited, count, rank>>

CreatorPC == {"spin", "load", "store", "publish", "create"}
EntryPC   == {"waiting", "claiming", "registering", "releasing"}
PC == CreatorPC \cup EntryPC \cup {"unborn", "failed", "running", "done"}

Unmade(t) == {c \in Child : Parent[c] = t /\ pc[c] = "unborn"}

Move(t, from, to) == pc[t] = from /\ pc' = [pc EXCEPT ![t] = to]

(* traceBegin runs before main(): set_tid_to_run(0), empty maps. *)
Init ==
    /\ pc = [t \in Thread |-> IF t = Main THEN "running" ELSE "unborn"]
    /\ making = [t \in Thread |-> Main]
    /\ tid_to_run = 0
    /\ c_tid = 0
    /\ reg = [t \in Thread |-> 0]
    /\ my_tid = [c \in Child |-> 0]
    /\ deadline = {}
    /\ exited = FALSE
    /\ count = 0
    /\ rank = [c \in Child |-> 0]

-----------------------------------------------------------------------------
(* before_pthread_create, and the pthread_create behind it *)

(* The program reaches a pthread_create for one of t's children. *)
Reach(t, c) ==
    /\ c \in Unmade(t)
    /\ Move(t, "running", "spin")
    /\ making' = [making EXCEPT ![t] = c]
    /\ UNCHANGED <<shared, reg, my_tid, deadline, exited, history>>

(* Mutant of PassSpin: the creator does not wait for its turn. *)
PassSpinAtOnce(t) ==
    /\ Move(t, "spin", "load")
    /\ UNCHANGED <<making, shared, reg, my_tid, deadline, exited, history>>

(* while (get_tid_to_run() != 0); *)
PassSpin(t) ==
    /\ tid_to_run = 0
    /\ Move(t, "spin", "load")
    /\ UNCHANGED <<making, shared, reg, my_tid, deadline, exited, history>>

(* Mutant of LoadCTid: the counter is not advanced. *)
LoadCTidOnly(t) ==
    /\ Move(t, "load", "store")
    /\ reg' = [reg EXCEPT ![t] = c_tid]
    /\ UNCHANGED <<making, shared, my_tid, deadline, exited, history>>

(* c_tid++ on a plain int: a load ... *)
LoadCTid(t) ==
    /\ Move(t, "load", "store")
    /\ reg' = [reg EXCEPT ![t] = c_tid + 1]
    /\ UNCHANGED <<making, shared, my_tid, deadline, exited, history>>

(* ... and a store. *)
StoreCTid(t) ==
    /\ Move(t, "store", "publish")
    /\ c_tid' = reg[t]
    /\ UNCHANGED <<making, tid_to_run, reg, my_tid, deadline, exited, history>>

(* set_tid_to_run(c_tid): the argument is the register or a second load. *)
Publish(t) ==
    /\ Move(t, "publish", "create")
    /\ \E n \in {reg[t], c_tid} : tid_to_run' = n
    /\ UNCHANGED <<making, c_tid, reg, my_tid, deadline, exited, history>>

(* pthread_create starts the child.  A start routine the pass did not see  *)
(* (a library's) never calls instr_PthreadCall.                            *)
PthreadCreate(t) ==
    LET c == making[t] IN
    /\ pc[t] = "create"
    /\ pc' = [pc EXCEPT ![t] = "running",
                        ![c] = IF c \in Instrumented THEN "waiting" ELSE "running"]
    /\ count' = count + 1
    /\ rank' = [rank EXCEPT ![c] = count + 1]
    /\ UNCHANGED <<making, shared, reg, my_tid, deadline, exited>>

(* pthread_create returns an error; the program goes on without the child. *)
PthreadCreateFails(t) ==
    LET c == making[t] IN
    /\ pc[t] = "create"
    /\ c \in Unlucky
    /\ pc' = [pc EXCEPT ![t] = "running", ![c] = "failed"]
    /\ UNCHANGED <<making, shared, reg, my_tid, deadline, exited, history>>

-----------------------------------------------------------------------------
(* instr_PthreadCall *)

(* while (get_tid_to_run() == 0); *)
SeeTurn(t) ==
    /\ tid_to_run # 0
    /\ Move(t, "waiting", "claiming")
    /\ UNCHANGED <<making, shared, reg, my_tid, deadline, exited, history>>

(* Mutant of Claim: the turn is handed back with the number, too early. *)
ClaimAndRelease(t) ==
    /\ Move(t, "claiming", "registering")
    /\ reg' = [reg EXCEPT ![t] = tid_to_run]
    /\ tid_to_run' = 0
    /\ UNCHANGED <<making, c_tid, my_tid, deadline, exited, history>>

(* int sched_tid = get_tid_to_run();  a second load of the atomic *)
Claim(t) ==
    /\ Move(t, "claiming", "registering")
    /\ reg' = [reg EXCEPT ![t] = tid_to_run]
    /\ UNCHANGED <<making, shared, my_tid, deadline, exited, history>>

(* Mutant of Register: a refused sched_setattr is ignored. *)
RegisterAnyway(t) ==
    /\ Move(t, "registering", "releasing")
    /\ my_tid' = [my_tid EXCEPT ![t] = reg[t]]
    /\ \/ deadline' = deadline \cup {t}
       \/ Cardinality(deadline) >= Admitted /\ UNCHANGED deadline
    /\ UNCHANGED <<making, shared, reg, exited, history>>

(* The map inserts, then setDeadLineSched; set_sched_dl ends the whole     *)
(* process when the kernel refuses the reservation, which it may do when   *)
(* it has admitted others: how many depends on what else runs.             *)
Register(t) ==
    /\ Move(t, "registering", "releasing")
    /\ my_tid' = [my_tid EXCEPT ![t] = reg[t]]
    /\ \/ deadline' = deadline \cup {t} /\ UNCHANGED exited
       \/ Cardinality(deadline) >= Admitted /\ exited' = TRUE /\ UNCHANGED deadline
    /\ UNCHANGED <<making, shared, reg, history>>

(* Mutant of Release: the free turn is marked with -1. *)
ReleaseWithMinusOne(t) ==
    /\ Move(t, "releasing", "running")
    /\ tid_to_run' = 0 - 1
    /\ UNCHANGED <<making, c_tid, reg, my_tid, deadline, exited, history>>

(* set_tid_to_run(0): the creator may go on. *)
Release(t) ==
    /\ Move(t, "releasing", "running")
    /\ tid_to_run' = 0
    /\ UNCHANGED <<making, c_tid, reg, my_tid, deadline, exited, history>>

(* A thread that has created all its children returns. *)
Finish(t) ==
    /\ Unmade(t) = {}
    /\ Move(t, "running", "done")
    /\ UNCHANGED <<making, shared, reg, my_tid, deadline, exited, history>>

-----------------------------------------------------------------------------
CreatorStep(t) ==
    \/ \E c \in Child : Reach(t, c)
    \/ PassSpin(t)
    \/ LoadCTid(t)
    \/ StoreCTid(t)
    \/ Publish(t)
    \/ PthreadCreate(t)
    \/ PthreadCreateFails(t)

ChildStep(t) == SeeTurn(t) \/ Claim(t) \/ Register(t) \/ Release(t)

Step(t) == ~exited /\ (CreatorStep(t) \/ ChildStep(t) \/ Finish(t))

(* The process is over: every thread returned, or exit(-1) took them all. *)
Ended ==
    /\ exited \/ \A t \in Thread : pc[t] \in {"done", "failed"}
    /\ UNCHANGED vars

Next == Ended \/ \E t \in Thread : Step(t)

(* The kernel runs every runnable thread: creators spin under SCHED_OTHER, *)
(* and a SCHED_DEADLINE thread is throttled at the end of its budget.      *)
Fairness == \A t \in Thread : WF_vars(Step(t))

Spec == Init /\ [][Next]_vars
FairSpec == Spec /\ Fairness

-----------------------------------------------------------------------------
(* Types of all variables of the handshake (DBDSFunction.cpp 48-76). *)
TypeOK ==
    /\ pc \in [Thread -> PC]
    /\ making \in [Thread -> Thread]
    /\ tid_to_run \in Nat
    /\ c_tid \in Nat
    /\ reg \in [Thread -> Nat]
    /\ my_tid \in [Child -> Nat]
    /\ deadline \subseteq Thread
    /\ exited \in BOOLEAN
    /\ count \in Nat
    /\ rank \in [Child -> Nat]

(* One thread creates all the others: the shape of every program in test/. *)
SingleCreator == \A c \in Child : Parent[c] = Main

(* No two threads get the same number: "get the next child tid" (line 511) *)
(* is what gives every thread a row of its own in the schedule.            *)
UniqueNumbers ==
    \A t, u \in Child : t # u /\ my_tid[t] # 0 => my_tid[t] # my_tid[u]

(* At most one child is between reading its number and handing the turn    *)
(* back: the handshake is the lock that guards the inserts into the maps.  *)
RegistrationExclusive ==
    \A t, u \in Child :
        /\ pc[t] \in {"claiming", "registering", "releasing"}
        /\ pc[u] \in {"claiming", "registering", "releasing"}
        => t = u

(* A child of an instrumented routine is half made only as the last one    *)
(* created and while the turn still carries its number: in every state,    *)
(* and even when exit(-1) catches it (lines 464-504), all the others have  *)
(* their number in my_tidMap and their SCHED_DEADLINE reservation, so a    *)
(* free turn means that no child is half made.                             *)
NoChildLeftBehind ==
    \A c \in Instrumented :
        rank[c] # 0 =>
            \/ my_tid[c] = rank[c] /\ c \in deadline
            \/ tid_to_run = rank[c] /\ rank[c] = count

(* A child that never registers (a start routine the pass did not see, or  *)
(* a failed pthread_create) keeps the turn: nobody passes the spin of      *)
(* before_pthread_create or registers any more.                            *)
Lost(c) == \/ pc[c] = "failed"
           \/ rank[c] # 0 /\ c \notin Instrumented
TurnIsLost == [][(\E c \in Child : Lost(c)) =>
                    UNCHANGED <<tid_to_run, my_tid, deadline, count>>]_vars

(* Every creation ends: no creator spins for ever on a child's turn (510), *)
(* unless a child was lost or the kernel ended the process; and a child    *)
(* that was created, before another was lost or not, does not spin on its  *)
(* own turn (463) but gets its number.                                     *)
AllDone ==
    <>(\/ exited
       \/ /\ \A c \in Instrumented : rank[c] # 0 => my_tid[c] # 0
          /\ \/ \A t \in Thread : pc[t] = "done"
             \/ \E c \in Child : Lost(c))

-----------------------------------------------------------------------------
(* The inductive invariant behind the safety properties, for one creator.  *)

Settled(c) ==
    /\ pc[c] \in {"unborn", "running", "done"}
    /\ pc[c] # "unborn" => my_tid[c] = rank[c] /\ c \in deadline

RankInv ==
    \A c \in Child :
        /\ pc[c] \notin CreatorPC
        /\ rank[c] = 0 <=> pc[c] \in {"unborn", "failed"}
        /\ rank[c] <= count
        /\ my_tid[c] \in {0, rank[c]}
        /\ my_tid[c] # 0 => c \in Instrumented
        /\ \A d \in Child : rank[c] # 0 /\ rank[c] = rank[d] => c = d

FreeTurnInv ==
    tid_to_run = 0 =>
        /\ \A c \in Child : Settled(c)
        /\ c_tid = IF pc[Main] = "publish" THEN count + 1 ELSE count

CreatorInv ==
    /\ pc[Main] \in CreatorPC \cup {"running", "done"}
    /\ pc[Main] \in {"load", "store", "publish"} => tid_to_run = 0
    /\ pc[Main] \in {"store", "publish"} => reg[Main] = count + 1
    /\ pc[Main] = "create" =>
          /\ \A c \in Child : Settled(c)
          /\ tid_to_run = count + 1 /\ c_tid = count + 1
    /\ pc[Main] \in CreatorPC => making[Main] \in Child /\ pc[making[Main]] = "unborn"

EntryInv ==
    \A c \in Child : pc[c] \in EntryPC =>
        /\ tid_to_run = rank[c] /\ rank[c] = count /\ c_tid = count
        /\ pc[Main] \in {"running", "spin", "done"}
        /\ c \in Instrumented
        /\ pc[c] \in {"registering", "releasing"} => reg[c] = rank[c]
        /\ my_tid[c] = IF pc[c] = "releasing" THEN rank[c] ELSE 0
        /\ pc[c] = "releasing" => exited \/ c \in deadline
        /\ \A d \in Child \ {c} : Settled(d)

(* Who may hold the turn, in every state: nobody, main in the middle of a  *)
(* creation, or one child in instr_PthreadCall (lines 444-513).            *)
TurnInv == RankInv /\ FreeTurnInv /\ CreatorInv /\ EntryInv

Numbering == INSTANCE ThreadNumbering
(* The handshake numbers the threads in the order of their creation        *)
(* (instr_PthreadCall's sched_tid is the creator's c_tid, lines 464, 512). *)
NumbersFollowCreation == Numbering!Spec
=============================================================================
