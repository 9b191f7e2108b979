------------------------ MODULE ThreadHandshakeProofs ------------------------
(***************************************************************************)
(* What the handshake guarantees for any number of threads, when a single  *)
(* thread creates all the others: its type invariant, the inductive        *)
(* invariant TurnInv, the properties that follow from it, and that it      *)
(* implements ThreadNumbering.                                             *)
(***************************************************************************)
EXTENDS ThreadHandshake, TLAPS

(* The variables of the handshake keep their types in every reachable      *)
(* state, whoever creates threads (DBDSFunction.cpp 48-76, sched.h 122).   *)
THEOREM TypeCorrect == Spec => []TypeOK
<1>1. Init => TypeOK
  <2> SUFFICES ASSUME Init PROVE TypeOK
    OBVIOUS
  <2>1. Main \in Thread
    BY DEF Thread
  <2>2. pc \in [Thread -> PC]
    BY DEF Init, PC
  <2>3. making \in [Thread -> Thread]
    BY <2>1 DEF Init
  <2> QED
    BY <2>2, <2>3 DEF Init, TypeOK
<1>2. TypeOK /\ [Next]_vars => TypeOK'
  <2> SUFFICES ASSUME TypeOK, [Next]_vars PROVE TypeOK'
    OBVIOUS
  <2> USE DEF Move, shared, history, PC, CreatorPC, EntryPC
  <2>1. CASE UNCHANGED vars
    BY <2>1 DEF TypeOK, vars
  <2>2. CASE Ended
    BY <2>2 DEF TypeOK, Ended, vars
  <2>3. ASSUME NEW t \in Thread, NEW c \in Child, Reach(t, c) PROVE TypeOK'
    BY <2>3 DEF TypeOK, Reach, Unmade, Thread
  <2>4. ASSUME NEW t \in Thread, PassSpin(t) PROVE TypeOK'
    BY <2>4 DEF TypeOK, PassSpin
  <2>5. ASSUME NEW t \in Thread, LoadCTid(t) PROVE TypeOK'
    BY <2>5 DEF TypeOK, LoadCTid
  <2>6. ASSUME NEW t \in Thread, StoreCTid(t) PROVE TypeOK'
    BY <2>6 DEF TypeOK, StoreCTid
  <2>7. ASSUME NEW t \in Thread, Publish(t) PROVE TypeOK'
    BY <2>7 DEF TypeOK, Publish
  <2>8. ASSUME NEW t \in Thread, PthreadCreate(t) PROVE TypeOK'
    <3>1. pc' \in [Thread -> PC]
      <4> DEFINE s == IF making[t] \in Instrumented THEN "waiting" ELSE "running"
      <4>1. pc' = [pc EXCEPT ![t] = "running", ![making[t]] = s]
        BY <2>8 DEF PthreadCreate
      <4>2. s \in PC
        OBVIOUS
      <4> HIDE DEF s
      <4> QED
        BY <4>1, <4>2 DEF TypeOK
    <3>2. rank' \in [Child -> Nat] /\ count' \in Nat
      <4>1. rank' = [rank EXCEPT ![making[t]] = count + 1] /\ count' = count + 1
        BY <2>8 DEF PthreadCreate
      <4>2. rank \in [Child -> Nat] /\ count \in Nat /\ count + 1 \in Nat
        BY DEF TypeOK
      <4> QED
        BY <4>1, <4>2
    <3>3. UNCHANGED <<making, tid_to_run, c_tid, reg, my_tid, deadline, exited>>
      BY <2>8 DEF PthreadCreate
    <3> HIDE DEF PC, CreatorPC, EntryPC
    <3> QED
      BY <3>1, <3>2, <3>3 DEF TypeOK
  <2>9. ASSUME NEW t \in Thread, PthreadCreateFails(t) PROVE TypeOK'
    BY <2>9 DEF TypeOK, PthreadCreateFails
  <2>10. ASSUME NEW t \in Thread, SeeTurn(t) PROVE TypeOK'
    BY <2>10 DEF TypeOK, SeeTurn
  <2>11. ASSUME NEW t \in Thread, Claim(t) PROVE TypeOK'
    BY <2>11 DEF TypeOK, Claim
  <2>12. ASSUME NEW t \in Thread, Register(t) PROVE TypeOK'
    BY <2>12 DEF TypeOK, Register
  <2>13. ASSUME NEW t \in Thread, Release(t) PROVE TypeOK'
    BY <2>13 DEF TypeOK, Release
  <2>14. ASSUME NEW t \in Thread, Finish(t) PROVE TypeOK'
    BY <2>14 DEF TypeOK, Finish
  <2> QED
    BY <2>1, <2>2, <2>3, <2>4, <2>5, <2>6, <2>7, <2>8, <2>9, <2>10, <2>11,
       <2>12, <2>13, <2>14 DEF Next, Step, CreatorStep, ChildStep
<1> QED
  BY <1>1, <1>2, PTL DEF Spec
-----------------------------------------------------------------------------
(* Only main creates, and only children register: with one creator an      *)
(* action of either kind names its actor.                                  *)
LEMMA Actors ==
    ASSUME TypeOK, RankInv, CreatorInv, SingleCreator, NEW t \in Thread
    PROVE  /\ CreatorStep(t) => t = Main
           /\ ChildStep(t) => t \in Child
<1>1. pc[t] \in CreatorPC => t = Main
  BY DEF RankInv, Thread
<1>2. pc[t] \in EntryPC => t \in Child
  BY DEF CreatorInv, Thread, CreatorPC, EntryPC
<1>3. CreatorStep(t) => t = Main
  BY <1>1 DEF CreatorStep, Reach, Unmade, SingleCreator, PassSpin, LoadCTid,
     StoreCTid, Publish, PthreadCreate, PthreadCreateFails, Move, CreatorPC
<1>4. ChildStep(t) => t \in Child
  BY <1>2 DEF ChildStep, SeeTurn, Claim, Register, Release, Move, EntryPC
<1> QED
  BY <1>3, <1>4

LEMMA TurnInit == ASSUME Init PROVE TurnInv
<1> USE MainAssumption DEF Init, Thread
<1>1. \A c \in Child : pc[c] = "unborn" /\ rank[c] = 0 /\ my_tid[c] = 0
  OBVIOUS
<1>2. pc[Main] = "running"
  OBVIOUS
<1>3. RankInv
  BY <1>1 DEF RankInv, CreatorPC
<1>4. FreeTurnInv
  BY <1>1, <1>2 DEF FreeTurnInv, Settled
<1>5. CreatorInv
  BY <1>2 DEF CreatorInv, CreatorPC
<1>6. EntryInv
  BY <1>1 DEF EntryInv, EntryPC
<1> QED
  BY <1>3, <1>4, <1>5, <1>6 DEF TurnInv

LEMMA TurnStep ==
    ASSUME TypeOK, TurnInv, SingleCreator, [Next]_vars
    PROVE  TurnInv'
<1> USE MainAssumption
<1>0. CASE UNCHANGED vars
  BY <1>0 DEF vars, TurnInv, RankInv, FreeTurnInv, CreatorInv, EntryInv, Settled
<1>1. ASSUME NEW c \in Child, Reach(Main, c), ~exited PROVE TurnInv'
  <2> USE <1>1 DEF Reach, Unmade, Move, shared, history, TypeOK, Thread
  <2>1. RankInv'
    BY DEF TurnInv, RankInv, CreatorInv, EntryInv, CreatorPC, EntryPC
  <2>2. FreeTurnInv'
    BY DEF TurnInv, RankInv, FreeTurnInv, CreatorInv, EntryInv, Settled, CreatorPC, EntryPC
  <2>3. CreatorInv'
    BY DEF TurnInv, RankInv, FreeTurnInv, CreatorInv, EntryInv, Settled, CreatorPC, EntryPC
  <2>4. EntryInv'
    BY DEF TurnInv, RankInv, FreeTurnInv, CreatorInv, EntryInv, Settled, CreatorPC, EntryPC
  <2> QED
    BY <2>1, <2>2, <2>3, <2>4 DEF TurnInv
<1>2. ASSUME PassSpin(Main), ~exited PROVE TurnInv'
  <2> USE <1>2 DEF PassSpin, Move, shared, history, TypeOK, Thread
  <2>1. RankInv'
    BY DEF TurnInv, RankInv, CreatorInv, EntryInv, CreatorPC, EntryPC
  <2>2. FreeTurnInv'
    BY DEF TurnInv, RankInv, FreeTurnInv, CreatorInv, EntryInv, Settled, CreatorPC, EntryPC
  <2>3. CreatorInv'
    BY DEF TurnInv, RankInv, FreeTurnInv, CreatorInv, EntryInv, Settled, CreatorPC, EntryPC
  <2>4. EntryInv'
    BY DEF TurnInv, RankInv, FreeTurnInv, CreatorInv, EntryInv, Settled, CreatorPC, EntryPC
  <2> QED
    BY <2>1, <2>2, <2>3, <2>4 DEF TurnInv
<1>3. ASSUME LoadCTid(Main), ~exited PROVE TurnInv'
  <2> USE <1>3 DEF LoadCTid, Move, shared, history, TypeOK, Thread
  <2>1. RankInv'
    BY DEF TurnInv, RankInv, CreatorInv, EntryInv, CreatorPC, EntryPC
  <2>2. FreeTurnInv'
    BY DEF TurnInv, RankInv, FreeTurnInv, CreatorInv, EntryInv, Settled, CreatorPC, EntryPC
  <2>3. CreatorInv'
    BY DEF TurnInv, RankInv, FreeTurnInv, CreatorInv, EntryInv, Settled, CreatorPC, EntryPC
  <2>4. EntryInv'
    BY DEF TurnInv, RankInv, FreeTurnInv, CreatorInv, EntryInv, Settled, CreatorPC, EntryPC
  <2> QED
    BY <2>1, <2>2, <2>3, <2>4 DEF TurnInv
<1>4. ASSUME StoreCTid(Main), ~exited PROVE TurnInv'
  <2> USE <1>4 DEF StoreCTid, Move, shared, history, TypeOK, Thread
  <2>1. RankInv'
    BY DEF TurnInv, RankInv, CreatorInv, EntryInv, CreatorPC, EntryPC
  <2>2. FreeTurnInv'
    BY DEF TurnInv, RankInv, FreeTurnInv, CreatorInv, EntryInv, Settled, CreatorPC, EntryPC
  <2>3. CreatorInv'
    BY DEF TurnInv, RankInv, FreeTurnInv, CreatorInv, EntryInv, Settled, CreatorPC, EntryPC
  <2>4. EntryInv'
    BY DEF TurnInv, RankInv, FreeTurnInv, CreatorInv, EntryInv, Settled, CreatorPC, EntryPC
  <2> QED
    BY <2>1, <2>2, <2>3, <2>4 DEF TurnInv
<1>5. ASSUME Publish(Main), ~exited PROVE TurnInv'
  <2> USE <1>5 DEF Publish, Move, shared, history, TypeOK, Thread
  <2>1. RankInv'
    BY DEF TurnInv, RankInv, CreatorInv, EntryInv, CreatorPC, EntryPC
  <2>2. FreeTurnInv'
    BY DEF TurnInv, RankInv, FreeTurnInv, CreatorInv, EntryInv, Settled, CreatorPC, EntryPC
  <2>3. CreatorInv'
    BY DEF TurnInv, RankInv, FreeTurnInv, CreatorInv, EntryInv, Settled, CreatorPC, EntryPC
  <2>4. EntryInv'
    BY DEF TurnInv, RankInv, FreeTurnInv, CreatorInv, EntryInv, Settled, CreatorPC, EntryPC
  <2> QED
    BY <2>1, <2>2, <2>3, <2>4 DEF TurnInv
<1>6. ASSUME PthreadCreate(Main), ~exited PROVE TurnInv'
  <2> USE <1>6 DEF PthreadCreate, Move, shared, history, TypeOK, Thread
  <2>1. RankInv'
    BY DEF TurnInv, RankInv, CreatorInv, EntryInv, CreatorPC, EntryPC
  <2>2. FreeTurnInv'
    BY DEF TurnInv, RankInv, FreeTurnInv, CreatorInv, EntryInv, Settled, CreatorPC, EntryPC
  <2>3. CreatorInv'
    BY DEF TurnInv, RankInv, FreeTurnInv, CreatorInv, EntryInv, Settled, CreatorPC, EntryPC
  <2>4. EntryInv'
    BY DEF TurnInv, RankInv, FreeTurnInv, CreatorInv, EntryInv, Settled, CreatorPC, EntryPC
  <2> QED
    BY <2>1, <2>2, <2>3, <2>4 DEF TurnInv
<1>7. ASSUME PthreadCreateFails(Main), ~exited PROVE TurnInv'
  <2> USE <1>7 DEF PthreadCreateFails, Move, shared, history, TypeOK, Thread
  <2>1. RankInv'
    BY DEF TurnInv, RankInv, CreatorInv, EntryInv, CreatorPC, EntryPC
  <2>2. FreeTurnInv'
    BY DEF TurnInv, RankInv, FreeTurnInv, CreatorInv, EntryInv, Settled, CreatorPC, EntryPC
  <2>3. CreatorInv'
    BY DEF TurnInv, RankInv, FreeTurnInv, CreatorInv, EntryInv, Settled, CreatorPC, EntryPC
  <2>4. EntryInv'
    BY DEF TurnInv, RankInv, FreeTurnInv, CreatorInv, EntryInv, Settled, CreatorPC, EntryPC
  <2> QED
    BY <2>1, <2>2, <2>3, <2>4 DEF TurnInv
<1>8. ASSUME NEW t \in Child, SeeTurn(t), ~exited PROVE TurnInv'
  <2> USE <1>8 DEF SeeTurn, Move, shared, history, TypeOK, Thread
  <2>1. RankInv'
    BY DEF TurnInv, RankInv, CreatorInv, EntryInv, CreatorPC, EntryPC
  <2>2. FreeTurnInv'
    BY DEF TurnInv, RankInv, FreeTurnInv, CreatorInv, EntryInv, Settled, CreatorPC, EntryPC
  <2>3. CreatorInv'
    BY DEF TurnInv, RankInv, FreeTurnInv, CreatorInv, EntryInv, Settled, CreatorPC, EntryPC
  <2>4. EntryInv'
    BY DEF TurnInv, RankInv, FreeTurnInv, CreatorInv, EntryInv, Settled, CreatorPC, EntryPC
  <2> QED
    BY <2>1, <2>2, <2>3, <2>4 DEF TurnInv
<1>9. ASSUME NEW t \in Child, Claim(t), ~exited PROVE TurnInv'
  <2> USE <1>9 DEF Claim, Move, shared, history, TypeOK, Thread
  <2>1. RankInv'
    BY DEF TurnInv, RankInv, CreatorInv, EntryInv, CreatorPC, EntryPC
  <2>2. FreeTurnInv'
    BY DEF TurnInv, RankInv, FreeTurnInv, CreatorInv, EntryInv, Settled, CreatorPC, EntryPC
  <2>3. CreatorInv'
    BY DEF TurnInv, RankInv, FreeTurnInv, CreatorInv, EntryInv, Settled, CreatorPC, EntryPC
  <2>4. EntryInv'
    BY DEF TurnInv, RankInv, FreeTurnInv, CreatorInv, EntryInv, Settled, CreatorPC, EntryPC
  <2> QED
    BY <2>1, <2>2, <2>3, <2>4 DEF TurnInv
<1>10. ASSUME NEW t \in Child, Register(t), ~exited PROVE TurnInv'
  <2> USE <1>10 DEF Register, Move, shared, history, TypeOK, Thread
  <2>1. RankInv'
    BY DEF TurnInv, RankInv, CreatorInv, EntryInv, CreatorPC, EntryPC
  <2>2. FreeTurnInv'
    BY DEF TurnInv, RankInv, FreeTurnInv, CreatorInv, EntryInv, Settled, CreatorPC, EntryPC
  <2>3. CreatorInv'
    BY DEF TurnInv, RankInv, FreeTurnInv, CreatorInv, EntryInv, Settled, CreatorPC, EntryPC
  <2>4. EntryInv'
    BY DEF TurnInv, RankInv, FreeTurnInv, CreatorInv, EntryInv, Settled, CreatorPC, EntryPC
  <2> QED
    BY <2>1, <2>2, <2>3, <2>4 DEF TurnInv
<1>11. ASSUME NEW t \in Child, Release(t), ~exited PROVE TurnInv'
  <2> USE <1>11 DEF Release, Move, shared, history, TypeOK, Thread
  <2>1. RankInv'
    BY DEF TurnInv, RankInv, CreatorInv, EntryInv, CreatorPC, EntryPC
  <2>2. FreeTurnInv'
    BY DEF TurnInv, RankInv, FreeTurnInv, CreatorInv, EntryInv, Settled, CreatorPC, EntryPC
  <2>3. CreatorInv'
    BY DEF TurnInv, RankInv, FreeTurnInv, CreatorInv, EntryInv, Settled, CreatorPC, EntryPC
  <2>4. EntryInv'
    BY DEF TurnInv, RankInv, FreeTurnInv, CreatorInv, EntryInv, Settled, CreatorPC, EntryPC
  <2> QED
    BY <2>1, <2>2, <2>3, <2>4 DEF TurnInv
<1>12. ASSUME NEW t \in Thread, Finish(t), ~exited PROVE TurnInv'
  <2> USE <1>12 DEF Finish, Move, shared, history, TypeOK, Thread
  <2>1. RankInv'
    BY DEF TurnInv, RankInv, CreatorInv, EntryInv, CreatorPC, EntryPC
  <2>2. FreeTurnInv'
    BY DEF TurnInv, RankInv, FreeTurnInv, CreatorInv, EntryInv, Settled, CreatorPC, EntryPC
  <2>3. CreatorInv'
    BY DEF TurnInv, RankInv, FreeTurnInv, CreatorInv, EntryInv, Settled, CreatorPC, EntryPC
  <2>4. EntryInv'
    BY DEF TurnInv, RankInv, FreeTurnInv, CreatorInv, EntryInv, Settled, CreatorPC, EntryPC
  <2> QED
    BY <2>1, <2>2, <2>3, <2>4 DEF TurnInv
<1>13. CASE Ended
  BY <1>0, <1>13 DEF Ended
<1>14. ASSUME NEW t \in Thread, Step(t) PROVE TurnInv'
  <2>1. ~exited /\ (CreatorStep(t) \/ ChildStep(t) \/ Finish(t))
    BY <1>14 DEF Step
  <2>2. (CreatorStep(t) => t = Main) /\ (ChildStep(t) => t \in Child)
    BY Actors DEF TurnInv
  <2>3. CASE CreatorStep(t)
    BY <2>1, <2>2, <2>3, <1>1, <1>2, <1>3, <1>4, <1>5, <1>6, <1>7 DEF CreatorStep
  <2>4. CASE ChildStep(t)
    BY <2>1, <2>2, <2>4, <1>8, <1>9, <1>10, <1>11 DEF ChildStep
  <2>5. CASE Finish(t)
    BY <2>1, <2>5, <1>12
  <2> QED
    BY <2>1, <2>3, <2>4, <2>5
<1> QED
  BY <1>0, <1>13, <1>14 DEF Next

(* The turn has one holder at a time (tid_to_run, sched.h 122-130), in     *)
(* every reachable state and for every number of threads.                  *)
THEOREM TurnInvariant == SingleCreator /\ Spec => []TurnInv
<1> SUFFICES ASSUME SingleCreator PROVE Spec => []TurnInv
  OBVIOUS
<1>1. Init => TurnInv
  BY TurnInit
<1>2. TypeOK /\ TypeOK' /\ TurnInv /\ [Next]_vars => TurnInv'
  BY TurnStep
<1> QED
  BY <1>1, <1>2, TypeCorrect, PTL DEF Spec

(* No two threads share a My_Tid, hence a row of the schedule (line 482).  *)
THEOREM NumbersAreUnique == SingleCreator /\ Spec => []UniqueNumbers
<1> SUFFICES ASSUME SingleCreator PROVE Spec => []UniqueNumbers
  OBVIOUS
<1>1. TypeOK /\ TurnInv => UniqueNumbers
  BY DEF TypeOK, TurnInv, RankInv, UniqueNumbers, Thread
<1> QED
  BY <1>1, TypeCorrect, TurnInvariant, PTL

(* The map inserts of instr_PthreadCall (lines 469-494) never overlap.     *)
THEOREM RegistrationIsExclusive == SingleCreator /\ Spec => []RegistrationExclusive
<1> SUFFICES ASSUME SingleCreator PROVE Spec => []RegistrationExclusive
  OBVIOUS
<1>1. TypeOK /\ TurnInv => RegistrationExclusive
  BY DEF TypeOK, TurnInv, EntryInv, EntryPC, Settled, RegistrationExclusive
<1> QED
  BY <1>1, TypeCorrect, TurnInvariant, PTL

(* A half-made child is the last one created and still holds the turn:     *)
(* set_tid_to_run(0) is the last thing it does (line 504), and no creator  *)
(* takes the turn before that.  TurnInv does not imply it once a child is  *)
(* lost, so it is carried from state to state beside it.                   *)
THEOREM NoneLeftBehind == SingleCreator /\ Spec => []NoChildLeftBehind
<1> SUFFICES ASSUME SingleCreator PROVE Spec => []NoChildLeftBehind
  OBVIOUS
<1>1. Init => NoChildLeftBehind
  BY SubsetAssumption DEF Init, NoChildLeftBehind
<1>2. TypeOK /\ TurnInv /\ NoChildLeftBehind /\ [Next]_vars => NoChildLeftBehind'
  <2> SUFFICES ASSUME TypeOK, TurnInv, NoChildLeftBehind, [Next]_vars,
                      NEW c \in Instrumented, rank'[c] # 0
               PROVE  \/ my_tid'[c] = rank'[c] /\ c \in deadline'
                      \/ tid_to_run' = rank'[c] /\ rank'[c] = count'
    BY DEF NoChildLeftBehind
  <2> DEFINE Goal == \/ my_tid'[c] = rank'[c] /\ c \in deadline'
                     \/ tid_to_run' = rank'[c] /\ rank'[c] = count'
  <2>0. c \in Child
    BY SubsetAssumption
  <2>1. CASE UNCHANGED <<rank, count, my_tid, deadline, tid_to_run>>
    BY <2>1 DEF NoChildLeftBehind
  <2>2. ASSUME NEW t \in Thread, Step(t) PROVE Goal
    <3>1. (CreatorStep(t) => t = Main) /\ (ChildStep(t) => t \in Child)
      BY Actors DEF TurnInv
    <3>2. CASE Publish(t)
      <4>1. t = Main /\ pc[Main] = "publish"
        BY <3>1, <3>2 DEF CreatorStep, Publish, Move
      <4>2. tid_to_run = 0
        BY <4>1 DEF TurnInv, CreatorInv
      <4>3. UNCHANGED <<rank, my_tid, deadline>>
        BY <3>2 DEF Publish, history
      <4>4. Settled(c) /\ pc[c] # "unborn"
        BY <2>0, <4>2, <4>3 DEF TurnInv, FreeTurnInv, RankInv
      <4> QED
        BY <4>3, <4>4 DEF Settled
    <3>3. CASE PthreadCreate(t)
      <4>1. t = Main /\ pc[Main] = "create"
        BY <3>1, <3>3 DEF CreatorStep, PthreadCreate
      <4>2. Settled(c) /\ tid_to_run = count + 1
        BY <2>0, <4>1 DEF TurnInv, CreatorInv
      <4>3. /\ rank' = [rank EXCEPT ![making[Main]] = count + 1]
            /\ count' = count + 1
            /\ UNCHANGED <<my_tid, deadline, tid_to_run>>
        BY <3>3, <4>1 DEF PthreadCreate, shared
      <4>4. CASE c = making[Main]
        BY <2>0, <4>2, <4>3, <4>4 DEF TypeOK
      <4>5. CASE c # making[Main]
        <5>1. rank'[c] = rank[c] /\ pc[c] # "unborn"
          BY <2>0, <4>3, <4>5 DEF TypeOK, TurnInv, RankInv
        <5> QED
          BY <4>2, <4>3, <5>1 DEF Settled
      <4> QED
        BY <4>4, <4>5
    <3>4. CASE Register(t)
      <4>1. t \in Child /\ pc[t] = "registering"
        BY <3>1, <3>4 DEF ChildStep, Register, Move
      <4>2. tid_to_run = rank[t] /\ rank[t] = count
        BY <4>1 DEF TurnInv, EntryInv, EntryPC
      <4>3. /\ my_tid' = [my_tid EXCEPT ![t] = reg[t]]
            /\ deadline \subseteq deadline'
            /\ UNCHANGED <<tid_to_run, rank, count>>
        BY <3>4 DEF Register, shared, history
      <4>4. CASE c = t
        BY <4>2, <4>3, <4>4
      <4>5. CASE c # t
        BY <2>0, <4>3, <4>5 DEF NoChildLeftBehind, TypeOK
      <4> QED
        BY <4>4, <4>5
    <3>5. CASE Release(t)
      <4>1. t \in Child /\ pc[t] = "releasing" /\ ~exited
        BY <2>2, <3>1, <3>5 DEF Step, ChildStep, Release, Move
      <4>2. /\ my_tid[t] = rank[t] /\ t \in deadline
            /\ \A d \in Child \ {t} : Settled(d)
        BY <4>1 DEF TurnInv, EntryInv, EntryPC
      <4>3. UNCHANGED <<my_tid, rank, deadline>>
        BY <3>5 DEF Release, history
      <4>4. pc[c] # "unborn"
        BY <2>0, <4>3 DEF TurnInv, RankInv
      <4> QED
        BY <2>0, <4>2, <4>3, <4>4 DEF Settled
    <3>6. CASE ~(Publish(t) \/ PthreadCreate(t) \/ Register(t) \/ Release(t))
      BY <2>1, <2>2, <3>6 DEF Step, CreatorStep, ChildStep, Reach, PassSpin, LoadCTid,
         StoreCTid, PthreadCreateFails, SeeTurn, Claim, Finish, shared, history
    <3> QED
      BY <3>2, <3>3, <3>4, <3>5, <3>6
  <2> QED
    BY <2>1, <2>2 DEF Next, Ended, vars
<1> QED
  BY <1>1, <1>2, TypeCorrect, TurnInvariant, PTL DEF Spec

(* A child that never answers blocks every later creation: the spin of     *)
(* before_pthread_create (line 510) has no other way out.                  *)
THEOREM LostTurnStaysLost == SingleCreator /\ Spec => TurnIsLost
<1> SUFFICES ASSUME SingleCreator PROVE Spec => TurnIsLost
  OBVIOUS
<1> DEFINE Stuck == UNCHANGED <<tid_to_run, my_tid, deadline, count>>
<1>1. TypeOK /\ TurnInv /\ [Next]_vars
        => [(\E c \in Child : Lost(c)) => Stuck]_vars
  <2> SUFFICES ASSUME TypeOK, TurnInv, [Next]_vars,
                      NEW c \in Child, Lost(c)
               PROVE  Stuck
    OBVIOUS
  <2>1. tid_to_run # 0 /\ pc[Main] \in {"running", "spin", "done"}
    BY DEF TypeOK, TurnInv, RankInv, FreeTurnInv, CreatorInv, Settled, Lost, Thread, CreatorPC
  <2>2. \A d \in Child : pc[d] \notin EntryPC
    BY DEF TypeOK, TurnInv, RankInv, EntryInv, Settled, Lost, EntryPC
  <2>3. CASE UNCHANGED vars \/ Ended
    BY <2>3 DEF vars, Ended
  <2>4. ASSUME NEW t \in Thread, Step(t) PROVE Stuck
    <3>1. (CreatorStep(t) => t = Main) /\ (ChildStep(t) => t \in Child)
      BY Actors DEF TurnInv
    <3>2. ~ChildStep(t)
      BY <2>2, <3>1 DEF ChildStep, SeeTurn, Claim, Register, Release, Move, EntryPC
    <3>3. CASE Finish(t)
      BY <3>3 DEF Finish, shared, history
    <3>4. CASE CreatorStep(t)
      BY <2>1, <3>1, <3>4 DEF CreatorStep, Reach, PassSpin, LoadCTid, StoreCTid,
         Publish, PthreadCreate, PthreadCreateFails, Move, shared, history
    <3> QED
      BY <2>4, <3>2, <3>3, <3>4 DEF Step
  <2> QED
    BY <2>3, <2>4 DEF Next
<1> QED
  BY <1>1, TypeCorrect, TurnInvariant, PTL DEF Spec, TurnIsLost

(* The handshake implements ThreadNumbering: a successful pthread_create   *)
(* is Create, the insert into my_tidMap is Number, and every other step    *)
(* stutters.                                                               *)
THEOREM HandshakeImplementsNumbering ==
    SingleCreator /\ Spec => NumbersFollowCreation
<1> SUFFICES ASSUME SingleCreator PROVE Spec => NumbersFollowCreation
  OBVIOUS
<1>1. Init => Numbering!Init
  BY DEF Init, Numbering!Init
<1>2. TypeOK /\ TurnInv /\ [Next]_vars
        => [Numbering!Next]_(Numbering!nvars)
  <2> SUFFICES ASSUME TypeOK, TurnInv, [Next]_vars
               PROVE  Numbering!Next \/ UNCHANGED <<count, rank, my_tid>>
    BY DEF Numbering!nvars
  <2>1. CASE UNCHANGED vars \/ Ended
    BY <2>1 DEF vars, Ended
  <2>2. ASSUME NEW t \in Thread, Step(t)
        PROVE  Numbering!Next \/ UNCHANGED <<count, rank, my_tid>>
    <3>1. (CreatorStep(t) => t = Main) /\ (ChildStep(t) => t \in Child)
      BY Actors DEF TurnInv
    <3>2. CASE PthreadCreate(t)
      <4>1. t = Main /\ pc[Main] = "create"
        BY <3>1, <3>2 DEF CreatorStep, PthreadCreate
      <4>2. making[Main] \in Child /\ rank[making[Main]] = 0
        BY <4>1 DEF TurnInv, CreatorInv, RankInv, CreatorPC
      <4>3. Numbering!Create(making[Main])
        BY <3>2, <4>1, <4>2 DEF PthreadCreate, Numbering!Create
      <4> QED
        BY <4>2, <4>3 DEF Numbering!Next
    <3>3. CASE Register(t)
      <4>1. t \in Child /\ pc[t] = "registering"
        BY <3>1, <3>3 DEF ChildStep, Register, Move
      <4>2. rank[t] # 0 /\ my_tid[t] = 0 /\ reg[t] = rank[t]
        BY <4>1 DEF TurnInv, RankInv, EntryInv, EntryPC
      <4>3. Numbering!Number(t)
        BY <3>3, <4>2 DEF Register, history, Numbering!Number
      <4> QED
        BY <4>1, <4>3 DEF Numbering!Next
    <3>4. CASE ~PthreadCreate(t) /\ ~Register(t)
      BY <2>2, <3>4 DEF Step, CreatorStep, ChildStep, Reach, PassSpin, LoadCTid,
         StoreCTid, Publish, PthreadCreateFails, SeeTurn, Claim, Release,
         Finish, history
    <3> QED
      BY <3>2, <3>3, <3>4
  <2> QED
    BY <2>1, <2>2 DEF Next
<1> QED
  BY <1>1, <1>2, TypeCorrect, TurnInvariant, PTL
  DEF Spec, NumbersFollowCreation, Numbering!Spec
=============================================================================
