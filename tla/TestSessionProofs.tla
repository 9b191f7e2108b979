-------------------------- MODULE TestSessionProofs ---------------------------
(***************************************************************************)
(* What a testing session does, for any program, any ids the kernel gives  *)
(* out and any sizes of the shared arrays: how threads are numbered, what  *)
(* the driver learns about their KPs, and, if all threads have KPs, that   *)
(* they burn the yields of a schedule where the schedule has them.         *)
(***************************************************************************)
EXTENDS TestSessionBasics

-----------------------------------------------------------------------------
(* The numbers of threads.                                                 *)
LEMMA CallsIn ==
    ASSUME NEW f, NEW ops, CodeOf(f)
    PROVE  /\ CallsAt(prog, f, ops) \in SUBSET Nat /\ 0 \notin CallsAt(prog, f, ops)
           /\ \A y \in Nat : y \in CallsAt(prog, f, ops) <=> y \in 1..Len(code[f]) /\ code[f][y].op \in ops
  <1>1. CallsAt(prog, f, ops) = {y \in 1..Len(code[f]) : code[f][y].op \in ops}
    BY DEF CallsAt, CodeOf
  <1> QED
    BY <1>1

(* A step of the driver leaves the process alone, or begins one. *)
LEMMA DriverProcess ==
    ASSUME Driver \/ UNCHANGED vars
    PROVE  /\ prog' = prog /\ iterPeriod' = iterPeriod
           /\ \/ UNCHANGED process
              \/ phase # "failed" /\ \E m \in {"dry", "dbds"} : TraceBegin(m)
  BY DEF Driver, DryRun, SetUp, DefaultRun, Learn, WriteTest, NothingToTest, StartTest, TestEnds, vars

(* Without hidden threads, all but main register first. *)
LEMMA RegistersFirst ==
    ASSUME ProgramTypes, ProcessTypes, Team, Running, Closed(prog), NEW t \in Thread \ {Main}
    PROVE  /\ Len(code[threads[t].fn]) >= 1
           /\ code[threads[t].fn][1].op = "instr_PthreadCall"
  <1>1. threads[t].fn \in DOMAIN prog.code /\ CodeOf(threads[t].fn) /\ threads[t].fn # "main"
    BY ThreadAt
  <1>2. PICK i \in Creating : threads[t].fn = prog.code["main"][i].to
    BY DEF Team, Member
  <1>3. IsProgram(prog) /\ i \in DOMAIN prog.code["main"] /\ prog.code["main"][i].op \in Creations
    BY <1>2, ProgramFacts DEF Creating
  <1>4. threads[t].fn \in PthreadCallFunction(prog, prog.file[threads[t].fn])
    BY <1>2, <1>3, ClosedCreations
  <1> QED
    BY <1>1, <1>4 DEF CodeOf

LEMMA NumberingThread ==
    ASSUME Base, Numbering, Closed(prog), NEW t \in Thread, Execute(t), Running'
    PROVE  Numbering'
  <1>1. Running /\ SameProgram /\ ProgramTypes /\ ProcessTypes /\ Team /\ ThreadStep(t)
    BY ExecuteRuns DEF Base, Execute
  <1>2. /\ Len(threads) \in Nat /\ Len(threads) >= 1 /\ Thread = 1..Len(threads) /\ Main \in Thread
        /\ threads \in Seq(ThreadType) /\ Main = 1
    BY <1>1, TeamSize DEF ProcessTypes, Main
  <1>3. /\ c_tid = CountBelow(AnnouncingCalls, threads[Main].at)
        /\ c_tid \in {Len(threads) - 1, Len(threads)} /\ turn \in {0, c_tid}
        /\ c_tid = Len(threads) => turn = c_tid
        /\ \A u \in Thread \ {Main} : Numbered(u)
    BY <1>1 DEF Numbering
  <1>4. AnnouncingCalls' = AnnouncingCalls
    BY <1>1, SameCalls
  <1> DEFINE f == threads[t].fn
             y == threads[t].at
  <1>5. /\ CodeOf(f) /\ y \in Nat \ {0} /\ (~Ended(t) => y \in 1..Len(code[f]))
        /\ t = Main <=> f = "main"
    BY <1>1, ThreadAt
  <1>6. CodeOf("main") /\ threads[Main].fn = "main"
    BY <1>1, <1>2, ThreadAt
  <1>7. /\ AnnouncingCalls \in SUBSET Nat
        /\ t = Main /\ ~Ended(t) => (y \in AnnouncingCalls <=> Op(t) = "before_pthread_create")
    BY <1>5, <1>6, CallsIn DEF AnnouncingCalls, Op
  <1>8. ASSUME Moves(t), Op(t) \notin {"before_pthread_create", "instr_PthreadCall"},
               turn' = turn, c_tid' = c_tid
        PROVE  Numbering'
    <2>1. /\ Len(threads') = Len(threads) /\ Thread' = Thread /\ ~Ended(t)
          /\ \A u \in Thread \ {t} : threads'[u] = threads[u]
          /\ threads'[t].at = y + 1 /\ threads'[t].my_tid = threads[t].my_tid
      BY <1>2, <1>8 DEF Moves, Thread
    <2>2. CountBelow(AnnouncingCalls, threads'[Main].at) = CountBelow(AnnouncingCalls, threads[Main].at)
      <3>1. CASE t = Main
        <4>1. CountBelow(AnnouncingCalls, y + 1) = CountBelow(AnnouncingCalls, y)
          BY <1>5, <1>7, <1>8, <2>1, <3>1, BelowNext
        <4> QED
          BY <2>1, <3>1, <4>1
      <3>2. CASE t # Main
        BY <1>2, <2>1, <3>2
      <3> QED
        BY <3>1, <3>2
    <2>3. ASSUME NEW u \in Thread \ {Main} PROVE Numbered(u)'
      <3>1. CASE u = t
        <4>1. y # 1
          BY <1>1, <1>8, <3>1, RegistersFirst DEF Op
        <4>2. threads[t].my_tid = t - 1
          BY <1>3, <3>1, <4>1 DEF Numbered
        <4> HIDE DEF y
        <4> QED
          BY <1>5, <2>1, <3>1, <4>1, <4>2 DEF Numbered
      <3>2. CASE u # t
        BY <1>3, <1>8, <2>1, <3>2 DEF Numbered
      <3> QED
        BY <3>1, <3>2
    <2> QED
      BY <1>3, <1>4, <1>8, <2>1, <2>2, <2>3 DEF Numbering
  <1>9. CASE BeforePthreadCreate(t)
    <2>1. Moves(t) /\ Op(t) = "before_pthread_create" /\ turn = 0 /\ c_tid' = c_tid + 1 /\ turn' = c_tid'
      BY <1>1, <1>9, BeforeMoves DEF BeforePthreadCreate
    <2>2. /\ Len(threads') = Len(threads) /\ Thread' = Thread /\ ~Ended(t)
          /\ \A u \in Thread \ {t} : threads'[u] = threads[u]
          /\ threads'[t].at = y + 1
      BY <1>2, <2>1 DEF Moves, Thread
    <2>3. t = Main
      BY <1>5, <2>1, <2>2 DEF CodeOf, Op
    <2>4. CountBelow(AnnouncingCalls, threads'[Main].at) = c_tid'
      <3>1. CountBelow(AnnouncingCalls, y + 1) = CountBelow(AnnouncingCalls, y) + 1
        BY <1>5, <1>7, <2>1, <2>2, <2>3, BelowNext
      <3> QED
        BY <1>3, <2>1, <2>2, <2>3, <3>1
    <2>5. c_tid' = Len(threads)
      BY <1>2, <1>3, <2>1
    <2>6. ASSUME NEW u \in Thread \ {Main} PROVE Numbered(u)'
      <3>1. threads[u].at > 1 /\ threads[u].my_tid = u - 1
        BY <1>2, <1>3, <2>1 DEF Numbered
      <3> QED
        BY <2>2, <2>3, <3>1 DEF Numbered
    <2> QED
      BY <1>4, <2>1, <2>2, <2>4, <2>5, <2>6 DEF Numbering
  <1>10. CASE PthreadCreate(t)
    <2> DEFINE n == Len(threads) + 1
    <2>1. Grows(t) /\ turn' = turn /\ c_tid' = c_tid
      BY <1>1, <1>10, CreateGrows DEF PthreadCreate
    <2>2. /\ threads' \in Seq(ThreadType) /\ Len(threads') = n /\ ~Ended(t) /\ Op(t) \in Creations
          /\ \A u \in Thread \ {t} : threads'[u] = threads[u]
          /\ threads'[t].at = y + 1 /\ threads'[t].my_tid = threads[t].my_tid
          /\ threads'[n].at = 1 /\ threads'[n].my_tid = 0
      BY <1>2, <2>1 DEF Grows, NewThread
    <2>3. t = Main /\ Thread' = 1..n
      BY <1>1, <1>2, <2>1, <2>2, TeamGrows DEF Thread
    <2>4. y \in CreationCalls /\ y \notin AnnouncingCalls
      <3>1. y \in CreationCalls
        BY <1>1, <1>5, <2>2, <2>3, CreationPlaces DEF Op
      <3>2. "before_pthread_create" \notin Creations
        BY DEF Creations, Wrappers
      <3> QED
        BY <1>7, <2>2, <2>3, <3>1, <3>2
    <2>5. CountBelow(AnnouncingCalls, threads'[Main].at) = c_tid
      <3>1. CountBelow(AnnouncingCalls, y + 1) = CountBelow(AnnouncingCalls, y)
        BY <1>5, <1>7, <2>4, BelowNext
      <3> QED
        BY <1>3, <2>2, <2>3, <3>1
    <2>6. c_tid = Len(threads)
      <3>1. CountBelow(AnnouncingCalls, y) = CountBelow(CreationCalls, y) + 1
        BY <1>1, <2>4, ProgramFacts, Announced DEF AnnouncingCalls, CreationCalls
      <3>2. Len(threads) = 1 + CountBelow(CreationCalls, y)
        BY <1>1, <2>3 DEF Team
      <3>3. CountBelow(CreationCalls, y) \in Nat
        BY <1>1, <1>5, CreationPlaces, BelowType
      <3> QED
        BY <1>3, <2>3, <3>1, <3>2, <3>3
    <2>7. ASSUME NEW u \in (1..n) \ {Main} PROVE Numbered(u)'
      <3>1. CASE u = n
        BY <1>2, <1>3, <2>1, <2>2, <2>6, <3>1 DEF Numbered
      <3>2. CASE u # n
        <4>1. u \in Thread \ {Main}
          BY <1>2, <3>2
        <4> QED
          BY <1>3, <2>1, <2>2, <2>3, <4>1 DEF Numbered
      <3> QED
        BY <3>1, <3>2
    <2>8. c_tid = Len(threads') - 1 /\ c_tid # Len(threads')
      BY <1>2, <2>2, <2>6
    <2> HIDE DEF n
    <2> QED
      BY <1>3, <1>4, <2>1, <2>3, <2>5, <2>7, <2>8 DEF Numbering
  <1>11. CASE Register(t)
    <2>1. ~Refused
      <3>1. Refused => ~Running'
        BY <1>11 DEF Register, End, Running
      <3> QED
        BY <3>1
    <2>2. Moves(t) /\ Op(t) = "instr_PthreadCall" /\ turn' = 0 /\ c_tid' = c_tid
      BY <1>1, <1>11, <2>1, RegisterMoves DEF Register
    <2>3. /\ Len(threads') = Len(threads) /\ Thread' = Thread /\ ~Ended(t)
          /\ \A u \in Thread \ {t} : threads'[u] = threads[u]
          /\ threads'[t].at = y + 1 /\ threads'[t].my_tid = turn
      BY <1>2, <2>2 DEF Moves, Thread
    <2>4. t # Main /\ y = 1
      BY <1>5, <2>2, <2>3 DEF CodeOf, Op
    <2>5. turn = t - 1 /\ c_tid = t - 1
      BY <1>3, <2>4 DEF Numbered
    <2>6. ASSUME NEW u \in Thread \ {Main} PROVE Numbered(u)'
      <3>1. CASE u = t
        BY <2>3, <2>4, <2>5, <3>1 DEF Numbered
      <3>2. CASE u # t
        <4>1. threads[u].at > 1 /\ threads[u].my_tid = u - 1
          BY <1>2, <1>3, <2>5, <3>2 DEF Numbered
        <4> QED
          BY <2>3, <3>2, <4>1 DEF Numbered
      <3> QED
        BY <3>1, <3>2
    <2>7. threads'[Main] = threads[Main]
      BY <1>2, <2>3, <2>4
    <2>8. c_tid # Len(threads)
      BY <1>2, <2>5
    <2> QED
      BY <1>3, <1>4, <2>2, <2>3, <2>6, <2>7, <2>8 DEF Numbering
  <1>12. CASE MainKeyPoint(t)
    BY <1>1, <1>8, <1>12, MainKeyMoves DEF MainKeyPoint
  <1>13. CASE KeyPoint(t)
    BY <1>1, <1>8, <1>13, KeyMoves DEF KeyPoint
  <1>14. CASE PthreadJoin(t)
    BY <1>1, <1>8, <1>14, JoinMoves DEF PthreadJoin
  <1>15. CASE CallTraceEnd(t)
    BY <1>1, <1>8, <1>15, TraceEndMoves DEF CallTraceEnd
  <1>16. ~Exit(t) /\ ~MainReturns
    BY DEF Exit, MainReturns, End, Running
  <1> QED
    BY <1>1, <1>9, <1>10, <1>11, <1>12, <1>13, <1>14, <1>15, <1>16 DEF ThreadStep

LEMMA NumberingDriver ==
    ASSUME Base, Numbering, Driver \/ UNCHANGED vars
    PROVE  Numbering'
  <1>1. ProgramTypes /\ prog' = prog /\ iterPeriod' = iterPeriod
    BY DriverProcess DEF Base
  <1>2. CASE UNCHANGED process
    <2>1. /\ SameProgram /\ threads' = threads /\ turn' = turn /\ c_tid' = c_tid /\ Thread' = Thread
          /\ Running' = Running
      BY <1>1, <1>2 DEF process, SameProgram, Running, Thread
    <2>2. AnnouncingCalls' = AnnouncingCalls
      BY <2>1, SameCalls
    <2>3. ASSUME NEW t, Numbered(t) PROVE Numbered(t)'
      BY <2>1, <2>3 DEF Numbered
    <2> QED
      BY <1>1, <2>1, <2>2, <2>3 DEF Numbering
  <1>3. ASSUME phase # "failed", NEW m \in {"dry", "dbds"}, TraceBegin(m) PROVE Numbering'
    <2>1. SameProgram
      BY <1>1, <1>3, ProcessBegins
    <2>2. AnnouncingCalls' = AnnouncingCalls /\ CountBelow(AnnouncingCalls, 1) = 0
      <3>1. CodeOf("main")
        BY <1>1, <1>3, ProgramFacts, MainIsFunction, CodeFacts
      <3>2. AnnouncingCalls \in SUBSET Nat /\ 0 \notin AnnouncingCalls
        BY <3>1, CallsIn DEF AnnouncingCalls
      <3> QED
        BY <2>1, <3>2, NoneBelowOne, SameCalls
    <2>3. /\ Len(threads') = 1 /\ threads'[Main].at = 1 /\ Thread' = {1}
          /\ c_tid' = 0 /\ turn' = 0
      BY <1>3 DEF TraceBegin, NewThread, Main, Thread
    <2> QED
      BY <2>2, <2>3 DEF Numbering, Main
  <1> QED
    BY <1>2, <1>3, DriverProcess

(* In a program without hidden threads a thread has the number of its      *)
(* creation as soon as it has begun, and there is never a second number    *)
(* waiting for its thread (452-513).                                       *)
THEOREM NumberingInvariant == Spec => []Numbering
  <1>1. Init => Numbering
    BY DEF Init, Numbering, Running
  <1>2. ASSUME Base, Base', Numbering, [Next]_vars PROVE Numbering'
    <2>1. ASSUME NEW t \in Thread, Execute(t) PROVE Numbering'
      <3>1. prog' = prog
        BY <2>1, ExecuteRuns DEF SameProgram
      <3>2. CASE Running' /\ Closed(prog)
        BY <1>2, <2>1, <3>2, NumberingThread
      <3>3. CASE ~(Running' /\ Closed(prog))
        BY <3>1, <3>3 DEF Numbering
      <3> QED
        BY <3>2, <3>3
    <2> QED
      BY <1>2, <2>1, NumberingDriver DEF Next
  <1> QED
    BY <1>1, <1>2, SessionInvariant, PTL DEF Spec

-----------------------------------------------------------------------------
(* The joins of main.                                                      *)
LEMMA JoinedThread ==
    ASSUME Base, JoinedEnded, NEW t \in Thread, Execute(t), Running'
    PROVE  JoinedEnded'
  <1>1. Running /\ SameProgram /\ ProgramTypes /\ ProcessTypes /\ Team /\ ThreadStep(t)
    BY ExecuteRuns DEF Base, Execute
  <1>2. /\ Len(threads) \in Nat /\ Len(threads) >= 1 /\ Thread = 1..Len(threads) /\ Main \in Thread
        /\ threads \in Seq(ThreadType) /\ Main = 1
    BY <1>1, TeamSize DEF ProcessTypes, Main
  <1>3. ASSUME NEW z \in JoinCalls, z < threads[Main].at, NEW u \in Thread \ {Main},
               threads[u].fn = code["main"][z].to, u <= 1 + CountBelow(CreationCalls, z)
        PROVE  Ended(u)
    BY <1>1, <1>3 DEF JoinedEnded
  <1>4. CreationCalls' = CreationCalls /\ JoinCalls' = JoinCalls /\ code' = code
    BY <1>1, SameCalls DEF SameProgram
  <1>5. CodeOf("main") /\ threads[Main].fn = "main" /\ threads[Main].at \in Nat
    BY <1>1, <1>2, ThreadAt
  <1>6. /\ JoinCalls \in SUBSET Nat /\ CreationCalls \in SUBSET Nat
        /\ ~Ended(Main) => (threads[Main].at \in JoinCalls => Op(Main) = "pthread_join")
    BY <1>1, <1>5, CallsIn, CreationPlaces DEF JoinCalls, Op
  <1>7. ASSUME Moves(t),
               Op(t) = "pthread_join" => \A u \in Thread : threads[u].fn = About(t) => Ended(u)
        PROVE  JoinedEnded'
    <2>1. /\ Len(threads') = Len(threads) /\ Thread' = Thread /\ ~Ended(t)
          /\ \A u \in Thread \ {t} : threads'[u] = threads[u]
          /\ threads'[t].at = threads[t].at + 1 /\ threads'[t].fn = threads[t].fn
      BY <1>2, <1>7 DEF Moves, Thread
    <2>2. SUFFICES ASSUME NEW z \in JoinCalls, z < threads'[Main].at, NEW u \in Thread \ {Main},
                          threads'[u].fn = code["main"][z].to, u <= 1 + CountBelow(CreationCalls, z)
                   PROVE  Ended(u)'
      BY <1>4, <2>1 DEF JoinedEnded
    <2>3. threads'[u].fn = threads[u].fn
      BY <2>1
    <2>4. Ended(u)
      <3>1. CASE z < threads[Main].at
        BY <1>3, <2>2, <2>3, <3>1
      <3>2. CASE ~(z < threads[Main].at)
        <4>1. t = Main /\ z = threads[Main].at
          BY <1>2, <1>5, <1>6, <2>1, <2>2, <3>2
        <4>2. Op(Main) = "pthread_join" /\ About(Main) = code["main"][z].to
          BY <1>5, <1>6, <2>1, <4>1 DEF About
        <4> QED
          BY <1>7, <2>2, <2>3, <4>1, <4>2
      <3> QED
        BY <3>1, <3>2
    <2>5. u # t /\ threads'[u] = threads[u]
      BY <2>1, <2>4
    <2> QED
      BY <1>4, <2>4, <2>5 DEF Ended
  <1>8. CASE PthreadCreate(t)
    <2>1. Grows(t) /\ t = Main
      BY <1>1, <1>8, CreateGrows, TeamGrows DEF PthreadCreate
    <2>2. /\ Len(threads') = Len(threads) + 1 /\ ~Ended(t) /\ Op(t) \in Creations
          /\ \A u \in Thread \ {t} : threads'[u] = threads[u]
          /\ threads'[t].at = threads[t].at + 1
          /\ threads' \in Seq(ThreadType)
      BY <2>1 DEF Grows
    <2>3. Thread' = 1..(Len(threads) + 1)
      BY <2>2 DEF Thread
    <2>4. SUFFICES ASSUME NEW z \in JoinCalls, z < threads'[Main].at, NEW u \in (1..(Len(threads) + 1)) \ {Main},
                          threads'[u].fn = code["main"][z].to, u <= 1 + CountBelow(CreationCalls, z)
                   PROVE  Ended(u)'
      BY <1>4, <2>3 DEF JoinedEnded
    <2>5. z < threads[Main].at
      <3>1. "pthread_join" \notin Creations
        BY DEF Creations, Wrappers
      <3> QED
        BY <1>5, <1>6, <2>1, <2>2, <2>4, <3>1
    <2>6. CountBelow(CreationCalls, z) <= Len(threads) - 1
      <3>1. CountBelow(CreationCalls, z) <= CountBelow(CreationCalls, threads[Main].at)
        BY <1>5, <1>6, <2>5, BelowMonotone
      <3>2. Len(threads) = 1 + CountBelow(CreationCalls, threads[Main].at)
        BY <1>1 DEF Team
      <3>3. CountBelow(CreationCalls, z) \in Nat /\ CountBelow(CreationCalls, threads[Main].at) \in Nat
        BY <1>5, <1>6, BelowType
      <3> QED
        BY <1>2, <3>1, <3>2, <3>3
    <2>7. u \in Thread \ {Main}
      <3>1. CountBelow(CreationCalls, z) \in Nat
        BY <1>6, BelowType
      <3> QED
        BY <1>2, <2>4, <2>6, <3>1
    <2>8. threads'[u] = threads[u]
      BY <2>1, <2>2, <2>7
    <2>9. Ended(u)
      BY <1>3, <2>4, <2>5, <2>7, <2>8
    <2> QED
      BY <1>4, <2>8, <2>9 DEF Ended
  <1>9. CASE BeforePthreadCreate(t)
    BY <1>1, <1>7, <1>9, BeforeMoves
  <1>10. CASE Register(t)
    <2>1. Refused => ~Running'
      BY <1>10 DEF Register, End, Running
    <2> QED
      BY <1>1, <1>7, <1>10, <2>1, RegisterMoves
  <1>11. CASE MainKeyPoint(t)
    BY <1>1, <1>7, <1>11, MainKeyMoves
  <1>12. CASE KeyPoint(t)
    BY <1>1, <1>7, <1>12, KeyMoves
  <1>13. CASE PthreadJoin(t)
    BY <1>1, <1>7, <1>13, JoinMoves DEF PthreadJoin
  <1>14. CASE CallTraceEnd(t)
    BY <1>1, <1>7, <1>14, TraceEndMoves
  <1>15. ~Exit(t) /\ ~MainReturns
    BY DEF Exit, MainReturns, End, Running
  <1> QED
    BY <1>1, <1>8, <1>9, <1>10, <1>11, <1>12, <1>13, <1>14, <1>15 DEF ThreadStep

(* pthread_join comes back when the threads of its routine that there are  *)
(* by then have ended, and they stay ended.                                *)
LEMMA JoinedInvariant == Spec => []JoinedEnded
  <1>1. Init => JoinedEnded
    BY DEF Init, JoinedEnded, Running
  <1>2. ASSUME Base, JoinedEnded, [Next]_vars PROVE JoinedEnded'
    <2>1. ASSUME NEW t \in Thread, Execute(t) PROVE JoinedEnded'
      <3>1. CASE Running'
        BY <1>2, <2>1, <3>1, JoinedThread
      <3>2. CASE ~Running'
        BY <3>2 DEF JoinedEnded
      <3> QED
        BY <3>1, <3>2
    <2>2. ASSUME Driver \/ UNCHANGED vars PROVE JoinedEnded'
      <3>1. CASE UNCHANGED process
        <4>1. SameProgram /\ threads' = threads /\ Thread' = Thread /\ Running' = Running
          BY <2>2, <3>1, DriverProcess DEF process, SameProgram, Running, Thread
        <4>2. CreationCalls' = CreationCalls /\ JoinCalls' = JoinCalls
          BY <4>1, SameCalls
        <4>3. ASSUME NEW t, Ended(t) PROVE Ended(t)'
          BY <4>1, <4>3 DEF Ended, SameProgram
        <4> QED
          BY <1>2, <4>1, <4>2, <4>3 DEF JoinedEnded, SameProgram
      <3>2. ASSUME NEW m, TraceBegin(m) PROVE JoinedEnded'
        <4>1. Thread' = {Main}
          BY <3>2 DEF TraceBegin, Thread, Main
        <4> QED
          BY <4>1 DEF JoinedEnded
      <3> QED
        BY <2>2, <3>1, <3>2, DriverProcess
    <2> QED
      BY <1>2, <2>1, <2>2 DEF Next
  <1> QED
    BY <1>1, <1>2, SessionInvariant, PTL DEF Spec

-----------------------------------------------------------------------------
(* The threads of the source and their counts.                             *)
LEMMA ChildFacts ==
    ASSUME ProgramTypes, NEW i \in Creating
    PROVE  LET c == CountBelow(Creating, i) + 1
               f == prog.code["main"][i].to
           IN  /\ c \in Children /\ CreatedAt(c) = i
               /\ f \in DOMAIN prog.code \ {"main"} /\ KeyPointsAt(prog, f) \in SUBSET DOMAIN prog.code[f]
               /\ KpsOf(c) = Cardinality(KeyPointsAt(prog, f)) /\ KpsOf(c) \in Nat
  <1> DEFINE c == CountBelow(Creating, i) + 1
             f == prog.code["main"][i].to
             Upto1(k) == {j \in Creating : j <= k}
  <1>1. /\ IsProgram(prog) /\ Creating \in SUBSET Nat /\ IsFiniteSet(Creating)
        /\ Cardinality(Creating) \in Nat /\ i \in Nat
    BY ProgramFacts
  <1>2. ASSUME NEW k \in Creating
        PROVE  Cardinality(Upto1(k)) = CountBelow(Creating, k) + 1 /\ CountBelow(Creating, k) \in Nat
    <2>1. k \in Nat
      BY <1>1
    <2>2. Upto1(k) = {j \in Creating : j < k + 1}
      <3>1. \A j \in Creating : j <= k <=> j < k + 1
        BY <1>1, <2>1
      <3> QED
        BY <3>1
    <2>3. CountBelow(Creating, k + 1) = CountBelow(Creating, k) + 1
      BY <1>1, <2>1, BelowNext
    <2> QED
      BY <1>1, <2>1, <2>2, <2>3, BelowType DEF CountBelow
  <1>3. c \in Children
    <2>1. Upto1(i) \in SUBSET Creating
      OBVIOUS
    <2>2. Cardinality(Upto1(i)) <= Cardinality(Creating)
      BY <1>1, <2>1, FS_Subset
    <2> HIDE DEF Upto1
    <2> QED
      BY <1>1, <1>2, <2>2 DEF Children
  <1>4. CreatedAt(c) = i
    <2>1. Cardinality(Upto1(i)) = c
      BY <1>2
    <2>2. ASSUME NEW k \in Creating, Cardinality(Upto1(k)) = c PROVE k = i
      <3>1. CountBelow(Creating, k) = CountBelow(Creating, i)
        BY <1>2, <2>1, <2>2
      <3> QED
        BY <1>1, <3>1, SameNth
    <2>3. CreatedAt(c) = CHOOSE k \in Creating : Cardinality(Upto1(k)) = c
      BY DEF CreatedAt
    <2> HIDE DEF Upto1, c
    <2> QED
      BY <2>1, <2>2, <2>3
  <1>5. f \in DOMAIN prog.code \ {"main"}
    <2>1. i \in DOMAIN prog.code["main"] /\ prog.code["main"][i].op \in Creations
      BY DEF Creating
    <2> QED
      BY <1>1, <2>1, MainIsFunction, SourceType
  <1>6. KpsOf(c) = Cardinality(KeyPointsAt(prog, f))
    BY <1>3, <1>4 DEF KpsOf, Created, KeyPointsAt
  <1>7. IsFiniteSet(KeyPointsAt(prog, f)) /\ KeyPointsAt(prog, f) \in SUBSET DOMAIN prog.code[f]
    <2> DEFINE s == prog.code[f]
    <2>1. KeyPointsAt(prog, f) \in SUBSET DOMAIN s
      BY DEF KeyPointsAt
    <2>2. s \in Seq(Source)
      BY <1>1, <1>5 DEF IsProgram, Source
    <2> HIDE DEF s
    <2>3. DOMAIN s = 1..Len(s) /\ Len(s) \in Nat
      BY <2>2
    <2>4. IsFiniteSet(1..Len(s))
      BY <2>3, FS_Interval
    <2> QED
      BY <2>1, <2>3, <2>4, FS_Subset DEF s
  <1>8. KpsOf(c) \in Nat
    BY <1>6, <1>7, FS_CardinalityType
  <1> HIDE DEF c, f
  <1> QED
    BY <1>3, <1>4, <1>5, <1>6, <1>7, <1>8 DEF c, f

LEMMA ChildCreated ==
    ASSUME ProgramTypes, NEW c \in Children
    PROVE  /\ \E i \in Creating : CountBelow(Creating, i) + 1 = c
           /\ c \in Nat \ {0} /\ KpsOf(c) \in Nat
  <1>1. /\ Creating \in SUBSET Nat /\ IsFiniteSet(Creating) /\ Cardinality(Creating) \in Nat
        /\ Creating = SourceAt(prog, "main", Creations) /\ IsProgram(prog)
    BY ProgramFacts
  <1>2. c \in 1..Cardinality(Creating) /\ c \in Nat \ {0} /\ c - 1 \in Nat
    BY <1>1 DEF Children
  <1> DEFINE n == Len(prog.code["main"])
  <1>3. n \in Nat /\ \A x \in Creating : x < n + 1
    <2> DEFINE s == prog.code["main"]
    <2>1. s \in Seq(Source)
      BY <1>1, MainIsFunction DEF IsProgram, Source
    <2>2. \A x \in Creating : x \in DOMAIN s
      BY DEF Creating
    <2> HIDE DEF s
    <2>3. Len(s) \in Nat /\ \A x \in Creating : x < Len(s) + 1
      BY <2>1, <2>2
    <2> QED
      BY <2>3 DEF s
  <1> HIDE DEF n
  <1>4. CountBelow(Creating, n + 1) = Cardinality(Creating)
    BY <1>1, <1>3, BelowAll
  <1>5. PICK i \in Creating : CountBelow(Creating, i) = c - 1
    <2>1. c - 1 < CountBelow(Creating, n + 1)
      BY <1>1, <1>2, <1>4
    <2> QED
      BY <1>1, <1>2, <1>3, <2>1, NthMember
  <1>6. CountBelow(Creating, i) + 1 = c
    BY <1>2, <1>5
  <1> QED
    BY <1>2, <1>6, ChildFacts

LEMMA RightType ==
    ASSUME ProgramTypes, NEW r \in Rows
    PROVE  Right(r) \in Nat
  BY ChildCreated DEF Right

(* A thread has counted the KPs of its routine that it has passed. *)
LEMMA ThreadKps ==
    ASSUME Base, Running, NEW t \in Thread \ {Main}
    PROVE  /\ t \in Nat /\ t >= 2 /\ t - 1 \in Children
           /\ threads[t].kps \in Nat /\ KpsOf(t - 1) \in Nat
           /\ threads[t].kps <= KpsOf(t - 1)
           /\ Ended(t) => threads[t].kps = KpsOf(t - 1)
           /\ threads[t].at = 1 => threads[t].kps = 0
  <1>1. ProgramTypes /\ ProcessTypes /\ Team
    BY DEF Base
  <1>2. Thread = 1..Len(threads) /\ Len(threads) \in Nat /\ Main = 1
    BY <1>1, TeamSize DEF Main
  <1>3. t \in Nat /\ t >= 2 /\ t - 2 \in Nat
    BY <1>2
  <1> DEFINE f == threads[t].fn
             y == threads[t].at
  <1>4. /\ f \in DOMAIN prog.code /\ CodeOf(f) /\ y \in Nat \ {0} /\ y <= Len(code[f]) + 1
        /\ threads[t].kps \in Nat
    BY <1>1, ThreadAt
  <1>5. threads[t].kps = CountBelow(KeyCalls(f), y)
    BY <1>1 DEF Team, Member
  <1>6. PICK i \in Creating : CountBelow(Creating, i) = t - 2 /\ f = prog.code["main"][i].to
    BY <1>1 DEF Team, Member
  <1>7. CountBelow(Creating, i) + 1 = t - 1
    BY <1>3, <1>6
  <1>8. t - 1 \in Children /\ KpsOf(t - 1) = Cardinality(KeyPointsAt(prog, f)) /\ KpsOf(t - 1) \in Nat
    BY <1>1, <1>6, <1>7, ChildFacts
  <1>9. KeyCalls(f) \in SUBSET Nat /\ CountBelow(KeyCalls(f), Len(code[f]) + 1) = KpsOf(t - 1)
    <2>1. IsProgram(prog) /\ code[f] = Instrument(prog)[f]
      BY <1>1, <1>4, ProgramFacts DEF CodeOf
    <2>2. CountBelow(KeyCalls(f), Len(code[f]) + 1) = Cardinality(KeyPointsAt(prog, f))
      BY <1>4, <2>1, KeyCount DEF KeyCalls
    <2>3. KeyCalls(f) \in SUBSET Nat
      BY <1>4, CallsIn DEF KeyCalls
    <2> QED
      BY <1>8, <2>2, <2>3
  <1>10. Len(code[f]) \in Nat
    BY <1>4 DEF CodeOf
  <1>11. threads[t].kps <= KpsOf(t - 1)
    BY <1>4, <1>5, <1>9, <1>10, BelowMonotone
  <1>12. Ended(t) => y = Len(code[f]) + 1
    BY <1>4, <1>10 DEF Ended
  <1>13. y = 1 => threads[t].kps = 0
    BY <1>1, <1>4, <1>5, NoneBelow
  <1> QED
    BY <1>3, <1>4, <1>5, <1>8, <1>9, <1>11, <1>12, <1>13

(* Whatever ids the kernel gives out, and whatever is left of the map, the *)
(* row found is that of the number: either the thread with the id before   *)
(* is the one created before, or the own number is looked up.  If that is  *)
(* gone as well, the row is -1.                                            *)
LEMMA RowIs ==
    ASSUME Base, Numbering, Running, Closed(prog), NEW t \in Kept \ {Main},
           NEW intact \in SUBSET Thread
    PROVE  /\ RowOf(t, intact) \in {-1, t - 2}
           /\ t \in intact => RowOf(t, intact) = t - 2
  <1>1. ProgramTypes /\ ProcessTypes /\ Team
    BY DEF Base
  <1>2. /\ Thread = 1..Len(threads) /\ Len(threads) \in Nat /\ Main = 1 /\ Main \in Thread
        /\ tids \in Seq(Nat) /\ Thread \subseteq DOMAIN tids
    BY <1>1, TeamSize DEF Main
  <1>3. t \in Thread \ {Main} /\ threads[t].kps > 0
    BY DEF Kept
  <1>4. threads[t].my_tid = t - 1
    <2>1. threads[t].at # 1
      BY <1>3, ThreadKps
    <2> QED
      BY <1>3, <2>1 DEF Numbering, Numbered
  <1>5. /\ \A u \in Thread : tids[u] = tids[t] => u = t
        /\ \A u \in Thread : tids[u] = tids[t] - 1 => t = u + 1
    <2>1. tids \in Tids
      BY <1>1 DEF ProcessTypes
    <2>2. \A a, b \in DOMAIN tids : /\ tids[a] = tids[b] => a = b
                                    /\ tids[b] = tids[a] - 1 => a = b + 1
      BY <2>1, TidsAssumption
    <2> QED
      BY <1>2, <1>3, <2>2
  <1>6. MyTid(tids[t], intact) = IF t \in intact THEN t - 1 ELSE 0
    <2> DEFINE owners == {u \in intact : tids[u] = tids[t]}
    <2>1. owners = IF t \in intact THEN {t} ELSE {}
      BY <1>3, <1>5
    <2>2. (CHOOSE u \in {t} : TRUE) = t
      OBVIOUS
    <2>3. MyTid(tids[t], intact)
             = IF owners = {} THEN 0 ELSE threads[CHOOSE u \in owners : TRUE].my_tid
      BY DEF MyTid
    <2> QED
      BY <1>4, <2>1, <2>2, <2>3
  <1>7. MyTid(tids[t] - 1, intact) \in {0, t - 2}
    <2> DEFINE owners == {u \in intact : tids[u] = tids[t] - 1}
    <2>1. MyTid(tids[t] - 1, intact) = IF owners = {} THEN 0 ELSE threads[CHOOSE u \in owners : TRUE].my_tid
      BY DEF MyTid
    <2>2. ASSUME NEW u \in owners PROVE threads[u].my_tid \in {0, t - 2}
      <3>1. u \in Thread /\ t = u + 1
        BY <1>5, <2>2
      <3>2. u \in Nat /\ u - 1 = t - 2
        BY <1>2, <3>1
      <3>3. CASE u = Main
        BY <1>1, <3>3 DEF Team
      <3>4. CASE u # Main
        BY <3>1, <3>2, <3>4 DEF Numbering, Numbered
      <3> QED
        BY <3>3, <3>4
    <2>3. owners # {} => (CHOOSE u \in owners : TRUE) \in owners
      OBVIOUS
    <2> HIDE DEF owners
    <2> QED
      BY <2>1, <2>2, <2>3
  <1> QED
    BY <1>2, <1>3, <1>6, <1>7 DEF RowOf

(* So a row has one writer at most, and has it if the map is intact. *)
LEMMA WritersAre ==
    ASSUME Base, Numbering, Running, Closed(prog), NEW r \in Rows, NEW intact \in SUBSET Thread
    PROVE  /\ WritersOf(r, intact) \subseteq {r + 2} \cap (Kept \ {Main})
           /\ WritersOf(r, intact) # {} => LatestOf(WritersOf(r, intact)) = r + 2
           /\ r + 2 \in (Kept \ {Main}) \cap intact => r + 2 \in WritersOf(r, intact)
  <1>1. ProgramTypes /\ ProcessTypes /\ Team /\ r \in Nat
    BY DEF Base, Rows
  <1>2. /\ Thread = 1..Len(threads) /\ Len(threads) \in Nat
    BY <1>1, TeamSize
  <1>3. ASSUME NEW t \in Kept \ {Main}
        PROVE  /\ RowOf(t, intact) = r => t = r + 2
               /\ t = r + 2 /\ t \in intact => RowOf(t, intact) = r
    <2>1. /\ RowOf(t, intact) \in {-1, t - 2} /\ t \in Nat
          /\ t \in intact => RowOf(t, intact) = t - 2
      BY <1>2, <1>3, RowIs DEF Kept
    <2> QED
      BY <1>1, <2>1
  <1>4. WritersOf(r, intact) \subseteq {r + 2} \cap (Kept \ {Main})
    BY <1>3 DEF WritersOf
  <1>5. ASSUME WritersOf(r, intact) # {} PROVE LatestOf(WritersOf(r, intact)) = r + 2
    <2>1. WritersOf(r, intact) = {r + 2} /\ WritersOf(r, intact) \in SUBSET Thread
      BY <1>4, <1>5 DEF Kept
    <2>2. LatestOf(WritersOf(r, intact)) \in WritersOf(r, intact)
      BY <1>1, <1>5, <2>1, LatestExists
    <2> QED
      BY <2>1, <2>2
  <1>6. r + 2 \in (Kept \ {Main}) \cap intact => r + 2 \in WritersOf(r, intact)
    BY <1>3 DEF WritersOf
  <1> QED
    BY <1>4, <1>5, <1>6

(* Behind its joins, so when it returns or exits, main has created all     *)
(* threads and outlived them.                                              *)
AllEnded ==
    /\ Len(threads) = 1 + Cardinality(Creating)
    /\ \A t \in Thread \ {Main} : Ended(t)

LEMMA WellJoined ==
    ASSUME ProgramTypes, WellBehaved
    PROVE  /\ Closed(prog) /\ JoinsAll(prog)
           /\ \A f \in DOMAIN prog.code \ {"main"} : CallsAt(prog, f, ExitCalls) = {}
  <1>1. IsProgram(prog) /\ Creating = SourceAt(prog, "main", Creations) /\ Creating \in SUBSET Nat
    BY ProgramFacts
  <1>2. Closed(prog) /\ AllJoined
    BY DEF WellBehaved
  <1>3. \A f : ExitsOf(f) = SourceAt(prog, f, {"_exit"})
    BY DEF ExitsOf, SourceAt
  <1>4. ASSUME NEW i \in SourceAt(prog, "main", Creations)
        PROVE  \E j \in SourceAt(prog, "main", {"pthread_join"}) :
                  /\ i < j /\ prog.code["main"][j].to = prog.code["main"][i].to
                  /\ \A e \in SourceAt(prog, "main", {"_exit"}) : j < e
    <2> DEFINE main == prog.code["main"]
    <2>1. PICK j \in DOMAIN main : /\ main[j].op = "pthread_join" /\ \A e \in ExitsOf("main") : j < e
                                   /\ j > i /\ main[j].to = main[i].to
      BY <1>1, <1>2, <1>4 DEF AllJoined
    <2>2. j \in SourceAt(prog, "main", {"pthread_join"})
      BY <2>1 DEF SourceAt
    <2>3. i \in Nat /\ j \in Nat
      <3>1. DOMAIN main \in SUBSET Nat
        BY <1>1, <2>1, MainIsFunction, SourceType
      <3> QED
        BY <1>1, <1>4, <2>1, <3>1
    <2>4. i < j
      BY <2>1, <2>3
    <2> QED
      BY <1>3, <2>1, <2>2, <2>4
  <1>5. JoinsAll(prog)
    BY <1>1, <1>4, JoinedInCode
  <1>6. ASSUME NEW f \in DOMAIN prog.code \ {"main"} PROVE CallsAt(prog, f, ExitCalls) = {}
    <2>1. SourceAt(prog, f, {"_exit"}) = {}
      BY <1>2, <1>3 DEF AllJoined
    <2> QED
      BY <1>1, <2>1, ExitsInSource
  <1> QED
    BY <1>2, <1>5, <1>6

LEMMA JoinedAll ==
    ASSUME Base, JoinedEnded, Running, WellBehaved,
           Ended(Main) \/ threads[Main].at \in CallsAt(prog, "main", ExitCalls)
    PROVE  AllEnded
  <1>1. ProgramTypes /\ ProcessTypes /\ Team /\ JoinsAll(prog)
    BY WellJoined DEF Base
  <1>2. /\ Thread = 1..Len(threads) /\ Len(threads) \in Nat /\ Main = 1 /\ Main \in Thread
    BY <1>1, TeamSize DEF Main
  <1> DEFINE at == threads[Main].at
             n == Len(code["main"])
  <1>3. /\ at \in Nat /\ threads[Main].fn = "main" /\ at <= n + 1 /\ CodeOf("main") /\ n \in Nat
        /\ code["main"] = Instrument(prog)["main"]
        /\ Ended(Main) => at = n + 1
    <2>1. threads[Main].fn = "main" /\ CodeOf("main") /\ at \in Nat /\ at <= n + 1
      BY <1>1, <1>2, ThreadAt
    <2>2. n \in Nat /\ code["main"] = Instrument(prog)["main"]
      BY <2>1 DEF CodeOf
    <2>3. Ended(Main) => at > n
      BY <2>1 DEF Ended
    <2> QED
      BY <2>1, <2>2, <2>3
  <1>4. /\ CreationCalls \in SUBSET (1..n) /\ CreationCalls \in SUBSET Nat
        /\ CountBelow(CreationCalls, n + 1) = Cardinality(Creating)
        /\ Cardinality(Creating) \in Nat
    BY <1>1, <1>3, ProgramFacts, NthCreation DEF CreationCalls
  <1>5. /\ JoinCalls \in SUBSET Nat /\ \A z \in JoinCalls : z \in 1..n
    BY <1>3, CallsIn DEF JoinCalls
  <1>6. ASSUME NEW y \in CreationCalls
        PROVE  \E z \in JoinCalls : y < z /\ z < at /\ code["main"][z].to = code["main"][y].to
    <2>1. PICK z \in JoinCalls : /\ y < z /\ code["main"][z].to = code["main"][y].to
                                 /\ \A x \in CallsAt(prog, "main", ExitCalls) : z < x
      BY <1>1, <1>3, <1>6 DEF JoinsAll, CreationCalls, JoinCalls
    <2>2. z < at
      BY <1>3, <1>5, <2>1
    <2> QED
      BY <2>1, <2>2
  <1>7. Len(threads) = 1 + Cardinality(Creating)
    <2>1. \A y \in CreationCalls : y < at /\ y < n + 1
      <3> SUFFICES ASSUME NEW y \in CreationCalls PROVE y < at /\ y < n + 1
        OBVIOUS
      <3>1. PICK z \in JoinCalls : y < z /\ z < at
        BY <1>6
      <3>2. y \in Nat /\ z \in Nat
        BY <1>4, <1>5
      <3> HIDE DEF at, n
      <3> QED
        BY <1>3, <3>1, <3>2
    <2>2. CountBelow(CreationCalls, at) = Cardinality(CreationCalls)
      BY <1>3, <1>4, <2>1, BelowAll
    <2>3. CountBelow(CreationCalls, n + 1) = Cardinality(CreationCalls)
      BY <1>3, <1>4, <2>1, BelowAll
    <2> QED
      BY <1>1, <1>4, <2>2, <2>3 DEF Team
  <1>8. ASSUME NEW t \in Thread \ {Main} PROVE Ended(t)
    <2>1. PICK i \in Creating : CountBelow(Creating, i) = t - 2 /\ threads[t].fn = prog.code["main"][i].to
      BY <1>1 DEF Team, Member
    <2>2. t \in Nat /\ t - 2 \in Nat /\ t - 2 < CountBelow(CreationCalls, n + 1)
      BY <1>2, <1>4, <1>7
    <2>3. PICK y \in CreationCalls : CountBelow(CreationCalls, y) = t - 2
      <3>1. n + 1 \in Nat /\ CreationCalls \in SUBSET Nat
        BY <1>3, <1>4
      <3> HIDE DEF n, at
      <3> QED
        BY <2>2, <3>1, NthMember
    <2>4. PICK k \in Creating : /\ CountBelow(Creating, k) = CountBelow(CreationCalls, y)
                                /\ code["main"][y].to = prog.code["main"][k].to
      BY <1>1, CreationPlaces
    <2>5. k = i
      BY <1>1, <2>1, <2>3, <2>4, ProgramFacts, SameNth
    <2>6. PICK z \in JoinCalls : y < z /\ z < at /\ code["main"][z].to = code["main"][y].to
      BY <1>6
    <2>7. CountBelow(CreationCalls, y) + 1 <= CountBelow(CreationCalls, z)
      BY <1>4, <1>5, <2>6, BelowStrict
    <2>8. t <= 1 + CountBelow(CreationCalls, z)
      <3>1. CountBelow(CreationCalls, z) \in Nat
        BY <1>4, <1>5, BelowType
      <3> QED
        BY <2>2, <2>3, <2>7, <3>1
    <2>9. threads[t].fn = code["main"][z].to
      BY <2>1, <2>4, <2>5, <2>6
    <2> QED
      BY <2>6, <2>8, <2>9 DEF JoinedEnded
  <1> QED
    BY <1>7, <1>8 DEF AllEnded

-----------------------------------------------------------------------------
(* What traceEnd writes.                                                   *)
LEMMA SummaryBounded ==
    ASSUME Base, Numbering, Running, Closed(prog), threads[Main].at > 1, NEW r \in Rows,
           shm.num[r] <= Right(r), NEW intact \in SUBSET Thread
    PROVE  Summary(intact).num[r] <= Right(r)
  <1>1. ProgramTypes /\ DriverTypes /\ ProcessTypes /\ Team
    BY DEF Base
  <1>2. Summary(intact).num[r] = IF WritersOf(r, intact) = {} THEN shm.num[r]
                                 ELSE threads[LatestOf(WritersOf(r, intact))].kps
    BY <1>1, SummaryType
  <1>3. CASE WritersOf(r, intact) # {}
    <2>1. Summary(intact).num[r] = threads[r + 2].kps /\ r + 2 \in Kept \ {Main}
      BY <1>2, <1>3, WritersAre
    <2>2. r + 2 \in Thread \ {Main} /\ r \in Nat /\ (r + 2) - 1 = r + 1
      BY <2>1 DEF Kept, Rows
    <2>3. r + 1 \in Children /\ threads[r + 2].kps <= KpsOf(r + 1)
      BY <2>2, ThreadKps
    <2> QED
      BY <2>1, <2>3 DEF Right
  <1>4. CASE WritersOf(r, intact) = {}
    BY <1>2, <1>4
  <1> QED
    BY <1>3, <1>4

LEMMA SummaryRight ==
    ASSUME Base, Numbering, Running, Closed(prog), AllEnded, threads[Main].at > 1,
           \A r \in Rows : shm.num[r] \in {0, Right(r)}, NEW intact \in SUBSET Thread
    PROVE  /\ \A r \in Rows : /\ Summary(intact).num[r] \in {0, Right(r)}
                              /\ intact = Thread => Summary(intact).num[r] = Right(r)
           /\ Summary(intact).N = Cardinality(WithKps)
           /\ Summary(intact).M = Max({KpsOf(c) : c \in Children} \cup {0})
  <1>1. ProgramTypes /\ DriverTypes /\ ProcessTypes /\ Team
    BY DEF Base
  <1>2. /\ Thread = 1..Len(threads) /\ Len(threads) \in Nat /\ Main = 1 /\ Main \in Thread
        /\ Cardinality(Creating) \in Nat
    BY <1>1, TeamSize DEF Main
  <1>3. \A c : c \in Children <=> c + 1 \in Thread \ {Main} /\ c \in Nat
    <2>1. Children = 1..Cardinality(Creating) /\ Len(threads) = 1 + Cardinality(Creating)
      BY DEF Children, AllEnded
    <2> SUFFICES ASSUME NEW c PROVE c \in Children <=> c + 1 \in Thread \ {Main} /\ c \in Nat
      OBVIOUS
    <2>2. c \in Children => c + 1 \in Thread \ {Main} /\ c \in Nat
      BY <1>2, <2>1
    <2>3. c \in Nat /\ c + 1 \in Thread \ {Main} => c \in Children
      BY <1>2, <2>1
    <2> QED
      BY <2>2, <2>3
  <1>4. ASSUME NEW c \in Children PROVE threads[c + 1].kps = KpsOf(c) /\ KpsOf(c) \in Nat
    <2>1. c + 1 \in Thread \ {Main} /\ c \in Nat /\ (c + 1) - 1 = c
      BY <1>3, <1>4
    <2>2. Ended(c + 1)
      BY <2>1 DEF AllEnded
    <2> QED
      BY <2>1, <2>2, ThreadKps
  <1>5. \A t \in Thread \ {Main} : t - 1 \in Children /\ t = (t - 1) + 1 /\ t \in Nat
    <2> SUFFICES ASSUME NEW t \in Thread \ {Main} PROVE t - 1 \in Children /\ t = (t - 1) + 1 /\ t \in Nat
      OBVIOUS
    <2>1. t \in Nat /\ t - 1 \in Nat /\ t = (t - 1) + 1
      BY <1>2
    <2> QED
      BY <1>3, <2>1
  <1>6. ASSUME NEW r \in Rows
        PROVE  /\ Summary(intact).num[r] \in {0, Right(r)}
               /\ intact = Thread => Summary(intact).num[r] = Right(r)
    <2>1. Summary(intact).num[r] = IF WritersOf(r, intact) = {} THEN shm.num[r]
                                   ELSE threads[LatestOf(WritersOf(r, intact))].kps
      BY <1>1, SummaryType
    <2>2. r \in Nat /\ (r + 1) + 1 = r + 2
      BY DEF Rows
    <2>3. CASE WritersOf(r, intact) # {}
      <3>1. Summary(intact).num[r] = threads[r + 2].kps /\ r + 2 \in Kept \ {Main}
        BY <2>1, <2>3, WritersAre
      <3>2. r + 1 \in Children
        BY <1>3, <2>2, <3>1 DEF Kept
      <3> QED
        BY <1>4, <2>2, <3>1, <3>2 DEF Right
    <2>4. CASE WritersOf(r, intact) = {}
      <3>1. Summary(intact).num[r] = shm.num[r]
        BY <2>1, <2>4
      <3>2. ASSUME intact = Thread PROVE Right(r) = 0
        <4>1. r + 2 \notin Kept \ {Main}
          BY <2>4, <3>2, WritersAre DEF Kept
        <4>2. ASSUME r + 1 \in Children PROVE KpsOf(r + 1) = 0
          <5>1. threads[r + 2].kps = KpsOf(r + 1) /\ KpsOf(r + 1) \in Nat /\ r + 2 \in Thread \ {Main}
            BY <1>3, <1>4, <2>2, <4>2
          <5> QED
            BY <4>1, <5>1 DEF Kept
        <4> QED
          BY <4>2 DEF Right
      <3> QED
        BY <3>1, <3>2
    <2> QED
      BY <2>3, <2>4
  <1>7. Summary(intact).N = Cardinality(WithKps)
    <2>1. Summary(intact).N = Cardinality(Kept) - 1
      BY <1>1, SummaryType
    <2> DEFINE others == Kept \ {Main}
    <2>2. IsFiniteSet(WithKps)
      <3>1. Children = 1..Cardinality(Creating) /\ WithKps \in SUBSET Children
        BY DEF Children, WithKps
      <3>2. Cardinality(Creating) \in Int
        BY <1>2
      <3>3. IsFiniteSet(1..Cardinality(Creating))
        BY <3>2, FS_Interval
      <3> QED
        BY <3>1, <3>3, FS_Subset
    <2>3. ExistsBijection(WithKps, others)
      <3> DEFINE g == [c \in WithKps |-> c + 1]
      <3>1. \A c \in WithKps : c \in Nat /\ c \in Children /\ KpsOf(c) > 0
        BY <1>3 DEF WithKps
      <3>2. ASSUME NEW c \in WithKps PROVE c + 1 \in others
        <4>1. c + 1 \in Thread \ {Main} /\ threads[c + 1].kps > 0
          BY <1>3, <1>4, <3>1
        <4> QED
          BY <4>1 DEF Kept
      <3>3. ASSUME NEW t \in others PROVE \E c \in WithKps : c + 1 = t
        <4>1. t \in Thread \ {Main} /\ threads[t].kps > 0
          BY DEF Kept
        <4>2. t - 1 \in Children /\ t = (t - 1) + 1
          BY <1>5, <4>1
        <4>3. KpsOf(t - 1) > 0
          BY <1>4, <4>1, <4>2
        <4> QED
          BY <4>2, <4>3 DEF WithKps
      <3>4. \A c, d \in WithKps : c + 1 = d + 1 => c = d
        BY <3>1
      <3> HIDE DEF others
      <3>5. g \in [WithKps -> others]
        BY <3>2
      <3>6. g \in Injection(WithKps, others)
        BY <3>4, <3>5 DEF Injection, IsInjective
      <3>7. g \in Surjection(WithKps, others)
        BY <3>3, <3>5 DEF Surjection
      <3> QED
        BY <3>6, <3>7 DEF ExistsBijection, Bijection
    <2>4. IsFiniteSet(others) /\ Cardinality(others) = Cardinality(WithKps)
      BY <2>2, <2>3, FS_Bijection
    <2>5. Main \in Kept /\ Kept = others \cup {Main} /\ Main \notin others
      BY <1>1, <1>2 DEF Kept, Team
    <2>6. Cardinality(Kept) = Cardinality(WithKps) + 1 /\ Cardinality(WithKps) \in Nat
      <3> HIDE DEF others
      <3> QED
        BY <2>2, <2>4, <2>5, FS_AddElement, FS_CardinalityType
    <2> QED
      BY <2>1, <2>6
  <1>8. Summary(intact).M = Max({KpsOf(c) : c \in Children} \cup {0})
    <2>1. Summary(intact).M = Max(KpsOfAll(Kept \ {Main}))
      BY <1>1, SummaryType
    <2>2. ASSUME NEW x PROVE x \in KpsOfAll(Kept \ {Main}) <=> x \in {KpsOf(c) : c \in Children} \cup {0}
      <3>1. ASSUME NEW t \in Kept \ {Main} PROVE \E c \in Children : KpsOf(c) = threads[t].kps
        <4>1. t - 1 \in Children /\ t = (t - 1) + 1
          BY <1>5 DEF Kept
        <4> QED
          BY <1>4, <4>1
      <3>2. ASSUME NEW c \in Children, KpsOf(c) # 0 PROVE \E t \in Kept \ {Main} : KpsOf(c) = threads[t].kps
        <4>1. c + 1 \in Kept \ {Main}
          BY <1>3, <1>4, <3>2 DEF Kept
        <4> QED
          BY <1>4, <4>1
      <3> QED
        BY <3>1, <3>2 DEF KpsOfAll
    <2>3. KpsOfAll(Kept \ {Main}) = {KpsOf(c) : c \in Children} \cup {0}
      BY <2>2
    <2> QED
      BY <2>1, <2>3
  <1> QED
    BY <1>6, <1>7, <1>8

LEMMA SameCounts ==
    ASSUME prog' = prog
    PROVE  /\ \A r : Right(r)' = Right(r)
           /\ Children' = Children /\ WithKps' = WithKps /\ Creating' = Creating
           /\ {KpsOf(c) : c \in Children}' = {KpsOf(c) : c \in Children}
           /\ WellBehaved' = WellBehaved /\ WellBuilt' = WellBuilt /\ Closed(prog)' = Closed(prog)
           /\ \A ops : CallsAt(prog, "main", ops)' = CallsAt(prog, "main", ops)
  BY DEF Right, Children, WithKps, KpsOf, Created, CreatedAt, Creating, WellBehaved, WellBuilt, AllJoined, ExitsOf

LEMMA WellBehavedIsClosed == WellBehaved => Closed(prog)
  BY DEF WellBehaved

(* A step of a thread that leaves the counts alone. *)
LEMMA CountedMoves ==
    ASSUME Base, Counted, Running, SameProgram, phase' = phase, NEW t \in Thread,
           Moves(t) \/ Grows(t), Op(t) # "traceEnd",
           shm'.num = shm.num, shm'.N = shm.N, shm'.M = shm.M
    PROVE  Counted'
  <1>1. /\ prog' = prog /\ Running' /\ ProgramTypes /\ ProcessTypes /\ Team
        /\ ~Ended(t) /\ \A u \in Thread \ {t} : threads'[u] = threads[u]
        /\ threads'[t].at = threads[t].at + 1
    BY DEF SameProgram, Running, Moves, Grows, Base
  <1> DEFINE E == CallsAt(prog, "main", {"traceEnd"})
  <1>2. Main \in Thread /\ threads[Main].fn = "main" /\ threads[Main].at \in Nat /\ CodeOf("main")
    BY <1>1, TeamSize, ThreadAt
  <1>3. E \in SUBSET Nat /\ \A y \in Nat : y \in E <=> y \in 1..Len(code["main"]) /\ code["main"][y].op = "traceEnd"
    BY <1>2, CallsIn
  <1>4. ASSUME NEW x \in E, x < threads'[Main].at PROVE x < threads[Main].at
    <2>1. CASE t = Main
      <3>1. x # threads[Main].at
        BY <1>2, <1>3, <2>1 DEF Op
      <3> QED
        BY <1>1, <1>2, <1>3, <1>4, <2>1, <3>1
    <2>2. CASE t # Main
      BY <1>1, <1>2, <1>4, <2>2
    <2> QED
      BY <2>1, <2>2
  <1>5. CountsRight => CountsRight'
    BY <1>1, SameCounts DEF CountsRight
  <1>6. (WellBehaved /\ Running)' =>
          /\ \A r \in Rows : shm'.num[r] \in {0, Right(r)'}
          /\ (\E x \in E' : x < threads'[Main].at) => CountsRight'
    <2>1. E' = E /\ WellBehaved' = WellBehaved /\ \A r : Right(r)' = Right(r)
      BY <1>1, SameCounts
    <2> HIDE DEF E
    <2>2. WellBehaved =>
            /\ \A r \in Rows : shm.num[r] \in {0, Right(r)}
            /\ (\E x \in E : x < threads[Main].at) => CountsRight
      BY DEF Counted, E
    <2> QED
      BY <1>4, <1>5, <2>1, <2>2
  <1>7. NoneTooGreat'
    BY <1>1, SameCounts DEF Counted, NoneTooGreat
  <1>8. RowsExact' /\ RowsKept'
    BY <1>1 DEF RowsExact, RowsKept
  <1> QED
    BY <1>1, <1>6, <1>7, <1>8 DEF Counted

(* traceEnd in an execution: in whatever thread, the counts stay within    *)
(* bounds; if main has come to its end none is misplaced, and if the map   *)
(* is intact they are right.                                               *)
LEMMA CountedEnds ==
    ASSUME Base, Numbering, JoinedEnded, Counted, Running, SameProgram,
           threads[Main].at > 1, NEW intact \in SUBSET Thread, TraceEnd(intact)
    PROVE  /\ NoneTooGreat'
           /\ (/\ WellBehaved
               /\ Ended(Main) \/ threads[Main].at \in CallsAt(prog, "main", ExitCalls))
                 => CountsKept' /\ (intact = Thread => CountsRight')
  <1>1. shm'.num = Summary(intact).num /\ shm'.N = Summary(intact).N /\ shm'.M = Summary(intact).M
    BY TraceEndWrites DEF Base
  <1>2. prog' = prog
    BY DEF SameProgram
  <1>3. NoneTooGreat'
    <2> SUFFICES ASSUME Closed(prog), NEW r \in Rows PROVE Summary(intact).num[r] <= Right(r)
      BY <1>1, <1>2, SameCounts DEF NoneTooGreat
    <2>1. shm.num[r] <= Right(r)
      BY DEF Counted, NoneTooGreat
    <2> QED
      BY <2>1, SummaryBounded
  <1>4. ASSUME WellBehaved, Ended(Main) \/ threads[Main].at \in CallsAt(prog, "main", ExitCalls)
        PROVE  CountsKept' /\ (intact = Thread => CountsRight')
    <2>1. AllEnded
      BY <1>4, JoinedAll
    <2>2. \A r \in Rows : shm.num[r] \in {0, Right(r)}
      BY <1>4 DEF Counted
    <2>3. /\ \A r \in Rows : /\ Summary(intact).num[r] \in {0, Right(r)}
                             /\ intact = Thread => Summary(intact).num[r] = Right(r)
          /\ Summary(intact).N = Cardinality(WithKps)
          /\ Summary(intact).M = Max({KpsOf(c) : c \in Children} \cup {0})
      BY <1>4, <2>1, <2>2, SummaryRight, WellBehavedIsClosed
    <2> QED
      BY <1>1, <1>2, <2>3, SameCounts DEF CountsRight, CountsKept
  <1> QED
    BY <1>3, <1>4

(* Only main may exit in a well-behaved program. *)
LEMMA ExitsInMain ==
    ASSUME Base, Running, WellBehaved, NEW t \in Thread, ~Ended(t), Op(t) \in ExitCalls
    PROVE  /\ t = Main /\ threads[Main].at \in CallsAt(prog, "main", ExitCalls)
           /\ Op(t) = "_exit" => \E x \in CallsAt(prog, "main", {"traceEnd"}) : x < threads[Main].at
  <1>1. ProgramTypes /\ ProcessTypes /\ Team
    BY DEF Base
  <1> DEFINE f == threads[t].fn
             y == threads[t].at
  <1>2. /\ f \in DOMAIN prog.code /\ CodeOf(f) /\ y \in 1..Len(code[f]) /\ y \in Nat
        /\ t = Main <=> f = "main"
    BY <1>1, ThreadAt
  <1>3. y \in CallsAt(prog, f, ExitCalls)
    BY <1>2, CallsIn DEF Op
  <1>4. f = "main"
    BY <1>1, <1>2, <1>3, WellJoined
  <1>5. Op(t) = "_exit" => y \in CallsAt(prog, f, {"_exit"})
    BY <1>2, CallsIn DEF Op
  <1>6. Op(t) = "_exit" => \E x \in CallsAt(prog, f, {"traceEnd"}) : x < y
    BY <1>1, <1>2, <1>5, ProgramFacts, ExitsInSource
  <1> QED
    BY <1>2, <1>3, <1>4, <1>6

LEMMA CountedThread ==
    ASSUME Base, Numbering, JoinedEnded, Counted, NEW t \in Thread, Execute(t)
    PROVE  Counted'
  <1>1. /\ Running /\ SameProgram /\ phase' = phase /\ prog' = prog
        /\ ProgramTypes /\ DriverTypes /\ ProcessTypes /\ Team /\ ThreadStep(t)
    BY ExecuteRuns DEF Base, Execute, SameProgram
  <1>2. ASSUME Moves(t) \/ Grows(t), Op(t) # "traceEnd", UNCHANGED shm PROVE Counted'
    BY <1>1, <1>2, CountedMoves
  <1>3. ASSUME ~Running', NoneTooGreat',
               mode' = "returned" /\ WellBehaved => CountsKept' /\ (prog.asan => CountsRight')
        PROVE  Counted'
    <2>1. WellBehaved' = WellBehaved /\ WellBuilt' = WellBuilt
      BY <1>1, SameCounts
    <2>2. RowsKept'
      BY <1>3, <2>1 DEF RowsKept, CountsKept, Right
    <2>3. RowsExact'
      BY <1>3, <2>1 DEF RowsExact, CountsRight, Right, WellBuilt
    <2> QED
      BY <1>3, <2>2, <2>3 DEF Counted
  <1>4. CASE BeforePthreadCreate(t)
    BY <1>1, <1>2, <1>4, BeforeMoves DEF BeforePthreadCreate
  <1>5. CASE PthreadCreate(t)
    <2>1. Grows(t) /\ UNCHANGED shm /\ Op(t) \in Creations
      BY <1>1, <1>5, CreateGrows DEF PthreadCreate, Grows
    <2>2. "traceEnd" \notin Creations
      BY DEF Creations, Wrappers
    <2> QED
      BY <1>2, <2>1, <2>2
  <1>6. CASE Register(t)
    <2>1. CASE Refused
      <3>1. Destructor /\ End("refused") /\ At(t, "instr_PthreadCall")
        BY <1>6, <2>1 DEF Register
      <3>2. PICK intact \in SUBSET Thread : TraceEnd(intact)
        BY <3>1 DEF Destructor
      <3>3. ~Ended(t) /\ Op(t) # "instr_LOC"
        BY <3>1 DEF At, Op
      <3>4. threads[Main].at > 1
        BY <1>1, <3>3, MainBegan
      <3>5. NoneTooGreat'
        BY <1>1, <3>2, <3>4, CountedEnds
      <3> QED
        BY <1>3, <3>1, <3>5 DEF End, Running
    <2>2. CASE ~Refused
      BY <1>1, <1>2, <1>6, <2>2, RegisterMoves DEF Register
    <2> QED
      BY <2>1, <2>2
  <1>7. CASE MainKeyPoint(t)
    BY <1>1, <1>2, <1>7, MainKeyMoves DEF MainKeyPoint
  <1>8. CASE KeyPoint(t)
    <2>1. Moves(t) /\ Op(t) # "traceEnd"
      BY <1>1, <1>8, KeyMoves
    <2>2. shm'.num = shm.num /\ shm'.N = shm.N /\ shm'.M = shm.M
      BY <1>1, <1>8, KeyPointWrites
    <2> QED
      BY <1>1, <2>1, <2>2, CountedMoves
  <1>9. CASE PthreadJoin(t)
    BY <1>1, <1>2, <1>9, JoinMoves DEF PthreadJoin
  <1>10. CASE CallTraceEnd(t)
    <2>1. Moves(t) /\ Op(t) = "traceEnd" /\ TraceEnd(Thread) /\ mode' = mode
      BY <1>1, <1>10, TraceEndMoves DEF CallTraceEnd
    <2>2. ~Ended(t) /\ threads[Main].at > 1 /\ Running'
      BY <1>1, <2>1, MainBegan DEF Moves, Running
    <2>3. NoneTooGreat'
      BY <1>1, <2>1, <2>2, CountedEnds
    <2>4. WellBehaved => CountsRight'
      <3> HAVE WellBehaved
      <3>1. threads[Main].at \in CallsAt(prog, "main", ExitCalls)
        BY <1>1, <2>1, <2>2, ExitsInMain DEF ExitCalls
      <3> QED
        BY <1>1, <2>1, <2>2, <3>1, CountedEnds
    <2>5. WellBehaved' => \A r \in Rows : shm'.num[r] \in {0, Right(r)'}
      BY <1>1, <2>4, SameCounts DEF CountsRight
    <2>6. RowsExact' /\ RowsKept'
      BY <2>2 DEF RowsExact, RowsKept
    <2>7. WellBehaved' = WellBehaved
      BY <1>1, SameCounts
    <2> QED
      BY <1>1, <2>2, <2>3, <2>4, <2>5, <2>6, <2>7 DEF Counted
  <1>11. CASE Exit(t)
    <2>1. At(t, "_exit") /\ UNCHANGED shm /\ End("returned")
      BY <1>11 DEF Exit
    <2>2. ~Ended(t) /\ Op(t) = "_exit" /\ mode' = "returned" /\ ~Running'
      BY <2>1 DEF At, Op, End, Running
    <2>3. NoneTooGreat'
      BY <1>1, <2>1, SameCounts DEF Counted, NoneTooGreat
    <2>4. WellBehaved => CountsRight' /\ CountsKept'
      <3> HAVE WellBehaved
      <3>1. \E x \in CallsAt(prog, "main", {"traceEnd"}) : x < threads[Main].at
        BY <1>1, <2>2, ExitsInMain DEF ExitCalls
      <3>2. CountsRight
        BY <1>1, <3>1 DEF Counted
      <3> QED
        BY <1>1, <2>1, <3>2, SameCounts DEF CountsRight, CountsKept
    <2> QED
      BY <1>3, <2>2, <2>3, <2>4
  <1>12. CASE t = Main /\ MainReturns
    <2>1. Ended(Main) /\ Destructor /\ mode' = "returned" /\ ~Running'
      BY <1>12 DEF MainReturns, End, Running
    <2>2. PICK intact \in SUBSET Thread : (prog.asan => intact = Thread) /\ TraceEnd(intact)
      BY <2>1 DEF Destructor
    <2>3. threads[Main].at > 1
      BY <1>1, <1>12, <2>1, MainBegan
    <2>4. NoneTooGreat' /\ (WellBehaved => CountsKept' /\ (prog.asan => CountsRight'))
      BY <1>1, <2>1, <2>2, <2>3, CountedEnds
    <2> QED
      BY <1>3, <2>1, <2>4
  <1> QED
    BY <1>1, <1>4, <1>5, <1>6, <1>7, <1>8, <1>9, <1>10, <1>11, <1>12 DEF ThreadStep

(* Between executions nobody touches the counts. *)
LEMMA DriverPhases ==
    ASSUME Base, Counted, Driver
    PROVE  \/ /\ phase # "failed" /\ phase' \in RunPhases
              /\ \E m \in {"dry", "dbds"} : TraceBegin(m)
           \/ /\ UNCHANGED process /\ ~Running /\ phase' \notin RunPhases
              /\ shm'.num = shm.num
  <1>1. shm \in ShmType
    BY DEF Base, DriverTypes
  <1>2. CASE SetUp
    BY <1>1, <1>2 DEF SetUp, ShmType, RunPhases
  <1>3. CASE Learn
    <2>1. UNCHANGED process /\ ~Running
      BY <1>3 DEF Learn
    <2>2. phase' \in {"failed", "test", "default"}
      BY <1>3 DEF Learn
    <2>3. shm'.num = shm.num
      BY <1>1, <1>3 DEF Learn, ShmType
    <2> QED
      BY <2>1, <2>2, <2>3 DEF RunPhases
  <1>4. CASE WriteTest
    <2>1. UNCHANGED process /\ phase = "test" /\ phase' = "start"
      BY <1>4 DEF WriteTest
    <2>2. ~Running
      BY <2>1 DEF Counted, RunPhases
    <2>3. shm'.num = shm.num
      BY <1>1, <1>4 DEF WriteTest, WriteConfig, ShmType
    <2> QED
      BY <2>1, <2>2, <2>3 DEF RunPhases
  <1>5. CASE NothingToTest
    <2>1. UNCHANGED process /\ phase = "test" /\ phase' = "failed" /\ UNCHANGED shm
      BY <1>5 DEF NothingToTest
    <2>2. ~Running
      BY <2>1 DEF Counted, RunPhases
    <2> QED
      BY <2>1, <2>2 DEF RunPhases
  <1>6. CASE TestEnds
    BY <1>6 DEF TestEnds, RunPhases
  <1>7. CASE DryRun \/ DefaultRun \/ StartTest
    BY <1>7 DEF DryRun, DefaultRun, StartTest, RunPhases
  <1> QED
    BY <1>2, <1>3, <1>4, <1>5, <1>6, <1>7 DEF Driver

LEMMA CountedDriver ==
    ASSUME Base, Counted, Driver
    PROVE  Counted'
  <1>1. ProgramTypes /\ prog' = prog /\ iterPeriod' = iterPeriod
    BY DriverProcess DEF Base
  <1>2. CASE UNCHANGED process /\ ~Running /\ phase' \notin RunPhases /\ shm'.num = shm.num
    <2>1. ~Running'
      BY <1>2 DEF process, Running
    <2>2. NoneTooGreat'
      BY <1>1, <1>2, SameCounts DEF Counted, NoneTooGreat
    <2>3. RowsExact' /\ RowsKept'
      BY <1>2 DEF RowsExact, RowsKept, RunPhases
    <2> QED
      BY <2>1, <2>2, <2>3 DEF Counted
  <1>3. ASSUME phase # "failed", phase' \in RunPhases, NEW m \in {"dry", "dbds"}, TraceBegin(m)
        PROVE  Counted'
    <2>1. Running'
      BY <1>1, <1>3, ProcessBegins
    <2>2. \A r \in Rows : shm'.num[r] = 0
      <3>1. shm' = [shm EXCEPT !.num = [r \in Rows |-> 0], !.loc = [s \in Slots |-> NoLine]]
        BY <1>3 DEF TraceBegin
      <3>2. shm \in ShmType
        BY DEF Base, DriverTypes
      <3> QED
        BY <3>1, <3>2 DEF ShmType
    <2>3. NoneTooGreat'
      BY <1>1, <2>2, RightType, SameCounts DEF NoneTooGreat
    <2>4. ~ \E x \in CallsAt(prog, "main", {"traceEnd"}) : x < threads'[Main].at
      <3>1. threads'[Main].at = 1
        BY <1>3 DEF TraceBegin, NewThread, Main
      <3>2. CodeOf("main")
        BY <1>1, <1>3, ProgramFacts, MainIsFunction, CodeFacts
      <3>3. \A x \in CallsAt(prog, "main", {"traceEnd"}) : x \in Nat \ {0}
        BY <3>2, CallsIn
      <3> QED
        BY <3>1, <3>3
    <2>5. RowsExact' /\ RowsKept'
      BY <2>1 DEF RowsExact, RowsKept
    <2> QED
      BY <1>1, <1>3, <2>1, <2>2, <2>3, <2>4, <2>5, SameCounts DEF Counted
  <1> QED
    BY <1>2, <1>3, DriverPhases

LEMMA CountedStutters ==
    ASSUME Counted, UNCHANGED vars
    PROVE  Counted'
  <1>1. /\ prog' = prog /\ phase' = phase /\ shm' = shm /\ mode' = mode /\ threads' = threads
        /\ Running' = Running
    BY DEF vars, process, Running
  <1>2. NoneTooGreat'
    BY <1>1, SameCounts DEF Counted, NoneTooGreat
  <1>3. CountsRight' = CountsRight /\ CountsKept' = CountsKept
    BY <1>1, SameCounts DEF CountsRight, CountsKept
  <1> DEFINE P == ~Running /\ mode = "returned" /\ phase \in {"set up", "learn", "testing"} /\ WellBehaved
  <1>4. P' = P
    BY <1>1, SameCounts
  <1>5. RowsKept'
    <2>1. P => CountsKept
      BY DEF Counted, RowsKept, CountsKept, Right
    <2> QED
      BY <1>3, <1>4, <2>1 DEF RowsKept, CountsKept, Right
  <1>6. RowsExact'
    <2>1. P /\ WellBuilt => CountsRight
      BY DEF Counted, RowsExact, CountsRight, Right
    <2>2. WellBuilt' = WellBuilt
      BY <1>1, SameCounts
    <2>3. P' /\ WellBuilt' => CountsRight'
      BY <1>3, <1>4, <2>1, <2>2
    <2>4. WellBuilt' => WellBehaved'
      BY DEF WellBuilt
    <2> QED
      BY <2>3, <2>4 DEF RowsExact, CountsRight, Right
  <1> QED
    BY <1>1, <1>2, <1>3, <1>5, <1>6, SameCounts DEF Counted

LEMMA CountedInitially == ASSUME Init PROVE Counted
  <1>1. Base /\ ProgramTypes /\ ~Running
    BY InitBase DEF Base, Init, Running
  <1>2. \A r \in Rows : shm.num[r] = 0
    BY DEF Init, NoCounts
  <1>3. NoneTooGreat
    BY <1>1, <1>2, RightType DEF NoneTooGreat
  <1>4. RowsExact /\ RowsKept
    BY DEF Init, RowsExact, RowsKept
  <1> QED
    BY <1>1, <1>3, <1>4 DEF Counted

THEOREM CountsInvariant == Spec => []Counted
  <1>1. ASSUME Base, Numbering, JoinedEnded, Counted, [Next]_vars PROVE Counted'
    BY <1>1, CountedThread, CountedDriver, CountedStutters DEF Next
  <1> QED
    BY <1>1, CountedInitially, SessionInvariant, NumberingInvariant, JoinedInvariant, PTL DEF Spec

(* For any program that PERIOD can follow, and whatever thread ids the     *)
(* kernel gives out, an execution that returns has left in row k the KPs   *)
(* of the k-th thread that main creates, the number of threads that have   *)
(* some, and the greatest of the counts (344-376).  If the maps are not    *)
(* intact in the destructor, as they are with ASAN, a row may have nothing *)
(* in it, but never the count of another thread.                           *)
THEOREM RowsOfThreads == Spec => []CountsInRows
  <1>1. Counted => CountsInRows
    BY DEF Counted, RowsExact, RowsKept, CountsInRows, WellBuilt
  <1> QED
    BY <1>1, CountsInvariant, PTL

-----------------------------------------------------------------------------
(* How many rows the driver needs: those with KPs are K, of which it knows *)
(* the number n, and it looks for the zeros in front of the last of them.  *)
WithNumbers(num, n) == {r \in Rows : r < n /\ num[r] # 0}

LEMMA ZerosRise ==
    ASSUME NEW num, NEW a \in Nat, NEW b \in Nat, a <= b
    PROVE  Zeros(num, a) <= Zeros(num, b)
  <1> DEFINE A == {r \in Rows : r < a /\ num[r] = 0}
             B == {r \in Rows : r < b /\ num[r] = 0}
  <1>1. IsFiniteSet(Rows) /\ \A r \in Rows : r \in Nat
    BY SizeAssumption, FS_Interval DEF Rows
  <1>2. IsFiniteSet(B)
    BY <1>1, FS_Subset
  <1>3. A \in SUBSET B
    BY <1>1
  <1> QED
    BY <1>2, <1>3, FS_Subset DEF Zeros

LEMMA ZerosRest ==
    ASSUME NEW num, NEW k \in Nat, k <= ThreadNum
    PROVE  /\ IsFiniteSet(WithNumbers(num, k)) /\ Cardinality(WithNumbers(num, k)) \in Nat
           /\ Zeros(num, k) = k - Cardinality(WithNumbers(num, k))
  <1> DEFINE Z == {r \in Rows : r < k /\ num[r] = 0}
             W == WithNumbers(num, k)
  <1>1. IsFiniteSet(Rows) /\ Rows = 0..(ThreadNum - 1) /\ ThreadNum \in Nat
    BY SizeAssumption, FS_Interval DEF Rows
  <1>2. IsFiniteSet(Z) /\ IsFiniteSet(W)
    BY <1>1, FS_Subset DEF WithNumbers
  <1>3. Z \cup W = 0..(k - 1)
    <2>1. ASSUME NEW r PROVE r \in Z \cup W <=> r \in 0..(k - 1)
      <3>1. r \in Z \cup W <=> r \in Rows /\ r < k
        BY DEF WithNumbers
      <3> QED
        BY <1>1, <3>1
    <2> HIDE DEF Z, W
    <2> QED
      BY <2>1
  <1>4. Z \cap W = {}
    BY DEF WithNumbers
  <1>5. Cardinality(0..(k - 1)) = k
    <2> DEFINE m == k - 1
    <2>1. m \in Int /\ 0 \in Int /\ (0 > m <=> k = 0) /\ m - 0 + 1 = k
      OBVIOUS
    <2> HIDE DEF m
    <2>2. Cardinality(0..m) = IF 0 > m THEN 0 ELSE m - 0 + 1
      BY <2>1, FS_Interval
    <2>3. Cardinality(0..m) = k
      BY <2>1, <2>2
    <2> QED
      BY <2>3 DEF m
  <1> HIDE DEF Z, W
  <1>6. Cardinality(Z \cup W) = Cardinality(Z) + Cardinality(W) - Cardinality(Z \cap W)
    BY <1>2, FS_Union
  <1>7. Cardinality(Z) \in Nat /\ Cardinality(W) \in Nat /\ Cardinality(Z \cap W) = 0
    BY <1>2, <1>4, FS_CardinalityType, FS_EmptySet
  <1>8. Cardinality(Z) = k - Cardinality(W)
    <2> DEFINE z == Cardinality(Z)
               w == Cardinality(W)
    <2>1. k = z + w - 0 /\ z \in Nat /\ w \in Nat
      BY <1>3, <1>5, <1>6, <1>7
    <2> HIDE DEF z, w
    <2>2. z = k - w
      BY <2>1
    <2> QED
      BY <2>2 DEF z, w
  <1> QED
    BY <1>2, <1>7, <1>8 DEF Z, W, Zeros

(* Each of the three rounds that does not find all of them finds another   *)
(* zero, and there is a row that is none: the sixth row would be the first *)
(* one missed.                                                             *)
LEMMA ThreeRounds ==
    ASSUME NEW num \in [Rows -> Nat], NEW K \in SUBSET (0..4), NEW n \in Nat, n = Cardinality(K),
           \A r \in Rows : num[r] # 0 <=> r \in K,
           NEW first \in K, first < n,
           n + ZeroNum(num, NoCounts, n) <= ThreadNum
    PROVE  \A r \in K : r < n + ZeroNum(num, NoCounts, n)
  <1> DEFINE Round(z) == Min({Zeros(num, n + z), Zeros(NoCounts, n + z)})
             z1 == Zeros(num, n)
             z2 == Zeros(num, n + z1)
             z3 == Zeros(num, n + z2)
  <1>1. IsFiniteSet(Rows) /\ Rows = 0..(ThreadNum - 1) /\ ThreadNum \in Nat
    BY SizeAssumption, FS_Interval DEF Rows
  <1>2. ASSUME NEW z \in Nat PROVE Round(z) = Zeros(num, n + z)
    <2> DEFINE A == {r \in Rows : r < n + z /\ num[r] = 0}
               B == {r \in Rows : r < n + z /\ NoCounts[r] = 0}
    <2>1. A \in SUBSET B
      BY DEF NoCounts
    <2>2. IsFiniteSet(B)
      BY <1>1, FS_Subset
    <2>3. Cardinality(A) <= Cardinality(B)
      BY <2>1, <2>2, FS_Subset
    <2>4. Zeros(num, n + z) <= Zeros(NoCounts, n + z)
      BY <2>3 DEF Zeros
    <2>5. Zeros(num, n + z) \in Nat /\ Zeros(NoCounts, n + z) \in Nat
      BY ZerosType
    <2> HIDE DEF A, B
    <2> QED
      BY <2>4, <2>5, LessOf
  <1>3. z1 \in Nat /\ z2 \in Nat /\ z3 \in Nat
    BY ZerosType
  <1>4. ZeroNum(num, NoCounts, n) \in Nat /\ n <= ThreadNum
    <2>1. ZeroNum(num, NoCounts, n) \in Nat
      BY ZeroNumType
    <2> QED
      BY <1>1, <2>1
  <1>5. first \in Rows /\ num[first] # 0
    BY <1>1, <1>4
  <1>6. ZeroNum(num, NoCounts, n) = z3
    <2>1. ZeroNum(num, NoCounts, n) = IF \A r \in Rows : r < n => num[r] = 0 THEN 0
                                      ELSE Round(Round(Round(0)))
      BY DEF ZeroNum
    <2>2. n + 0 = n
      OBVIOUS
    <2>3. Round(0) = z1 /\ Round(z1) = z2 /\ Round(z2) = z3
      <3> HIDE DEF Round
      <3>1. Round(0) = Zeros(num, n + 0)
        BY <1>2
      <3>2. Round(z1) = z2 /\ Round(z2) = z3
        <4> HIDE DEF z1, z2
        <4>1. Round(z1) = Zeros(num, n + z1) /\ Round(z2) = Zeros(num, n + z2)
          BY <1>2, <1>3
        <4> QED
          BY <4>1 DEF z2
      <3> QED
        BY <2>2, <3>1, <3>2
    <2> HIDE DEF Round, z1, z2, z3
    <2> QED
      BY <1>5, <2>1, <2>3
  <1>7. z1 <= z2 /\ z2 <= z3
    <2>1. z1 <= z2
      <3> HIDE DEF z1
      <3>1. Zeros(num, n) <= Zeros(num, n + z1)
        BY <1>3, ZerosRise
      <3> QED
        BY <3>1 DEF z1
    <2>2. Zeros(num, n + z1) <= Zeros(num, n + z2)
      <3> HIDE DEF z1, z2
      <3> QED
        BY <1>3, <2>1, ZerosRise
    <2> QED
      BY <2>1, <2>2
  <1> HIDE DEF Round
  <1>8. n + z3 <= ThreadNum
    BY <1>6
  <1>9. IsFiniteSet(K) /\ \A k : WithNumbers(num, k) \in SUBSET K
    <2>1. IsFiniteSet(0..4)
      <3>1. 0 \in Int /\ 4 \in Int
        OBVIOUS
      <3> QED
        BY <3>1, FS_Interval, Zenon
    <2>2. IsFiniteSet(K)
      BY <2>1, FS_Subset
    <2> QED
      BY <2>2 DEF WithNumbers
  <1>10. ASSUME NEW z \in Nat, z <= z3, Zeros(num, n + z) = z
         PROVE  \A r \in K : r < n + z
    <2>1. n + z \in Nat /\ n + z <= ThreadNum
      BY <1>1, <1>3, <1>8, <1>10
    <2>2. z = (n + z) - Cardinality(WithNumbers(num, n + z)) /\ Cardinality(WithNumbers(num, n + z)) \in Nat
      BY <1>10, <2>1, ZerosRest
    <2>3. Cardinality(WithNumbers(num, n + z)) = n
      <3> DEFINE c == Cardinality(WithNumbers(num, n + z))
      <3>1. c \in Nat /\ z = (n + z) - c
        BY <2>2
      <3> HIDE DEF c
      <3>2. c = n
        BY <3>1
      <3> QED
        BY <3>2 DEF c
    <2>4. WithNumbers(num, n + z) = K
      BY <1>9, <2>3, FS_Subset
    <2> QED
      BY <2>4 DEF WithNumbers
  <1>11. z1 + 1 <= n
    <2>1. z1 = n - Cardinality(WithNumbers(num, n)) /\ IsFiniteSet(WithNumbers(num, n))
          /\ Cardinality(WithNumbers(num, n)) \in Nat
      BY <1>4, ZerosRest
    <2>2. first \in WithNumbers(num, n)
      BY <1>5 DEF WithNumbers
    <2>3. Cardinality(WithNumbers(num, n)) # 0
      BY <2>1, <2>2, FS_EmptySet
    <2> HIDE DEF z1
    <2> QED
      BY <2>1, <2>3
  <1>12. z2 = z1 => z3 = z1
    OBVIOUS
  <1>13. z1 = 0 => z2 = 0
    <2>1. n + 0 = n
      OBVIOUS
    <2> QED
      BY <2>1
  <1> HIDE DEF z1, z2, z3
  <1>14. CASE z3 = z2
    <2>1. Zeros(num, n + z2) = z2
      BY <1>14 DEF z3
    <2> QED
      BY <1>3, <1>6, <1>10, <1>14, <2>1
  <1>15. CASE z3 # z2
    <2>1. z2 + 1 <= z3 /\ z1 + 1 <= z2 /\ 1 <= z1
      BY <1>3, <1>7, <1>12, <1>13, <1>15
    <2>2. 5 <= n + z3 /\ n + z3 \in Nat
      BY <1>3, <1>11, <2>1
    <2>3. \A r \in K : r \in Nat /\ r <= 4
      OBVIOUS
    <2>4. \A r \in K : r < n + z3
      BY <2>2, <2>3
    <2> QED
      BY <1>6, <2>4
  <1> QED
    BY <1>14, <1>15

(* What the driver has learnt from the dry run is not lost.                *)
EnoughRows ==
    LET n == Cardinality(WithKps)
    IN  (Cardinality(Children) <= 5 /\ WithKps \cap (1..n) # {})
            => \A c \in WithKps : c <= N + zero_in_KP
LearntPhases == {"default", "learn", "test", "start", "testing", "tested"}
Learnt ==
    /\ phase \in {"dry", "set up"} => kpMaxNumArray = NoCounts
    /\ phase = "set up" => mode \in {"dry", "returned"}
    /\ (phase \in LearntPhases /\ WellBuilt) => EnoughRows

LEMMA ChildNumbers ==
    ASSUME ProgramTypes
    PROVE  /\ Cardinality(Children) = Cardinality(Creating) /\ IsFiniteSet(WithKps)
           /\ Children = 1..Cardinality(Creating) /\ Cardinality(Creating) \in Nat
           /\ \A c \in WithKps : c \in Nat \ {0} /\ c \in Children /\ KpsOf(c) \in Nat /\ KpsOf(c) > 0
  <1> DEFINE m == Cardinality(Creating)
  <1>1. m \in Nat /\ Children = 1..m
    BY ProgramFacts DEF Children
  <1> HIDE DEF m
  <1>2. IsFiniteSet(Children) /\ Cardinality(Children) = m
    <2>1. IsFiniteSet(1..m) /\ Cardinality(1..m) = IF 1 > m THEN 0 ELSE m - 1 + 1
      <3>1. 1 \in Int /\ m \in Int
        BY <1>1
      <3> QED
        BY <3>1, FS_Interval, Zenon
    <2> QED
      BY <1>1, <2>1
  <1>3. WithKps \in SUBSET Children
    BY DEF WithKps
  <1>4. IsFiniteSet(WithKps)
    BY <1>2, <1>3, FS_Subset
  <1>5. \A c \in WithKps : c \in Nat \ {0} /\ c \in Children /\ KpsOf(c) \in Nat /\ KpsOf(c) > 0
    BY ChildCreated DEF WithKps
  <1> QED
    BY <1>1, <1>2, <1>4, <1>5 DEF m

LEMMA SetUpRows ==
    ASSUME Base, Counted, Learnt, SetUp, WellBuilt, phase' = "default"
    PROVE  EnoughRows'
  <1>1. /\ ProgramTypes /\ DriverTypes /\ shm \in ShmType /\ prog' = prog
    BY DriverProcess DEF Base, DriverTypes, Driver
  <1>2. /\ phase = "set up" /\ ~Running /\ kpMaxNumArray = NoCounts
        /\ N' = shm.N /\ zero_in_KP' = ZeroNum(shm.num, kpMaxNumArray, shm.N)
        /\ ~(shm.N + ZeroNum(shm.num, kpMaxNumArray, shm.N) > ThreadNum)
    BY DEF SetUp, Learnt
  <1>3. mode = "returned"
    BY <1>2 DEF Learnt, Running
  <1>4. (\A r \in Rows : shm.num[r] = Right(r)) /\ shm.N = Cardinality(WithKps)
    BY <1>2, <1>3 DEF Counted, RowsExact, Right
  <1>5. /\ Cardinality(Children) = Cardinality(Creating) /\ IsFiniteSet(WithKps)
        /\ Children = 1..Cardinality(Creating) /\ Cardinality(Creating) \in Nat
        /\ \A c \in WithKps : c \in Nat \ {0} /\ c \in Children /\ KpsOf(c) \in Nat /\ KpsOf(c) > 0
    BY <1>1, ChildNumbers
  <1> DEFINE n == Cardinality(WithKps)
             K == {c - 1 : c \in WithKps}
  <1>6. SUFFICES ASSUME Cardinality(Children) <= 5, NEW first \in WithKps, first \in 1..n,
                        NEW c \in WithKps
                 PROVE  c <= N' + zero_in_KP'
    BY <1>1, SameCounts DEF EnoughRows
  <1>7. K \in SUBSET (0..4)
    BY <1>5, <1>6
  <1>8. Cardinality(K) = n /\ n \in Nat
    <2> DEFINE g == [d \in WithKps |-> d - 1]
    <2>1. g \in [WithKps -> K]
      OBVIOUS
    <2>2. g \in Injection(WithKps, K)
      <3>1. \A a, b \in WithKps : a - 1 = b - 1 => a = b
        BY <1>5
      <3> HIDE DEF K
      <3> QED
        BY <2>1, <3>1 DEF Injection, IsInjective
    <2>3. g \in Surjection(WithKps, K)
      BY <2>1 DEF Surjection
    <2>4. ExistsBijection(WithKps, K)
      BY <2>2, <2>3 DEF ExistsBijection, Bijection
    <2> HIDE DEF K
    <2> QED
      BY <1>5, <2>4, FS_Bijection, FS_CardinalityType
  <1>9. ASSUME NEW r \in Rows PROVE shm.num[r] # 0 <=> r \in K
    <2>1. r \in Nat /\ (r + 1) - 1 = r
      BY DEF Rows
    <2>2. r \in K <=> r + 1 \in WithKps
      BY <1>5, <2>1
    <2>3. r + 1 \in WithKps <=> Right(r) # 0
      <3>1. ASSUME r + 1 \in WithKps PROVE Right(r) # 0
        BY <1>5, <3>1 DEF Right
      <3>2. ASSUME Right(r) # 0 PROVE r + 1 \in WithKps
        <4>1. r + 1 \in Children /\ KpsOf(r + 1) # 0
          BY <3>2 DEF Right
        <4>2. KpsOf(r + 1) \in Nat
          BY <1>1, <4>1, ChildCreated
        <4> QED
          BY <4>1, <4>2 DEF WithKps
      <3> QED
        BY <3>1, <3>2
    <2> HIDE DEF K
    <2> QED
      BY <1>4, <2>2, <2>3
  <1>10. first - 1 \in K /\ first - 1 < n /\ c - 1 \in K /\ c \in Nat
    <2>1. first - 1 < n
      BY <1>6, <1>8
    <2> QED
      BY <1>5, <2>1
  <1>11. shm.num \in [Rows -> Nat]
    BY <1>1 DEF ShmType
  <1> DEFINE z == ZeroNum(shm.num, NoCounts, n)
  <1>12. z \in Nat
    BY ZeroNumType
  <1>13. n + z <= ThreadNum /\ N' = n /\ zero_in_KP' = z
    <2>1. ThreadNum \in Nat
      BY SizeAssumption
    <2>2. ~(n + z > ThreadNum) /\ N' = n /\ zero_in_KP' = z
      BY <1>2, <1>4
    <2> HIDE DEF n, z
    <2> QED
      BY <1>8, <1>12, <2>1, <2>2
  <1>14. c - 1 < n + z
    <2> DEFINE f == first - 1
               d == c - 1
    <2>1. f \in K /\ f < n /\ d \in K
      BY <1>10
    <2> HIDE DEF K, n, f, d
    <2>2. \A r \in K : r < n + ZeroNum(shm.num, NoCounts, n)
      BY <1>7, <1>8, <1>9, <1>11, <1>13, <2>1, ThreeRounds
    <2>3. d < n + z
      BY <2>1, <2>2
    <2> QED
      BY <2>3 DEF d
  <1> HIDE DEF n, z, K
  <1> QED
    BY <1>8, <1>10, <1>12, <1>13, <1>14

LEMMA LearntDriver ==
    ASSUME Base, Counted, Learnt, Driver
    PROVE  Learnt'
  <1>1. /\ prog' = prog /\ WellBuilt' = WellBuilt /\ Children' = Children /\ WithKps' = WithKps
        /\ NoCounts' = NoCounts
    BY DriverProcess, SameCounts DEF NoCounts
  <1>2. N \in Nat /\ zero_in_KP \in Nat /\ shm.N \in Nat
    BY DEF Base, DriverTypes, ShmType
  <1>3. ASSUME phase \in LearntPhases, N' \in Nat, N <= N', zero_in_KP' = zero_in_KP,
               phase' \notin {"dry", "set up"}
        PROVE  Learnt'
    <2>1. ASSUME WellBuilt PROVE EnoughRows'
      <3>1. EnoughRows
        BY <1>3, <2>1 DEF Learnt
      <3>2. ProgramTypes /\ \A c \in WithKps : c \in Nat
        BY ChildNumbers DEF Base
      <3>3. ASSUME NEW c \in WithKps, c <= N + zero_in_KP PROVE c <= N' + zero_in_KP'
        <4>1. N' \in Nat /\ N <= N' /\ zero_in_KP' = zero_in_KP
          BY <1>3
        <4>2. c \in Nat
          BY <3>2, <3>3
        <4>3. c <= N' + zero_in_KP
          <5> DEFINE n == N'
          <5>1. N \in Nat /\ zero_in_KP \in Nat /\ n \in Nat /\ N <= n
            BY <1>2, <4>1
          <5> HIDE DEF n
          <5>2. c <= n + zero_in_KP
            BY <3>3, <4>2, <5>1
          <5> QED
            BY <5>2 DEF n
        <4> QED
          BY <4>1, <4>3
      <3>4. (\A c \in WithKps : c <= N + zero_in_KP) => \A c \in WithKps : c <= N' + zero_in_KP'
        BY <3>3
      <3> QED
        BY <1>1, <3>1, <3>4, Zenon DEF EnoughRows
    <2> QED
      BY <1>1, <1>3, <2>1 DEF Learnt
  <1>4. CASE DryRun
    <2>1. phase = "dry" /\ phase' = "set up" /\ mode' = "dry" /\ kpMaxNumArray' = kpMaxNumArray
      BY <1>4 DEF DryRun, TraceBegin, driver
    <2> QED
      BY <1>1, <2>1 DEF Learnt, LearntPhases
  <1>5. CASE SetUp
    <2>1. phase' \in {"failed", "default"}
      BY <1>5 DEF SetUp
    <2>2. WellBuilt /\ phase' = "default" => EnoughRows'
      BY <1>5, SetUpRows
    <2> QED
      BY <1>1, <2>1, <2>2 DEF Learnt, LearntPhases
  <1>6. CASE Learn
    <2>1. phase = "learn" /\ phase' \in {"failed", "test", "default"} /\ zero_in_KP' = zero_in_KP
      BY <1>6 DEF Learn
    <2>2. N' = Max({N, shm.N}) \/ N' = N
      BY <1>6 DEF Learn
    <2>3. N' \in Nat /\ N <= N'
      BY <1>2, <2>2, LessOf
    <2> QED
      BY <1>3, <2>1, <2>3 DEF LearntPhases
  <1>7. CASE DefaultRun \/ WriteTest \/ NothingToTest \/ StartTest \/ TestEnds
    <2>1. /\ phase \in {"default", "test", "start", "testing"} /\ phase' \notin {"dry", "set up"}
          /\ N' = N /\ zero_in_KP' = zero_in_KP
      BY <1>7 DEF DefaultRun, WriteTest, NothingToTest, StartTest, TestEnds, driver
    <2>2. phase \in LearntPhases
      BY <2>1 DEF LearntPhases
    <2>3. N' = N
      BY <2>1
    <2>4. N' \in Nat /\ N <= N'
      BY <1>2, <2>3
    <2> QED
      BY <1>3, <2>1, <2>2, <2>4
  <1> QED
    BY <1>4, <1>5, <1>6, <1>7 DEF Driver

LEMMA LearntElse ==
    ASSUME Base, Learnt, UNCHANGED vars \/ \E t \in Thread : Execute(t)
    PROVE  Learnt'
  <1>1. prog' = prog /\ phase' = phase /\ UNCHANGED driver
    <2>1. CASE UNCHANGED vars
      BY <2>1 DEF vars
    <2>2. ASSUME NEW t \in Thread, Execute(t) PROVE prog' = prog /\ phase' = phase /\ UNCHANGED driver
      BY <2>2 DEF Execute
    <2> QED
      BY <2>1, <2>2
  <1>2. mode \in {"dry", "returned"} => mode' \in {"dry", "returned"}
    <2>1. CASE UNCHANGED vars
      BY <2>1 DEF vars, process
    <2>2. ASSUME NEW t \in Thread, Execute(t), mode = "dry" PROVE mode' \in {"dry", "returned"}
      <3>1. ThreadStep(t) /\ ~Refused
        BY <2>2 DEF Execute, Refused
      <3> QED
        BY <2>2, <3>1 DEF ThreadStep, BeforePthreadCreate, PthreadCreate, Register, MainKeyPoint,
           KeyPoint, PthreadJoin, CallTraceEnd, Exit, MainReturns, End
    <2>3. ASSUME NEW t \in Thread, Execute(t) PROVE mode # "returned"
      BY <2>3, ExecuteRuns DEF Running
    <2> QED
      BY <2>1, <2>2, <2>3
  <1>3. WellBuilt' = WellBuilt /\ Children' = Children /\ WithKps' = WithKps
    BY <1>1, SameCounts
  <1>4. EnoughRows' <=> EnoughRows
    BY <1>1, <1>3 DEF EnoughRows, driver
  <1>5. NoCounts' = NoCounts /\ kpMaxNumArray' = kpMaxNumArray
    BY <1>1 DEF driver, NoCounts
  <1> QED
    BY <1>1, <1>2, <1>3, <1>4, <1>5 DEF Learnt

LEMMA LearntInvariant == Spec => []Learnt
  <1>1. Init => Learnt
    BY DEF Init, Learnt, LearntPhases
  <1>2. ASSUME Base, Counted, Learnt, [Next]_vars PROVE Learnt'
    BY <1>2, LearntDriver, LearntElse DEF Next
  <1> QED
    BY <1>1, <1>2, SessionInvariant, CountsInvariant, PTL DEF Spec

(* With up to five threads, and if the first of the counts are not all     *)
(* zeros, the driver has a row for every thread with KPs.                  *)
THEOREM RowsForThreads == Spec => []RowsForAll
  <1>1. Learnt => RowsForAll
    BY DEF Learnt, LearntPhases, EnoughRows, RowsForAll
  <1> QED
    BY <1>1, LearntInvariant, PTL

-----------------------------------------------------------------------------
(* Tests of a program in which all threads have KPs.                       *)
AllCount == WellBuilt /\ WithKps = Children
MostKps == Max({KpsOf(c) : c \in Children} \cup {0})
LearntRows == 0..(Cardinality(Creating) - 1)
Sizes ==
    /\ N = Cardinality(Creating) /\ zero_in_KP = 0 /\ M = MostKps
    /\ N <= ThreadNum /\ M * N <= ArraySize
    /\ \A r \in LearntRows : kpMaxNumArray[r] <= KpsOf(r + 1)
AllSizes ==
    (phase \in LearntPhases /\ AllCount) =>
        /\ Sizes
        /\ phase \notin {"default", "learn"} =>
              \A r \in LearntRows : kpMaxNumArray[r] = KpsOf(r + 1)

(* The greatest count is one of the counts. *)
LEMMA MostIs ==
    ASSUME ProgramTypes
    PROVE  MostKps \in Nat /\ \A c \in Children : KpsOf(c) \in 0..MostKps
  <1> DEFINE n == Cardinality(Creating)
             K == {KpsOf(c) : c \in Children} \cup {0}
             kps == [c \in 1..n |-> KpsOf(c)]
  <1>1. n \in Nat /\ Children = 1..n /\ \A c \in Children : KpsOf(c) \in Nat
    BY ChildNumbers, ChildCreated
  <1>2. MostKps = Max(K)
    BY DEF MostKps
  <1>3. \E b \in Nat : K \in SUBSET (0..b)
    <2>1. CASE n = 0
      <3>1. Children = {}
        BY <1>1, <2>1
      <3>2. K \in SUBSET (0..0)
        BY <3>1
      <3> HIDE DEF K
      <3> QED
        BY <3>2
    <2>2. CASE n # 0
      <3>1. kps \in [1..n -> Nat]
        BY <1>1
      <3> HIDE DEF kps, n
      <3>2. PICK i \in 1..n : \A j \in 1..n : kps[i] >= kps[j]
        BY <1>1, <2>2, <3>1, GreatestEntry
      <3>3. kps[i] \in Nat /\ \A c \in Children : KpsOf(c) \in 0..kps[i]
        BY <1>1, <3>1, <3>2 DEF kps
      <3> QED
        BY <3>3
    <2> QED
      BY <2>1, <2>2
  <1>4. PICK b \in Nat : K \in SUBSET (0..b)
    BY <1>3
  <1>5. 0 \in K /\ \A c \in Children : KpsOf(c) \in K
    OBVIOUS
  <1> HIDE DEF K
  <1>6. Max(K) \in K /\ \A x \in K : x <= Max(K)
    <2>1. K # {}
      BY <1>5
    <2> QED
      BY <1>4, <2>1, MaxOfSet
  <1>7. Max(K) \in Nat
    <2>1. Max(K) \in 0..b
      BY <1>4, <1>6, Zenon
    <2> HIDE DEF K
    <2> QED
      BY <2>1
  <1> QED
    BY <1>1, <1>2, <1>5, <1>6, <1>7

(* The rows of the counts that the driver has are those of the threads. *)
LEMMA LearntRowsAre ==
    ASSUME ProgramTypes, NEW r \in LearntRows
    PROVE  /\ r \in Nat /\ r + 1 \in Children /\ Right(r) = KpsOf(r + 1) /\ KpsOf(r + 1) \in Nat
           /\ Cardinality(Creating) <= ThreadNum => r \in Rows
           /\ WithKps = Children => KpsOf(r + 1) >= 1
  <1> DEFINE n == Cardinality(Creating)
  <1>1. n \in Nat /\ Children = 1..n /\ r \in 0..(n - 1)
    BY ChildNumbers DEF LearntRows
  <1> HIDE DEF n
  <1>2. r \in Nat /\ r + 1 \in Children
    BY <1>1
  <1>3. KpsOf(r + 1) \in Nat
    BY <1>2, ChildCreated
  <1>4. n <= ThreadNum => r \in Rows
    BY <1>1, SizeAssumption DEF Rows
  <1>5. WithKps = Children => KpsOf(r + 1) >= 1
    BY <1>2, <1>3 DEF WithKps
  <1> QED
    BY <1>2, <1>3, <1>4, <1>5 DEF Right, n

(* Nothing is left out of account, so no round adds a row. *)
LEMMA NoZeros ==
    ASSUME ProgramTypes, shm \in ShmType, AllCount, CountsRight
    PROVE  /\ shm.N = Cardinality(Creating) /\ shm.M = MostKps
           /\ shm.N <= ThreadNum => ZeroNum(shm.num, NoCounts, shm.N) = 0
  <1>1. shm.N = Cardinality(Creating) /\ shm.M = MostKps
    BY ChildNumbers DEF CountsRight, AllCount, MostKps
  <1> DEFINE n == Cardinality(Creating)
             Z == {r \in Rows : r < n /\ shm.num[r] = 0}
  <1>2. n \in Nat
    BY ChildNumbers
  <1>3. Z = {}
    <2> SUFFICES ASSUME NEW r \in Rows, r < n, shm.num[r] = 0 PROVE FALSE
      OBVIOUS
    <2> HIDE DEF n
    <2>1. r \in LearntRows
      BY <1>2 DEF Rows, LearntRows, n
    <2>2. Right(r) = KpsOf(r + 1) /\ KpsOf(r + 1) \in Nat /\ KpsOf(r + 1) >= 1
      BY <2>1, LearntRowsAre DEF AllCount
    <2>3. shm.num[r] = Right(r)
      BY DEF CountsRight
    <2> QED
      BY <2>2, <2>3
  <1>4. Zeros(shm.num, n) = 0
    BY <1>3, FS_EmptySet DEF Zeros
  <1> HIDE DEF Z, n
  <1>5. ZeroNum(shm.num, NoCounts, n) = 0
    <2> DEFINE Round(z) == Min({Zeros(shm.num, n + z), Zeros(NoCounts, n + z)})
    <2>1. n + 0 = n
      BY <1>2
    <2>2. Round(0) = 0
      <3>1. Zeros(NoCounts, n) \in Nat
        BY ZerosType
      <3> DEFINE a == Zeros(NoCounts, n)
      <3>2. Round(0) = Min({0, a})
        BY <1>4, <2>1
      <3> HIDE DEF a, Round
      <3>3. Min({0, a}) \in {0, a} /\ Min({0, a}) <= 0
        BY <3>1, LessOf DEF a
      <3>4. a \in Nat
        BY <3>1 DEF a
      <3> QED
        BY <3>2, <3>3, <3>4
    <2>3. ZeroNum(shm.num, NoCounts, n) = IF \A r \in Rows : r < n => shm.num[r] = 0 THEN 0
                                          ELSE Round(Round(Round(0)))
      BY DEF ZeroNum
    <2> HIDE DEF Round
    <2> QED
      BY <2>2, <2>3
  <1> QED
    BY <1>1, <1>5 DEF n

(* The driver's numbers are right behind the dry run, and no default run   *)
(* asks for more.                                                          *)
LEMMA SetUpSizes ==
    ASSUME Base, Counted, Learnt, SetUp, AllCount, phase' = "default"
    PROVE  Sizes'
  <1>1. /\ ProgramTypes /\ DriverTypes /\ shm \in ShmType /\ prog' = prog /\ WellBuilt /\ WithKps = Children
    BY DriverProcess DEF Base, DriverTypes, Driver, AllCount
  <1>2. /\ phase = "set up" /\ ~Running /\ kpMaxNumArray = NoCounts
        /\ N' = shm.N /\ M' = shm.M /\ zero_in_KP' = ZeroNum(shm.num, kpMaxNumArray, shm.N)
        /\ kpMaxNumArray' = Longer(shm.num, kpMaxNumArray, shm.N + ZeroNum(shm.num, kpMaxNumArray, shm.N))
        /\ ~(\/ shm.N + ZeroNum(shm.num, kpMaxNumArray, shm.N) > ThreadNum
             \/ shm.M * (shm.N + ZeroNum(shm.num, kpMaxNumArray, shm.N)) > DriverArraySize)
    <2>1. phase = "set up" /\ ~Running
      BY DEF SetUp
    <2>2. kpMaxNumArray = NoCounts
      BY <2>1 DEF Learnt
    <2>3. /\ N' = shm.N /\ M' = shm.M /\ zero_in_KP' = ZeroNum(shm.num, kpMaxNumArray, shm.N)
          /\ kpMaxNumArray' = Longer(shm.num, kpMaxNumArray, shm.N + ZeroNum(shm.num, kpMaxNumArray, shm.N))
          /\ ~(\/ shm.N + ZeroNum(shm.num, kpMaxNumArray, shm.N) > ThreadNum
               \/ shm.M * (shm.N + ZeroNum(shm.num, kpMaxNumArray, shm.N)) > DriverArraySize)
      <3>1. PICK z \in {ZeroNum(shm.num, kpMaxNumArray, shm.N)} :
              /\ zero_in_KP' = z
              /\ kpMaxNumArray' = Longer(shm.num, kpMaxNumArray, shm.N + z)
              /\ IF shm.N + z > ThreadNum \/ shm.M * (shm.N + z) > DriverArraySize
                 THEN phase' = "failed" /\ UNCHANGED shm
                 ELSE /\ phase' = "default"
                      /\ shm' = [shm EXCEPT !.time = IF @ < 1000 THEN @ * 10 ELSE @,
                                            !.kp = Written(ZeroPattern(shm.N, shm.N + z, shm.M), shm.M)]
        BY Zenon DEF SetUp
      <3>2. ~(shm.N + z > ThreadNum \/ shm.M * (shm.N + z) > DriverArraySize)
        BY <3>1
      <3>3. N' = shm.N /\ M' = shm.M
        BY DEF SetUp
      <3>4. z = ZeroNum(shm.num, kpMaxNumArray, shm.N)
        OBVIOUS
      <3> QED
        BY <3>1, <3>2, <3>3, <3>4
    <2> QED
      BY <2>1, <2>2, <2>3
  <1>3. CountsRight
    <2>1. mode = "returned"
      BY <1>2 DEF Learnt, Running
    <2> QED
      BY <1>1, <1>2, <2>1 DEF Counted, RowsExact, CountsRight, Right
  <1> DEFINE n == Cardinality(Creating)
             z == ZeroNum(shm.num, NoCounts, shm.N)
  <1>4. shm.N = n /\ shm.M = MostKps /\ n \in Nat /\ (shm.N <= ThreadNum => z = 0) /\ MostKps \in Nat
    BY <1>1, <1>3, NoZeros, MostIs, ChildNumbers
  <1>5. z \in Nat /\ ThreadNum \in Nat /\ DriverArraySize \in Nat /\ DriverArraySize <= ArraySize /\ ArraySize \in Nat
    BY ZeroNumType, SizeAssumption, SessionsAssumption
  <1>6. ~(shm.N + z > ThreadNum) /\ ~(shm.M * (shm.N + z) > DriverArraySize) /\ zero_in_KP' = z
        /\ kpMaxNumArray' = Longer(shm.num, NoCounts, shm.N + z)
    BY <1>2
  <1>7. Creating' = Creating /\ MostKps' = MostKps /\ \A r : KpsOf(r)' = KpsOf(r)
    BY <1>1, SameCounts DEF MostKps, KpsOf, Created, CreatedAt, Creating, Children
  <1>8. LearntRows' = LearntRows
    BY <1>7 DEF LearntRows
  <1> HIDE DEF z, n
  <1>9. z = 0 /\ n <= ThreadNum /\ n + 0 = n
    BY <1>4, <1>5, <1>6
  <1>10. MostKps * n <= ArraySize
    <2>1. ~(MostKps * n > DriverArraySize)
      BY <1>4, <1>6, <1>9
    <2> DEFINE x == MostKps * n
    <2>2. x \in Nat
      BY <1>4
    <2>3. ~(x > DriverArraySize)
      BY <2>1
    <2> HIDE DEF x
    <2>4. x <= ArraySize
      BY <1>5, <2>2, <2>3
    <2> QED
      BY <2>4 DEF x
  <1>11. ASSUME NEW r \in LearntRows PROVE kpMaxNumArray'[r] <= KpsOf(r + 1)
    <2>1. r \in Rows /\ Right(r) = KpsOf(r + 1) /\ KpsOf(r + 1) \in Nat
      BY <1>1, <1>9, LearntRowsAre DEF n
    <2>2. shm.num[r] = Right(r) /\ NoCounts[r] = 0
      BY <1>3, <2>1 DEF CountsRight, NoCounts
    <2>3. kpMaxNumArray'[r] \in {shm.num[r], NoCounts[r]}
      BY <1>6, <2>1 DEF Longer
    <2> QED
      BY <2>1, <2>2, <2>3
  <1> QED
    BY <1>2, <1>4, <1>6, <1>7, <1>8, <1>9, <1>10, <1>11 DEF Sizes, n

(* A default run reports what the dry run did, and so changes nothing. *)
LEMMA LearnSizes ==
    ASSUME Base, Counted, Learn, AllCount, Sizes
    PROVE  /\ Sizes'
           /\ phase' = "test" => \A r \in LearntRows : kpMaxNumArray'[r] = KpsOf(r + 1)
  <1>1. /\ ProgramTypes /\ DriverTypes /\ shm \in ShmType /\ prog' = prog /\ WellBuilt /\ WithKps = Children
        /\ Closed(prog)
    BY DriverProcess DEF Base, DriverTypes, Driver, AllCount, WellBuilt, WellBehaved
  <1> DEFINE n == Cardinality(Creating)
  <1>2. N = n /\ zero_in_KP = 0 /\ M = MostKps /\ n \in Nat /\ MostKps \in Nat /\ N <= ThreadNum /\ N + zero_in_KP = n
    BY <1>1, MostIs, ChildNumbers DEF Sizes
  <1>3. Creating' = Creating /\ MostKps' = MostKps /\ \A r : KpsOf(r)' = KpsOf(r)
    BY <1>1, SameCounts DEF MostKps, KpsOf, Created, CreatedAt, Creating, Children
  <1>4. LearntRows' = LearntRows
    BY <1>3 DEF LearntRows
  <1>5. phase = "learn" /\ ~Running
    BY DEF Learn
  <1>6. ASSUME mode = "returned" PROVE CountsRight /\ shm.N = N /\ shm.M = M
    <2>1. CountsRight
      BY <1>1, <1>5, <1>6 DEF Counted, RowsExact, CountsRight, Right
    <2> QED
      BY <1>1, <1>2, <2>1, NoZeros
  <1>7. ~(mode = "returned" /\ (shm.N > N \/ shm.M > M))
    BY <1>2, <1>6
  <1>8. N' = N /\ M' = M /\ zero_in_KP' = 0
    BY <1>7, <1>2 DEF Learn
  <1>9. phase' = "test" => mode = "returned"
    BY DEF Learn
  <1>10. ASSUME NEW r \in LearntRows
        PROVE  /\ kpMaxNumArray'[r] <= KpsOf(r + 1)
               /\ phase' = "test" => kpMaxNumArray'[r] = KpsOf(r + 1)
    <2>1. r \in Rows /\ Right(r) = KpsOf(r + 1) /\ KpsOf(r + 1) \in Nat /\ r \in Nat /\ r < n
      BY <1>1, <1>2, LearntRowsAre DEF LearntRows
    <2>2. kpMaxNumArray[r] <= KpsOf(r + 1) /\ shm.num[r] <= KpsOf(r + 1)
      BY <1>1, <2>1 DEF Sizes, Counted, NoneTooGreat
    <2>3. kpMaxNumArray[r] \in Nat /\ shm.num[r] \in Nat
      BY <1>1, <2>1 DEF DriverTypes, ShmType
    <2>4. kpMaxNumArray'[r] = IF returnNormal = 0 /\ r < n /\ shm.num[r] >= 1 THEN shm.num[r]
                              ELSE Longer(shm.num, kpMaxNumArray, n)[r]
      BY <1>7, <1>2, <2>1 DEF Learn
    <2>5. Longer(shm.num, kpMaxNumArray, n)[r] = IF r < n /\ shm.num[r] > kpMaxNumArray[r] THEN shm.num[r]
                                                 ELSE kpMaxNumArray[r]
      BY <2>1 DEF Longer
    <2>6. phase' = "test" => shm.num[r] = KpsOf(r + 1)
      BY <1>6, <1>9, <2>1 DEF CountsRight
    <2> HIDE DEF n
    <2> QED
      BY <2>1, <2>2, <2>3, <2>4, <2>5, <2>6
  <1> QED
    BY <1>2, <1>3, <1>4, <1>8, <1>10 DEF Sizes

LEMMA SizesStay ==
    ASSUME Sizes, prog' = prog, UNCHANGED <<N, M, zero_in_KP, kpMaxNumArray>>
    PROVE  Sizes'
  <1>1. Creating' = Creating /\ MostKps' = MostKps /\ \A r : KpsOf(r)' = KpsOf(r)
    BY SameCounts DEF MostKps, KpsOf, Created, CreatedAt, Creating, Children
  <1>2. LearntRows' = LearntRows
    BY <1>1 DEF LearntRows
  <1> QED
    BY <1>1, <1>2 DEF Sizes

LEMMA AllSizesStep ==
    ASSUME Base, Counted, Learnt, AllSizes, [Next]_vars
    PROVE  AllSizes'
  <1>1. prog' = prog
    <2>1. ASSUME NEW t \in Thread, Execute(t) PROVE prog' = prog
      BY <2>1, ExecuteRuns DEF SameProgram
    <2> QED
      BY <2>1, DriverProcess DEF Next
  <1>2. AllCount' = AllCount /\ \A r : KpsOf(r)' = KpsOf(r)
    BY <1>1, SameCounts DEF AllCount, KpsOf, Created, CreatedAt, Creating, Children
  <1>3. LearntRows' = LearntRows
    BY <1>1, SameCounts DEF LearntRows
  <1>4. SUFFICES ASSUME AllCount, phase' \in LearntPhases
                 PROVE  /\ Sizes'
                        /\ phase' \notin {"default", "learn"} =>
                              \A r \in LearntRows : kpMaxNumArray'[r] = KpsOf(r + 1)
    BY <1>2, <1>3 DEF AllSizes, LearntPhases
  <1>5. phase \in LearntPhases =>
           /\ Sizes
           /\ phase \notin {"default", "learn"} => \A r \in LearntRows : kpMaxNumArray[r] = KpsOf(r + 1)
    BY <1>4 DEF AllSizes
  <1>6. ASSUME UNCHANGED <<N, M, zero_in_KP, kpMaxNumArray>>, phase \in LearntPhases,
               phase' \notin {"default", "learn"} => phase \notin {"default", "learn"}
        PROVE  /\ Sizes'
               /\ phase' \notin {"default", "learn"} =>
                     \A r \in LearntRows : kpMaxNumArray'[r] = KpsOf(r + 1)
    BY <1>1, <1>5, <1>6, SizesStay
  <1>7. CASE SetUp
    <2>1. phase' = "default"
      BY <1>4, <1>7 DEF SetUp, LearntPhases
    <2> QED
      BY <1>4, <1>7, <2>1, SetUpSizes
  <1>8. CASE Learn
    <2>1. phase = "learn" /\ phase' \in {"default", "test", "failed"}
      BY <1>8 DEF Learn
    <2>2. phase' \in {"default", "test"} /\ phase \in LearntPhases
      BY <1>4, <2>1 DEF LearntPhases
    <2> QED
      BY <1>4, <1>5, <1>8, <2>2, LearnSizes
  <1>9. CASE DefaultRun \/ WriteTest \/ StartTest \/ TestEnds
    <2>1. UNCHANGED <<N, M, zero_in_KP, kpMaxNumArray>>
      BY <1>9 DEF DefaultRun, WriteTest, StartTest, TestEnds, driver
    <2>2. /\ phase \in {"default", "test", "start", "testing"}
          /\ phase' \notin {"default", "learn"} => phase \notin {"default", "learn"}
      BY <1>9 DEF DefaultRun, WriteTest, StartTest, TestEnds
    <2> QED
      BY <1>6, <2>1, <2>2 DEF LearntPhases
  <1>10. ~DryRun /\ ~NothingToTest
    BY <1>4 DEF DryRun, NothingToTest, LearntPhases
  <1>11. CASE UNCHANGED vars \/ \E t \in Thread : Execute(t)
    <2>1. UNCHANGED <<phase, driver>>
      BY <1>11 DEF vars, Execute
    <2> QED
      BY <1>4, <1>6, <2>1 DEF driver
  <1> QED
    BY <1>7, <1>8, <1>9, <1>10, <1>11 DEF Next, Driver

LEMMA AllSizesInvariant == Spec => []AllSizes
  <1>1. Init => AllSizes
    BY DEF Init, AllSizes, LearntPhases
  <1> QED
    BY <1>1, AllSizesStep, SessionInvariant, CountsInvariant, LearntInvariant, PTL DEF Spec

-----------------------------------------------------------------------------
(* Rows one behind the other: where the k-th KP of the c-th child is. *)
SlotAt(c, m, k) == (c - 1) * m + (k - 1)

LEMMA SlotFacts ==
    ASSUME NEW n \in Nat, NEW m \in Nat, NEW c \in 1..n, NEW k \in 1..m
    PROVE  /\ SlotAt(c, m, k) \in Nat /\ SlotAt(c, m, k) < n * m
           /\ (SlotAt(c, m, k) \div m) + 1 = c /\ (SlotAt(c, m, k) % m) + 1 = k
  <1> DEFINE a == c - 1
             b == k - 1
  <1>1. a \in Nat /\ b \in Nat /\ b < m /\ a + 1 <= n /\ a + 1 = c /\ b + 1 = k /\ m > 0
    OBVIOUS
  <1> HIDE DEF a, b
  <1>2. a * m + b \in Nat
    BY <1>1
  <1>3. a * m + b < (a + 1) * m
    BY <1>1
  <1>4. (a + 1) * m <= n * m
    BY <1>1
  <1>5. (a * m + b) \div m = a /\ (a * m + b) % m = b
    BY <1>1
  <1>6. a * m + b < n * m
    BY <1>1, <1>2, <1>3, <1>4
  <1>7. SlotAt(c, m, k) = a * m + b
    BY DEF SlotAt, a, b
  <1> QED
    BY <1>1, <1>2, <1>5, <1>6, <1>7

(* The yields in front of the k-th KP of the c-th child, and the schedule  *)
(* as it comes from the file into shared memory.                           *)
Plan(c, k) == YieldPattern(sched.kps, sched.periods)[c - 1][k]
Planned ==
    /\ sched.kps = [r \in LearntRows |-> KpsOf(r + 1)]
    /\ sched.periods \in Mixed(sched.kps, iterPeriod)
Ready ==
    /\ Planned
    /\ shm.N = N /\ shm.M = M
    /\ \A c \in Children : \A k \in 1..KpsOf(c) : shm.kp[SlotAt(c, M, k)] = Plan(c, k)

(* A thread has burnt what was planned, and is in its row; what others     *)
(* have before them is as it was written.                                  *)
InRow(t) ==
    LET th == threads[t]
    IN  /\ Len(th.yields) = th.kps
        /\ \A k \in 1..th.kps : th.yields[k] = Plan(t - 1, k)
        /\ th.at > 1 => /\ th.orig = SlotAt(t - 1, M, 1)
                        /\ th.idx = SlotAt(t - 1, M, th.kps + 1)
Unspent ==
    \A c \in Children : \A k \in 1..KpsOf(c) :
        (c + 1 \in Thread => k > threads[c + 1].kps) => kpYield[SlotAt(c, M, k)] = Plan(c, k)
Following ==
    /\ mode = "dbds" /\ num_kp = M
    /\ Len(threads[Main].yields) = 0
    /\ \A t \in Thread \ {Main} : InRow(t)
    /\ Unspent
Scheduled ==
    /\ (phase = "start" /\ AllCount) => Ready
    /\ (phase = "testing" /\ AllCount) => Planned /\ (Running => Following)

(* The schedule has the KPs of every thread, and the plan consists of numbers. *)
LEMMA PlanType ==
    ASSUME ProgramTypes, WithKps = Children, Planned, NEW c \in Children
    PROVE  /\ c - 1 \in LearntRows /\ sched.kps[c - 1] = KpsOf(c) /\ DOMAIN sched.kps = LearntRows
           /\ \A r \in LearntRows : sched.kps[r] \in Nat
           /\ DOMAIN sched.periods = 1..iterPeriod /\ iterPeriod \in Nat \ {0}
           /\ \A j \in 1..iterPeriod : sched.periods[j][c - 1] \in Nat
           /\ Upto(sched.periods, c - 1, iterPeriod) = KpsOf(c)
           /\ \A k \in 1..KpsOf(c) : Plan(c, k) \in Nat
  <1> DEFINE n == Cardinality(Creating)
  <1>1. n \in Nat /\ Children = 1..n /\ c \in 1..n /\ LearntRows = 0..(n - 1)
    BY ChildNumbers DEF LearntRows
  <1> HIDE DEF n
  <1>2. c \in Nat /\ c - 1 \in LearntRows /\ (c - 1) + 1 = c
    BY <1>1
  <1>3. sched.kps = [r \in LearntRows |-> KpsOf(r + 1)] /\ sched.periods \in Mixed(sched.kps, iterPeriod)
    BY DEF Planned
  <1>4. DOMAIN sched.kps = LearntRows /\ \A r \in LearntRows : sched.kps[r] = KpsOf(r + 1)
    BY <1>3
  <1>5. \A r \in LearntRows : sched.kps[r] \in Nat
    BY <1>4, LearntRowsAre
  <1>6. sched.kps[c - 1] = KpsOf(c)
    BY <1>2, <1>4
  <1>7. iterPeriod \in Nat \ {0}
    BY ProgramFacts
  <1>8. /\ DOMAIN sched.periods = 1..iterPeriod
        /\ \A r \in LearntRows : /\ \A j \in 1..iterPeriod : sched.periods[j][r] \in Nat
                                  /\ Upto(sched.periods, r, iterPeriod) = sched.kps[r]
    BY <1>3, <1>4, <1>5, <1>7, MixedRunsAll
  <1>9. ASSUME NEW k \in 1..KpsOf(c) PROVE Plan(c, k) \in Nat
    <2> DEFINE D == DOMAIN sched.periods
    <2>1. Plan(c, k) = Cardinality({j \in D : Upto(sched.periods, c - 1, j) = k - 1})
      BY <1>2, <1>4, <1>6 DEF Plan, YieldPattern
    <2>2. IsFiniteSet(D)
      <3>1. 1 \in Int /\ iterPeriod \in Int
        BY <1>7
      <3> QED
        BY <1>8, <3>1, FS_Interval, Zenon
    <2> HIDE DEF D
    <2>3. IsFiniteSet({j \in D : Upto(sched.periods, c - 1, j) = k - 1})
      BY <2>2, FS_Subset
    <2> QED
      BY <2>1, <2>3, FS_CardinalityType
  <1> QED
    BY <1>2, <1>4, <1>5, <1>6, <1>7, <1>8, <1>9

(* From the file to shared memory. *)
LEMMA WriteReady ==
    ASSUME Base, AllSizes, AllCount, WriteTest
    PROVE  Ready'
  <1>1. /\ ProgramTypes /\ DriverTypes /\ shm \in ShmType /\ prog' = prog /\ WellBuilt /\ WithKps = Children
    BY DriverProcess DEF Base, DriverTypes, Driver, AllCount
  <1>2. phase = "test" /\ UNCHANGED <<iterPeriod, N, M>>
    BY DEF WriteTest
  <1>3. Sizes /\ \A r \in LearntRows : kpMaxNumArray[r] = KpsOf(r + 1)
    BY <1>2 DEF AllSizes, LearntPhases
  <1> DEFINE n == Cardinality(Creating)
             kps == [t \in 0..(N + zero_in_KP - 1) |-> kpMaxNumArray[t]]
  <1>4. N = n /\ zero_in_KP = 0 /\ M = MostKps /\ n \in Nat /\ MostKps \in Nat /\ N + zero_in_KP - 1 = n - 1
        /\ M * N <= ArraySize /\ Children = 1..n
    BY <1>1, <1>3, MostIs, ChildNumbers DEF Sizes
  <1>5. kps = [r \in LearntRows |-> KpsOf(r + 1)]
    BY <1>3, <1>4 DEF LearntRows
  <1> DEFINE pattern(s) == Filled(kps, YieldPattern(kps, s), M)
  <1>6. PICK s \in Mixed(kps, iterPeriod) :
                /\ sched' = [kps |-> kps, periods |-> s]
                /\ shm' = WriteConfig(pattern(s))
    BY DEF WriteTest
  <1>7. Creating' = Creating /\ Children' = Children /\ \A r : KpsOf(r)' = KpsOf(r)
    BY <1>1, SameCounts DEF KpsOf, Created, CreatedAt, Creating, Children
  <1>8. LearntRows' = LearntRows
    BY <1>7 DEF LearntRows
  <1>9. sched'.kps = kps /\ sched'.periods = s
    BY <1>6
  <1> HIDE DEF kps, pattern
  <1>10. Planned'
    BY <1>2, <1>5, <1>6, <1>7, <1>8, <1>9 DEF Planned
  <1>11. /\ shm'.N = N /\ shm'.M = M
         /\ \A x \in Slots : shm'.kp[x] = IF x < Len(pattern(s)) * M THEN pattern(s)[(x \div M) + 1][(x % M) + 1]
                                          ELSE shm.kp[x]
    BY <1>1, <1>6 DEF WriteConfig, Written, ShmType
  <1>12. DOMAIN kps = LearntRows /\ Cardinality(DOMAIN kps) = n
    <2> DEFINE m == Cardinality(Creating)
    <2>1. m \in Nat
      BY <1>4
    <2>2. LearntRows = 0..(m - 1)
      BY DEF LearntRows
    <2> HIDE DEF m
    <2>3. 0 \in Int /\ m - 1 \in Int
      BY <2>1
    <2>4. Cardinality(0..(m - 1)) = IF 0 > m - 1 THEN 0 ELSE (m - 1) - 0 + 1
      BY <2>3, FS_Interval, Zenon
    <2>5. Cardinality(LearntRows) = m
      BY <2>1, <2>2, <2>4
    <2>6. DOMAIN kps = LearntRows
      BY <1>5
    <2> QED
      BY <2>5, <2>6 DEF m
  <1> HIDE DEF n
  <1>13. pattern(s) = [r \in 1..n |-> [k \in 1..M |-> IF k <= kps[r - 1] THEN YieldPattern(kps, s)[r - 1][k] ELSE 0]]
    BY <1>12 DEF pattern, Filled
  <1>14. Len(pattern(s)) = n
    BY <1>4, <1>13
  <1>15. ASSUME NEW c \in Children, NEW k \in 1..KpsOf(c)
         PROVE  shm'.kp[SlotAt(c, M, k)] = YieldPattern(kps, s)[c - 1][k]
    <2>1. KpsOf(c) \in 0..M
      BY <1>1, <1>4, MostIs
    <2>2. k \in 1..M /\ c \in 1..n /\ M \in Nat
      BY <1>4, <2>1
    <2> DEFINE x == SlotAt(c, M, k)
    <2>3. x \in Nat /\ x < n * M /\ (x \div M) + 1 = c /\ (x % M) + 1 = k
      BY <1>4, <2>2, SlotFacts
    <2> HIDE DEF x
    <2>4. x \in Slots
      <3>1. n * M <= ArraySize /\ n * M \in Nat /\ ArraySize \in Nat
        BY <1>4, SizeAssumption
      <3> QED
        BY <2>3, <3>1 DEF Slots
    <2>5. shm'.kp[x] = pattern(s)[c][k]
      BY <1>11, <1>14, <2>3, <2>4
    <2>6. c - 1 \in LearntRows /\ (c - 1) + 1 = c
      BY <1>4, <2>2 DEF LearntRows, n
    <2>7. kps[c - 1] = KpsOf(c) /\ k <= kps[c - 1]
      BY <1>5, <2>1, <2>6
    <2>8. pattern(s)[c][k] = IF k <= kps[c - 1] THEN YieldPattern(kps, s)[c - 1][k] ELSE 0
      BY <1>13, <2>2
    <2> QED
      BY <2>5, <2>7, <2>8 DEF x
  <1>16. \A c \in Children : \A k \in 1..KpsOf(c) : shm'.kp[SlotAt(c, M, k)] = Plan(c, k)'
    BY <1>9, <1>15 DEF Plan
  <1> QED
    BY <1>2, <1>7, <1>10, <1>11, <1>16 DEF Ready

LEMMA SamePlans ==
    ASSUME prog' = prog, UNCHANGED <<sched, iterPeriod>>
    PROVE  /\ Planned' = Planned /\ \A c, k : Plan(c, k)' = Plan(c, k)
           /\ Children' = Children /\ \A r : KpsOf(r)' = KpsOf(r) /\ AllCount' = AllCount
  <1>1. Children' = Children /\ Creating' = Creating /\ (\A r : KpsOf(r)' = KpsOf(r)) /\ AllCount' = AllCount
    BY SameCounts DEF KpsOf, Created, CreatedAt, Creating, Children, AllCount
  <1>2. LearntRows' = LearntRows
    BY <1>1 DEF LearntRows
  <1> QED
    BY <1>1, <1>2 DEF Planned, Plan

(* A KP has a slot, and no other KP has it. *)
LEMMA SlotsAre ==
    ASSUME ProgramTypes, Sizes, NEW c \in Children, NEW k \in 1..KpsOf(c)
    PROVE  /\ SlotAt(c, M, k) \in Slots /\ SlotAt(c, M, k) < N * M
           /\ k <= M /\ M \in Nat /\ k \in Nat \ {0}
           /\ \A d \in Children : \A l \in 1..KpsOf(d) :
                 SlotAt(c, M, k) = SlotAt(d, M, l) => c = d /\ k = l
  <1> DEFINE n == Cardinality(Creating)
  <1>1. /\ n \in Nat /\ Children = 1..n /\ M \in Nat /\ M * n <= ArraySize /\ N = n
        /\ \A d \in Children : KpsOf(d) \in 0..M
    BY ChildNumbers, MostIs DEF Sizes
  <1> HIDE DEF n
  <1>2. \A d \in Children : \A l \in 1..KpsOf(d) : d \in 1..n /\ l \in 1..M
    BY <1>1
  <1>3. k \in 1..M /\ c \in 1..n
    BY <1>2
  <1> DEFINE x == SlotAt(c, M, k)
  <1>4. x \in Nat /\ x < n * M
    BY <1>1, <1>3, SlotFacts
  <1>5. \A d \in Children : \A l \in 1..KpsOf(d) : x = SlotAt(d, M, l) => c = d /\ k = l
    <2> TAKE d \in Children
    <2> TAKE l \in 1..KpsOf(d)
    <2> HAVE x = SlotAt(d, M, l)
    <2>1. d \in 1..n /\ l \in 1..M
      BY <1>2
    <2> DEFINE y == SlotAt(d, M, l)
    <2>2. (x \div M) + 1 = c /\ (x % M) + 1 = k
      BY <1>1, <1>3, SlotFacts
    <2>3. (y \div M) + 1 = d /\ (y % M) + 1 = l
      BY <1>1, <2>1, SlotFacts
    <2>4. x = y
      OBVIOUS
    <2> HIDE DEF x, y
    <2> QED
      BY <2>2, <2>3, <2>4, Zenon
  <1> HIDE DEF x
  <1>6. x \in Slots
    <2>1. n * M <= ArraySize /\ n * M \in Nat /\ ArraySize \in Nat
      BY <1>1, SizeAssumption
    <2> QED
      BY <1>4, <2>1 DEF Slots
  <1> QED
    BY <1>1, <1>3, <1>4, <1>5, <1>6 DEF x

(* From shared memory to the runtime. *)
LEMMA StartFollows ==
    ASSUME Base, AllSizes, AllCount, Ready, StartTest
    PROVE  Planned' /\ Following'
  <1>1. /\ ProgramTypes /\ prog' = prog /\ iterPeriod' = iterPeriod /\ phase = "start"
        /\ UNCHANGED <<sched, M>>
    BY DriverProcess DEF Base, Driver, StartTest, driver
  <1>2. Sizes /\ M \in Nat /\ N \in Nat
    BY <1>1 DEF AllSizes, LearntPhases, Base, DriverTypes
  <1>3. Planned' = Planned /\ (\A c, k : Plan(c, k)' = Plan(c, k)) /\ Children' = Children /\ \A r : KpsOf(r)' = KpsOf(r)
    BY <1>1, SamePlans
  <1>4. /\ mode' = "dbds" /\ num_kp' = shm.M /\ threads' = <<NewThread("main")>>
        /\ kpYield' = [s \in Slots |-> IF s < shm.N * shm.M THEN shm.kp[s] ELSE 0]
    BY DEF StartTest, TraceBegin
  <1>5. Thread' = {Main} /\ Len(threads'[Main].yields) = 0
    <2>1. threads' = <<NewThread("main")>> /\ Thread' = {1} /\ threads'[1] = NewThread("main")
      BY <1>4 DEF Thread
    <2>2. NewThread("main").yields = <<>>
      BY DEF NewThread
    <2> QED
      BY <2>1, <2>2 DEF Main
  <1>6. ASSUME NEW c \in Children, NEW k \in 1..KpsOf(c) PROVE kpYield'[SlotAt(c, M, k)] = Plan(c, k)
    <2> DEFINE x == SlotAt(c, M, k)
    <2>1. x \in Slots /\ x < N * M
      BY <1>1, <1>2, SlotsAre
    <2>2. shm.N = N /\ shm.M = M /\ shm.kp[x] = Plan(c, k)
      BY DEF Ready
    <2> HIDE DEF x
    <2>3. kpYield'[x] = shm.kp[x]
      BY <1>4, <2>1, <2>2
    <2> QED
      BY <2>2, <2>3 DEF x
  <1>7. Unspent'
    BY <1>1, <1>3, <1>6 DEF Unspent
  <1> QED
    BY <1>1, <1>3, <1>4, <1>5, <1>7 DEF Following, Ready

-----------------------------------------------------------------------------
(* Steps of the test. *)
InPlace(t) == /\ threads'[t].yields = threads[t].yields
              /\ threads'[t].orig = threads[t].orig /\ threads'[t].idx = threads[t].idx

(* Most calls leave the thread's index and yields alone. *)
LEMMA StaysInPlace ==
    ASSUME threads \in Seq(ThreadType), NEW t \in Thread,
           \/ threads' = Go(t)
           \/ threads' = [Go(t) EXCEPT ![t].kps = @ + 1]
           \/ threads' = Append(Go(t), NewThread(About(t)))
    PROVE  InPlace(t)
  <1> DEFINE r == [threads[t] EXCEPT !.at = @ + 1]
             k == [threads[t] EXCEPT !.at = @ + 1, !.kps = @ + 1]
             g == [threads EXCEPT ![t] = r]
  <1>1. threads[t] \in ThreadType /\ t \in 1..Len(threads) /\ Len(threads) \in Nat
    BY DEF Thread
  <1>2. Go(t) = g
    BY DEF Go
  <1>3. r.yields = threads[t].yields /\ r.orig = threads[t].orig /\ r.idx = threads[t].idx
    BY <1>1 DEF ThreadType
  <1>4. k.yields = threads[t].yields /\ k.orig = threads[t].orig /\ k.idx = threads[t].idx
    BY <1>1 DEF ThreadType
  <1>5. CASE threads' = Go(t)
    <2> HIDE DEF r
    <2>1. threads'[t] = r
      BY <1>1, <1>2, <1>5
    <2> QED
      BY <1>3, <2>1 DEF InPlace
  <1>6. CASE threads' = [Go(t) EXCEPT ![t].kps = @ + 1]
    <2>1. threads' = [threads EXCEPT ![t] = k]
      <3>1. threads \in Seq(ThreadType) /\ t \in DOMAIN threads
        BY DEF Thread
      <3> QED
        BY ONLY <1>6, <3>1 DEF Go
    <2> HIDE DEF k
    <2>2. threads'[t] = k
      BY <1>1, <2>1
    <2> QED
      BY <1>4, <2>2 DEF InPlace
  <1>7. CASE threads' = Append(Go(t), NewThread(About(t)))
    <2> HIDE DEF r
    <2> DEFINE new == NewThread(About(t))
    <2>1. g[t] = r /\ Len(g) = Len(threads) /\ DOMAIN g = 1..Len(threads)
      BY <1>1
    <2> HIDE DEF g, new
    <2>2. Append(g, new)[t] = g[t]
      BY <1>1, <2>1
    <2>3. threads'[t] = r
      BY <1>2, <1>7, <2>1, <2>2 DEF new
    <2> QED
      BY <1>3, <2>3 DEF InPlace
  <1> QED
    BY <1>5, <1>6, <1>7

(* A call that has nothing to do with the schedule. *)
LEMMA FollowsOn ==
    ASSUME Base, Running, Following, SameProgram, UNCHANGED <<sched, M>>, NEW t \in Thread,
           Moves(t) \/ Grows(t), InPlace(t),
           t # Main => Op(t) \notin {"instr_PthreadCall", "instr_LOC_string"}, Closed(prog),
           UNCHANGED <<mode, loaded, kpYield>>
    PROVE  Following'
  <1>1. /\ ProgramTypes /\ ProcessTypes /\ Team /\ prog' = prog /\ iterPeriod' = iterPeriod
        /\ Thread = 1..Len(threads) /\ Len(threads) \in Nat /\ Main \in Thread /\ Main = 1
        /\ \A u \in Thread : threads[u] \in ThreadType
    BY TeamSize DEF Base, SameProgram, Main
  <1>2. (\A c, k : Plan(c, k)' = Plan(c, k)) /\ Children' = Children /\ \A r : KpsOf(r)' = KpsOf(r)
    BY <1>1, SamePlans
  <1>3. /\ \A u \in Thread \ {t} : threads'[u] = threads[u]
        /\ threads'[t].at = threads[t].at + 1 /\ ~Ended(t)
        /\ threads'[t].yields = threads[t].yields
        /\ threads'[t].orig = threads[t].orig /\ threads'[t].idx = threads[t].idx
    BY DEF Moves, Grows, InPlace
  <1>4. t # Main => threads'[t].kps = threads[t].kps /\ threads[t].at > 1
    <2> HAVE t # Main
    <2>1. Op(t) \notin {"instr_LOC_string", "instr_PthreadCall"}
      OBVIOUS
    <2>2. Op(t) # "instr_LOC"
      <3>1. CodeOf(threads[t].fn) /\ threads[t].at \in 1..Len(code[threads[t].fn]) /\ threads[t].fn # "main"
        BY <1>1, <1>3, ThreadAt
      <3> QED
        BY <3>1 DEF CodeOf, Op
    <2>3. threads'[t].kps = threads[t].kps
      BY <2>1, <2>2 DEF Moves, Grows
    <2>4. threads[t].at # 1
      BY <1>1, <2>1, RegistersFirst DEF Op
    <2>5. threads[t].at \in Nat \ {0}
      BY <1>1 DEF ThreadType
    <2> QED
      BY <2>3, <2>4, <2>5
  <1>5. \/ Thread' = Thread
        \/ /\ Thread' = Thread \cup {Len(threads) + 1} /\ Len(threads) + 1 \notin Thread
           /\ threads'[Len(threads) + 1] = NewThread(About(t))
    <2>1. /\ threads' \in Seq(ThreadType)
          /\ Len(threads') \in {Len(threads), Len(threads) + 1}
          /\ Len(threads') = Len(threads) + 1 => threads'[Len(threads) + 1] = NewThread(About(t))
      BY <1>1 DEF Moves, Grows
    <2>2. Thread' = 1..Len(threads')
      BY <2>1 DEF Thread
    <2> DEFINE n == Len(threads)
    <2>3. n \in Nat
      BY <1>1
    <2> HIDE DEF n
    <2>4. 1..(n + 1) = (1..n) \cup {n + 1} /\ n + 1 \notin 1..n
      BY <2>3
    <2>5. CASE Len(threads') = n
      BY <1>1, <2>2, <2>5 DEF n
    <2>6. CASE Len(threads') = n + 1
      <3>1. threads'[n + 1] = NewThread(About(t))
        BY <2>1, <2>6, Zenon DEF n
      <3>2. Thread' = 1..(n + 1)
        BY <2>2, <2>6, Zenon
      <3>3. Thread = 1..n
        BY <1>1, Zenon DEF n
      <3> QED
        BY <2>4, <3>1, <3>2, <3>3, Zenon DEF n
    <2>7. Len(threads') \in {n, n + 1}
      BY <2>1, Zenon DEF n
    <2> QED
      BY <2>5, <2>6, <2>7, Zenon
  <1>6. ASSUME NEW u \in Thread \ {Main} PROVE InRow(u)'
    <2>1. InRow(u)
      BY DEF Following
    <2>2. CASE u = t
      BY <1>2, <1>3, <1>4, <2>1, <2>2 DEF InRow
    <2>3. CASE u # t
      BY <1>2, <1>3, <2>1, <2>3 DEF InRow
    <2> QED
      BY <2>2, <2>3
  <1>7. ASSUME NEW u \in Thread' \ {Main}, u \notin Thread PROVE InRow(u)'
    <2>1. threads'[u] = NewThread(About(t))
      BY <1>5, <1>7
    <2>2. threads'[u].yields = <<>> /\ threads'[u].kps = 0 /\ threads'[u].at = 1
      BY <2>1 DEF NewThread
    <2> QED
      BY <2>2 DEF InRow
  <1>8. Len(threads'[Main].yields) = 0
    <2>1. threads'[Main].yields = threads[Main].yields
      BY <1>1, <1>3
    <2> QED
      BY <2>1 DEF Following
  <1>9. Unspent'
    <2> SUFFICES ASSUME NEW c \in Children, NEW k \in 1..KpsOf(c), c + 1 \in Thread' => k > threads'[c + 1].kps
                 PROVE  kpYield[SlotAt(c, M, k)] = Plan(c, k)
      BY <1>2 DEF Unspent
    <2>1. ASSUME c + 1 \in Thread PROVE k > threads[c + 1].kps
      <3>1. c + 1 # Main
        BY <1>1, ChildCreated
      <3>2. threads'[c + 1].kps = threads[c + 1].kps
        BY <1>3, <1>4, <2>1, <3>1
      <3>3. c + 1 \in Thread'
        BY <1>5, <2>1
      <3> QED
        BY <3>2, <3>3
    <2> QED
      BY <2>1 DEF Following, Unspent
  <1> QED
    BY <1>6, <1>7, <1>8, <1>9 DEF Following, loaded

(* A registration gives the thread the row of its number. *)
LEMMA RegisterFollows ==
    ASSUME Base, Numbering, Running, Following, Sizes, SameProgram, UNCHANGED <<sched, M>>, Closed(prog),
           NEW t \in Thread, Register(t), ~Refused
    PROVE  Following'
  <1>1. /\ ProgramTypes /\ ProcessTypes /\ Team /\ prog' = prog /\ iterPeriod' = iterPeriod
        /\ Thread = 1..Len(threads) /\ Len(threads) \in Nat /\ Main \in Thread /\ Main = 1
        /\ \A u \in Thread : threads[u] \in ThreadType
    BY TeamSize DEF Base, SameProgram, Main
  <1>2. (\A c, k : Plan(c, k)' = Plan(c, k)) /\ Children' = Children /\ \A r : KpsOf(r)' = KpsOf(r)
    BY <1>1, SamePlans
  <1>3. /\ Moves(t) /\ Op(t) = "instr_PthreadCall" /\ UNCHANGED <<mode, loaded, kpYield>>
        /\ threads' = [Go(t) EXCEPT ![t].my_tid = turn, ![t].orig = RowStart(turn), ![t].idx = RowStart(turn)]
    BY <1>1, RegisterMoves DEF Register
  <1>4. /\ \A u \in Thread \ {t} : threads'[u] = threads[u]
        /\ threads'[t].at = threads[t].at + 1 /\ ~Ended(t) /\ threads'[t].kps = threads[t].kps
        /\ Len(threads') = Len(threads) /\ threads' \in Seq(ThreadType)
    BY <1>3 DEF Moves
  <1>5. Thread' = Thread
    BY <1>1, <1>4 DEF Thread
  <1>6. t # Main /\ threads[t].at = 1
    <2>1. CodeOf(threads[t].fn) /\ threads[t].at \in 1..Len(code[threads[t].fn]) /\ (t = Main <=> threads[t].fn = "main")
      BY <1>1, <1>4, ThreadAt
    <2> QED
      BY <1>3, <2>1 DEF CodeOf, Op
  <1>7. turn = t - 1 /\ t \in Nat /\ t >= 2 /\ threads[t].kps = 0
    <2>1. Numbered(t)
      BY <1>6 DEF Numbering
    <2> QED
      BY <1>6, <2>1, ThreadKps DEF Numbered
  <1>8. /\ threads'[t].yields = threads[t].yields
        /\ threads'[t].orig = RowStart(turn) /\ threads'[t].idx = RowStart(turn)
    <2> DEFINE s == RowStart(turn)
               a == [threads[t] EXCEPT !.at = @ + 1]
               r == [a EXCEPT !.my_tid = turn, !.orig = s, !.idx = s]
    <2>1. threads[t] \in ThreadType /\ threads \in Seq(ThreadType) /\ t \in DOMAIN threads
      BY <1>1 DEF ProcessTypes, Thread
    <2>2. threads' = [threads EXCEPT ![t] = r]
      BY <1>3, <2>1 DEF Go
    <2>3. a \in ThreadType /\ a.yields = threads[t].yields
      BY <2>1, Changes DEF ThreadType
    <2> HIDE DEF s, a
    <2>4. r.yields = a.yields /\ r.orig = s /\ r.idx = s
      BY <2>3 DEF ThreadType
    <2> HIDE DEF r
    <2>5. threads'[t] = r
      BY <2>1, <2>2
    <2> QED
      BY <2>3, <2>4, <2>5 DEF s
  <1>9. RowStart(turn) = SlotAt(t - 1, M, 1)
    <2>1. M \in Nat /\ mode = "dbds" /\ num_kp = M
      BY DEF Following, Base, DriverTypes
    <2>2. RowStart(turn) = ((t - 1) - 1) * M
      BY <1>7, <2>1 DEF RowStart
    <2> DEFINE x == ((t - 1) - 1) * M
    <2>3. x \in Nat
      BY <1>7, <2>1
    <2>4. SlotAt(t - 1, M, 1) = x + (1 - 1)
      BY DEF SlotAt
    <2> HIDE DEF x
    <2>5. SlotAt(t - 1, M, 1) = x
      BY <2>3, <2>4
    <2> QED
      BY <2>2, <2>5 DEF x
  <1>10. ASSUME NEW u \in Thread \ {Main} PROVE InRow(u)'
    <2>1. InRow(u)
      BY DEF Following
    <2>2. CASE u = t
      <3>1. threads'[t].kps + 1 = 1 /\ threads'[t].kps = 0
        BY <1>4, <1>7
      <3>2. Len(threads'[t].yields) = 0
        BY <1>7, <1>8, <2>1, <2>2 DEF InRow
      <3> QED
        BY <1>8, <1>9, <2>2, <3>1, <3>2 DEF InRow
    <2>3. CASE u # t
      BY <1>2, <1>4, <2>1, <2>3 DEF InRow
    <2> QED
      BY <2>2, <2>3
  <1>11. threads'[Main] = threads[Main]
    BY <1>1, <1>4, <1>6
  <1>12. \A u \in Thread : threads'[u].kps = threads[u].kps
    BY <1>4
  <1>13. Unspent'
    BY <1>2, <1>3, <1>5, <1>12 DEF Following, Unspent
  <1> QED
    BY <1>3, <1>5, <1>10, <1>11, <1>13 DEF Following, loaded

(* A KP of a test: the slot is the next of the thread's row, and the slots *)
(* of others are not touched.                                              *)
LEMMA KeyFits ==
    ASSUME Base, Running, Closed(prog), NEW t \in Thread \ {Main}, ~Ended(t), Op(t) = "instr_LOC_string"
    PROVE  threads[t].at > 1 /\ threads[t].kps + 1 <= KpsOf(t - 1)
  <1> DEFINE f == threads[t].fn
             y == threads[t].at
  <1>1. ProgramTypes /\ ProcessTypes /\ Team
    BY DEF Base
  <1>2. /\ f \in DOMAIN prog.code /\ CodeOf(f) /\ y \in Nat \ {0} /\ y \in 1..Len(code[f])
    BY <1>1, ThreadAt
  <1>3. y # 1
    BY <1>1, RegistersFirst DEF Op
  <1>4. threads[t].kps = CountBelow(KeyCalls(f), y)
    BY <1>1 DEF Team, Member
  <1>5. PICK i \in Creating : CountBelow(Creating, i) = t - 2 /\ f = prog.code["main"][i].to
    BY <1>1 DEF Team, Member
  <1>6. CountBelow(Creating, i) + 1 = t - 1
    BY <1>1, <1>5, TeamSize
  <1>7. KpsOf(t - 1) = Cardinality(KeyPointsAt(prog, f)) /\ KpsOf(t - 1) \in Nat
    BY <1>1, <1>5, <1>6, ChildFacts
  <1>8. CountBelow(KeyCalls(f), Len(code[f]) + 1) = KpsOf(t - 1)
    <2>1. IsProgram(prog) /\ code[f] = Instrument(prog)[f]
      BY <1>1, <1>2, ProgramFacts DEF CodeOf
    <2> QED
      BY <1>2, <1>7, <2>1, KeyCount DEF KeyCalls
  <1>9. y \in KeyCalls(f) /\ KeyCalls(f) \in SUBSET Nat
    BY <1>2, CallsIn DEF KeyCalls, Op
  <1>10. y < Len(code[f]) + 1 /\ Len(code[f]) + 1 \in Nat
    BY <1>2 DEF CodeOf
  <1>11. CountBelow(KeyCalls(f), y) + 1 <= CountBelow(KeyCalls(f), Len(code[f]) + 1)
    BY <1>9, <1>10, BelowStrict
  <1> QED
    BY <1>2, <1>3, <1>4, <1>8, <1>11

LEMMA KeyFollows ==
    ASSUME Base, Running, Following, Sizes, SameProgram, UNCHANGED <<sched, M>>, Closed(prog),
           WithKps = Children, Planned, NEW t \in Thread \ {Main}, KeyPoint(t)
    PROVE  Following'
  <1>1. /\ ProgramTypes /\ ProcessTypes /\ Team /\ prog' = prog /\ iterPeriod' = iterPeriod
        /\ Thread = 1..Len(threads) /\ Len(threads) \in Nat /\ Main \in Thread /\ Main = 1
        /\ \A u \in Thread : threads[u] \in ThreadType
    BY TeamSize DEF Base, SameProgram, Main
  <1>2. (\A c, k : Plan(c, k)' = Plan(c, k)) /\ Children' = Children /\ \A r : KpsOf(r)' = KpsOf(r)
    BY <1>1, SamePlans
  <1> DEFINE th == threads[t]
             c == t - 1
             k == th.kps + 1
             x == th.idx
             spent == IF mode = "dbds" /\ x \in Slots THEN kpYield[x] ELSE 0
  <1>3. Moves(t) /\ Op(t) = "instr_LOC_string"
    BY <1>1, KeyMoves
  <1>4. /\ threads' = [Go(t) EXCEPT ![t].kps = @ + 1, ![t].idx = Advance(th), ![t].yields = Append(@, spent)]
        /\ kpYield' = [s \in Slots |-> IF s = x /\ mode = "dbds" THEN 0 ELSE kpYield[s]]
        /\ UNCHANGED <<mode, loaded>>
    BY DEF KeyPoint
  <1>5. /\ \A u \in Thread \ {t} : threads'[u] = threads[u]
        /\ threads'[t].at = th.at + 1 /\ ~Ended(t) /\ threads'[t].kps = k
        /\ Len(threads') = Len(threads) /\ threads' \in Seq(ThreadType)
    BY <1>3 DEF Moves
  <1>6. Thread' = Thread
    BY <1>1, <1>5 DEF Thread
  <1>7. th.at > 1 /\ k <= KpsOf(c)
    BY <1>3, <1>5, KeyFits
  <1>8. c \in Children /\ th.kps \in Nat /\ KpsOf(c) \in Nat /\ t \in Nat /\ c + 1 = t
    BY ThreadKps
  <1>9. k \in 1..KpsOf(c)
    BY <1>7, <1>8
  <1>10. /\ mode = "dbds" /\ num_kp = M /\ InRow(t) /\ Unspent
    BY DEF Following
  <1>11. x = SlotAt(c, M, k) /\ th.orig = SlotAt(c, M, 1) /\ Len(th.yields) = th.kps
         /\ \A j \in 1..th.kps : th.yields[j] = Plan(c, j)
    BY <1>7, <1>10 DEF InRow
  <1>12. x \in Slots /\ k <= M /\ M \in Nat
    BY <1>1, <1>8, <1>9, <1>11, SlotsAre
  <1>13. spent = Plan(c, k)
    <2>1. c + 1 \in Thread => k > threads[c + 1].kps
      BY <1>8
    <2> HIDE DEF c, k
    <2>2. kpYield[SlotAt(c, M, k)] = Plan(c, k)
      BY <1>8, <1>9, <1>10, <2>1 DEF Unspent
    <2> QED
      BY <1>10, <1>11, <1>12, <2>2
  <1>14. Advance(th) = SlotAt(c, M, k + 1)
    <2> DEFINE o == (c - 1) * M
    <2>1. o \in Nat
      <3> DEFINE e == c - 1
      <3>1. e \in Nat
        <4>1. t \in Nat /\ t >= 2
          BY ThreadKps
        <4> QED
          BY <4>1
      <3> HIDE DEF e, c
      <3>2. e * M \in Nat
        BY <1>12, <3>1
      <3> QED
        BY <3>2 DEF e
    <2>2. SlotAt(c, M, k) = o + (k - 1) /\ SlotAt(c, M, 1) = o + (1 - 1) /\ SlotAt(c, M, k + 1) = o + ((k + 1) - 1)
      <3> HIDE DEF c, k
      <3> QED
        BY Zenon DEF SlotAt
    <2>3. k \in Nat /\ k >= 1
      BY <1>8
    <2> HIDE DEF o, c, k
    <2>4. th.idx = o + (k - 1) /\ th.orig = o
      BY <1>11, <2>1, <2>2
    <2>5. ~(th.idx >= th.orig + num_kp) /\ th.idx + 1 = o + k /\ SlotAt(c, M, k + 1) = o + k
      BY <1>10, <1>12, <2>1, <2>2, <2>3, <2>4
    <2> HIDE DEF th
    <2> QED
      BY <2>5 DEF Advance
  <1>15. threads'[t].idx = Advance(th) /\ threads'[t].orig = th.orig /\ threads'[t].yields = Append(th.yields, spent)
    <2> DEFINE a == [th EXCEPT !.at = @ + 1, !.kps = @ + 1]
               r == [a EXCEPT !.idx = Advance(th), !.yields = Append(th.yields, spent)]
    <2>1. th \in ThreadType /\ threads \in Seq(ThreadType) /\ t \in DOMAIN threads
      BY <1>1 DEF ProcessTypes, Thread
    <2>2. threads' = [threads EXCEPT ![t] = r]
      <3> HIDE DEF spent
      <3> QED
        BY <1>4, <2>1 DEF Go
    <2>3. a \in ThreadType /\ a.orig = th.orig
      BY <2>1, Changes DEF ThreadType
    <2> HIDE DEF a, th, spent
    <2>4. r.idx = Advance(th) /\ r.orig = a.orig /\ r.yields = Append(th.yields, spent)
      BY <2>3 DEF ThreadType
    <2> HIDE DEF r
    <2>5. threads'[t] = r
      BY <2>1, <2>2
    <2> QED
      BY <2>3, <2>4, <2>5
  <1>16. InRow(t)'
    <2>1. th.yields \in Seq(Nat) /\ Plan(c, k) \in Nat
      BY <1>1, <1>8, <1>9, PlanType DEF ThreadType
    <2> DEFINE y == th.yields
               z == Plan(c, k)
    <2>2. y \in Seq(Nat) /\ z \in Nat /\ Len(y) = th.kps /\ threads'[t].yields = Append(y, z)
      BY <1>11, <1>13, <1>15, <2>1
    <2> HIDE DEF y, z
    <2> DEFINE l == th.kps
    <2>7. l \in Nat /\ Len(y) = l /\ k = l + 1
      BY <1>8, <2>2
    <2> HIDE DEF k, l
    <2>8. Len(Append(y, z)) = l + 1
      BY <2>2, <2>7
    <2>9. \A j \in 1..(l + 1) : Append(y, z)[j] = IF j = l + 1 THEN z ELSE y[j]
      BY <2>2, <2>7
    <2>3. /\ Len(Append(y, z)) = k
          /\ \A j \in 1..k : Append(y, z)[j] = IF j = k THEN z ELSE y[j]
      BY <2>7, <2>8, <2>9
    <2> USE DEF k
    <2>4. \A j \in 1..k : threads'[t].yields[j] = Plan(c, j)
      <3> TAKE j \in 1..k
      <3>1. CASE j = k
        BY <2>2, <2>3, <3>1 DEF z
      <3>2. CASE j # k
        <4>1. j \in 1..th.kps
          BY <1>8, <3>2
        <4> QED
          BY <1>11, <2>2, <2>3, <3>2, <4>1 DEF y
      <3> QED
        BY <3>1, <3>2
    <2>5. threads'[t].orig = SlotAt(c, M, 1) /\ threads'[t].idx = SlotAt(c, M, k + 1)
      BY <1>11, <1>14, <1>15
    <2> HIDE DEF k, c
    <2>6. /\ Len(threads'[t].yields) = threads'[t].kps
          /\ \A j \in 1..threads'[t].kps : threads'[t].yields[j] = Plan(c, j)'
          /\ threads'[t].orig = SlotAt(c, M', 1) /\ threads'[t].idx = SlotAt(c, M', threads'[t].kps + 1)
      BY <1>2, <1>5, <2>2, <2>3, <2>4, <2>5
    <2> QED
      BY <2>6 DEF InRow, c
  <1>17. ASSUME NEW u \in Thread \ {Main} PROVE InRow(u)'
    <2>1. InRow(u)
      BY DEF Following
    <2>2. CASE u # t
      BY <1>2, <1>5, <2>1, <2>2 DEF InRow
    <2> QED
      BY <1>16, <2>2
  <1>18. threads'[Main] = threads[Main]
    BY <1>1, <1>5
  <1>19. Unspent'
    <2> SUFFICES ASSUME NEW d \in Children, NEW l \in 1..KpsOf(d), d + 1 \in Thread' => l > threads'[d + 1].kps
                 PROVE  kpYield'[SlotAt(d, M, l)] = Plan(d, l)
      BY <1>2 DEF Unspent
    <2>1. ASSUME d + 1 \in Thread PROVE l > threads[d + 1].kps /\ ~(d = c /\ l = k)
      <3>1. l > threads'[d + 1].kps
        BY <1>6, <2>1
      <3>2. CASE d + 1 = t
        <4>1. l > k /\ l \in Nat /\ k = th.kps + 1
          BY <1>5, <3>1, <3>2
        <4> QED
          BY <1>8, <3>2, <4>1
      <3>3. CASE d + 1 # t
        <4>1. d # c
          BY <1>8, <3>3
        <4> QED
          BY <1>5, <2>1, <3>1, <3>3, <4>1
      <3> QED
        BY <3>2, <3>3
    <2>2. ~(d = c /\ l = k)
      BY <1>8, <2>1
    <2> HIDE DEF c, k
    <2>3. kpYield[SlotAt(d, M, l)] = Plan(d, l)
      BY <1>10, <2>1 DEF Unspent
    <2>4. SlotAt(d, M, l) # x /\ SlotAt(d, M, l) \in Slots
      BY <1>1, <1>8, <1>9, <1>11, <2>2, SlotsAre
    <2> QED
      BY <1>4, <2>3, <2>4
  <1> QED
    BY <1>4, <1>6, <1>10, <1>17, <1>18, <1>19 DEF Following, loaded

LEMMA FollowsThread ==
    ASSUME Base, Numbering, Running, Following, Sizes, Planned, AllCount, NEW t \in Thread, Execute(t)
    PROVE  Running' => Following'
  <1>1. /\ Running /\ SameProgram /\ ProgramTypes /\ ProcessTypes /\ Team /\ ThreadStep(t)
        /\ UNCHANGED <<sched, M>> /\ Closed(prog) /\ WithKps = Children
        /\ threads \in Seq(ThreadType)
    BY ExecuteRuns, WellBehavedIsClosed DEF Base, Execute, driver, AllCount, WellBuilt, ProcessTypes
  <1>2. ASSUME Moves(t) \/ Grows(t), InPlace(t), UNCHANGED <<mode, loaded, kpYield>>,
               t # Main => Op(t) \notin {"instr_PthreadCall", "instr_LOC_string"}
        PROVE  Following'
    BY <1>1, <1>2, FollowsOn
  <1>3. CASE BeforePthreadCreate(t)
    <2>1. Moves(t) /\ Op(t) \notin {"instr_PthreadCall", "instr_LOC_string"}
      BY <1>1, <1>3, BeforeMoves
    <2>2. threads' = Go(t) /\ UNCHANGED <<mode, loaded, kpYield>>
      BY <1>3 DEF BeforePthreadCreate
    <2> QED
      BY <1>1, <1>2, <2>1, <2>2, StaysInPlace
  <1>4. CASE PthreadCreate(t)
    <2>1. Grows(t) /\ Op(t) \in Creations
      BY <1>1, <1>4, CreateGrows DEF Grows
    <2>2. Op(t) \notin {"instr_PthreadCall", "instr_LOC_string"}
      BY <2>1 DEF Creations, Wrappers
    <2>3. threads' = Append(Go(t), NewThread(About(t))) /\ UNCHANGED <<mode, loaded, kpYield>>
      BY <1>4 DEF PthreadCreate
    <2>4. InPlace(t)
      BY <1>1, <2>3, StaysInPlace
    <2> QED
      BY <1>2, <2>1, <2>2, <2>3, <2>4
  <1>5. CASE Register(t)
    <2>1. CASE Refused
      BY <1>5, <2>1 DEF Register, End, Running
    <2>2. CASE ~Refused
      BY <1>1, <1>5, <2>2, RegisterFollows
    <2> QED
      BY <2>1, <2>2
  <1>6. CASE MainKeyPoint(t)
    <2>1. Moves(t) /\ Op(t) \notin {"instr_PthreadCall", "instr_LOC_string"}
      BY <1>1, <1>6, MainKeyMoves
    <2>2. threads' = [Go(t) EXCEPT ![t].kps = @ + 1] /\ UNCHANGED <<mode, loaded, kpYield>>
      BY <1>6 DEF MainKeyPoint
    <2> QED
      BY <1>1, <1>2, <2>1, <2>2, StaysInPlace
  <1>7. CASE KeyPoint(t)
    <2>1. CASE t = Main
      <3>1. Moves(t)
        BY <1>1, <1>7, KeyMoves
      <3>2. threads' = [Go(t) EXCEPT ![t].kps = @ + 1] /\ UNCHANGED <<mode, loaded, kpYield>>
        BY <1>7, <2>1 DEF KeyPoint
      <3>3. InPlace(t)
        BY <1>1, <3>2, StaysInPlace
      <3> QED
        BY <1>2, <2>1, <3>1, <3>2, <3>3
    <2>2. CASE t # Main
      BY <1>1, <1>7, <2>2, KeyFollows
    <2> QED
      BY <2>1, <2>2
  <1>8. CASE PthreadJoin(t)
    <2>1. Moves(t) /\ Op(t) \notin {"instr_PthreadCall", "instr_LOC_string"}
      BY <1>1, <1>8, JoinMoves
    <2>2. threads' = Go(t) /\ UNCHANGED <<mode, loaded, kpYield>>
      BY <1>8 DEF PthreadJoin
    <2> QED
      BY <1>1, <1>2, <2>1, <2>2, StaysInPlace
  <1>9. CASE CallTraceEnd(t)
    <2>1. Moves(t) /\ Op(t) \notin {"instr_PthreadCall", "instr_LOC_string"}
      BY <1>1, <1>9, TraceEndMoves
    <2>2. threads' = Go(t) /\ UNCHANGED <<mode, loaded, kpYield>>
      BY <1>9 DEF CallTraceEnd
    <2> QED
      BY <1>1, <1>2, <2>1, <2>2, StaysInPlace
  <1>10. CASE Exit(t)
    BY <1>10 DEF Exit, End, Running
  <1>11. CASE t = Main /\ MainReturns
    BY <1>11 DEF MainReturns, End, Running
  <1> QED
    BY <1>1, <1>3, <1>4, <1>5, <1>6, <1>7, <1>8, <1>9, <1>10, <1>11 DEF ThreadStep

LEMMA ScheduledStep ==
    ASSUME Base, Numbering, Counted, AllSizes, Scheduled, [Next]_vars
    PROVE  Scheduled'
  <1>1. ProgramTypes /\ (Running => phase \in RunPhases)
    BY DEF Base, Counted
  <1>2. ASSUME NEW t \in Thread, Execute(t) PROVE Scheduled'
    <2>1. Running /\ prog' = prog /\ UNCHANGED <<sched, iterPeriod, phase>>
      BY <1>2, ExecuteRuns DEF SameProgram, driver
    <2>2. Planned' = Planned /\ AllCount' = AllCount
      BY <2>1, SamePlans
    <2>3. phase # "start"
      BY <1>1, <2>1 DEF RunPhases
    <2>4. ASSUME phase = "testing", AllCount PROVE Planned /\ (Running' => Following')
      <3>1. Planned /\ Following /\ Sizes
        BY <2>1, <2>4 DEF Scheduled, AllSizes, LearntPhases
      <3> QED
        BY <1>2, <2>1, <2>4, <3>1, FollowsThread
    <2> QED
      BY <2>1, <2>2, <2>3, <2>4 DEF Scheduled
  <1>3. CASE WriteTest
    <2>1. prog' = prog /\ phase' = "start" /\ WellBuilt' = WellBuilt /\ WithKps' = WithKps /\ Children' = Children
      BY <1>1, <1>3, DriverProcess, SameCounts DEF Driver, WriteTest
    <2>2. AllCount' = AllCount
      BY <2>1 DEF AllCount
    <2> QED
      BY <1>3, <2>1, <2>2, WriteReady DEF Scheduled
  <1>4. CASE StartTest
    <2>1. prog' = prog /\ phase' = "testing" /\ phase = "start" /\ UNCHANGED <<sched, iterPeriod>>
      BY <1>1, <1>4, DriverProcess DEF Driver, StartTest, driver
    <2>2. AllCount' = AllCount
      BY <2>1, SamePlans
    <2> QED
      BY <1>4, <2>1, <2>2, StartFollows DEF Scheduled
  <1>5. CASE DryRun \/ SetUp \/ DefaultRun \/ Learn \/ NothingToTest \/ TestEnds
    BY <1>5 DEF DryRun, SetUp, DefaultRun, Learn, NothingToTest, TestEnds, Scheduled
  <1>6. CASE UNCHANGED vars
    <2>1. /\ prog' = prog /\ UNCHANGED <<sched, iterPeriod, phase, N, M>> /\ shm' = shm
          /\ UNCHANGED <<mode, loaded, kpYield, threads>>
      BY <1>6 DEF vars, driver, process
    <2>2. Planned' = Planned /\ AllCount' = AllCount /\ Children' = Children
          /\ (\A c, k : Plan(c, k)' = Plan(c, k)) /\ \A r : KpsOf(r)' = KpsOf(r)
      BY <2>1, SamePlans
    <2>3. Running' = Running /\ Thread' = Thread
      BY <2>1 DEF Running, Thread
    <2>4. Ready => Ready'
      BY <2>1, <2>2 DEF Ready
    <2>5. Following => Following'
      <3> HAVE Following
      <3>1. Unspent'
        BY <2>1, <2>2, <2>3 DEF Following, Unspent
      <3>2. \A t \in Thread \ {Main} : InRow(t)'
        BY <2>1, <2>2 DEF Following, InRow
      <3> QED
        BY <2>1, <2>3, <3>1, <3>2 DEF Following, loaded
    <2> QED
      BY <2>1, <2>2, <2>3, <2>4, <2>5 DEF Scheduled
  <1> QED
    BY <1>2, <1>3, <1>4, <1>5, <1>6 DEF Next, Driver

LEMMA ScheduledInvariant == Spec => []Scheduled
  <1>1. Init => Scheduled
    BY DEF Init, Scheduled
  <1> QED
    BY <1>1, ScheduledStep, SessionInvariant, NumberingInvariant, CountsInvariant, AllSizesInvariant, PTL DEF Spec

(* What a thread has burnt up to a KP are the yields of the plan, added up. *)
LEMMA ThreadFollows ==
    ASSUME Base, Numbering, Running, AllCount, Planned, Following,
           NEW t \in Thread, NEW j \in DOMAIN threads[t].yields
    PROVE  SumUpto(threads[t].yields, j) = PeriodOf(sched.periods, threads[t].my_tid - 1, j) - 1
  <1>1. /\ ProgramTypes /\ Closed(prog) /\ WithKps = Children
        /\ threads[t] \in ThreadType /\ threads[t].yields \in Seq(Nat)
        /\ DOMAIN threads[t].yields = 1..Len(threads[t].yields) /\ Len(threads[t].yields) \in Nat
    <2>1. threads[t] \in ThreadType
      BY TeamSize DEF Base
    <2>2. threads[t].yields \in Seq(Nat)
      BY <2>1 DEF ThreadType
    <2> QED
      BY <2>1, <2>2, WellBehavedIsClosed DEF Base, AllCount, WellBuilt
  <1>2. t # Main
    BY <1>1 DEF Following
  <1> DEFINE c == t - 1
             y == threads[t].yields
             n == threads[t].kps
             plan == YieldPattern(sched.kps, sched.periods)
  <1>3. /\ Len(y) = n /\ \A k \in 1..n : y[k] = Plan(c, k)
    BY <1>2 DEF Following, InRow
  <1>4. /\ t \in Nat /\ t >= 2 /\ c \in Children /\ n \in Nat /\ KpsOf(c) \in Nat /\ n <= KpsOf(c)
        /\ threads[t].at = 1 => n = 0
    BY <1>2, ThreadKps
  <1>5. j \in 1..n
    BY <1>1, <1>3
  <1>6. threads[t].my_tid - 1 = c - 1
    <2>1. threads[t].at # 1
      BY <1>4, <1>5
    <2>2. Numbered(t)
      BY <1>1, <1>2 DEF Numbering
    <2> QED
      BY <2>1, <2>2 DEF Numbered
  <1>7. /\ c - 1 \in LearntRows /\ sched.kps[c - 1] = KpsOf(c) /\ DOMAIN sched.kps = LearntRows
        /\ DOMAIN sched.periods = 1..iterPeriod /\ iterPeriod \in Nat \ {0}
        /\ \A i \in 1..iterPeriod : sched.periods[i][c - 1] \in Nat
        /\ Upto(sched.periods, c - 1, iterPeriod) = KpsOf(c)
        /\ \A k \in 1..KpsOf(c) : Plan(c, k) \in Nat
    BY <1>1, <1>4, PlanType
  <1> HIDE DEF c, y, n
  <1>8. j \in Nat /\ j \in 1..KpsOf(c) /\ \A k \in 1..j : k \in 1..n /\ k \in 1..KpsOf(c)
    BY <1>4, <1>5
  <1>9. \A k \in 1..j : plan[c - 1][k] \in Nat /\ y[k] = plan[c - 1][k]
    BY <1>3, <1>7, <1>8 DEF Plan
  <1> HIDE DEF plan
  <1>10. SumUpto(y, j) = SumUpto(plan[c - 1], j)
    BY <1>8, <1>9, SameSums
  <1>11. YieldsUpto(plan, c - 1, j) = PeriodOf(sched.periods, c - 1, j) - 1
    <2>1. /\ iterPeriod \in Nat /\ c - 1 \in DOMAIN sched.kps /\ j \in 1..sched.kps[c - 1]
          /\ sched.kps[c - 1] \in Nat /\ Upto(sched.periods, c - 1, iterPeriod) >= sched.kps[c - 1]
      BY <1>4, <1>7, <1>8
    <2> QED
      BY <1>7, <2>1, YieldsLeadToPeriods DEF plan
  <1>12. YieldsUpto(plan, c - 1, j) = SumUpto(plan[c - 1], j)
    BY DEF YieldsUpto
  <1> QED
    BY <1>6, <1>10, <1>11, <1>12 DEF y

(* Whatever program is tested, as long as all its threads have KPs, and    *)
(* whatever ids the kernel gives out, a test burns in front of each KP the *)
(* periods before the one its schedule has that KP in.                     *)
THEOREM ScheduleIsFollowed == Spec => []ScheduleIsRun
  <1>1. Base /\ Numbering /\ Scheduled => ScheduleIsRun
    <2> SUFFICES ASSUME Base, Numbering, Scheduled, phase = "testing", WellBuilt, WithKps = Children
                 PROVE  FollowsSchedule
      BY DEF ScheduleIsRun
    <2>1. AllCount /\ Planned /\ (Running => Following)
      BY DEF AllCount, Scheduled
    <2>2. CASE Running
      BY <2>1, <2>2, ThreadFollows DEF FollowsSchedule
    <2>3. CASE ~Running
      <3>1. threads = <<>>
        BY <2>3 DEF Base, ProcessTypes
      <3>2. Thread = {}
        BY <3>1 DEF Thread
      <3> QED
        BY <3>2 DEF FollowsSchedule
    <2> QED
      BY <2>2, <2>3
  <1> QED
    BY <1>1, SessionInvariant, NumberingInvariant, ScheduledInvariant, PTL
=============================================================================
