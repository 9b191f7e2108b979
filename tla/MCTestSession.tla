----------------------------- MODULE MCTestSession ------------------------------
(* Programs under test: what main creates and joins, and three routines.   *)
EXTENDS TestSession, TLC

Create(op, f) == [op |-> op, to |-> f, known |-> TRUE, line |-> 9]
Pointer(op, f) == [Create(op, f) EXCEPT !.known = FALSE]
Join(f) == Create("pthread_join", f)
Stmt(line) == [Create("stmt", Nowhere) EXCEPT !.line = line]

\* No KP; one; one for two instructions of a line; two.
Idle == <<Stmt(9)>>
One == <<Stmt(1)>>
Long == <<Stmt(2), Stmt(2), Stmt(NoLine)>>
Two == <<Stmt(1), Stmt(3), Stmt(3), Stmt(9)>>

Routines(a, b, c) == "a" :> a @@ "b" :> b @@ "c" :> c
OneFile == [f \in {"main", "a", "b", "c"} |-> "main.c"]
Program(main, routines) == [code |-> "main" :> (<<Stmt(1)>> \o main) @@ routines, file |-> OneFile,
                            asan |-> TRUE]
Each(Op(_), fs) == [i \in DOMAIN fs |-> Op(fs[i])]
Creates(op, fs) == Each(LAMBDA f : Create(op, f), fs)
Joined(fs) == Each(Join, fs)

abc == <<"a", "b", "c">>
Full == Routines(One, Two, Long)

Plain == Program(Creates("pthread_create", abc) \o Joined(abc), Full)
Twice == Program(Creates("pthread_create", <<"b", "a", "b">>) \o Joined(abc), Full)
Gap == Program(Creates("pthread_create", abc) \o Joined(abc), Routines(One, Idle, Two))
Late == Program(Creates("pthread_create", abc) \o Joined(abc), Routines(Idle, Two, One))
Pair == Program(Creates("pthread_create", <<"a", "b">>) \o Joined(<<"a", "b">>), Full)
Alone == Program(Creates("pthread_create", <<"b">>) \o Joined(<<"b">>), Full)
Wrapped == Program(Creates("create_pthread", <<"a">>) \o Creates("PR_CreateThread", <<"b">>)
                   \o Joined(<<"a", "b">>), Full)
Exits == Program(Creates("pthread_create", <<"a", "b">>) \o Joined(<<"a", "b">>)
                 \o <<Create("_exit", Nowhere)>>, Full)
Leaves == Program(Creates("pthread_create", <<"a", "b">>) \o Joined(<<"a">>), Full)
Mixes == Program(Creates("pthread_create", <<"a">>) \o Creates("create_pthread", <<"b">>)
                 \o Joined(<<"a", "b">>), Full)
Pointers == Program(Creates("pthread_create", <<"a">>) \o <<Pointer("pthread_create", "b")>>
                    \o Joined(<<"a", "b">>), Full)
Files == [Plain EXCEPT !.file["b"] = "b.c"]
Gaps == Program(Creates("pthread_create", <<"a", "c", "c", "a">>) \o Joined(abc),
                Routines(One, Two, Idle))
Far == Program(Creates("pthread_create", <<"a", "c", "c", "c", "a">>) \o Joined(abc),
               Routines(One, Two, Idle))
Back == Program(Creates("pthread_create", <<"c", "a">>) \o Joined(abc), Routines(One, Two, Idle))
Wide == Program(Creates("pthread_create", [i \in 1..5 |-> "b"]) \o Joined(abc), Full)
Seven == Program(Creates("pthread_create", [i \in 1..7 |-> "a"]) \o Joined(<<"a">>), Full)
Eight == Program(Creates("pthread_create", [i \in 1..8 |-> "a"]) \o Joined(<<"a">>), Full)

\* Programs of two threads and more, built without ASAN.
Release == {[p EXCEPT !.asan = FALSE] :
                p \in {Plain, Pair, Twice, Gap, Late, Back, Wrapped, Exits}}

MCSessions == [prog : {Plain, Twice, Gap, Gaps, Far, Late, Back, Alone, Wrapped, Exits, Leaves,
                       Mixes, Pointers, Files, Wide, Seven, Eight}, periods : {2}]
              \cup [prog : {Plain, Twice, Wrapped}, periods : {3}]
              \cup [prog : Release, periods : {2}]
MCPlain == [prog : {Plain}, periods : {2}]
MCGap == [prog : {Gap}, periods : {2}]

\* Consecutive thread ids, ids with gaps, and ids that wrap around.
MCTids == {[i \in 1..9 |-> 30 + i], [i \in 1..9 |-> 30 + 2 * i],
           [i \in 1..9 |-> IF i <= 2 THEN 30 + i ELSE i]}
=============================================================================
