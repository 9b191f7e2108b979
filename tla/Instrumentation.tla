---------------------------- MODULE Instrumentation -----------------------------
(***************************************************************************)
(* The compiler pass of PERIOD (dbds-llvm-pass.so.cc, runOnModule): which  *)
(* calls of the runtime library it puts where.  It sees one source file at *)
(* a time.                                                                 *)
(*                                                                         *)
(* A program p has p.code[f], the instructions of each function in the     *)
(* order of its basic blocks, and p.file[f].  An instruction has the name  *)
(* op of the function it calls ("stmt" if it is no call that matters), the *)
(* start routine it is about, whether that is a constant (known), and its  *)
(* source line, NoLine if it has none.  p.asan says whether it is built    *)
(* with ASAN.  Calls that only write the trace (instr_Call, instr_Return,  *)
(* instr_pthread_create, instr_pthread_join) are left out.                 *)
(***************************************************************************)
EXTENDS Integers, Sequences, SequencesExt

CONSTANT Interesting    \* ConConfig: the lines whose instructions are KPs

NoLine == 0
Nowhere == "nowhere"
ASSUME LineAssumption == Interesting \subseteq Nat \ {NoLine}

Wrappers == {"PR_CreateThread", "create_pthread"}
Creations == {"pthread_create"} \cup Wrappers

(* The runtime library's functions. *)
Library == {"instr_LOC", "instr_PthreadCall", "traceEnd", "before_pthread_create",
            "instr_LOC_string"}

(* The programs considered: threads are created by main, and do not run    *)
(* main; nobody calls the library but the pass.                            *)
IsProgram(p) ==
    /\ "main" \in DOMAIN p.code /\ p.asan \in BOOLEAN
    /\ \A f \in DOMAIN p.code : p.code[f] \in Seq([op : STRING, to : STRING, known : BOOLEAN, line : Nat])
    /\ \A f \in DOMAIN p.code : \A i \in DOMAIN p.code[f] :
          /\ p.code[f][i].op \notin Library
          /\ p.code[f][i].op \in Creations => f = "main" /\ p.code[f][i].to \in DOMAIN p.code \ {"main"}

InFile(p, file) == {f \in DOMAIN p.code : p.file[f] = file}
Calls(p, file, ops) ==
    UNION {{in \in ToSet(p.code[f]) : in.op \in ops} : f \in InFile(p, file)}
Constants(calls) == {in.to : in \in {c \in calls : c.known}}

(* Only_Instru_pthread_create (329-353): wrappers of pthread_create count  *)
(* only in a file that never calls it with a constant start routine.       *)
OnlyPthreadCreate(p, file) == Constants(Calls(p, file, {"pthread_create"})) # {}
Matched(p, file) == IF OnlyPthreadCreate(p, file) THEN {"pthread_create"} ELSE Wrappers

(* Mutant of PthreadCallFunction: the wrappers are not looked for. *)
PthreadCallFunctionOnly(p, file) == Constants(Calls(p, file, {"pthread_create"}))

(* pthreadCallFunction: the start routines this file names. *)
PthreadCallFunction(p, file) == Constants(Calls(p, file, Matched(p, file)))

(* The cast of a start routine that is no constant crashes the compiler    *)
(* (470, 488); that of PR_CreateThread is not looked at again.             *)
Compiles(p) ==
    \A f \in DOMAIN p.code : \A in \in ToSet(p.code[f]) :
        in.op \in Matched(p, p.file[f]) \ {"PR_CreateThread"} => in.known

(* A call of the library; the hash of a location is its line. *)
When(condition, name, line) ==
    IF condition THEN <<[op |-> name, to |-> Nowhere, line |-> line]>> ELSE <<>>

(* The first instruction of each stretch of an interesting line is a KP:   *)
(* LastLocString is the line of the instruction before, located or not.    *)
IsKeyPoint(code, i) ==
    /\ code[i].line \in Interesting
    /\ i > 1 => code[i - 1].line # code[i].line

(* At the entry of a function, after instr_Call: main has a KP of its own. *)
Entry(p, f) ==
    When(f = "main", "instr_LOC", NoLine)
    \o When(f # "main" /\ f \in PthreadCallFunction(p, p.file[f]), "instr_PthreadCall", NoLine)

(* What becomes of one instruction: the calls in front of it and itself.   *)
Around(p, f, i) ==
    LET in == p.code[f][i]
    IN  When(in.op = "_exit", "traceEnd", in.line)
        \o When(in.op \in Matched(p, p.file[f]), "before_pthread_create", in.line)
        \o When(IsKeyPoint(p.code[f], i), "instr_LOC_string", in.line)
        \o (IF in.op = "stmt" THEN <<>> ELSE <<[op |-> in.op, to |-> in.to, line |-> in.line]>>)

Instrument(p) ==
    [f \in DOMAIN p.code |->
        Entry(p, f) \o FlattenSeq([i \in DOMAIN p.code[f] |-> Around(p, f, i)])]

-----------------------------------------------------------------------------
(* What a program must be like for the pass to see all of its threads:     *)
(* each thread is created in the file of its start routine, with a         *)
(* constant routine, and a file does not mix pthread_create and wrappers.  *)
Closed(p) ==
    \A f \in DOMAIN p.code : \A in \in ToSet(p.code[f]) :
        in.op \in Creations =>
            /\ in.known /\ p.file[in.to] = p.file[f]
            /\ in.op \in Wrappers => Calls(p, p.file[f], {"pthread_create"}) = {}
=============================================================================
