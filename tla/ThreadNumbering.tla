--------------------------- MODULE ThreadNumbering ---------------------------
(***************************************************************************)
(* What the creation handshake of the PERIOD runtime promises to the rest  *)
(* of the tool: the k-th thread that the tested program creates is thread  *)
(* number k (its My_Tid), so that row k of a schedule drives that thread   *)
(* in every run of the program, whatever the kernel does in between.       *)
(***************************************************************************)
EXTENDS Naturals

CONSTANT Child          \* the threads the program may create

VARIABLES
    count,              \* how many threads have been created
    rank,               \* rank[c]: c's place in the creation order, 0 = none
    my_tid              \* my_tid[c]: the number c got, 0 = none yet

nvars == <<count, rank, my_tid>>

Init ==
    /\ count = 0
    /\ rank = [c \in Child |-> 0]
    /\ my_tid = [c \in Child |-> 0]

Create(c) ==
    /\ rank[c] = 0
    /\ count' = count + 1
    /\ rank' = [rank EXCEPT ![c] = count + 1]
    /\ UNCHANGED my_tid

Number(c) ==
    /\ rank[c] # 0
    /\ my_tid[c] = 0
    /\ my_tid' = [my_tid EXCEPT ![c] = rank[c]]
    /\ UNCHANGED <<count, rank>>

Next == \E c \in Child : Create(c) \/ Number(c)

Spec == Init /\ [][Next]_nvars
=============================================================================
