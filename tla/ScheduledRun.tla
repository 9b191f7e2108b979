----------------------------- MODULE ScheduledRun -----------------------------
(***************************************************************************)
(* What the key point runtime promises to the driver: a run of the tested  *)
(* program follows its schedule.  Time is cut into periods; in a period    *)
(* exactly the key points that the schedule puts there are executed, and   *)
(* it does not pass before all of them are.  Once the kernel has taken a   *)
(* period from some thread the promise is weaker: a key point may be late, *)
(* but is never executed before its period.                                *)
(***************************************************************************)
EXTENDS Naturals

CONSTANTS Thread, M     \* the threads, and how many key points each may have

VARIABLES
    period,             \* period[t][k]: when the k-th key point of t is due
    now,                \* the current period
    ran,                \* how many key points each thread has executed
    returned,           \* the threads that have returned
    late                \* a thread has lost a period

rvars == <<period, now, ran, returned, late>>

Init ==
    /\ now = 0
    /\ ran = [t \in Thread |-> 0]
    /\ returned = {}
    /\ late = FALSE

Due(t) == period[t][ran[t] + 1]

Run(t) ==
    /\ t \notin returned
    /\ ran[t] < M
    /\ Due(t) <= now
    /\ late \/ Due(t) = now
    /\ ran' = [ran EXCEPT ![t] = @ + 1]
    /\ UNCHANGED <<period, now, returned, late>>

Return(t) ==
    /\ returned' = returned \cup {t}
    /\ UNCHANGED <<period, now, ran, late>>

(* Nobody who goes on has a key point left in the period that passes. *)
Pass ==
    /\ late \/ \A t \in Thread \ returned : ran[t] < M /\ Due(t) > now
    /\ now' = now + 1
    /\ UNCHANGED <<period, ran, returned, late>>

Lose ==
    /\ late' = TRUE
    /\ UNCHANGED <<period, now, ran, returned>>

Next == Pass \/ Lose \/ \E t \in Thread : Run(t) \/ Return(t)

Spec == Init /\ [][Next]_rvars
=============================================================================
