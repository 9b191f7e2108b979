-------------------------- MODULE ScheduleEnumerator ---------------------------
(***************************************************************************)
(* What a scheduler promises the driver: iterating over it yields every    *)
(* schedule of a finite set exactly once, and then ends.                   *)
(***************************************************************************)
EXTENDS Naturals

VARIABLES all,          \* the schedules there are
          yielded,      \* those handed out
          count,        \* how many were handed out, repetitions included
          ended         \* the iteration is over

vars == <<all, yielded, count, ended>>

Init == yielded = {} /\ count = 0 /\ ended = FALSE

Yield ==
    /\ ~ended
    /\ \E s \in all \ yielded : yielded' = yielded \cup {s}
    /\ count' = count + 1
    /\ UNCHANGED <<all, ended>>

End ==
    /\ yielded = all
    /\ ended' = TRUE
    /\ UNCHANGED <<all, yielded, count>>

Spec == Init /\ [][Yield \/ End]_vars
=============================================================================
