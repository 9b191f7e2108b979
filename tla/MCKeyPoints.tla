----------------------------- MODULE MCKeyPoints -----------------------------
(* Small instances of the key point runtime: every schedule up to          *)
(* MaxPeriod, for every choice of short paths.                             *)
EXTENDS KeyPoints

CONSTANTS MaxPeriod, MaxPath

MCThread == 1..N

(* period arrays: nondecreasing, from 0 *)
MCPeriods ==
    {f \in [0..M -> 0..MaxPeriod] : f[0] = 0 /\ \A k \in 1..M : f[k-1] <= f[k]}

(* kp is the difference of successive periods, row by row *)
MCSchedules ==
    {[kp |-> [s \in 0..(N * M) |->
                IF s = N * M THEN 0
                ELSE p[(s \div M) + 1][(s % M) + 1] - p[(s \div M) + 1][s % M]],
      period |-> p] : p \in [MCThread -> MCPeriods]}

(* One KP, two different ones, or a loop around one KP. *)
MCPaths == [MCThread -> {<<1>>, <<1, 2>>, [i \in 1..MaxPath |-> 1]}]

(* More KPs than the schedule has slots. *)
MCLongPaths == [MCThread -> {[i \in 1..MaxPath |-> i]}]
=============================================================================
