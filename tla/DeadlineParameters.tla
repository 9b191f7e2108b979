-------------------------- MODULE DeadlineParameters --------------------------
(***************************************************************************)
(* The SCHED_DEADLINE reservation every registered thread asks the kernel  *)
(* for: setDeadLineSched (DBDSFunction.cpp 147-244) computes it in double  *)
(* precision from the time of the dry run, the number of threads and the   *)
(* number of CPUs; set_sched_dl (sched.h) ends the process when the kernel *)
(* refuses it.  Factors are integers here: weights in hundredths, the      *)
(* single core base in thousandths, multipliers of the time in tenths and  *)
(* the results in units of 1000 ns, rounded down.                          *)
(***************************************************************************)
EXTENDS Integers

(* weight_cpu, in 400ths (155-167): more CPUs, lighter threads. *)
WeightCpu(cpus) ==
    CASE cpus <= 1  -> 360
      [] cpus = 2   -> 380
      [] cpus \in 3..4  -> 100 * cpus
      [] cpus \in 5..8  -> 400 + 50 * (cpus - 4)
      [] cpus \in 9..12 -> 600 + 25 * (cpus - 8)
      [] OTHER      -> 700

(* weight, in hundredths (150-183); the cases below ten threads are dead.  *)
Weight(td, cpus) ==
    LET PerThread == CASE td <= 16 -> 200
                       [] td \in 17..32 -> 150
                       [] td \in 33..65 -> 125
                       [] OTHER    -> 100
    IN IF td < 10 THEN 1000
       ELSE 1000 + (80 * td * PerThread) \div WeightCpu(cpus)

(* single_core_baise, in thousandths (188-219), at least 1: the threads    *)
(* get longer periods when there are few CPUs.  65 threads on one or two   *)
(* CPUs match none of the branches made for them.                          *)
Baise(td, cpus) ==
    LET OneCpu == CASE td <= 8        -> 1100
                    [] td \in 9..16   -> 1150
                    [] td \in 17..32  -> 1500
                    [] td \in 33..64  -> 4000
                    [] td = 65        -> 1100
                    [] OTHER          -> 115 * td
        TwoCpus == CASE td <= 8       -> 1050
                     [] td \in 9..16  -> 1150
                     [] td \in 17..32 -> 1500
                     [] td \in 33..64 -> 2500
                     [] td = 65       -> 1100
                     [] OTHER         -> 30 * td
        FourCpus == IF td <= 65 THEN 1100 ELSE (145 * td) \div 10
        raw == CASE cpus <= 1       -> OneCpu
                 [] cpus = 2        -> TwoCpus
                 [] cpus \in 3..4   -> FourCpus
                 [] OTHER           -> 1000
    IN IF raw < 1000 THEN 1000 ELSE raw

Within(time, low, high) == low <= time /\ time < high

(* Mutant of Budget: the class of the longest runs keeps the budget of the *)
(* class before it.                                                        *)
BudgetLastStep(time) ==
    CASE Within(time, 0, 10000) -> 50
      [] Within(time, 10000, 100000) -> 40
      [] Within(time, 100000, 500000) -> 30
      [] Within(time, 500000, 1000000) -> 20
      [] OTHER -> 15

(* The share of the dry run's time a thread may run in a period, in tenths *)
(* (221-243) ...                                                           *)
Budget(time) ==
    CASE Within(time, 0, 10000) -> 50
      [] Within(time, 10000, 100000) -> 40
      [] Within(time, 100000, 500000) -> 30
      [] Within(time, 500000, 1000000) -> 20
      [] Within(time, 1000000, 2000000) -> 15
      [] OTHER -> 10

(* ... and the length of the period, in tenths of the dry run's time. *)
Length(time) ==
    CASE Within(time, 0, 10000) -> 1000
      [] Within(time, 10000, 100000) -> 750
      [] Within(time, 100000, 500000) -> 500
      [] Within(time, 500000, 1000000) -> 250
      [] Within(time, 1000000, 2000000) -> 150
      [] OTHER -> 75

(* A product with a factor in thousandths, as the kernel gets it: whole.   *)
Milli(amount, factor) == (amount * factor) \div 1000

Scaled(time, factor, td, cpus) == Milli(Milli(time, factor), Weight(td, cpus))

SchedRuntime(time, td, cpus) == Scaled(time, Budget(time), td, cpus)
SchedPeriod(time, td, cpus) ==
    Milli(Scaled(time, Length(time), td, cpus), Baise(td, cpus))
(* The last class leaves the base out of the deadline (241). *)
SchedDeadline(time, td, cpus) ==
    IF time < 2000000 THEN SchedPeriod(time, td, cpus)
    ELSE Scaled(time, Length(time), td, cpus)

(* The kernel's least runtime is 1024 ns: what the shortest runs come to   *)
(* from this time on, in microseconds.                                     *)
LeastTime == 21
LongEnough(time, td, cpus) ==
    time * Budget(time) > (1024 * 1000 - 1) \div Weight(td, cpus)

(* The kernel refuses a runtime that is too short, parameters that are out *)
(* of order, and reservations that add up to more than 95% of the CPUs.    *)
Admits(reserved, time, td, cpus) ==
    /\ LongEnough(time, td, cpus)
    /\ SchedRuntime(time, td, cpus) <= SchedDeadline(time, td, cpus)
    /\ SchedDeadline(time, td, cpus) <= SchedPeriod(time, td, cpus)
    /\ (reserved + 1) * SchedRuntime(time, td, cpus) * 20
            <= 19 * cpus * SchedPeriod(time, td, cpus)
=============================================================================
