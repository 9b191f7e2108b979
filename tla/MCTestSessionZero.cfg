SPECIFICATION Spec
CONSTANTS
    Interesting = {1, 2, 3}
    ArraySize = 17
    DriverArraySize = 9
    ThreadNum = 10
    Tids <- MCTids
    Times = {500, 2000000}
    Cpus = 1
    Sessions <- MCGap
INVARIANTS
    ScheduleIsRunByAll
\* The session ends.
CHECK_DEADLOCK FALSE
