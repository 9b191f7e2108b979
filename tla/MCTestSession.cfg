SPECIFICATION Spec
CONSTANTS
    Interesting = {1, 2, 3}
    ArraySize = 17
    DriverArraySize = 9
    ThreadNum = 10
    Tids <- MCTids
    Times = {500, 2000000}
    Cpus = 1
    Sessions <- MCSessions
INVARIANTS
    TypeOK
    CountsInRows
    RowsForAll
    ScheduleIsRun
    NeverRefused
PROPERTIES
    ClosedRunsEnd
\* A program with threads hidden from the pass may wait for ever.
CHECK_DEADLOCK FALSE
