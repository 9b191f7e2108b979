\* Two threads of up to two KPs, every schedule of up to three periods, one
\* overrun allowed; with LOOP_UNWINDED_NUM = 1 a repeated KP is skipped.
SPECIFICATION FairSpec
CONSTANTS
    N = 2
    M = 2
    MaxPeriod = 2
    Hash = {1, 2}
    MaxPath = 2
    LoopUnwinded = 1
    UnsignedMax = 3
    MaxOverruns = 1
    Schedules <- MCSchedules
    Paths <- MCPaths
INVARIANTS
    TypeOK
    NeverEarly
    OnTime
    RecordedOrder
    RecordsComplete
    RunInv
PROPERTIES
    RunsSchedule
    AllReturn
CHECK_DEADLOCK FALSE
