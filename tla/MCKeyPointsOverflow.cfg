\* The program runs through three KPs per thread, the schedule has two.
SPECIFICATION Spec
CONSTANTS
    N = 2
    M = 2
    MaxPeriod = 2
    Hash = {1, 2, 3}
    MaxPath = 3
    LoopUnwinded = 1
    UnsignedMax = 3
    MaxOverruns = 0
    Schedules <- MCSchedules
    Paths <- MCLongPaths
INVARIANTS
    IndexInBounds
CHECK_DEADLOCK FALSE
