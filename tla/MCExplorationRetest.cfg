\* Is an error found in a retest, or with a program that ends late, saved as it was run?
SPECIFICATION Spec
CONSTANTS
    Outcomes <- MCOutcomes
    DefaultOutcome <- MCDefault
    Hashes = {h0, h1}
    DefaultHash = h0
    PrefixLengths = {1}
    PeriodLimit = 2
    FullDeepRun = FALSE
    NoPrefixRun = FALSE
    RunsLimits = {0}
    MaxSchedules = 1
    MaxLate = 1
INVARIANTS
    ErrorsReproduce
