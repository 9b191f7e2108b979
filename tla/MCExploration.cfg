\* Two hashes, up to three numbers of periods, one program that ends late.
SPECIFICATION Spec
CONSTANTS
    Outcomes <- MCOutcomes
    DefaultOutcome <- MCDefault
    Hashes = {h0, h1, h2}
    DefaultHash = h0
    PrefixLengths = {1, 2}
    PeriodLimit = 5
    FullDeepRun = FALSE
    NoPrefixRun = FALSE
    RunsLimits = {0, 2}
    MaxSchedules = 1
    MaxLate = 1
INVARIANTS
    TypeOK
    NoneForgotten
    NoneTwice
    LoadsItsRows
    PrefixIsParent
PROPERTIES
    Terminates
