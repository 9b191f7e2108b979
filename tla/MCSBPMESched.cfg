\* Up to three threads with up to six key points, up to five periods, and the
\* same behind a fixed prefix of one or two periods.
SPECIFICATION Spec
CONSTANTS
    MaxKps = 4
    MaxSum = 6
    MaxP = 4
    Inputs <- MCAllInputs
INVARIANTS
    TypeOK
    RefusedRightly
    RunsAllKps
    PrefixKept
    NoRepetition
    EnumeratesAll
    YieldsMatch
CHECK_DEADLOCK FALSE
