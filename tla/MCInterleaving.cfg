\* Up to three threads with up to two key points each; parents of four.
SPECIFICATION Spec
CONSTANTS
    MaxKps = 2
    Inputs <- MCInputs
INVARIANTS
    TypeOK
    ResumesAtParent
    RoundTrip
    OneThreadPerPeriod
PROPERTIES
    EnumeratesAll
CHECK_DEADLOCK FALSE
