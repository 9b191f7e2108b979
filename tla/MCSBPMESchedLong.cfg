\* Two threads, one with five key points and three periods of its own.
SPECIFICATION Spec
CONSTANTS
    MaxKps = 5
    MaxSum = 7
    MaxP = 5
    Inputs <- MCLongInputs
INVARIANTS
    EnumeratesAll
CHECK_DEADLOCK FALSE
