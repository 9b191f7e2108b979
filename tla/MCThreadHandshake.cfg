\* Five threads created by main(): the pthread_create of c3 may fail, c5 is a
\* library's thread, which never registers, and the kernel may refuse the fourth
\* reservation.
SPECIFICATION FairSpec
CONSTANTS
    c1 = c1
    c2 = c2
    c3 = c3
    c4 = c4
    c5 = c5
    Main = main
    Child = {c1, c2, c3, c4, c5}
    Parent <- ParentMain
    Instrumented = {c1, c2, c3, c4}
    Unlucky = {c3}
    Admitted = 3
INVARIANTS
    TypeOK
    UniqueNumbers
    RegistrationExclusive
    NoChildLeftBehind
    TurnInv
PROPERTIES
    TurnIsLost
    NumbersFollowCreation
    AllDone
CHECK_DEADLOCK FALSE
