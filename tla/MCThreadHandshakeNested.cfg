\* main() and one of its children create threads at the same time.
SPECIFICATION Spec
CONSTANTS
    c1 = c1
    c2 = c2
    c3 = c3
    c4 = c4
    c5 = c5
    Main = main
    Child = {c1, c2, c3}
    Parent <- ParentNested
    Instrumented = {c1, c2, c3}
    Unlucky = {}
    Admitted = 3
INVARIANTS
    UniqueNumbers
CHECK_DEADLOCK FALSE
