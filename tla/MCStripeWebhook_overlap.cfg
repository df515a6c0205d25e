SPECIFICATION Spec
CONSTANTS
    NLines = 2
    EarlyEvents = {"failed"}
    Triggers = {"refund"}
    Procs = {p1, p2}
    MaxFailures = 1
INVARIANTS
    UndoneOnlyIfForgone
    ReversedOnlyIfDistributed
    StatusesAreTrue
PROPERTIES
    SaleSettles
    ReversalCompletes
CHECK_DEADLOCK FALSE
