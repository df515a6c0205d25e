SPECIFICATION Spec
CONSTANTS
    NLines = 2
    EarlyEvents = {"failed"}
    Triggers = {"refund"}
    Procs = {p1, p2}
    MaxFailures = 1
INVARIANT
    AckedMeansDone
CHECK_DEADLOCK FALSE
