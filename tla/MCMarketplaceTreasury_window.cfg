SPECIFICATION Spec
CONSTANTS
    first = first
    Sales = {first, s2}
    Fee <- Fees
    Reversals = {}
    Share <- Shares
    Requests = {}
    Amount <- Amounts
    Procs = {p1, p2}
    Crons = {c1}
    Window = 1
    MaxCalls = 2
    MaxFailures = 0
    None = None
PROPERTIES
    EveryFeeMatures
CHECK_DEADLOCK FALSE
