SPECIFICATION Spec
CONSTANTS
    first = first
    Sales = {first, s2}
    Fee <- Fees
    Reversals = {t1}
    Share <- Shares
    Requests = {r1}
    Amount <- Amounts
    Procs = {p1, p2}
    Crons = {c1, c2}
    Window = 1
    MaxCalls = 2
    MaxFailures = 2
    None = None
INVARIANTS
    ReversalsAreWhole
    PayoutsAreAccountedFor
PROPERTIES
    ImplementsBook
CHECK_DEADLOCK FALSE
