SPECIFICATION Spec
CONSTANTS
    m1 = m1
    m2 = m2
    None = None
    Messages = {m1, m2}
    Turn <- InTurn
    Limit = 1
    Procs = {p1, p2}
    MaxDeliveries <- Deliveries
    MaxFaults = 1
SYMMETRY Handlers
INVARIANTS
    FlowHearsOnce
    NobodyIsForgotten
    AnsweredTwiceByExpiry
CHECK_DEADLOCK FALSE
