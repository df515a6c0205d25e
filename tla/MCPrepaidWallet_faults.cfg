SPECIFICATION Spec
CONSTANTS
    page = page
    source = source
    Requests = {page, source}
    Ingestions = {source}
    Resent = {page}
    TopUps = {t1, t2}
    Procs = {p1, p2}
    Quote <- Quotes
    Actuals <- Costs
    TopUpCents = 3
    MaxAttempts = 2
    Faults = {"database", "reply", "crash", "source", "queue", "late"}
    NoRequest = NoRequest
    Open = Open
INVARIANT
    OutcomesArePaidFor
CHECK_DEADLOCK FALSE
