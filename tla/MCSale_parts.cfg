SPECIFICATION SaleSpec
CONSTANTS
    first = first
    retry = retry
    changed = changed
    cart = cart
    otherCart = otherCart
    None = None
    Placeholder = Placeholder
    Conflict = Conflict
    Error = Error
    Requests = {first, retry, changed}
    Bodies = {cart, otherCart}
    BodyOf <- TwoBodies
    Faulty = {retry}
    Mortal = {first}
    Expiring = TRUE
    MaxUses = 2
    sold = sold
    large = large
    small = small
    NoWork = NoWork
    Sales = {s1}
    Net <- TwoCents
    Withdrawals = {large, small}
    Grain = 10
    Amount <- LargeAndSmall
    Calls = {k1, k2}
    OrderOf <- SameOrder
    KindOf <- Chargebacks
    Orders = {sold}
    Debit <- OneCent
    Procs = {p1, p2}
    SaleInputs <- SmallSales
    Events = {e1, e2, e3}
INVARIANTS
    AnswersMatchBody
    StrandedOnlyByOverlap
    DebitsHaveCauses
    SplitConserves
    PlansAreExact
PROPERTIES
    SettledAddsNothing
    EveryRequestIsAnswered
    ImplementsBook
    WithdrawalsAreCovered
    ReversalsComplete
CHECK_DEADLOCK FALSE
