SPECIFICATION ConnectSpec
CONSTANTS
    seller = seller
    other = other
    saleA = saleA
    payoutA = payoutA
    refundA = refundA
    disputeB = disputeB
    failedA = failedA
    viaApi = viaApi
    first = first
    again = again
    Accounts = {seller}
    Refs = {saleA, payoutA, refundA, disputeB, failedA}
    Callers = {p1, p2}
    Postings <- OneAccount
    NoJob = NoJob
    Payees = {seller, other}
    Direct = {viaApi, again}
    Supplied = {again}
    Approvals = {first}
    IdOf <- Ids
    AccountOf <- Payers
    Amount <- TwoAndOne
    Funds <- TightFunds
    Procs = {p1, p2}
    Calls = 2
    Mishaps = 0
    Faults = {}
    NoRequest = NoRequest
INVARIANT OnePayoutOneDebit
CHECK_DEADLOCK FALSE
