--------------------------- MODULE ConnectPayout ---------------------------
(***************************************************************************)
(* Payouts of a connected account's AVAILABLE balance, by the direct       *)
(* endpoint and by approval requests an administrator answers              *)
(* (payments/connect).  createPayout talks to the ledger and to Stripe in  *)
(* turn, and every await of it is a step here:                             *)
(*                                                                         *)
(*   opened  --CheckAvailable-->  checked  --RetrieveAccount-->  enabled   *)
(*   --Debit-->  debited  --CreatePayout-->  created | refused             *)
(*   refused  --ReturnCents-->  the error is rethrown                      *)
(*                                                                         *)
(* A request stands for the id, the account and the cents a call names:    *)
(* the endpoint takes the three apart, so requests may share an id.  The   *)
(* id is the reference of the ledger rows, whatever account they are on,   *)
(* and with the account the idempotency key at Stripe.  A ledger operation *)
(* is one step here and skips a reference already posted; what happens     *)
(* inside one is the subject of ConnectLedger.  Stripe is external: a      *)
(* payout is created at most once for a key, a reply can be lost, and a    *)
(* payout that fails later is announced by the payout.failed webhook, as   *)
(* often as it takes until it is answered 200.                             *)
(***************************************************************************)
EXTENDS Cents

CONSTANTS
    Payees,     \* connected accounts with a balance row
    Direct,     \* requests to the direct endpoint
    Supplied,   \* those with an id of the client's choice, sent any number of times
    Approvals,  \* approval requests
    IdOf,       \* the id of a request
    AccountOf,  \* the account it pays out of
    Amount,     \* and its cents
    Funds,      \* AVAILABLE of each account at the start
    Procs,      \* handlers running at the same time
    Faults,     \* what the environment may do wrong
    Calls,      \* bound: how often createPayout is called
    Mishaps,    \* bound: how many requests and payouts it does wrong to
    NoRequest   \* the request of an idle handler

Requests == Direct \cup Approvals

SameId(r) == {q \in Requests : IdOf[q] = IdOf[r]}

\* Generated ids are unique; a client may name any.
ASSUME PayoutAssumption ==
    /\ Supplied \subseteq Direct
    /\ Direct \cap Approvals = {}
    /\ \A r \in Requests \ Supplied : SameId(r) \subseteq Supplied \cup {r}
    /\ AccountOf \in [Requests -> Payees]
    /\ Amount \in [Requests -> Nat \ {0}]
    /\ Funds \in [Payees -> Nat]
    /\ Faults \subseteq {"crash", "lostReply", "returnFails", "noticeFails"}
    /\ Calls \in Nat /\ Mishaps \in Nat
    /\ NoRequest \notin Requests

VARIABLES
    available,  \* the ledger's AVAILABLE balance of each account
    debits,     \* requests that posted a DEBIT_PAYOUT row (payout, id)
    returns,    \* those that posted an ADJUSTMENT row (payout_failed_request, id)
    credits,    \* requests whose payout has an ADJUSTMENT row (payout_failed, payoutId)
    approval,   \* the state of each approval request
    payout,     \* Stripe's payout for each request
    phase,      \* the step each handler has reached
    task,       \* the request it works on
    claimed,    \* payouts with a claim on their payout.failed event
    handling,   \* payouts whose event is being handled
    acked,      \* payouts whose event was answered 200
    calls,      \* history: the number of calls of createPayout
    begun,      \* history: requests it was called for
    repeated,   \* history: requests whose id was called more than once
    unheard,    \* history: requests for which Stripe's reply was lost
    broken,     \* history: requests hit by a crash or a failed compensation
    thrown,     \* history: payouts whose event a handler failed on
    skipped     \* history: payouts whose event was answered 200 as a duplicate

ledger == <<available, debits, returns, credits>>
webhook == <<claimed, handling, acked, thrown, skipped>>
history == <<calls, begun, repeated, unheard, broken>>
vars == <<ledger, approval, payout, phase, task, webhook, history>>

Phases == {"idle", "asking", "rejecting", "opened", "checked", "enabled",
           "debited", "created", "refused", "threw"}

Init ==
    /\ available = Funds
    /\ debits = {} /\ returns = {} /\ credits = {}
    /\ approval = [r \in Approvals |-> "NONE"]
    /\ payout = [r \in Requests |-> "none"]
    /\ phase = [p \in Procs |-> "idle"]
    /\ task = [p \in Procs |-> NoRequest]
    /\ claimed = {} /\ handling = {} /\ acked = {} /\ thrown = {} /\ skipped = {}
    /\ calls = 0 /\ begun = {} /\ repeated = {} /\ unheard = {} /\ broken = {}

Start(p, r, ph) ==
    /\ phase[p] = "idle"
    /\ phase' = [phase EXCEPT ![p] = ph]
    /\ task' = [task EXCEPT ![p] = r]

GoTo(p, ph) ==
    /\ phase' = [phase EXCEPT ![p] = ph]
    /\ UNCHANGED task

Finish(p) ==
    /\ phase' = [phase EXCEPT ![p] = "idle"]
    /\ task' = [task EXCEPT ![p] = NoRequest]

MayFail(fault) ==
    /\ fault \in Faults
    /\ Cardinality(unheard) + Cardinality(broken) + Cardinality(thrown) < Mishaps

\* createPayout throws: the direct endpoint passes the error on, approveRequest
\* first records the failure.
Throw(p) == IF task[p] \in Approvals THEN GoTo(p, "threw") ELSE Finish(p)

Covers(r) == available[AccountOf[r]] >= Amount[r]

\* Whether a row of the kind has the request's id.
HasRow(posters, r) == posters \cap SameId(r) # {}

\* createPayout is called.
Call(p, r) ==
    /\ calls < Calls
    /\ Start(p, r, "opened")
    /\ calls' = calls + 1
    /\ begun' = begun \cup {r}
    /\ repeated' = IF HasRow(begun, r) THEN repeated \cup SameId(r) ELSE repeated
    /\ UNCHANGED <<ledger, approval, payout, webhook, unheard, broken>>

----------------------------------------------------------------------------
(***************************************************************************)
(* Approval requests.                                                      *)
(***************************************************************************)

\* createRequest refuses when AVAILABLE is too small or an OPEN request of
\* the account exists.  The request id is freshly generated.
NoneOpen(account) ==
    \A q \in Approvals : AccountOf[q] = account => approval[q] # "OPEN"

AskApproval(p, r) ==
    /\ approval[r] = "NONE"
    /\ \A q \in Procs : task[q] # r
    /\ Covers(r)
    /\ NoneOpen(AccountOf[r])
    /\ Start(p, r, "asking")
    /\ UNCHANGED <<ledger, approval, payout, webhook, history>>

CreateApproval(p) ==
    /\ phase[p] = "asking"
    /\ approval' = [approval EXCEPT ![task[p]] = "OPEN"]
    /\ Finish(p)
    /\ UNCHANGED <<ledger, payout, webhook, history>>

\* Both answers read the request, want it OPEN, and later update it by id
\* whatever its state has become.
Approve(p, r) ==
    /\ approval[r] = "OPEN"
    /\ Call(p, r)

Reject(p, r) ==
    /\ approval[r] = "OPEN"
    /\ Start(p, r, "rejecting")
    /\ UNCHANGED <<ledger, approval, payout, webhook, history>>

Answer(p, ph, verdict) ==
    /\ phase[p] = ph
    /\ approval' = [approval EXCEPT ![task[p]] = verdict]
    /\ Finish(p)
    /\ UNCHANGED <<ledger, payout, webhook, history>>

RecordRejected(p) == Answer(p, "rejecting", "REJECTED")
RecordFailed(p) == Answer(p, "threw", "FAILED")
RecordApproved(p) == task[p] \in Approvals /\ Answer(p, "created", "APPROVED")

----------------------------------------------------------------------------
(***************************************************************************)
(* createPayout.                                                           *)
(***************************************************************************)

\* An id the server generates is known once the request that has it exists.
Known(r) ==
    \A q \in SameId(r) \ Supplied :
        q \in begun \/ (q \in Approvals /\ approval[q] # "NONE")

\* The direct endpoint: it generates an id, or takes the one of the body with
\* whatever account and amount are beside it.
Submit(p, r) ==
    /\ IF r \in Supplied THEN Known(r) ELSE r \notin begun
    /\ Call(p, r)

\* A balance read of its own, before and apart from the debit.  It also
\* applies to a request that has been debited already.
CheckAvailable(p) ==
    /\ phase[p] = "opened"
    /\ IF Covers(task[p]) THEN GoTo(p, "checked") ELSE Throw(p)
    /\ UNCHANGED <<ledger, approval, payout, webhook, history>>

\* Variant: the debit is forgotten.
RetrieveAccountNoDebit(p) ==
    /\ phase[p] = "checked"
    /\ GoTo(p, "debited") \/ Throw(p)
    /\ UNCHANGED <<ledger, approval, payout, webhook, history>>

\* accounts.retrieve: it may fail, and payouts_enabled may be false.
RetrieveAccount(p) ==
    /\ phase[p] = "checked"
    /\ GoTo(p, "enabled") \/ Throw(p)
    /\ UNCHANGED <<ledger, approval, payout, webhook, history>>

\* debitAvailableForPayout: an id posted once is not posted again, nor for
\* another account or amount.
Debit(p) ==
    LET r == task[p]
    IN  /\ phase[p] = "enabled"
        /\ \/ /\ HasRow(debits, r)
              /\ GoTo(p, "debited")
              /\ UNCHANGED ledger
           \/ /\ ~ HasRow(debits, r)
              /\ Covers(r)
              /\ available' = [available EXCEPT ![AccountOf[r]] = @ - Amount[r]]
              /\ debits' = debits \cup {r}
              /\ GoTo(p, "debited")
              /\ UNCHANGED <<returns, credits>>
           \/ \* too little left, or the transaction was rolled back
              /\ ~ HasRow(debits, r)
              /\ Throw(p)
              /\ UNCHANGED ledger
        /\ UNCHANGED <<approval, payout, webhook, history>>

\* Stripe's payouts under the key, and whether one is what the request asks for.
UnderKey(r) == {q \in SameId(r) : AccountOf[q] = AccountOf[r] /\ payout[q] # "none"}
Exists(r) == \E q \in UnderKey(r) : Amount[q] = Amount[r]

\* Stripe creates the payout, or returns the one it has under the key.
Accepted(r) ==
    \/ UnderKey(r) = {} /\ payout' = [payout EXCEPT ![r] = "pending"]
    \/ Exists(r) /\ UNCHANGED payout

CreatePayout(p) ==
    LET r == task[p]
    IN  /\ phase[p] = "debited"
        /\ \/ Accepted(r) /\ GoTo(p, "created") /\ UNCHANGED unheard
           \/ \* refused, or another payout exists under the key
              /\ ~ Exists(r)
              /\ GoTo(p, "refused")
              /\ UNCHANGED <<payout, unheard>>
           \/ \* carried out, but the reply never comes
              /\ MayFail("lostReply")
              /\ Accepted(r)
              /\ GoTo(p, "refused")
              /\ unheard' = unheard \cup {r}
        /\ UNCHANGED <<ledger, approval, webhook, calls, begun, repeated, broken>>

\* Variant: the catch only rethrows.
ReturnNothing(p) ==
    /\ phase[p] = "refused"
    /\ Throw(p)
    /\ UNCHANGED <<ledger, approval, payout, webhook, history>>

\* The catch: creditAvailableByAdjustment, then rethrow.
ReturnCents(p) ==
    LET r == task[p]
    IN  /\ phase[p] = "refused"
        /\ \/ /\ HasRow(returns, r)
              /\ UNCHANGED <<ledger, broken>>
           \/ /\ ~ HasRow(returns, r)
              /\ available' = [available EXCEPT ![AccountOf[r]] = @ + Amount[r]]
              /\ returns' = returns \cup {r}
              /\ UNCHANGED <<debits, credits, broken>>
           \/ /\ MayFail("returnFails")
              /\ broken' = broken \cup {r}
              /\ UNCHANGED ledger
        /\ Throw(p)
        /\ UNCHANGED <<approval, payout, webhook, calls, begun, repeated, unheard>>

\* The direct endpoint answers with the payout.
Respond(p) ==
    /\ phase[p] = "created"
    /\ task[p] \in Direct
    /\ Finish(p)
    /\ UNCHANGED <<ledger, approval, payout, webhook, history>>

----------------------------------------------------------------------------
(***************************************************************************)
(* Stripe, its webhook, and crashes.                                       *)
(***************************************************************************)
SettleAtStripe(r) ==
    /\ payout[r] = "pending"
    /\ \E outcome \in {"paid", "failed"} : payout' = [payout EXCEPT ![r] = outcome]
    /\ UNCHANGED <<ledger, approval, phase, task, webhook, history>>

\* Stripe delivers payout.failed until it is answered 200.  The delivery claims
\* the event, or is answered 200 as a duplicate as long as a claim is held.
Deliver(r) ==
    /\ payout[r] = "failed" /\ r \notin acked
    /\ IF r \in claimed
       THEN /\ acked' = acked \cup {r} /\ skipped' = skipped \cup {r}
            /\ UNCHANGED <<claimed, handling>>
       ELSE /\ claimed' = claimed \cup {r} /\ handling' = handling \cup {r}
            /\ UNCHANGED <<acked, skipped>>
    /\ UNCHANGED <<ledger, approval, payout, phase, task, thrown, history>>

\* The claim lasts 300 seconds, and nothing else takes it away.  Once the event
\* is acknowledged nobody looks for it.
ClaimExpires(r) ==
    /\ r \in claimed \ acked
    /\ claimed' = claimed \ {r}
    /\ UNCHANGED <<ledger, approval, payout, phase, task, handling, acked, thrown, skipped, history>>

\* A handler of the event throws, or dies; the claim stays.
ThrowNotice(r) ==
    /\ MayFail("noticeFails")
    /\ thrown' = thrown \cup {r}
    /\ UNCHANGED acked

\* The handler is done, and throws or answers 200.
EndNotice(r) ==
    /\ r \in handling
    /\ handling' = handling \ {r}
    /\ \/ ThrowNotice(r)
       \/ acked' = acked \cup {r} /\ UNCHANGED thrown
    /\ UNCHANGED <<debits, returns, approval, payout, phase, task, claimed, skipped, history>>

CreditBack(r) ==
    /\ available' = [available EXCEPT ![AccountOf[r]] = @ + Amount[r]]
    /\ credits' = credits \cup {r}

\* Variant: only payouts that were approved are credited back.
HandleFailedApprovalOnly(r) ==
    /\ EndNotice(r)
    /\ IF r \in Approvals \ credits THEN CreditBack(r) ELSE UNCHANGED <<available, credits>>

\* Variant: every delivery of payout.failed credits the cents again.
HandleFailedPayoutAgain(r) == EndNotice(r) /\ CreditBack(r)

\* The payout.failed webhook: the credit, unless its row exists, and then an
\* audit entry that may throw.
HandleFailedPayout(r) ==
    /\ EndNotice(r)
    /\ IF r \in credits THEN UNCHANGED <<available, credits>> ELSE CreditBack(r)

\* The handler gets no further than the credit.
FailNotice(r) ==
    /\ r \in handling
    /\ handling' = handling \ {r}
    /\ ThrowNotice(r)
    /\ UNCHANGED <<ledger, approval, payout, phase, task, claimed, skipped, history>>

\* The server dies, or the update of the approval request fails.
Crash(p) ==
    /\ MayFail("crash")
    /\ phase[p] # "idle"
    /\ broken' = broken \cup {task[p]}
    /\ Finish(p)
    /\ UNCHANGED <<ledger, approval, payout, webhook, calls, begun, repeated, unheard>>

Handle(p) ==
    \/ CreateApproval(p) \/ RecordRejected(p) \/ RecordFailed(p) \/ RecordApproved(p)
    \/ CheckAvailable(p) \/ RetrieveAccount(p) \/ Debit(p) \/ CreatePayout(p)
    \/ ReturnCents(p) \/ Respond(p)

Next ==
    \/ \E p \in Procs :
        \/ \E r \in Approvals : AskApproval(p, r) \/ Approve(p, r) \/ Reject(p, r)
        \/ \E r \in Direct : Submit(p, r)
        \/ Handle(p)
        \/ Crash(p)
    \/ \E r \in Requests :
        SettleAtStripe(r) \/ Deliver(r) \/ ClaimExpires(r) \/ HandleFailedPayout(r) \/ FailNotice(r)

\* A handler that has begun goes on, one of the webhook included, and Stripe
\* settles its payouts and delivers payout.failed until it is answered 200.
Fairness ==
    /\ \A p \in Procs : WF_vars(Handle(p))
    /\ \A r \in Requests :
        WF_vars(SettleAtStripe(r) \/ Deliver(r)) /\ WF_vars(HandleFailedPayout(r))

Spec == Init /\ [][Next]_vars /\ Fairness

----------------------------------------------------------------------------
\* The types of the variables; AVAILABLE never becomes negative, though it is
\* checked in one transaction and debited in another.
TypeOK ==
    /\ available \in [Payees -> Nat]
    /\ debits \subseteq Requests
    /\ returns \subseteq Requests
    /\ credits \subseteq Requests
    /\ approval \in [Approvals -> {"NONE", "OPEN", "APPROVED", "REJECTED", "FAILED"}]
    /\ payout \in [Requests -> {"none", "pending", "paid", "failed"}]
    /\ phase \in [Procs -> Phases]
    /\ task \in [Procs -> Requests \cup {NoRequest}]
    /\ \A p \in Procs : phase[p] # "idle" <=> task[p] # NoRequest
    /\ claimed \cup handling \cup acked \cup thrown \cup skipped \subseteq Requests
    /\ calls \in 0..Calls
    /\ begun \cup repeated \cup unheard \cup broken \subseteq Requests

\* One payout, one ledger debit, however often the id is sent.  The code does
\* not keep this: an id refused once, or spent on another account, pays without.
OnePayoutOneDebit ==
    \A r \in Requests : payout[r] # "none" => r \in debits \ returns

\* Stripe has a payout without a standing debit of the same account and cents
\* only if the id was called more than once or Stripe's reply was lost: never
\* by a crash, a failed compensation, or requests with other ids, in whatever
\* state they are.  And an approval request ends APPROVED only if its payout
\* exists, even then.
PaidAgainstADebit ==
    /\ \A r \in Requests \ (repeated \cup unheard) :
        payout[r] # "none" => r \in debits \ returns
    /\ \A r \in Approvals : approval[r] = "APPROVED" => Exists(r)

\* What happened to a request that should not.
irregular == repeated \cup unheard \cup broken

\* One payout, one ledger debit: Stripe has a payout exactly when the debit
\* stands, that is, was not returned by the catch of createPayout.
Agrees(r) == payout[r] # "none" <=> r \in debits \ returns

Quiet(r) == \A p \in Procs : task[p] # r

\* Cents that are both paid out and returned, or debited and neither, have one
\* of four causes: createPayout was called again for the id, a handler died,
\* Stripe's reply was lost, or the compensating credit failed.  Interference
\* between requests of different ids is never one.
DeviationsHaveCauses ==
    \A r \in Requests \ irregular : Quiet(r) => Agrees(r)

\* The state of an approval request tells what became of the money: unless it
\* was answered twice or met a fault, a request that FAILED has no payout and
\* withholds nothing, and it is FAILED that way in every interleaving.
VerdictsAreTrue ==
    \A r \in Approvals \ irregular :
        approval[r] = "FAILED" => payout[r] = "none" /\ r \notin debits \ returns

RequestsOf(a) == {r \in Requests : AccountOf[r] = a}

\* Stripe has paid these or is about to.
Alive == {r \in Requests : payout[r] \in {"pending", "paid"}}

\* An account's owner never gets more than the account held: as long as no
\* request of the account was repeated or met a fault, what Stripe has paid or
\* is about to pay, together with what is still available, stays within the
\* funds the account started with, in every intermediate state.
PaidWithinFunds ==
    \A a \in Payees :
        RequestsOf(a) \cap irregular = {} =>
            available[a] + Worth(Amount, RequestsOf(a) \cap Alive) <= Funds[a]

\* Debited cents are eventually paid out or back in AVAILABLE, unless a fault or
\* a second call came between, or the announcement of the failed payout was
\* answered 200 as a duplicate of one whose handler failed: the claim outlives
\* it, and the cents are then lost to the account.
EveryDebitSettles ==
    \A r \in Requests :
        r \in debits ~> \/ payout[r] = "paid" \/ r \in returns \cup credits
                        \/ r \in irregular \/ r \in thrown \cap skipped
=============================================================================
