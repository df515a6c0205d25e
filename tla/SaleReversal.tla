---------------------------- MODULE SaleReversal ----------------------------
(***************************************************************************)
(* The refunds and disputes of one sale (connect-reversal.service and the  *)
(* webhook that calls it).  Every event is planned on its own, from the    *)
(* amounts of the sale's transfers and not from what is left of them; then *)
(* its lines are reversed at Stripe one after the other, the seller's      *)
(* first, and at last the treasury is debited with the rest of the event.  *)
(* Stripe refuses to reverse more than is left of a transfer: the webhook  *)
(* fails and Stripe sends the event again, for the same plan.              *)
(* Crashes between the steps are the subject of StripeWebhook; this module *)
(* is about the cents.                                                     *)
(***************************************************************************)
EXTENDS SplitEngine, FiniteSets

CONSTANTS
    SaleInputs, \* the sales to choose from
    Events      \* refunds and disputes that may happen

ASSUME SaleAssumption == SaleInputs \subseteq Sale /\ IsFiniteSet(Events)

VARIABLES
    sale,       \* the sale
    lines,      \* its transfers, as persisted when the sale was distributed
    requested,  \* cents refunded or disputed so far, at Stripe
    amount,     \* cents each event asks back, 0 before it happens
    plan,       \* what it takes of each line
    taken,      \* per event, the lines reversed so far
    closed,     \* events whose treasury debit is posted
    owed,       \* per line, the sum of the plans of all events
    reversed,   \* per line, cents reversed of its transfer, at Stripe
    treasury    \* cents debited from the treasury

reversalVars == <<sale, lines, requested, amount, plan, taken, closed, owed, reversed, treasury>>

NoCents == [l \in Roles |-> 0]

Due(e) == {l \in Roles : plan[e][l] > 0} \ taken[e]

\* The seller's transfer, then those of the fan-out in the order of the split.
Turn == [seller |-> 0, supplier |-> 1, affiliate |-> 2, coproducer |-> 3, manager |-> 4]

Happened == {e \in Events : amount[e] > 0}

ReversalInit ==
    /\ sale \in SaleInputs
    /\ lines = Split(sale)
    /\ requested = 0
    /\ amount = [e \in Events |-> 0]
    /\ plan = [e \in Events |-> NoCents]
    /\ taken = [e \in Events |-> {}]
    /\ closed = {}
    /\ owed = NoCents
    /\ reversed = NoCents
    /\ treasury = 0

\* Stripe refunds or disputes no more than was paid.  The plan depends only on
\* the event and the transfers, so it is the same at every delivery.
Ask(e, q) ==
    /\ e \notin Happened
    /\ requested + q <= sale.buyerPaid
    /\ requested' = requested + q
    /\ amount' = [amount EXCEPT ![e] = q]
    /\ plan' = [plan EXCEPT ![e] = Plan(lines, q, sale.buyerPaid)]
    /\ owed' = [l \in Roles |-> owed[l] + plan'[e][l]]
    /\ UNCHANGED <<sale, lines, taken, closed, reversed, treasury>>

\* Variant: a transfer is never reversed to its last cent.
LeavesACent(l, cents) == reversed[l] + cents < lines[l]

StripeAccepts(l, cents) == reversed[l] + cents <= lines[l]

\* One line of one event: the reversal, keyed by event and transfer, and the
\* ledger debit.  A refused line stops the event; its delivery is repeated.
ReverseLine(e, l) ==
    /\ l \in Due(e)
    /\ \A k \in Due(e) : Turn[l] <= Turn[k]
    /\ StripeAccepts(l, plan[e][l])
    /\ reversed' = [reversed EXCEPT ![l] = @ + plan[e][l]]
    /\ taken' = [taken EXCEPT ![e] = @ \cup {l}]
    /\ UNCHANGED <<sale, lines, requested, amount, plan, closed, owed, treasury>>

\* What the stakeholders do not bear.
MarketplaceDebit(e) == amount[e] - Total(plan[e])

Close(e) ==
    /\ e \in Happened \ closed
    /\ Due(e) = {}
    /\ treasury' = treasury + MarketplaceDebit(e)
    /\ closed' = closed \cup {e}
    /\ UNCHANGED <<sale, lines, requested, amount, plan, taken, owed, reversed>>

Process(e) == Close(e) \/ \E l \in Roles : ReverseLine(e, l)

ReversalNext ==
    \E e \in Events : Process(e) \/ \E q \in 1 .. sale.buyerPaid : Ask(e, q)

\* Stripe repeats a delivery until it is answered.
ReversalFairness == \A e \in Events : WF_reversalVars(Process(e))

ReversalSpec == ReversalInit /\ [][ReversalNext]_reversalVars /\ ReversalFairness

----------------------------------------------------------------------------
\* Every cent the buyer paid has exactly one owner: the split's parts, none
\* of them negative, and Kloel's own add up to the price, whatever the fee, the
\* interest, the supplier's amount and the percentages, which may add up to
\* more than 100.
SplitConserves ==
    /\ lines \in [Roles -> Nat]
    /\ Total(lines) + KloelTotal(sale) = sale.buyerPaid

\* The largest-remainder rounding is exact: each event's lines add up to the
\* stakeholders' share of it rounded down once, and none is more than a cent
\* from its own share.
PlansAreExact ==
    \A e \in Happened :
        /\ Total(plan[e]) = (Total(lines) * amount[e]) \div sale.buyerPaid
        /\ \A l \in Roles :
            /\ plan[e][l] * sale.buyerPaid > lines[l] * amount[e] - sale.buyerPaid
            /\ plan[e][l] * sale.buyerPaid < lines[l] * amount[e] + sale.buyerPaid

\* Only rounding blocks a reversal: every refund and dispute is completed,
\* unless the plans together ask for more than some transfer.
ReversalsComplete ==
    \A e \in Events :
        (e \in Happened) ~> (e \in closed \/ \E l \in Roles : owed[l] > lines[l])
=============================================================================
