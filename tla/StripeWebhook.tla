--------------------------- MODULE StripeWebhook ---------------------------
(***************************************************************************)
(* The Stripe webhook of one marketplace sale                              *)
(* (webhooks/payment-webhook.controller.ts): the life of its payment       *)
(* intent, and the refund and dispute that may follow.                     *)
(*                                                                         *)
(* A delivery first claims the event id in Redis (SET NX, five minutes).   *)
(* The claim is taken before the work is done and is not released when the *)
(* work fails; a delivery that finds a claim is answered 200 at once.      *)
(* Every await of the handler is a step here and may throw, in which case  *)
(* Stripe sees an error and delivers the event again, until it is answered *)
(* 200.  Events can overtake one another.                                  *)
(*                                                                         *)
(* Transfers and reversals at Stripe carry idempotency keys, ledger and    *)
(* treasury rows are unique per key, so each is a set here.  A refund and  *)
(* a dispute of the same sale together do not exceed the transfers, and    *)
(* each also takes back part of the marketplace's fee.  A sale has a fee   *)
(* and every line an amount and a local balance row.  The kloelSale row,   *)
(* which mirrors the payment, is left out.  The histories leave out the    *)
(* early events, which move no money.                                      *)
(***************************************************************************)
EXTENDS Naturals

CONSTANTS
    NLines,         \* stakeholders the sale is split among
    EarlyEvents,    \* events of the intent other than succeeded
    Triggers,       \* events that reverse the sale
    Procs,          \* handlers running at the same time
    MaxFailures     \* bound on the failures in a behaviour

Lines == 1..NLines
Events == EarlyEvents \cup {"succeeded"} \cup Triggers

ASSUME WebhookAssumption ==
    /\ NLines \in Nat \ {0}
    /\ EarlyEvents \subseteq {"processing", "failed", "canceled"}
    /\ Triggers \subseteq {"refund", "dispute"}
    /\ MaxFailures \in Nat

VARIABLES
    emitted,    \* events Stripe has created
    acked,      \* those answered 200, never delivered again
    claims,     \* events claimed in Redis, until they are acknowledged
    phase,      \* the step each handler has reached
    event,      \* the event it handles
    line,       \* the split line it has reached
    transfers,  \* lines transferred at Stripe
    credits,    \* lines credited in the ledger
    snapshot,   \* is connectPostSale stored with the payment?
    fee,        \* is the marketplace's fee credited?
    reversed,   \* lines reversed at Stripe, by trigger
    debited,    \* lines debited in the ledger, by trigger
    residue,    \* treasury debits, by trigger
    payment,    \* status of the checkout payment
    order,      \* status of the checkout order
    failures,   \* failures so far
    thrown,     \* history: events a handler threw on and none has finished
    skipped     \* history: events answered 200 as duplicates

delivery == <<emitted, acked, claims, skipped>>
handler == <<phase, event, line>>
sale == <<transfers, credits, snapshot, fee>>
reversal == <<reversed, debited, residue>>
status == <<payment, order>>
vars == <<delivery, handler, sale, reversal, status, failures, thrown>>

Phases == {"idle", "early", "earlyOrder", "transfer", "credit", "snapshot", "fee",
           "approve", "order", "toProcessing", "toPaid", "load", "reverse", "debit",
           "reversedStatus", "residue", "whole", "pending", "available", "done"}

Init ==
    /\ emitted = {} /\ acked = {} /\ claims = {}
    /\ phase = [p \in Procs |-> "idle"]
    /\ event = [p \in Procs |-> "none"]
    /\ line = [p \in Procs |-> 1]
    /\ transfers = {} /\ credits = {} /\ snapshot = FALSE /\ fee = FALSE
    /\ reversed = [t \in Triggers |-> {}]
    /\ debited = [t \in Triggers |-> {}]
    /\ residue = [t \in Triggers |-> {}]
    /\ payment = "PENDING"
    /\ order = "PENDING"
    /\ failures = 0
    /\ thrown = {} /\ skipped = {}

----------------------------------------------------------------------------
(***************************************************************************)
(* Stripe and the claim.                                                   *)
(***************************************************************************)

\* An intent succeeds or is cancelled, not both, and only a sale that
\* succeeded is refunded or disputed.
Emit(e) ==
    /\ e \in Events \ emitted
    /\ e \in EarlyEvents => "succeeded" \notin emitted
    /\ e = "succeeded" => "canceled" \notin emitted
    /\ e \in Triggers => "succeeded" \in emitted
    /\ emitted' = emitted \cup {e}
    /\ UNCHANGED <<acked, claims, skipped, handler, sale, reversal, status, failures, thrown>>

FirstPhase(e) ==
    IF e = "succeeded" THEN "transfer" ELSE IF e \in Triggers THEN "load" ELSE "early"

Deliver(p, e) ==
    /\ e \in emitted \ acked
    /\ e \notin claims
    /\ phase[p] = "idle"
    /\ claims' = claims \cup {e}
    /\ phase' = [phase EXCEPT ![p] = FirstPhase(e)]
    /\ event' = [event EXCEPT ![p] = e]
    /\ line' = [line EXCEPT ![p] = 1]
    /\ UNCHANGED <<emitted, acked, skipped, sale, reversal, status, failures, thrown>>

\* ensureIdempotent finds the claim and the delivery is answered 200.
DeliverDuplicate(e) ==
    /\ e \in (emitted \ acked) \cap claims
    /\ acked' = acked \cup {e}
    /\ skipped' = skipped \cup ({e} \ EarlyEvents)
    /\ claims' = claims \ {e}
    /\ UNCHANGED <<emitted, handler, sale, reversal, status, failures, thrown>>

\* The claim of an event that is never delivered again does not matter.
Expire(e) ==
    /\ e \in claims \ acked
    /\ claims' = claims \ {e}
    /\ UNCHANGED <<emitted, acked, skipped, handler, sale, reversal, status, failures, thrown>>

GoTo(p, ph) ==
    /\ phase' = [phase EXCEPT ![p] = ph]
    /\ UNCHANGED <<event, line>>

Stop(p) ==
    /\ phase' = [phase EXCEPT ![p] = "idle"]
    /\ event' = [event EXCEPT ![p] = "none"]
    /\ line' = [line EXCEPT ![p] = 1]

\* To the next split line, or on to ph after the last.
NextLine(p, loop, ph) ==
    /\ phase' = [phase EXCEPT ![p] = IF line[p] < NLines THEN loop ELSE ph]
    /\ line' = [line EXCEPT ![p] = IF @ < NLines THEN @ + 1 ELSE 1]
    /\ UNCHANGED event

\* An await throws, the server dies, or the reply is lost on its way.
Throw(p) ==
    /\ phase[p] # "idle"
    /\ failures < MaxFailures
    /\ failures' = failures + 1
    /\ thrown' = thrown \cup ({event[p]} \ EarlyEvents)
    /\ Stop(p)
    /\ UNCHANGED <<delivery, sale, reversal, status>>

Acknowledge(p) ==
    /\ phase[p] = "done"
    /\ acked' = acked \cup {event[p]}
    /\ claims' = claims \ {event[p]}
    /\ thrown' = thrown \ {event[p]}
    /\ Stop(p)
    /\ UNCHANGED <<emitted, skipped, sale, reversal, status, failures>>

----------------------------------------------------------------------------
(***************************************************************************)
(* payment_intent.processing, payment_failed and canceled.                 *)
(***************************************************************************)
EarlyStatus(e) ==
    [processing |-> "PROCESSING", failed |-> "DECLINED", canceled |-> "CANCELED"][e]

\* The update of the payment; its errors are swallowed.
EarlyPayment(p) ==
    /\ phase[p] = "early"
    /\ \/ payment' = EarlyStatus(event[p]) /\ UNCHANGED failures
       \/ /\ failures < MaxFailures
          /\ failures' = failures + 1
          /\ UNCHANGED payment
    /\ GoTo(p, "earlyOrder")
    /\ UNCHANGED <<delivery, sale, reversal, order, thrown>>

\* A failed payment leaves the order alone.
EarlyOrder(p) ==
    /\ phase[p] = "earlyOrder"
    /\ order' = IF event[p] = "failed" THEN order ELSE EarlyStatus(event[p])
    /\ GoTo(p, "done")
    /\ UNCHANGED <<delivery, sale, reversal, payment, failures, thrown>>

(***************************************************************************)
(* payment_intent.succeeded: for each line a transfer and a ledger credit, *)
(* then the reversal snapshot, the marketplace fee and the statuses.       *)
(***************************************************************************)
Transfer(p) ==
    /\ phase[p] = "transfer"
    /\ transfers' = transfers \cup {line[p]}
    /\ GoTo(p, "credit")
    /\ UNCHANGED <<delivery, credits, snapshot, fee, reversal, status, failures, thrown>>

\* Variant: a credit that fails is logged and the loop goes on.
CreditSwallowingErrors(p) ==
    /\ phase[p] = "credit"
    /\ \/ credits' = credits \cup {line[p]}
       \/ UNCHANGED credits
    /\ NextLine(p, "transfer", "snapshot")
    /\ UNCHANGED <<delivery, transfers, snapshot, fee, reversal, status, failures, thrown>>

Credit(p) ==
    /\ phase[p] = "credit"
    /\ credits' = credits \cup {line[p]}
    /\ NextLine(p, "transfer", "snapshot")
    /\ UNCHANGED <<delivery, transfers, snapshot, fee, reversal, status, failures, thrown>>

\* Variant: the fee is credited after the sale is approved.
SnapshotThenApprove(p) ==
    /\ phase[p] = "snapshot"
    /\ snapshot' = TRUE
    /\ GoTo(p, "approve")
    /\ UNCHANGED <<delivery, transfers, credits, fee, reversal, status, failures, thrown>>

PersistSnapshot(p) ==
    /\ phase[p] = "snapshot"
    /\ snapshot' = TRUE
    /\ GoTo(p, "fee")
    /\ UNCHANGED <<delivery, transfers, credits, fee, reversal, status, failures, thrown>>

CreditFee(p) ==
    /\ phase[p] = "fee"
    /\ fee' = TRUE
    /\ GoTo(p, "approve")
    /\ UNCHANGED <<delivery, transfers, credits, snapshot, reversal, status, failures, thrown>>

\* The payment becomes APPROVED whatever it was; errors are swallowed.
ApprovePayment(p) ==
    /\ phase[p] = "approve"
    /\ \/ payment' = "APPROVED" /\ UNCHANGED failures
       \/ /\ failures < MaxFailures
          /\ failures' = failures + 1
          /\ UNCHANGED payment
    /\ GoTo(p, "order")
    /\ UNCHANGED <<delivery, sale, reversal, order, thrown>>

\* The order's status is read, and written by a later statement.
ReadOrder(p) ==
    /\ phase[p] = "order"
    /\ GoTo(p, IF order \in {"PROCESSING", "PAID"} THEN "toPaid" ELSE "toProcessing")
    /\ UNCHANGED <<delivery, sale, reversal, status, failures, thrown>>

WriteOrder(p) ==
    /\ phase[p] \in {"toPaid", "toProcessing"}
    /\ order' = IF phase[p] = "toPaid" THEN "PAID" ELSE "PROCESSING"
    /\ GoTo(p, "done")
    /\ UNCHANGED <<delivery, sale, reversal, payment, failures, thrown>>

----------------------------------------------------------------------------
(***************************************************************************)
(* refund.created and charge.dispute.created.                              *)
(***************************************************************************)

\* Variant: a missing snapshot is taken to mean that nothing was transferred.
LoadSnapshotOrDefault(p) ==
    /\ phase[p] = "load"
    /\ GoTo(p, "reverse")
    /\ UNCHANGED <<delivery, sale, reversal, status, failures, thrown>>

\* Variant: a missing snapshot is acknowledged, there being nothing to reverse.
LoadSnapshotOrSkip(p) ==
    /\ phase[p] = "load"
    /\ IF snapshot THEN GoTo(p, "reverse") ELSE GoTo(p, "done")
    /\ UNCHANGED <<delivery, sale, reversal, status, failures, thrown>>

\* Without a snapshot the handler throws.
LoadSnapshot(p) ==
    /\ phase[p] = "load"
    /\ \/ snapshot /\ GoTo(p, "reverse") /\ UNCHANGED thrown
       \/ ~ snapshot /\ Stop(p) /\ thrown' = thrown \cup ({event[p]} \ EarlyEvents)
    /\ UNCHANGED <<delivery, sale, reversal, status, failures>>

ReverseTransfer(p) ==
    /\ phase[p] = "reverse"
    /\ reversed' = [reversed EXCEPT ![event[p]] = @ \cup {line[p]}]
    /\ GoTo(p, "debit")
    /\ UNCHANGED <<delivery, sale, debited, residue, status, failures, thrown>>

DebitStakeholder(p) ==
    /\ phase[p] = "debit"
    /\ debited' = [debited EXCEPT ![event[p]] = @ \cup {line[p]}]
    /\ NextLine(p, "reverse", "reversedStatus")
    /\ UNCHANGED <<delivery, sale, reversed, residue, status, failures, thrown>>

ReversedStatus(t) == IF t = "refund" THEN "REFUNDED" ELSE "CHARGEBACK"

\* Payment and order in one transaction.
MarkReversed(p) ==
    /\ phase[p] = "reversedStatus"
    /\ payment' = ReversedStatus(event[p])
    /\ order' = ReversedStatus(event[p])
    /\ GoTo(p, "residue")
    /\ UNCHANGED <<delivery, sale, reversal, failures, thrown>>

\* What the stakeholders did not bear is debited from the treasury: from the
\* bucket that holds it, or from both under two keys of their own.  The split
\* follows from a read of the treasury's balance, made anew in every attempt.
SplitResidue(p) ==
    /\ phase[p] = "residue"
    /\ GoTo(p, "whole") \/ GoTo(p, "pending")
    /\ UNCHANGED <<delivery, sale, reversal, status, failures, thrown>>

\* Variant: the part that is in AVAILABLE is forgotten.
DebitOneBucket(p) ==
    /\ phase[p] \in {"whole", "pending", "available"}
    /\ residue' = [residue EXCEPT ![event[p]] = @ \cup {phase[p]}]
    /\ GoTo(p, "done")
    /\ UNCHANGED <<delivery, sale, reversed, debited, status, failures, thrown>>

DebitResidue(p) ==
    /\ phase[p] \in {"whole", "pending", "available"}
    /\ residue' = [residue EXCEPT ![event[p]] = @ \cup {phase[p]}]
    /\ GoTo(p, IF phase[p] = "pending" THEN "available" ELSE "done")
    /\ UNCHANGED <<delivery, sale, reversed, debited, status, failures, thrown>>

----------------------------------------------------------------------------
Handle(p) ==
    \/ EarlyPayment(p) \/ EarlyOrder(p)
    \/ Transfer(p) \/ Credit(p) \/ PersistSnapshot(p) \/ CreditFee(p)
    \/ ApprovePayment(p) \/ ReadOrder(p) \/ WriteOrder(p)
    \/ LoadSnapshot(p) \/ ReverseTransfer(p) \/ DebitStakeholder(p) \/ MarkReversed(p)
    \/ SplitResidue(p) \/ DebitResidue(p)
    \/ Acknowledge(p)

Next ==
    \/ \E p \in Procs : Handle(p) \/ Throw(p)
    \/ \E p \in Procs, e \in Events : Deliver(p, e)
    \/ \E e \in Events : Emit(e) \/ DeliverDuplicate(e) \/ Expire(e)

\* Handlers go on, claims expire, and Stripe delivers until it is answered.
Fairness ==
    /\ \A p \in Procs : WF_vars(Handle(p))
    /\ \A e \in Events : /\ WF_vars(Expire(e))
                         /\ SF_vars(\E p \in Procs : Deliver(p, e))

Spec == Init /\ [][Next]_vars /\ Fairness

----------------------------------------------------------------------------
\* The types of the variables; an idle handler has no event.
TypeOK ==
    /\ emitted \subseteq Events
    /\ acked \subseteq emitted
    /\ claims \subseteq emitted
    /\ phase \in [Procs -> Phases]
    /\ event \in [Procs -> Events \cup {"none"}]
    /\ line \in [Procs -> Lines]
    /\ transfers \subseteq Lines
    /\ credits \subseteq Lines
    /\ snapshot \in BOOLEAN
    /\ fee \in BOOLEAN
    /\ reversed \in [Triggers -> SUBSET Lines]
    /\ debited \in [Triggers -> SUBSET Lines]
    /\ residue \in [Triggers -> SUBSET {"whole", "pending", "available"}]
    /\ payment \in {"PENDING", "PROCESSING", "APPROVED", "DECLINED", "CANCELED",
                    "REFUNDED", "CHARGEBACK"}
    /\ order \in {"PENDING", "PROCESSING", "PAID", "CANCELED", "REFUNDED", "CHARGEBACK"}
    /\ failures \in 0..MaxFailures
    /\ thrown \subseteq emitted
    /\ skipped \subseteq acked
    /\ \A p \in Procs : phase[p] = "idle" <=> event[p] = "none"

Distributed == transfers = Lines /\ credits = Lines
Settled == Distributed /\ snapshot /\ fee
Reversed(t) == reversed[t] = Lines /\ debited[t] = Lines

\* Nothing is taken back that was not given: whatever overtakes what, a
\* stakeholder is reversed and debited only when every line of the sale has
\* been transferred and credited, and only credited against a transfer.
ReversedOnlyIfDistributed ==
    /\ credits \subseteq transfers
    /\ snapshot => Distributed
    /\ \A t \in Triggers : debited[t] \subseteq reversed[t]
    /\ \A t \in Triggers : reversed[t] # {} => Distributed

\* What the statuses tell is true: an approved payment or paid order has been
\* distributed and its fee credited, a refunded or charged back one reversed.
StatusesAreTrue ==
    /\ payment = "APPROVED" \/ order = "PAID" => Settled
    /\ \A t \in Triggers :
        ReversedStatus(t) \in {payment, order} => Reversed(t)

Quiet(e) == \A p \in Procs : event[p] # e

Refunded(t) ==
    Reversed(t) /\ ("whole" \in residue[t] \/ {"pending", "available"} \subseteq residue[t])

Done(e) == IF e = "succeeded" THEN Settled ELSE e \in Triggers => Refunded(e)

\* An event that was answered 200, and that no handler is still at, has had its
\* effect: "Re-throw so the webhook handler returns non-2xx and Stripe retries".
\* The code does not keep this: the claim of the failed attempt answers the retry.
AckedMeansDone == \A e \in acked : Quiet(e) => Done(e)

\* Events that were answered 200 as duplicates and whose handlers failed: Stripe's
\* retry of the failed attempt came within the claim's time, or the duplicate
\* came before the failure.
Forgone == thrown \cap skipped

\* Nothing else loses the effects of an acknowledged event: not events that
\* overtake it, not two handlers at it, a claim that expires, or a failure
\* that is retried after the claim.
UndoneOnlyIfForgone == \A e \in acked \ Forgone : Quiet(e) => Done(e)

\* A sale that succeeded is eventually distributed and its fee credited, unless
\* its event is forgone.
SaleSettles == "succeeded" \in emitted ~> Settled \/ "succeeded" \in Forgone

\* A refund or dispute is eventually passed on to every stakeholder and to the
\* treasury, although it may arrive before the sale is distributed, unless its
\* own event or the sale's is forgone.
ReversalCompletes ==
    \A t \in Triggers : t \in emitted ~> Refunded(t) \/ Forgone \cap {t, "succeeded"} # {}
=============================================================================
