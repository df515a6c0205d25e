---------------------------- MODULE SellerWallet ----------------------------
(***************************************************************************)
(* The wallet of a seller: sales credited to PENDING, released to          *)
(* AVAILABLE by a confirmation or by the cron after seven days, withdrawn, *)
(* and debited when an administrator refunds an order or enters its        *)
(* chargeback.  One wallet, since no operation touches two.                *)
(*                                                                         *)
(* A transaction at READ COMMITTED is its reads and then its commit, with  *)
(* which all its writes take effect; other transactions commit in between. *)
(* Sales, confirmations and withdrawals hold an optimistic lock: their     *)
(* write of the wallet demands the updatedAt they read.                    *)
(*                                                                         *)
(* Each balance is kept twice, in cents and as a Float in reais.  A        *)
(* withdrawal is compared with the Float and taken from it as it was asked *)
(* for; from the cents it is taken rounded.  Only the Float of AVAILABLE   *)
(* is ever compared, so only that is kept, in parts of a cent, its sums    *)
(* exact; every other operation changes it by whole cents.                 *)
(***************************************************************************)
EXTENDS Integers, FiniteSets

CONSTANTS
    Sales,          \* calls of processSale
    Net,            \* what a sale leaves after the fees, in cents
    Withdrawals,    \* calls of requestWithdrawal
    Grain,          \* parts of a cent an amount is given in
    Amount,         \* what a withdrawal asks for, in those parts
    Calls,          \* refunds and chargebacks an administrator asks for
    OrderOf, KindOf,\* the order a call is about, "refund" or "chargeback"
    Orders,         \* paid orders of the seller
    Debit,          \* producerNetInCents of an order
    Procs,          \* request handlers and runs of the cron
    NoWork

Buckets == {"pending", "available"}

ASSUME SellerAssumption ==
    /\ Net \in [Sales -> Nat]
    /\ Grain \in Nat \ {0}
    /\ Amount \in [Withdrawals -> Nat \ {0}]
    /\ OrderOf \in [Calls -> Orders]
    /\ KindOf \in [Calls -> {"refund", "chargeback"}]
    /\ Debit \in [Orders -> Nat \ {0}]
    /\ Sales \cap Withdrawals = {} /\ Sales \cap Calls = {} /\ Withdrawals \cap Calls = {}
    /\ NoWork \notin Sales \cup Withdrawals \cup Calls

VARIABLES
    wallet,         \* KloelWallet: the cents in each bucket
    reais,          \* its availableBalance, the Float
    stamp,          \* its updatedAt
    rows,           \* KloelWalletLedger
    credit,         \* status of a sale's KloelWalletTransaction
    order,          \* status of an order and its payment
    phase,          \* the await each process has reached
    work,           \* the request it serves
    seen,           \* the updatedAt it read
    begun,          \* requests made so far
    ties,           \* history: writes of the wallet in the millisecond of the one before
    overlapped,     \* history: sales whose confirmation overlapped a write of the wallet
    contested       \* history: calls in progress together with another about their order

procs == <<phase, work, seen>>
money == <<wallet, reais, stamp, rows, ties, overlapped>>
sellerVars == <<money, credit, order, procs, begun, contested>>

SellerInit ==
    /\ wallet = [b \in Buckets |-> 0]
    /\ reais = 0
    /\ stamp = 0
    /\ rows = {}
    /\ credit = [s \in Sales |-> "none"]
    /\ order = [o \in Orders |-> "PAID"]
    /\ phase = [p \in Procs |-> "idle"]
    /\ work = [p \in Procs |-> NoWork]
    /\ seen = [p \in Procs |-> 0]
    /\ begun = {}
    /\ ties = 0
    /\ overlapped = {}
    /\ contested = {}

----------------------------------------------------------------------------
\* A ledger row, named by what it is for: a sale's two rows of a release are
\* the same whether confirmPayment or the cron writes them.
Row(kind, x, bucket, cents) == [key |-> <<kind, x>>, bucket |-> bucket, cents |-> cents]

Posted(kind, x) == \E row \in rows : row.key = <<kind, x>>

\* updatedAt is the time of the write, in milliseconds.
Touch(p) ==
    /\ \/ stamp' = stamp + 1 /\ UNCHANGED ties
       \/ stamp' = stamp /\ ties' = ties + 1
    /\ overlapped' = overlapped \cup {work[q] : q \in {r \in Procs \ {p} : phase[r] = "confirm"}}

\* The balance and its row, in one transaction; the Float changes by parts.
Enter(p, row, parts) ==
    /\ wallet' = [wallet EXCEPT ![row.bucket] = @ + row.cents]
    /\ reais' = IF row.bucket = "available" THEN reais + parts ELSE reais
    /\ rows' = rows \cup {row}
    /\ Touch(p)

\* The cents of a sale go from PENDING to AVAILABLE.
Release(p, s) ==
    /\ wallet' = [wallet EXCEPT !["pending"] = @ - Net[s], !["available"] = @ + Net[s]]
    /\ reais' = reais + Grain * Net[s]
    /\ rows' = rows \cup {Row("out", s, "pending", -Net[s]), Row("in", s, "available", Net[s])}
    /\ Touch(p)

\* Variant: the write does not look at updatedAt.
UnlockedAlways(p) == TRUE

\* Variant: the comparison is the wrong way round.
Locked(p) == stamp # seen[p]

\* No other write of the wallet since the read.
Unlocked(p) == stamp = seen[p]

Start(p, where, x) ==
    /\ phase[p] = "idle"
    /\ phase' = [phase EXCEPT ![p] = where]
    /\ work' = [work EXCEPT ![p] = x]
    /\ seen' = [seen EXCEPT ![p] = stamp]

Leave(p) ==
    /\ phase' = [phase EXCEPT ![p] = "idle"]
    /\ work' = [work EXCEPT ![p] = NoWork]
    /\ seen' = [seen EXCEPT ![p] = 0]

\* An error, or the server dies: the transaction is rolled back.
Abandon(p) ==
    /\ phase[p] # "idle"
    /\ Leave(p)
    /\ UNCHANGED <<money, credit, order, begun, contested>>

----------------------------------------------------------------------------
(***************************************************************************)
(* processSale                                                             *)
(***************************************************************************)
BeginSale(p, s) ==
    /\ s \notin begun
    /\ begun' = begun \cup {s}
    /\ Start(p, "sale", s)
    /\ UNCHANGED <<money, credit, order, contested>>

CommitSale(p) ==
    /\ phase[p] = "sale"
    /\ Unlocked(p)
    /\ Enter(p, Row("sale", work[p], "pending", Net[work[p]]), Grain * Net[work[p]])
    /\ credit' = [credit EXCEPT ![work[p]] = "pending"]
    /\ Leave(p)
    /\ UNCHANGED <<order, begun, contested>>

(***************************************************************************)
(* confirmPayment.  The status is raised where it is still pending; when   *)
(* the write of the wallet then finds another updatedAt the transaction    *)
(* returns race_lost, which commits it.                                    *)
(***************************************************************************)
BeginConfirm(p, s) ==
    /\ credit[s] = "pending"
    /\ Start(p, "confirm", s)
    /\ UNCHANGED <<money, credit, order, begun, contested>>

CommitConfirm(p) ==
    /\ phase[p] = "confirm"
    /\ \/ /\ credit[work[p]] = "pending"
          /\ credit' = [credit EXCEPT ![work[p]] = "completed"]
          /\ \/ Unlocked(p) /\ Release(p, work[p])
             \/ ~Unlocked(p) /\ UNCHANGED money
       \/ /\ credit[work[p]] # "pending"
          /\ UNCHANGED <<money, credit>>
    /\ Leave(p)
    /\ UNCHANGED <<order, begun, contested>>

(***************************************************************************)
(* reconcilePendingPayments: a credit the run found pending.               *)
(***************************************************************************)
BeginSettle(p, s) ==
    /\ credit[s] = "pending"
    /\ Start(p, "settle", s)
    /\ UNCHANGED <<money, credit, order, begun, contested>>

\* Variant: the cron trusts what it found.
CommitSettleAnyway(p) ==
    /\ phase[p] = "settle"
    /\ credit' = [credit EXCEPT ![work[p]] = "completed"]
    /\ Release(p, work[p])
    /\ Leave(p)
    /\ UNCHANGED <<order, begun, contested>>

\* Without the optimistic lock: the increments are the database's.
CommitSettle(p) ==
    /\ phase[p] = "settle"
    /\ \/ /\ credit[work[p]] = "pending"
          /\ credit' = [credit EXCEPT ![work[p]] = "completed"]
          /\ Release(p, work[p])
       \/ /\ credit[work[p]] # "pending"
          /\ UNCHANGED <<money, credit>>
    /\ Leave(p)
    /\ UNCHANGED <<order, begun, contested>>

(***************************************************************************)
(* requestWithdrawal: the Float is compared before the transaction, with   *)
(* an amount that may have any number of decimals.                         *)
(***************************************************************************)
\* Math.round to whole cents; an amount that rounds to none is refused.
Rounded(parts) == (2 * parts + Grain) \div (2 * Grain)

BeginWithdrawal(p, w) ==
    /\ w \notin begun
    /\ reais >= Amount[w]
    /\ Rounded(Amount[w]) > 0
    /\ begun' = begun \cup {w}
    /\ Start(p, "withdraw", w)
    /\ UNCHANGED <<money, credit, order, contested>>

CommitWithdrawal(p) ==
    /\ phase[p] = "withdraw"
    /\ Unlocked(p)
    /\ Enter(p, Row("withdrawal", work[p], "available", -Rounded(Amount[work[p]])), -Amount[work[p]])
    /\ Leave(p)
    /\ UNCHANGED <<credit, order, begun, contested>>

(***************************************************************************)
(* An administrator's refund or chargeback of an order that Stripe did not *)
(* take the payment of.  The order is read before the transaction, which   *)
(* does not look at it again.                                              *)
(***************************************************************************)
Adjusting == {"adjust", "pending", "available"}

\* Processes serving a call about order o.
Serving(o) == {p \in Procs : phase[p] \in Adjusting /\ OrderOf[work[p]] = o}

\* Variant: a chargeback may be entered again.
AllowedAlways(k) == KindOf[k] = "chargeback" \/ order[OrderOf[k]] = "PAID"

\* A refund wants a paid order; a chargeback one not charged back.
Allowed(k) ==
    IF KindOf[k] = "refund" THEN order[OrderOf[k]] = "PAID" ELSE order[OrderOf[k]] # "CHARGEBACK"

BeginAdjust(p, k) ==
    /\ k \notin begun
    /\ Allowed(k)
    /\ begun' = begun \cup {k}
    /\ Start(p, "adjust", k)
    /\ contested' = contested \cup
            (IF Serving(OrderOf[k]) = {} THEN {} ELSE {k} \cup {work[q] : q \in Serving(OrderOf[k])})
    /\ UNCHANGED <<money, credit, order>>

\* The payment is updated first, so the transaction waits for another one of
\* the same order; then the wallet is read and a bucket chosen.
ChooseBucket(p) ==
    /\ phase[p] = "adjust"
    /\ LET o == OrderOf[work[p]]
       IN  /\ \A q \in Serving(o) : phase[q] = "adjust"
           /\ phase' = [phase EXCEPT ![p] =
                            IF wallet["pending"] >= Debit[o] THEN "pending" ELSE "available"]
    /\ UNCHANGED <<money, credit, order, work, seen, begun, contested>>

Verdict(k) == IF KindOf[k] = "refund" THEN "REFUNDED" ELSE "CHARGEBACK"

CommitAdjust(p) ==
    /\ phase[p] \in Buckets
    /\ LET k == work[p]
       IN  /\ Enter(p, Row("adjust", k, phase[p], -Debit[OrderOf[k]]), -Grain * Debit[OrderOf[k]])
           /\ order' = [order EXCEPT ![OrderOf[k]] = Verdict(k)]
    /\ Leave(p)
    /\ UNCHANGED <<credit, begun, contested>>

----------------------------------------------------------------------------
SellerNext ==
    \E p \in Procs :
        \/ \E s \in Sales : BeginSale(p, s) \/ BeginConfirm(p, s) \/ BeginSettle(p, s)
        \/ \E w \in Withdrawals : BeginWithdrawal(p, w)
        \/ \E k \in Calls : BeginAdjust(p, k)
        \/ CommitSale(p) \/ CommitConfirm(p) \/ CommitSettle(p) \/ CommitWithdrawal(p)
        \/ ChooseBucket(p) \/ CommitAdjust(p) \/ Abandon(p)

SellerSpec == SellerInit /\ [][SellerNext]_sellerVars

----------------------------------------------------------------------------
Keys ==
    ({"sale", "out", "in"} \X Sales) \cup ({"withdrawal"} \X Withdrawals) \cup ({"adjust"} \X Calls)

\* The types of the variables, and which request a process serves in which phase.
SellerTypeOK ==
    /\ wallet \in [Buckets -> Int]
    /\ reais \in Int
    /\ stamp \in Nat
    /\ rows \subseteq [key : Keys, bucket : Buckets, cents : Int]
    /\ credit \in [Sales -> {"none", "pending", "completed"}]
    /\ order \in [Orders -> {"PAID", "REFUNDED", "CHARGEBACK"}]
    /\ phase \in [Procs -> {"idle", "sale", "confirm", "settle", "withdraw"} \cup Adjusting]
    /\ work \in [Procs -> Sales \cup Withdrawals \cup Calls \cup {NoWork}]
    /\ seen \in [Procs -> Nat]
    /\ begun \subseteq Sales \cup Withdrawals \cup Calls
    /\ ties \in Nat
    /\ overlapped \subseteq Sales
    /\ contested \subseteq Calls
    /\ \A p \in Procs :
        /\ phase[p] \in {"sale", "confirm", "settle"} => work[p] \in Sales
        /\ phase[p] = "withdraw" => work[p] \in Withdrawals
        /\ phase[p] \in Adjusting => work[p] \in Calls

\* Every change of a balance has its ledger row in the same step, and no row is
\* entered twice: a sale is credited once and released once, although a
\* confirmation and runs of the cron may release it at the same time.
Ledger == INSTANCE Book WITH Buckets <- Buckets, money <- wallet, rows <- rows

ImplementsBook == Ledger!Spec

Released(s) == Posted("out", s) /\ Posted("in", s)

\* A credit is marked completed without its cents only when a confirmation
\* overlapped another write of the wallet, which the optimistic lock notices
\* after the status was raised; nothing ever releases such a credit.
StrandedOnlyByOverlap ==
    \A s \in Sales : credit[s] = "completed" => Released(s) \/ s \in overlapped

Booked == {w \in Withdrawals : Posted("withdrawal", w)}

\* A withdrawal is booked only against a Float that covers it at that moment,
\* although it was compared before the transaction, as long as no two writes of
\* the wallet fall in one millisecond.  The cents, which are rounded and never
\* compared, may by then be below zero, by half a cent a withdrawal at most.
WithdrawalsAreCovered ==
    [][\A w \in Withdrawals :
            w \notin Booked /\ w \in Booked' /\ ties' = 0 =>
                /\ reais' >= 0
                /\ 2 * wallet'["available"] >= -Cardinality(Booked')]_sellerVars

\* An order is debited twice for a refund, or twice for a chargeback, only
\* when two calls about it were in progress at the same time.
DebitsHaveCauses ==
    \A j, k \in Calls :
        /\ j # k /\ OrderOf[j] = OrderOf[k] /\ KindOf[j] = KindOf[k]
        /\ Posted("adjust", j) /\ Posted("adjust", k)
        => {j, k} \cap contested # {}
=============================================================================
