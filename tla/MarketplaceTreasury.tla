------------------------ MODULE MarketplaceTreasury ------------------------
(***************************************************************************)
(* The marketplace's own treasury (marketplace-treasury/): the fee of each *)
(* sale enters PENDING, a cron moves it to AVAILABLE, refunds and disputes *)
(* take back the marketplace's share of a sale, and an administrator pays  *)
(* out of AVAILABLE.  Every change is one transaction that inserts a       *)
(* ledger row, unique by order id and kind, and increments the balance, so *)
(* that unlike the prepaid wallet no commit overwrites another.  What is   *)
(* read before the transaction may be stale: how a reversal is split over  *)
(* the buckets, whether a payout is covered, whether a fee has matured.    *)
(*                                                                         *)
(* An order id and a kind make the key <<prefix, source>>; a row's amount  *)
(* carries the sign of its direction.  Nothing writes the RESERVED bucket, *)
(* and there is one currency.  The read of a balance is an upsert with an  *)
(* empty update, which takes no lock when the row exists.                  *)
(***************************************************************************)
EXTENDS Integers, Sequences

CONSTANTS
    Sales,          \* paid sales with a fee
    Fee,            \* marketplace fee and interest of a sale, in cents
    Reversals,      \* refunds and disputes
    Share,          \* what the stakeholders do not bear of one
    Requests,       \* payout request ids
    Amount,         \* cents a request asks for
    Procs,          \* request and webhook handlers
    Crons,          \* instances of the maturation cron
    Window,         \* fee rows a run of the cron takes, 500 in the code
    MaxCalls,       \* bound on the deliveries of a reversal and calls of a request
    MaxFailures,    \* bound on the failures in a behaviour
    None            \* an idle handler serves nothing

Buckets == {"PENDING", "AVAILABLE"}

ASSUME TreasuryAssumption ==
    /\ Fee \in [Sales -> Nat \ {0}]
    /\ Share \in [Reversals -> Nat \ {0}]
    /\ Amount \in [Requests -> Nat \ {0}]
    /\ Window \in Nat \ {0}
    /\ MaxCalls \in Nat
    /\ MaxFailures \in Nat
    /\ Sales \cap Reversals = {}
    /\ Sales \cap Requests = {}
    /\ Reversals \cap Requests = {}
    /\ None \notin Reversals \cup Requests

VARIABLES
    money,      \* marketplace_treasuries, a balance for each bucket
    rows,       \* marketplace_treasury_ledger
    sold,       \* sales whose fee is entered, oldest first
    phase,      \* the await each handler has reached
    work,       \* the reversal or request it serves
    read,       \* the balance it read
    acked,      \* reversals whose event is answered
    calls,      \* deliveries of a reversal, calls of a request
    payout,     \* what Stripe made of a request
    batch,      \* fee rows each cron has still to look at
    due,        \* has it found the first of them not yet matured?
    failures,   \* failures so far
    parts,      \* history: what deliveries of a reversal meant to take from PENDING
    contested   \* history: requests repeated, or hit by a failure

handlers == <<phase, work, read>>
crons == <<batch, due>>
history == <<parts, contested>>
vars == <<money, rows, sold, handlers, acked, calls, payout, crons, failures,
          history>>

Init ==
    /\ money = [b \in Buckets |-> 0]
    /\ rows = {}
    /\ sold = <<>>
    /\ phase = [p \in Procs |-> "idle"]
    /\ work = [p \in Procs |-> None]
    /\ read = [p \in Procs |-> 0]
    /\ acked = {}
    /\ calls = [x \in Reversals \cup Requests |-> 0]
    /\ payout = [r \in Requests |-> "none"]
    /\ batch = [c \in Crons |-> <<>>]
    /\ due = [c \in Crons |-> FALSE]
    /\ failures = 0
    /\ parts = [t \in Reversals |-> {}]
    /\ contested = {}

----------------------------------------------------------------------------
(***************************************************************************)
(* The ledger.                                                             *)
(***************************************************************************)
Row(prefix, source, bucket, cents) ==
    [key |-> <<prefix, source>>, bucket |-> bucket, cents |-> cents]

Posted(prefix, source) == \E row \in rows : row.key = <<prefix, source>>

\* Variant: there is no unique index.
FreshUnchecked(key) == TRUE

\* The unique index on (order id, kind).
Fresh(key) == \A row \in rows : row.key # key

\* INSERT and increment in one transaction.
Enter(row) ==
    /\ rows' = rows \cup {row}
    /\ money' = [money EXCEPT ![row.bucket] = @ + row.cents]

Skip == UNCHANGED <<rows, money>>

\* A row that is there already is refused, and the error is swallowed.
EnterOnce(row) ==
    \/ Fresh(row.key) /\ Enter(row)
    \/ ~Fresh(row.key) /\ Skip

----------------------------------------------------------------------------
Leave(p) ==
    /\ phase' = [phase EXCEPT ![p] = "idle"]
    /\ work' = [work EXCEPT ![p] = None]
    /\ read' = [read EXCEPT ![p] = 0]

Goto(p, where) ==
    /\ phase' = [phase EXCEPT ![p] = where]
    /\ UNCHANGED <<work, read>>

\* A handler begins to serve x and reads a balance.
Call(p, x, where, cents) ==
    /\ phase[p] = "idle"
    /\ calls[x] < MaxCalls
    /\ calls' = [calls EXCEPT ![x] = @ + 1]
    /\ phase' = [phase EXCEPT ![p] = where]
    /\ work' = [work EXCEPT ![p] = x]
    /\ read' = [read EXCEPT ![p] = cents]

(***************************************************************************)
(* Sales: the webhook of a successful payment, whose repeats find the row. *)
(***************************************************************************)
SaleCredit(s) ==
    /\ Fresh(<<"sale", s>>)
    /\ Enter(Row("sale", s, "PENDING", Fee[s]))
    /\ sold' = Append(sold, s)
    /\ UNCHANGED <<handlers, acked, calls, payout, crons, failures, history>>

(***************************************************************************)
(* Refunds and disputes.  The share is taken from PENDING as far as the    *)
(* balance read covers it and from AVAILABLE for the rest, in one row or   *)
(* in two rows with keys of their own; Stripe delivers the event until it  *)
(* is answered.                                                            *)
(***************************************************************************)
PartOf(t, pending) ==
    IF pending <= 0 THEN 0 ELSE IF pending >= Share[t] THEN Share[t] ELSE pending

PendingPart(p) == PartOf(work[p], read[p])

\* Variant: only a balance that covers the whole share is used.
AvailablePartOrNone(p) == IF PendingPart(p) > 0 THEN 0 ELSE Share[work[p]]

AvailablePart(p) == Share[work[p]] - PendingPart(p)

ReversalKey(p, bucket) ==
    IF PendingPart(p) = 0 \/ AvailablePart(p) = 0
    THEN <<"reversal", work[p]>>
    ELSE <<IF bucket = "PENDING" THEN "reversal:pending" ELSE "reversal:available", work[p]>>

BeginReversal(p, t) ==
    /\ t \notin acked
    /\ Call(p, t, IF money["PENDING"] > 0 THEN "pending" ELSE "available", money["PENDING"])
    /\ parts' = [parts EXCEPT ![t] = @ \cup {PartOf(t, money["PENDING"])}]
    /\ UNCHANGED <<money, rows, sold, acked, payout, crons, failures, contested>>

DebitPending(p) ==
    /\ phase[p] = "pending"
    /\ EnterOnce([key |-> ReversalKey(p, "PENDING"), bucket |-> "PENDING", cents |-> -PendingPart(p)])
    /\ Goto(p, IF AvailablePart(p) > 0 THEN "available" ELSE "answer")
    /\ UNCHANGED <<sold, acked, calls, payout, crons, failures, history>>

DebitAvailable(p) ==
    /\ phase[p] = "available"
    /\ EnterOnce([key |-> ReversalKey(p, "AVAILABLE"), bucket |-> "AVAILABLE", cents |-> -AvailablePart(p)])
    /\ Goto(p, "answer")
    /\ UNCHANGED <<sold, acked, calls, payout, crons, failures, history>>

AnswerReversal(p) ==
    /\ phase[p] = "answer"
    /\ acked' = acked \cup {work[p]}
    /\ Leave(p)
    /\ UNCHANGED <<money, rows, sold, calls, payout, crons, failures, history>>

(***************************************************************************)
(* Maturation.  Each run takes the oldest fee rows, matured or not, and    *)
(* looks at one after the other; runs of several instances overlap.        *)
(***************************************************************************)

Oldest == IF Len(sold) <= Window THEN sold ELSE SubSeq(sold, 1, Window)

ScanFees(c) ==
    /\ batch[c] = <<>>
    /\ sold # <<>>
    /\ batch' = [batch EXCEPT ![c] = Oldest]
    /\ UNCHANGED <<money, rows, sold, handlers, acked, calls, payout, due, failures, history>>

NextFee(c) ==
    /\ batch' = [batch EXCEPT ![c] = Tail(@)]
    /\ due' = [due EXCEPT ![c] = FALSE]

LookForMarker(c) ==
    /\ batch[c] # <<>>
    /\ ~due[c]
    /\ \/ /\ Posted("mature:available", Head(batch[c]))
          /\ NextFee(c)
       \/ /\ ~Posted("mature:available", Head(batch[c]))
          /\ due' = [due EXCEPT ![c] = TRUE]
          /\ UNCHANGED batch
    /\ UNCHANGED <<money, rows, sold, handlers, acked, calls, payout, failures, history>>

\* Both rows in one transaction; a duplicate rolls it back and is logged.
MatureFee(c) ==
    /\ batch[c] # <<>>
    /\ due[c]
    /\ LET s == Head(batch[c])
           out == Row("mature:pending", s, "PENDING", -Fee[s])
           in == Row("mature:available", s, "AVAILABLE", Fee[s])
       IN  \/ /\ Fresh(out.key) /\ Fresh(in.key)
              /\ rows' = rows \cup {out, in}
              /\ money' = [money EXCEPT !["PENDING"] = @ - Fee[s], !["AVAILABLE"] = @ + Fee[s]]
          \/ /\ ~(Fresh(out.key) /\ Fresh(in.key))
              /\ Skip
    /\ NextFee(c)
    /\ UNCHANGED <<sold, handlers, acked, calls, payout, failures, history>>

(***************************************************************************)
(* Payouts.                                                                *)
(***************************************************************************)

Covers(r) == money["AVAILABLE"] >= Amount[r]

\* A request debited before goes on to Stripe without another debit.
BeginPayout(p, r) ==
    /\ \/ Posted("payout", r) /\ Call(p, r, "create", 0)
       \/ ~Posted("payout", r) /\ Covers(r) /\ Call(p, r, "debit", 0)
    /\ contested' = IF calls[r] > 0 THEN contested \cup {r} ELSE contested
    /\ UNCHANGED <<money, rows, sold, acked, payout, crons, failures, parts>>

\* A duplicate throws before the try block.
DebitPayout(p) ==
    /\ phase[p] = "debit"
    /\ LET debit == Row("payout", work[p], "AVAILABLE", -Amount[work[p]])
       IN  \/ /\ Fresh(debit.key)
              /\ Enter(debit)
              /\ Goto(p, "create")
           \/ /\ ~Fresh(debit.key)
              /\ Skip
              /\ Leave(p)
    /\ UNCHANGED <<sold, acked, calls, payout, crons, failures, parts, contested>>

\* The request id is the idempotency key.
CreatePayout(p) ==
    /\ phase[p] = "create"
    /\ payout' = [payout EXCEPT ![work[p]] = IF @ = "none" THEN "created" ELSE @]
    /\ Leave(p)
    /\ UNCHANGED <<money, rows, sold, acked, calls, crons, failures, history>>

CreateRefused(p) ==
    /\ phase[p] = "create"
    /\ payout[work[p]] = "none"
    /\ Goto(p, "return")
    /\ UNCHANGED <<money, rows, sold, acked, calls, payout, crons, failures, history>>

\* The payout exists and the caller sees an error.
CreateReplyLost(p) ==
    /\ phase[p] = "create"
    /\ failures < MaxFailures
    /\ failures' = failures + 1
    /\ payout' = [payout EXCEPT ![work[p]] = IF @ = "none" THEN "created" ELSE @]
    /\ contested' = contested \cup {work[p]}
    /\ Goto(p, "return")
    /\ UNCHANGED <<money, rows, sold, acked, calls, crons, parts>>

\* Variant: the error is passed on and nothing returned.
ReturnNothing(p) ==
    /\ phase[p] = "return"
    /\ Leave(p)
    /\ UNCHANGED <<money, rows, sold, acked, calls, payout, crons, failures, history>>

ReturnPayout(p) ==
    /\ phase[p] = "return"
    /\ EnterOnce(Row("payout_failed_request", work[p], "AVAILABLE", Amount[work[p]]))
    /\ Leave(p)
    /\ UNCHANGED <<sold, acked, calls, payout, crons, failures, history>>

PayoutFails(r) ==
    /\ payout[r] = "created"
    /\ payout' = [payout EXCEPT ![r] = "failed"]
    /\ UNCHANGED <<money, rows, sold, handlers, acked, calls, crons, failures, history>>

\* payout.failed, whose repeats find the row.
HandleFailedPayout(r) ==
    /\ payout[r] = "failed"
    /\ Fresh(<<"payout_failed", r>>)
    /\ Enter(Row("payout_failed", r, "AVAILABLE", Amount[r]))
    /\ UNCHANGED <<sold, handlers, acked, calls, payout, crons, failures, history>>

(***************************************************************************)
(* An await throws or the server dies; the last statement may have been    *)
(* committed.  A cron goes on with the next fee or with its next run.      *)
(***************************************************************************)
HandlerFails(p) ==
    /\ phase[p] # "idle"
    /\ failures < MaxFailures
    /\ failures' = failures + 1
    /\ contested' = contested \cup ({work[p]} \cap Requests)
    /\ Leave(p)
    /\ UNCHANGED <<money, rows, sold, acked, calls, payout, crons, parts>>

CronFails(c) ==
    /\ batch[c] # <<>>
    /\ failures < MaxFailures
    /\ failures' = failures + 1
    /\ \/ NextFee(c)
       \/ batch' = [batch EXCEPT ![c] = <<>>] /\ due' = [due EXCEPT ![c] = FALSE]
    /\ UNCHANGED <<money, rows, sold, handlers, acked, calls, payout, history>>

----------------------------------------------------------------------------
Cron(c) == ScanFees(c) \/ LookForMarker(c) \/ MatureFee(c)

Next ==
    \/ \E s \in Sales : SaleCredit(s)
    \/ \E p \in Procs :
        \/ \E t \in Reversals : BeginReversal(p, t)
        \/ DebitPending(p) \/ DebitAvailable(p) \/ AnswerReversal(p)
        \/ \E r \in Requests : BeginPayout(p, r)
        \/ DebitPayout(p) \/ CreatePayout(p) \/ CreateRefused(p) \/ CreateReplyLost(p)
        \/ ReturnPayout(p) \/ HandlerFails(p)
    \/ \E r \in Requests : PayoutFails(r) \/ HandleFailedPayout(r)
    \/ \E c \in Crons : Cron(c) \/ CronFails(c)

\* The cron runs every minute and goes through its batch.
Spec == Init /\ [][Next]_vars /\ \A c \in Crons : WF_vars(Cron(c))

----------------------------------------------------------------------------
Keys ==
    ({"sale", "mature:pending", "mature:available"} \X Sales)
    \cup ({"reversal", "reversal:pending", "reversal:available"} \X Reversals)
    \cup ({"payout", "payout_failed_request", "payout_failed"} \X Requests)

\* The types of the variables; an idle handler serves nothing, the others a
\* reversal or a request as their phase says.
TypeOK ==
    /\ money \in [Buckets -> Int]
    /\ rows \subseteq [key : Keys, bucket : Buckets, cents : Int]
    /\ sold \in Seq(Sales)
    /\ phase \in [Procs -> {"idle", "pending", "available", "answer", "debit", "create", "return"}]
    /\ work \in [Procs -> Reversals \cup Requests \cup {None}]
    /\ read \in [Procs -> Int]
    /\ \A p \in Procs :
        /\ phase[p] = "idle" => work[p] = None
        /\ phase[p] \in {"pending", "available", "answer"} => work[p] \in Reversals
        /\ phase[p] \in {"debit", "create", "return"} => work[p] \in Requests
    /\ acked \subseteq Reversals
    /\ calls \in [Reversals \cup Requests -> 0 .. MaxCalls]
    /\ payout \in [Requests -> {"none", "created", "failed"}]
    /\ batch \in [Crons -> Seq(Sales)]
    /\ due \in [Crons -> BOOLEAN]
    /\ failures \in 0 .. MaxFailures
    /\ parts \in [Reversals -> SUBSET Int]
    /\ contested \subseteq Requests

\* Every change of the balances is entered, once, in the same step (design
\* invariants W2, W3 and W5).
Ledger == INSTANCE Book WITH Buckets <- Buckets, money <- money, rows <- rows

ImplementsBook == Ledger!Spec

\* A reversal whose deliveries all found it to split alike has taken exactly
\* the marketplace's share when it is answered, in one row or in two, however
\* often it was delivered or interrupted and whatever happened to the balances.
ReversalsAreWhole ==
    \A t \in acked : (\A x, y \in parts[t] : x = y) =>
        LET own == {row \in rows : row.key[2] = t}
        IN  \/ \E row \in own : own = {row} /\ row.cents = -Share[t]
            \/ \E x, y \in own : own = {x, y} /\ x # y /\ x.cents + y.cents = -Share[t]

AtRest(r) == \A p \in Procs : work[p] # r

\* Of a request called once and met by no failure, the treasury is short as
\* long as Stripe has it, or has let it fail and the event is on its way.
PayoutsAreAccountedFor ==
    \A r \in Requests \ contested : AtRest(r) =>
        (Posted("payout", r) /\ ~Posted("payout_failed_request", r) /\ ~Posted("payout_failed", r)
            <=> payout[r] = "created" \/ (payout[r] = "failed" /\ ~Posted("payout_failed", r)))

Matured(s) == Posted("mature:pending", s) /\ Posted("mature:available", s)

\* "Moves marketplace fee credits from PENDING to AVAILABLE": so does every fee.
EveryFeeMatures == \A s \in Sales : Posted("sale", s) ~> Matured(s)
=============================================================================
