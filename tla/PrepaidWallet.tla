--------------------------- MODULE PrepaidWallet ---------------------------
(***************************************************************************)
(* The prepaid wallet of a workspace (wallet/wallet.service.ts) and the    *)
(* protocol of the features that bill against it.  A feature charges its   *)
(* quoted cost, has the provider do the work, and then settles: the quote  *)
(* is adjusted to the actual cost, or given back when the work failed.     *)
(*                                                                         *)
(*   inline      PDF analysis, site generation and the chat assistant do   *)
(*               all of it in one request handler                          *)
(*   ingestion   the knowledge base charges in the request handler and     *)
(*               queues a job; the worker does the work and settles, and   *)
(*               the queue repeats an attempt that throws                  *)
(*                                                                         *)
(* Every operation on the wallet is a transaction at READ COMMITTED that   *)
(* looks for its own row, reads the balance, and writes an absolute value  *)
(* computed from that read together with the row.  The look and the read   *)
(* are one step here: a duplicate that commits between them is refused by  *)
(* the unique index, as it is when it commits right after the read.  The   *)
(* UPDATE's lock lasts until the commit, so the rest is one step too.      *)
(*                                                                         *)
(* At most one row of each type exists per request, so the table is kept   *)
(* as the sets of requests charged and refunded and the amount adjusted.   *)
(***************************************************************************)
EXTENDS Integers

CONSTANTS
    Requests,       \* (operation, request id) pairs
    Ingestions,     \* those the worker serves
    Resent,         \* requests whose id may be used for another call
    TopUps,         \* payment intents of type wallet_topup
    Procs,          \* request handlers and workers
    Quote,          \* cents charged up front
    Actuals,        \* what the provider's work may turn out to cost
    TopUpCents,     \* amount of a top-up
    MaxAttempts,    \* attempts the queue gives a job
    Faults,         \* what may go wrong
    NoRequest,      \* an idle process has none
    Open            \* the call has not ended

AllFaults == {"database", "reply", "crash", "source", "queue", "late"}

ASSUME WalletAssumption ==
    /\ Ingestions \subseteq Requests
    /\ Resent \subseteq Requests \ Ingestions
    /\ Quote \in [Requests -> Nat \ {0}]
    /\ Actuals \in [Requests -> SUBSET Nat]
    /\ TopUpCents \in Nat \ {0}
    /\ MaxAttempts \in Nat \ {0}
    /\ Faults \subseteq AllFaults
    /\ NoRequest \notin Requests
    /\ Open \notin Nat

VARIABLES
    balance,    \* prepaid_wallets.balance_cents
    topped,     \* top-ups with a TOPUP row
    charged,    \* requests with a USAGE row
    adjusted,   \* amount of a request's ADJUSTMENT row, 0 without one
    refunded,   \* requests with a REFUND row
    phase,      \* the await each process has reached
    req,        \* the request it serves
    snap,       \* the balance its transaction read
    cost,       \* what the provider's work cost
    attempts,   \* attempts left to the job of an ingestion
    begun,      \* history: requests called
    irregular,  \* history: requests called again or hit by a fault
    owed        \* history: what the call's ending says should be paid

tables == <<balance, topped, charged, adjusted, refunded>>
vars == <<balance, topped, charged, adjusted, refunded, phase, req, snap, cost,
          attempts, begun, irregular, owed>>

ServerPhases == {"charge", "charging", "serve", "enqueue", "refund", "refunding"}
WorkPhases == {"ingest", "settle", "settling", "finish"}

Init ==
    /\ balance = 0
    /\ topped = {} /\ charged = {} /\ refunded = {}
    /\ adjusted = [r \in Requests |-> 0]
    /\ phase = [p \in Procs |-> "idle"]
    /\ req = [p \in Procs |-> NoRequest]
    /\ snap = [p \in Procs |-> 0]
    /\ cost = [p \in Procs |-> 0]
    /\ attempts = [r \in Requests |-> 0]
    /\ begun = {} /\ irregular = {}
    /\ owed = [r \in Requests |-> Open]

----------------------------------------------------------------------------
Goto(p, where) == phase' = [phase EXCEPT ![p] = where]

Stay(p) == UNCHANGED <<req, cost, attempts, begun, irregular, owed>>

\* The process is done with its request.
Leave(p) ==
    /\ phase' = [phase EXCEPT ![p] = "idle"]
    /\ req' = [req EXCEPT ![p] = NoRequest]
    /\ snap' = [snap EXCEPT ![p] = 0]
    /\ cost' = [cost EXCEPT ![p] = 0]

\* The call ends; what it should have cost is due from now on.
End(p, due) ==
    /\ Leave(p)
    /\ owed' = IF req[p] \in irregular THEN owed ELSE [owed EXCEPT ![req[p]] = due]

\* The last statements of every transaction: UPDATE to the value computed
\* from the read, whatever has been committed since, INSERT of the row, commit.
Write(p, amount) == balance' = snap[p] + amount

\* After the commit the process goes on.
Resume(p, where) ==
    /\ Goto(p, where)
    /\ snap' = [snap EXCEPT ![p] = 0]
    /\ Stay(p)

\* The first statements of every transaction that goes on.
Read(p, where) ==
    /\ snap' = [snap EXCEPT ![p] = balance]
    /\ Goto(p, where)
    /\ UNCHANGED tables
    /\ Stay(p)

\* A transaction that ends without writing.
Skip(p, where) ==
    /\ Goto(p, where)
    /\ UNCHANGED <<tables, snap>>
    /\ Stay(p)

(***************************************************************************)
(* Top-ups.  creditFromWebhook has no other effect than its transaction;   *)
(* an intent already credited is skipped, two deliveries at once are not.  *)
(***************************************************************************)
BeginTopUp(p) ==
    /\ phase[p] = "idle"
    /\ topped # TopUps
    /\ Read(p, "crediting")

CreditFromWebhook(p, t) ==
    /\ phase[p] = "crediting"
    /\ t \notin topped
    /\ Write(p, TopUpCents)
    /\ topped' = topped \cup {t}
    /\ UNCHANGED <<charged, adjusted, refunded>>
    /\ Resume(p, "idle")

AbandonTopUp(p) ==
    /\ phase[p] = "crediting"
    /\ UNCHANGED tables
    /\ Resume(p, "idle")

(***************************************************************************)
(* Charging.                                                               *)
(***************************************************************************)
Begin(p, r) ==
    /\ phase[p] = "idle"
    /\ r \in begun => r \in Resent
    /\ Goto(p, "charge")
    /\ req' = [req EXCEPT ![p] = r]
    /\ begun' = begun \cup {r}
    /\ irregular' = IF r \in begun THEN irregular \cup {r} ELSE irregular
    /\ UNCHANGED <<tables, snap, cost, attempts, owed>>

Covers(cents) == balance >= cents

\* A request already charged is served without another charge.
ReadForCharge(p) ==
    /\ phase[p] = "charge"
    /\ \/ req[p] \in charged /\ Skip(p, "serve")
       \/ req[p] \notin charged /\ Covers(Quote[req[p]]) /\ Read(p, "charging")

\* InsufficientWalletBalanceError becomes a 402 before any work.
RefuseCharge(p) ==
    /\ phase[p] = "charge"
    /\ req[p] \notin charged
    /\ ~Covers(Quote[req[p]])
    /\ End(p, 0)
    /\ UNCHANGED <<tables, attempts, begun, irregular>>

\* The unique index on (reference_type, reference_id, type).
ChargeUnlessPosted(r) == r \notin charged

ChargeForUsage(p) ==
    /\ phase[p] = "charging"
    /\ ChargeUnlessPosted(req[p])
    /\ Write(p, -Quote[req[p]])
    /\ charged' = charged \cup {req[p]}
    /\ UNCHANGED <<topped, adjusted, refunded>>
    /\ Resume(p, "serve")

(***************************************************************************)
(* The work.                                                               *)
(***************************************************************************)
ProviderSucceeds(p) ==
    /\ \/ phase[p] = "serve" /\ req[p] \notin Ingestions
       \/ phase[p] = "ingest"
    /\ \E c \in Actuals[req[p]] : cost' = [cost EXCEPT ![p] = c]
    /\ Goto(p, "settle")
    /\ UNCHANGED <<tables, snap, req, attempts, begun, irregular, owed>>

ProviderFails(p) ==
    /\ phase[p] = "serve"
    /\ req[p] \notin Ingestions
    /\ Skip(p, "refund")

\* The row of the source, PENDING, created outside the try block.
CreateSource(p) ==
    /\ phase[p] = "serve"
    /\ req[p] \in Ingestions
    /\ Skip(p, "enqueue")

\* The handler returns the PENDING source at once.
Enqueue(p) ==
    /\ phase[p] = "enqueue"
    /\ attempts' = [attempts EXCEPT ![req[p]] = MaxAttempts]
    /\ phase' = [phase EXCEPT ![p] = "idle"]
    /\ req' = [req EXCEPT ![p] = NoRequest]
    /\ UNCHANGED <<tables, snap, cost, begun, irregular, owed>>

EnqueueFails(p) ==
    /\ phase[p] = "enqueue"
    /\ Skip(p, "refund")

InProgress(r) == \E q \in Procs : req[q] = r /\ phase[q] \in WorkPhases

TakeJob(p, r) ==
    /\ phase[p] = "idle"
    /\ attempts[r] > 0
    /\ ~InProgress(r)
    /\ attempts' = [attempts EXCEPT ![r] = @ - 1]
    /\ req' = [req EXCEPT ![p] = r]
    /\ Goto(p, "ingest")
    /\ UNCHANGED <<tables, snap, cost, begun, irregular, owed>>

\* An attempt throws: the queue repeats it, or the source stays FAILED.  A
\* charge is then neither settled nor given back.
AttemptFails(p) ==
    /\ phase[p] \in WorkPhases
    /\ req[p] \in Ingestions
    /\ End(p, IF attempts[req[p]] = 0 THEN Quote[req[p]] ELSE owed[req[p]])

IngestFails(p) ==
    /\ phase[p] = "ingest"
    /\ AttemptFails(p)
    /\ UNCHANGED <<tables, attempts, begun, irregular>>

(***************************************************************************)
(* Settling, by the backend or by the worker's copy of the same code.      *)
(***************************************************************************)
Delta(p) == cost[p] - Quote[req[p]]

\* Settled before, never charged, or charged exactly.
NothingToSettle(p) ==
    \/ adjusted[req[p]] # 0
    \/ req[p] \notin charged
    \/ Delta(p) = 0

ReadForSettle(p) ==
    /\ phase[p] = "settle"
    /\ \/ NothingToSettle(p) /\ Skip(p, "finish")
       \/ ~NothingToSettle(p) /\ Covers(Delta(p)) /\ Read(p, "settling")

\* The quote was too low and the balance is short: a handler goes on to give
\* the whole charge back, a job's attempt has failed.
RefuseSettle(p) ==
    /\ phase[p] = "settle"
    /\ ~NothingToSettle(p)
    /\ ~Covers(Delta(p))
    /\ \/ /\ req[p] \notin Ingestions
          /\ Skip(p, "refund")
       \/ /\ AttemptFails(p)
          /\ UNCHANGED <<tables, attempts, begun, irregular>>

\* Variant: the adjustment has the sign of the difference.
AdjustmentWithItsSign(p) == Delta(p)

Adjustment(p) == -Delta(p)

SettleUsageCharge(p) ==
    /\ phase[p] = "settling"
    /\ adjusted[req[p]] = 0
    /\ Write(p, Adjustment(p))
    /\ adjusted' = [adjusted EXCEPT ![req[p]] = Adjustment(p)]
    /\ UNCHANGED <<topped, charged, refunded>>
    /\ Resume(p, "finish")

\* The result is returned, or the source is INDEXED and the job complete.
Deliver(p) ==
    /\ phase[p] = "finish"
    /\ End(p, cost[p])
    /\ attempts' = [attempts EXCEPT ![req[p]] = 0]
    /\ UNCHANGED <<tables, begun, irregular>>

(***************************************************************************)
(* Giving back.  Always the amount of the USAGE row, settled or not.       *)
(***************************************************************************)
ReadForRefund(p) ==
    /\ phase[p] = "refund"
    /\ req[p] \notin refunded
    /\ req[p] \in charged
    /\ Read(p, "refunding")

NothingToRefund(p) ==
    /\ phase[p] = "refund"
    /\ req[p] \in refunded \/ req[p] \notin charged
    /\ End(p, 0)
    /\ UNCHANGED <<tables, attempts, begun, irregular>>

RefundUsageCharge(p) ==
    /\ phase[p] = "refunding"
    /\ req[p] \notin refunded
    /\ Write(p, Quote[req[p]])
    /\ refunded' = refunded \cup {req[p]}
    /\ End(p, 0)
    /\ UNCHANGED <<topped, charged, adjusted, attempts, begun, irregular>>

(***************************************************************************)
(* What goes wrong.                                                        *)
(***************************************************************************)
Disturb(p) == irregular' = irregular \cup {req[p]}

\* Where an error thrown at the await of process p takes it: charging is
\* outside the try block and an error of the refund is only logged; a handler
\* catches everything in between and refunds; a job's attempt ends.
ThrowsTo(p) ==
    \/ /\ phase[p] \in {"settle", "settling", "finish"}
       /\ req[p] \notin Ingestions
       /\ Goto(p, "refund")
       /\ snap' = [snap EXCEPT ![p] = 0]
       /\ UNCHANGED <<req, cost>>
    \/ /\ \/ phase[p] \in {"charge", "charging", "refund", "refunding"}
          \/ phase[p] \in WorkPhases /\ req[p] \in Ingestions
       /\ Leave(p)

\* A duplicate key, a lost connection, a lock or transaction timeout.
Rollback(p) ==
    /\ phase[p] \in {"charging", "settling", "refunding"}
    /\ \/ "database" \in Faults
       \/ phase[p] = "charging" /\ ~ChargeUnlessPosted(req[p])
       \/ phase[p] = "settling" /\ adjusted[req[p]] # 0
       \/ phase[p] = "refunding" /\ req[p] \in refunded
    /\ ThrowsTo(p)
    /\ Disturb(p)
    /\ UNCHANGED <<tables, attempts, begun, owed>>

\* The charge commits and its caller sees an error: nothing gives it back.
ReplyLost(p) ==
    /\ "reply" \in Faults
    /\ phase[p] = "charging"
    /\ ChargeUnlessPosted(req[p])
    /\ Write(p, -Quote[req[p]])
    /\ charged' = charged \cup {req[p]}
    /\ Leave(p)
    /\ Disturb(p)
    /\ UNCHANGED <<topped, adjusted, refunded, attempts, begun, owed>>

\* Creating the source throws after the charge: there is no refund.
CreateSourceFails(p) ==
    /\ "source" \in Faults
    /\ phase[p] = "serve"
    /\ req[p] \in Ingestions
    /\ Leave(p)
    /\ Disturb(p)
    /\ UNCHANGED <<tables, attempts, begun, owed>>

\* The job is queued and the handler sees an error: it refunds, the job runs.
EnqueueReplyLost(p) ==
    /\ "queue" \in Faults
    /\ phase[p] = "enqueue"
    /\ attempts' = [attempts EXCEPT ![req[p]] = MaxAttempts]
    /\ Goto(p, "refund")
    /\ Disturb(p)
    /\ UNCHANGED <<tables, snap, req, cost, begun, owed>>

\* Counting the tokens, reading the completion or marking the source fails
\* after the settlement.
LateFailure(p) ==
    /\ "late" \in Faults
    /\ phase[p] = "finish"
    /\ ThrowsTo(p)
    /\ Disturb(p)
    /\ UNCHANGED <<tables, attempts, begun, owed>>

Crash(p) ==
    /\ "crash" \in Faults
    /\ phase[p] \notin {"idle", "crediting"}
    /\ Leave(p)
    /\ Disturb(p)
    /\ UNCHANGED <<tables, attempts, begun, owed>>

----------------------------------------------------------------------------
Next ==
    \E p \in Procs :
        \/ BeginTopUp(p) \/ AbandonTopUp(p)
        \/ \E t \in TopUps : CreditFromWebhook(p, t)
        \/ \E r \in Requests : Begin(p, r) \/ TakeJob(p, r)
        \/ ReadForCharge(p) \/ RefuseCharge(p) \/ ChargeForUsage(p)
        \/ ProviderSucceeds(p) \/ ProviderFails(p)
        \/ CreateSource(p) \/ Enqueue(p) \/ EnqueueFails(p) \/ IngestFails(p)
        \/ ReadForSettle(p) \/ RefuseSettle(p) \/ SettleUsageCharge(p) \/ Deliver(p)
        \/ ReadForRefund(p) \/ NothingToRefund(p) \/ RefundUsageCharge(p)
        \/ Rollback(p) \/ ReplyLost(p) \/ CreateSourceFails(p)
        \/ EnqueueReplyLost(p) \/ LateFailure(p) \/ Crash(p)

Spec == Init /\ [][Next]_vars

----------------------------------------------------------------------------
\* The types, and that the stored balance is never negative: every debit
\* is computed from a balance that covered it, however stale.
TypeOK ==
    /\ balance \in Nat
    /\ topped \subseteq TopUps
    /\ charged \subseteq Requests
    /\ adjusted \in [Requests -> Int]
    /\ refunded \subseteq Requests
    /\ phase \in [Procs -> {"idle", "crediting"} \cup ServerPhases \cup WorkPhases]
    /\ req \in [Procs -> Requests \cup {NoRequest}]
    /\ snap \in [Procs -> Nat]
    /\ cost \in [Procs -> Nat]
    /\ attempts \in [Requests -> 0 .. MaxAttempts]
    /\ begun \subseteq Requests
    /\ irregular \subseteq Requests
    /\ owed \in [Requests -> Nat \cup {Open}]
    /\ \A p \in Procs : phase[p] \in {"idle", "crediting"} <=> req[p] = NoRequest

\* What a request's rows add up to.
Net(r) ==
    adjusted[r] + (IF r \in refunded THEN Quote[r] ELSE 0)
                - (IF r \in charged THEN Quote[r] ELSE 0)

\* A call made once and met by no fault is paid for as it ended: refused or
\* failed, nothing; delivered, the provider's cost and not the quote; an
\* ingestion given up after its last attempt, the quote.
OutcomesArePaidFor ==
    \A r \in Requests \ irregular : owed[r] # Open => Net(r) = -owed[r]
=============================================================================
