--------------------------- MODULE ConnectLedger ---------------------------
(***************************************************************************)
(* The Connect ledger (payments/ledger): one balance row per connected     *)
(* account and a table of ledger rows.  Each of its operations is one      *)
(* database transaction of the same shape:                                 *)
(*                                                                         *)
(*   Begin        look for the row the operation would post; return if     *)
(*                it is there (findFirst / findUnique)                     *)
(*   ReadBalance  read the balance row; a payout is refused here           *)
(*   Commit       UPDATE the balance with values COMPUTED FROM THAT READ,  *)
(*                raise the matured flag for a maturation, INSERT the row  *)
(*                                                                         *)
(* No isolation level is requested, so the database runs them at READ      *)
(* COMMITTED: each statement sees what has been committed before it, and   *)
(* nothing checks at commit time that the balance read is still current.   *)
(* The UPDATE takes the row lock that the commit releases, hence UPDATE,   *)
(* INSERT and commit are one step.  The INSERT is refused when the unique  *)
(* index on (reference_type, reference_id, type) already has the key.      *)
(*                                                                         *)
(* Processes are request handlers, webhook handlers and crons of any       *)
(* number of server instances.  Time is left out: a pending credit may be  *)
(* due as soon as it is posted, the delay of every maturation rule being   *)
(* unknown here and zero by default.                                       *)
(***************************************************************************)
EXTENDS Cents

CONSTANTS
    Accounts,   \* rows of connect_account_balances
    Refs,       \* (reference_type, reference_id) pairs
    Callers,    \* concurrent callers
    Postings,   \* the calls the rest of the system makes
    NoJob       \* no transaction open

Columns == {"pending", "available", "received", "paidOut", "chargebacks"}

RequestTypes ==
    {"CREDIT_PENDING", "DEBIT_PAYOUT", "DEBIT_CHARGEBACK", "DEBIT_REFUND", "ADJUSTMENT"}

Types == RequestTypes \cup {"MATURE"}

\* What a transaction is to post: the arguments of the call, or for a
\* maturation the account, reference and amount of the credit it promotes.
Job == [type : Types, account : Accounts, ref : Refs, amount : Nat \ {0}]

\* Each operation throws a RangeError on an amount that is not positive.
ASSUME RequestsAssumption ==
    /\ Postings \subseteq [type : RequestTypes, account : Accounts,
                           ref : Refs, amount : Nat \ {0}]
    /\ NoJob \notin Job

VARIABLES
    balance,    \* the stored balance of each account
    rows,       \* the committed ledger rows
    stage,      \* how far each process's transaction has got
    job,        \* what it is to post
    snap,       \* the balance it read
    replayed,   \* history: what replaying each account's rows gives
    lost        \* history: columns on which a committed change was overwritten

ledgerVars == <<balance, rows, stage, job, snap, replayed, lost>>

Balance == [Columns -> Int]
Row == [type : Types, account : Accounts, ref : Refs, amount : Nat \ {0},
        fromPending : Int, matured : BOOLEAN]

Zero == [c \in Columns |-> 0]

(***************************************************************************)
(* The arithmetic of each operation, from the balance s it read.           *)
(***************************************************************************)
CreditPending(s, amount) ==
    [s EXCEPT !["pending"] = @ + amount, !["received"] = @ + amount]

\* Variant for the checks: a promotion that forgets to lower PENDING.
MoveKeepingPending(s, amount) == [s EXCEPT !["available"] = @ + amount]

MoveFromPendingToAvailable(s, amount) ==
    [s EXCEPT !["pending"] = @ - amount, !["available"] = @ + amount]

DebitAvailableForPayout(s, amount) ==
    [s EXCEPT !["available"] = @ - amount, !["paidOut"] = @ + amount]

\* A chargeback or refund takes what PENDING holds and the rest from
\* AVAILABLE, which may become negative.  A negative PENDING is "taken" too.
Absorbed(s, amount) == IF s["pending"] >= amount THEN amount ELSE s["pending"]

\* Variant: the refund comes wholly out of AVAILABLE, whatever its row says.
DebitForRefundFromAvailable(s, amount) == [s EXCEPT !["available"] = @ - amount]

DebitForRefund(s, amount) ==
    [s EXCEPT !["pending"] = @ - Absorbed(s, amount),
              !["available"] = @ - (amount - Absorbed(s, amount))]

DebitForChargeback(s, amount) ==
    [DebitForRefund(s, amount) EXCEPT !["chargebacks"] = @ + amount]

CreditAvailableByAdjustment(s, amount) ==
    [s EXCEPT !["available"] = @ + amount,
              !["paidOut"] = IF @ >= amount THEN @ - amount ELSE 0]

After(j, s) ==
    [CREDIT_PENDING   |-> CreditPending(s, j.amount),
     MATURE           |-> MoveFromPendingToAvailable(s, j.amount),
     DEBIT_PAYOUT     |-> DebitAvailableForPayout(s, j.amount),
     DEBIT_CHARGEBACK |-> DebitForChargeback(s, j.amount),
     DEBIT_REFUND     |-> DebitForRefund(s, j.amount),
     ADJUSTMENT       |-> CreditAvailableByAdjustment(s, j.amount)][j.type]

\* Variant: the adjustment's UPDATE leaves lifetimePaidOut out.
WrittenWithoutPaidOut(type) ==
    [CREDIT_PENDING   |-> {"pending", "received"},
     MATURE           |-> {"pending", "available"},
     DEBIT_PAYOUT     |-> {"available", "paidOut"},
     DEBIT_CHARGEBACK |-> {"pending", "available", "chargebacks"},
     DEBIT_REFUND     |-> {"pending", "available"},
     ADJUSTMENT       |-> {"available"}][type]

\* The columns an operation's UPDATE names; it leaves the others alone.
Written(type) ==
    [CREDIT_PENDING   |-> {"pending", "received"},
     MATURE           |-> {"pending", "available"},
     DEBIT_PAYOUT     |-> {"available", "paidOut"},
     DEBIT_CHARGEBACK |-> {"pending", "available", "chargebacks"},
     DEBIT_REFUND     |-> {"pending", "available"},
     ADJUSTMENT       |-> {"available", "paidOut"}][type]

Stored(j, s, current) ==
    [c \in Columns |-> IF c \in Written(j.type) THEN After(j, s)[c] ELSE current[c]]

\* The row an operation inserts.  fromPending is the metadata field
\* absorbedFromPendingCents; absorbedFromAvailableCents is the rest.
NewRow(j, s) ==
    [type |-> j.type, account |-> j.account, ref |-> j.ref, amount |-> j.amount,
     fromPending |-> IF j.type \in {"DEBIT_CHARGEBACK", "DEBIT_REFUND"}
                     THEN Absorbed(s, j.amount) ELSE 0,
     matured |-> FALSE]

(***************************************************************************)
(* One step of the reconciliation's replay: s is the balance derived from  *)
(* the rows so far, r the next row.                                        *)
(***************************************************************************)
Replay(s, r) ==
    [CREDIT_PENDING |->
        [s EXCEPT !["pending"] = @ + r.amount, !["received"] = @ + r.amount],
     MATURE |->
        [s EXCEPT !["pending"] = @ - r.amount, !["available"] = @ + r.amount],
     DEBIT_PAYOUT |->
        [s EXCEPT !["available"] = @ - r.amount, !["paidOut"] = @ + r.amount],
     DEBIT_CHARGEBACK |->
        [s EXCEPT !["pending"] = @ - r.fromPending,
                  !["available"] = @ - (r.amount - r.fromPending),
                  !["chargebacks"] = @ + r.amount],
     DEBIT_REFUND |->
        [s EXCEPT !["pending"] = @ - r.fromPending,
                  !["available"] = @ - (r.amount - r.fromPending)],
     ADJUSTMENT |->
        [s EXCEPT !["available"] = @ + r.amount,
                  !["paidOut"] = IF @ >= r.amount THEN @ - r.amount ELSE 0]][r.type]

----------------------------------------------------------------------------
Posted(ref, type) == \E r \in rows : r.ref = ref /\ r.type = type

LedgerInit ==
    /\ balance = [a \in Accounts |-> Zero]
    /\ rows = {}
    /\ stage = [p \in Callers |-> "idle"]
    /\ job = [p \in Callers |-> NoJob]
    /\ snap = [p \in Callers |-> Zero]
    /\ replayed = [a \in Accounts |-> Zero]
    /\ lost = [a \in Accounts |-> {}]

Open(p, j) ==
    /\ stage[p] = "idle"
    /\ stage' = [stage EXCEPT ![p] = "checked"]
    /\ job' = [job EXCEPT ![p] = j]
    /\ UNCHANGED <<balance, rows, snap, replayed, lost>>

Close(p) ==
    /\ stage' = [stage EXCEPT ![p] = "idle"]
    /\ job' = [job EXCEPT ![p] = NoJob]
    /\ snap' = [snap EXCEPT ![p] = Zero]

\* findFirst by (reference, type): a call whose row is posted returns that
\* row and changes nothing.  The same request may be made any number of times.
Begin(p, r) ==
    /\ ~Posted(r.ref, r.type)
    /\ Open(p, r)

\* Variant: the scan wants the credit's cents to be still in PENDING.
DueEntriesStillPending ==
    {r \in rows : /\ r.type = "CREDIT_PENDING"
                  /\ ~r.matured
                  /\ balance[r.account]["pending"] >= r.amount}

\* What the minute cron selects: pending credits not yet matured and due.
DueEntries == {r \in rows : r.type = "CREDIT_PENDING" /\ ~r.matured}

\* moveFromPendingToAvailable re-reads the entry by id inside the transaction,
\* so an entry matured since the cron selected it is skipped here.
BeginMature(p, entry) ==
    /\ entry \in DueEntries
    /\ Open(p, [type |-> "MATURE", account |-> entry.account,
                ref |-> entry.ref, amount |-> entry.amount])

\* Variant: a payout may draw on what is still pending.
CanProceedOnTotal(j, s) ==
    j.type = "DEBIT_PAYOUT" => s["pending"] + s["available"] >= j.amount

\* findUnique on the balance.  Only a payout is conditional on what it reads.
CanProceed(j, s) == j.type = "DEBIT_PAYOUT" => s["available"] >= j.amount

ReadBalance(p) ==
    /\ stage[p] = "checked"
    /\ CanProceed(job[p], balance[job[p].account])
    /\ stage' = [stage EXCEPT ![p] = "read"]
    /\ snap' = [snap EXCEPT ![p] = balance[job[p].account]]
    /\ UNCHANGED <<balance, rows, job, replayed, lost>>

RefusePayout(p) ==
    /\ stage[p] = "checked"
    /\ ~CanProceed(job[p], balance[job[p].account])
    /\ Close(p)
    /\ UNCHANGED <<balance, rows, replayed, lost>>

Flagged(j, r) ==
    IF j.type = "MATURE" /\ r.type = "CREDIT_PENDING" /\ r.ref = j.ref
    THEN [r EXCEPT !.matured = TRUE]
    ELSE r

\* Variant: there is no unique index, only the check at the start.
NoUniqueIndex(j) == TRUE

\* The unique index on (reference_type, reference_id, type).
UniqueIndexAllows(j) == ~Posted(j.ref, j.type)

Commit(p) ==
    LET j == job[p]
        a == j.account
        s == snap[p]
    IN  /\ stage[p] = "read"
        /\ UniqueIndexAllows(j)
        /\ balance' = [balance EXCEPT ![a] = Stored(j, s, balance[a])]
        /\ rows' = {Flagged(j, r) : r \in rows} \cup {NewRow(j, s)}
        /\ replayed' = [replayed EXCEPT ![a] = Replay(replayed[a], NewRow(j, s))]
        /\ lost' = [lost EXCEPT ![a] =
                        lost[a] \cup {c \in Written(j.type) : s[c] # balance[a][c]}]
        /\ Close(p)

\* A duplicate key, a lost connection, a transaction timeout or a crash.
Rollback(p) ==
    /\ stage[p] # "idle"
    /\ Close(p)
    /\ UNCHANGED <<balance, rows, replayed, lost>>

LedgerNext ==
    \E p \in Callers :
        \/ \E r \in Postings : Begin(p, r)
        \/ \E entry \in rows : BeginMature(p, entry)
        \/ ReadBalance(p)
        \/ RefusePayout(p)
        \/ Commit(p)
        \/ Rollback(p)

\* No transaction stays open for ever (the client library times it out), the
\* cron runs every minute and retries what failed, and the database does not
\* roll back every one of infinitely many attempts.
Maturing(p, ref) == job[p] # NoJob /\ job[p].type = "MATURE" /\ job[p].ref = ref

CreditRefs == {r.ref : r \in {q \in Postings : q.type = "CREDIT_PENDING"}}

LedgerFairness ==
    /\ \A p \in Callers : /\ WF_ledgerVars(ReadBalance(p) \/ RefusePayout(p))
                          /\ WF_ledgerVars(Commit(p) \/ Rollback(p))
    /\ \A ref \in CreditRefs :
        /\ SF_ledgerVars(\E p \in Callers, e \in rows : e.ref = ref /\ BeginMature(p, e))
        /\ \A p \in Callers : /\ SF_ledgerVars(Maturing(p, ref) /\ ReadBalance(p))
                              /\ SF_ledgerVars(Maturing(p, ref) /\ Commit(p))

LedgerSpec == LedgerInit /\ [][LedgerNext]_ledgerVars /\ LedgerFairness

----------------------------------------------------------------------------
\* The types of the variables, and that a process outside a transaction
\* carries no job.
LedgerTypeOK ==
    /\ balance \in [Accounts -> Balance]
    /\ rows \subseteq Row
    /\ stage \in [Callers -> {"idle", "checked", "read"}]
    /\ job \in [Callers -> Job \cup {NoJob}]
    /\ snap \in [Callers -> Balance]
    /\ replayed \in [Accounts -> Balance]
    /\ lost \in [Accounts -> SUBSET Columns]
    /\ \A p \in Callers : stage[p] # "idle" <=> job[p] # NoJob

\* The reconciliation's replay explains every stored column on which no
\* committed change was overwritten: whatever the mix of operations and their
\* interleaving, drift has exactly one cause, a transaction that commits over
\* a column that changed after it read it.  So each operation's arithmetic and
\* each case of replay() agree, and operations that write different columns do
\* not disturb each other.
DriftOnlyFromLostUpdates ==
    \A a \in Accounts : \A c \in Columns \ lost[a] : balance[a][c] = replayed[a][c]

RowsOf(a) == {r \in rows : r.account = a}

AmountOf == [r \in Row |-> r.amount]

\* What a row took from PENDING is negative when PENDING was.
Taken == [r \in Row |-> r.fromPending]
GivenBack == [r \in Row |-> -r.fromPending]

\* Unless a committed change of it was overwritten, PENDING is the cents of
\* the credits not yet matured, less what refunds and disputes took from it.
\* It is therefore negative after a credit matures whose cents a refund had
\* already taken, and the next refund or dispute then takes more than its own
\* amount from AVAILABLE to bring it back to 0.
PendingIsAccountedFor ==
    \A a \in Accounts :
        "pending" \notin lost[a] =>
            balance[a]["pending"] =
                Worth(AmountOf, RowsOf(a) \cap DueEntries)
                  - Worth(Taken, RowsOf(a)) + Worth(GivenBack, RowsOf(a))

\* The matured flag and the MATURE row never disagree, however many crons of
\* however many instances race over the same due credit: a credit is flagged
\* exactly when the row that moved its cents exists, for that account and amount.
MaturedIffMoved ==
    /\ \A e \in rows : e.type = "CREDIT_PENDING" =>
            (e.matured <=> Posted(e.ref, "MATURE"))
    /\ \A m \in rows : m.type = "MATURE" =>
            \E e \in rows : /\ e.type = "CREDIT_PENDING"
                            /\ e.ref = m.ref
                            /\ e.account = m.account
                            /\ e.amount = m.amount

\* The rows implement the append-only journal with one posting per reference
\* and type, even though the check and the insert are separate statements.
JournalOfRows == INSTANCE Journal WITH rows <- rows
ImplementsJournal == JournalOfRows!Spec

\* No drift at all, which a single writer guarantees and concurrent ones do
\* not: the stored balance is always what the ledger's rows add up to.
NoDrift == \A a \in Accounts : balance[a] = replayed[a]

\* Only matured money leaves by a payout, however many callers race: when a
\* payout row is posted, the rows of its account, the new one included, still
\* add up to an AVAILABLE that is not negative, unless a committed change of
\* AVAILABLE had been overwritten, by this payout or before.
PayoutsAreCovered ==
    [][\A r \in rows' \ rows :
        r.type = "DEBIT_PAYOUT" /\ "available" \notin lost'[r.account] =>
            replayed'[r.account]["available"] >= 0]_ledgerVars

\* A pending credit is eventually promoted by the cron.
EveryCreditMatures ==
    \A ref \in CreditRefs : Posted(ref, "CREDIT_PENDING") ~> Posted(ref, "MATURE")
=============================================================================
