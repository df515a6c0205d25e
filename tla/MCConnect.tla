----------------------------- MODULE MCConnect -----------------------------
(***************************************************************************)
(* Small instances of the two halves of Connect, each explored on its own: *)
(* a behaviour moves the ledger or the payouts and leaves the other at its *)
(* initial state, where no fair action of it is enabled.                   *)
(*                                                                         *)
(* Ledger: every operation, on one account, by two callers.  A transaction *)
(* touches the balance row of one account, so one account is enough for    *)
(* every interference.                                                     *)
(*                                                                         *)
(* Payouts: an account whose funds cover one of an approval request and a  *)
(* direct one, but not both, and a client who sends the approval's id      *)
(* again for another account.                                              *)
(***************************************************************************)
EXTENDS ConnectLedger, ConnectPayout

CONSTANTS seller, other, saleA, payoutA, refundA, disputeB, failedA,
          viaApi, first, again

Ask(type, account, ref, amount) ==
    [type |-> type, account |-> account, ref |-> ref, amount |-> amount]

\* The dispute exceeds what is pending, so it spills into AVAILABLE; the
\* refund leaves too little for the payout.
OneAccount ==
    {Ask("CREDIT_PENDING", seller, saleA, 3),
     Ask("DEBIT_PAYOUT", seller, payoutA, 2),
     Ask("DEBIT_REFUND", seller, refundA, 2),
     Ask("DEBIT_CHARGEBACK", seller, disputeB, 4),
     Ask("ADJUSTMENT", seller, failedA, 2)}

Ids == [r \in Requests |-> IF r = again THEN first ELSE r]
Payers == [r \in Requests |-> IF r = again THEN other ELSE seller]
TwoAndOne == [r \in Requests |-> IF r = first THEN 2 ELSE 1]

\* Either of the seller's two requests is covered, but not both.
TightFunds == [a \in Payees |-> IF a = seller THEN 2 ELSE 1]

VARIABLE part   \* the half that moves

connectVars == <<part, ledgerVars, vars>>

ConnectInit == LedgerInit /\ Init /\ part \in {"ledger", "payouts"}

ConnectNext ==
    /\ \/ part = "ledger" /\ LedgerNext /\ UNCHANGED vars
       \/ part = "payouts" /\ Next /\ UNCHANGED ledgerVars
    /\ UNCHANGED part

\* The half that rests has no fair action enabled.
ConnectSpec ==
    ConnectInit /\ [][ConnectNext]_connectVars /\ LedgerFairness /\ Fairness
=============================================================================
