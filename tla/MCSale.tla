------------------------------- MODULE MCSale -------------------------------
(***************************************************************************)
(* Small instances of the three parts a sale goes through.  They share no  *)
(* state, so they are explored side by side: a behaviour moves one part    *)
(* and leaves the others as they were.                                     *)
(*                                                                         *)
(* Checkout: three requests under one key, a purchase, a retry of it and a *)
(* request whose body differs.  The first may crash, the second's Redis    *)
(* may fail.                                                               *)
(*                                                                         *)
(* Wallet of the seller: a sale of two cents, two withdrawals that         *)
(* together take their reais and, rounded, a cent more than their cents,   *)
(* and an order that two administrators charge back.                       *)
(*                                                                         *)
(* Reversal: sales of a few cents, in which every rounding matters: with   *)
(* and without a fee, interest and a supplier, with percentages that leave *)
(* the seller nothing or exceed what is left, and one whose fee exceeds    *)
(* the price.                                                              *)
(***************************************************************************)
EXTENDS CheckoutOrders, SellerWallet, SaleReversal, TLC

CONSTANTS first, retry, changed, cart, otherCart, sold, large, small

TwoBodies == first :> cart @@ retry :> cart @@ changed :> otherCart

TwoCents == [s \in Sales |-> 2]
OneCent == [o \in Orders |-> 1]
LargeAndSmall == large :> 15 @@ small :> 5
SameOrder == [k \in Calls |-> sold]
Chargebacks == [k \in Calls |-> "chargeback"]

SmallSales ==
    {s \in [buyerPaid : {5, 6}, saleValue : {8}, interest : {0, 1}, fee : {0, 1, 6},
            supplier : {0, 3}, bp : [PercentRoles -> {0, 3000, 6000}]] :
        s.bp["coproducer"] = s.bp["manager"] \/ s.bp["affiliate"] = 0}

VARIABLE part   \* the part that moves

saleVars == <<part, vars, sellerVars, reversalVars>>

SaleInit ==
    /\ Init /\ SellerInit /\ ReversalInit
    /\ part \in {"checkout", "wallet", "reversal"}
    /\ part # "reversal" => sale = CHOOSE s \in SmallSales : TRUE

SaleNext ==
    /\ \/ part = "checkout" /\ Next /\ UNCHANGED <<sellerVars, reversalVars>>
       \/ part = "wallet" /\ SellerNext /\ UNCHANGED <<vars, reversalVars>>
       \/ part = "reversal" /\ ReversalNext /\ UNCHANGED <<vars, sellerVars>>
    /\ UNCHANGED part

\* What the parts are fair to, when they move.
SaleFairness ==
    /\ \A r \in Requests : WF_vars(part = "checkout" /\ Progress(r))
    /\ \A e \in Events : WF_reversalVars(part = "reversal" /\ Process(e))

SaleSpec == SaleInit /\ [][SaleNext]_saleVars /\ SaleFairness
=============================================================================
