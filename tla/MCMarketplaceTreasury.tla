----------------------- MODULE MCMarketplaceTreasury -----------------------
(***************************************************************************)
(* Small instances of the treasury: fees, a reversal and a payout of which *)
(* each can be met by the larger fee alone, so that they compete for it.   *)
(***************************************************************************)
EXTENDS MarketplaceTreasury

CONSTANTS first

Fees == [s \in Sales |-> IF s = first THEN 2 ELSE 1]
Shares == [t \in Reversals |-> 2]
Amounts == [r \in Requests |-> 2]
=============================================================================
