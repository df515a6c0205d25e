------------------------- MODULE MCInboundMessages -------------------------
(* Two messages of one contact, the second delivered twice, and batches of *)
(* one.                                                                    *)
EXTENDS InboundMessages, TLC

CONSTANTS m1, m2
InTurn == m1 :> 1 @@ m2 :> 2
Deliveries == m1 :> 1 @@ m2 :> 2
Handlers == Permutations(Procs)
=============================================================================
