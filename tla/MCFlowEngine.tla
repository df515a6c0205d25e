---------------------------- MODULE MCFlowEngine ----------------------------
(***************************************************************************)
(* A flow with both kinds of question and a message at its end: ask and    *)
(* wait, ask and wait for a reply or the timeout, then make the offer.     *)
(***************************************************************************)
EXTENDS FlowEngine, TLC
CONSTANTS ask, confirm, offer

FlowNodes == {ask, confirm, offer}
FlowKinds == (ask :> "wait") @@ (confirm :> "reply") @@ (offer :> "act")
NextEdges == (ask :> confirm) @@ (confirm :> offer) @@ (offer :> "END")
OtherEdges == (ask :> confirm) @@ (confirm :> "END") @@ (offer :> "END")
Fallback == (ask :> confirm) @@ (confirm :> None) @@ (offer :> None)
=============================================================================
