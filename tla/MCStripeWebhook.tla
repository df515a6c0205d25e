-------------------------- MODULE MCStripeWebhook --------------------------
(***************************************************************************)
(* Instances of the Stripe webhook: two split lines, so that a failure can *)
(* fall between them, and two handlers, so that a delivery after the claim *)
(* has expired can overlap with a slow earlier one.                        *)
(***************************************************************************)
EXTENDS StripeWebhook
=============================================================================
