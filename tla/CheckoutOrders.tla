--------------------------- MODULE CheckoutOrders ---------------------------
(***************************************************************************)
(* Public checkout: createOrder (checkout.service), the one controller     *)
(* method behind the idempotency guard, for orders with one coupon.  Its   *)
(* handler runs these steps, each a database or Stripe call of its own:    *)
(*                                                                         *)
(*   validate  read the coupon; refuse it when it is used up               *)
(*   create    insert the order, with the discount                         *)
(*   pay       fraud check, then a PaymentIntent keyed by the ORDER's id   *)
(*   persist   insert the payment row of the order                         *)
(*   count     increment the coupon's usedCount                            *)
(*                                                                         *)
(* There is no transaction around them: what failed or crashed half-way    *)
(* stays as it is, and a retry by the client starts a new order.           *)
(***************************************************************************)
EXTENDS IdempotencyGuard, Naturals, FiniteSets

CONSTANTS MaxUses   \* how often the coupon may be used

ASSUME CheckoutAssumption == MaxUses \in Nat \ {0}

VARIABLES
    step,       \* where each request's handler is
    orders,     \* requests that have inserted an order
    intents,    \* requests whose order has a PaymentIntent at Stripe
    payments,   \* requests whose order has a payment row
    usedCount   \* the coupon's counter

checkoutVars == <<step, orders, intents, payments, usedCount>>

vars == <<guardVars, checkoutVars>>

Steps == {"none", "validate", "create", "pay", "persist", "count", "done"}

Init ==
    /\ GuardInit
    /\ step = [r \in Requests |-> "none"]
    /\ orders = {}
    /\ intents = {}
    /\ payments = {}
    /\ usedCount = 0

\* The guard lets the request through to the handler, or moves otherwise.
Guard(r) ==
    /\ Guarding(r)
    /\ step' = [step EXCEPT ![r] = IF pc'[r] = "handler" THEN "validate" ELSE @]
    /\ UNCHANGED <<orders, intents, payments, usedCount>>

At(r, s) == pc[r] = "handler" /\ step[r] = s

Advance(r, s) ==
    /\ step' = [step EXCEPT ![r] = s]
    /\ UNCHANGED guardVars

Exhausted == usedCount >= MaxUses

ValidateCoupon(r) ==
    /\ At(r, "validate")
    /\ ~Exhausted
    /\ Advance(r, "create")
    /\ UNCHANGED <<orders, intents, payments, usedCount>>

CreateOrder(r) ==
    /\ At(r, "create")
    /\ Advance(r, "pay")
    /\ orders' = orders \cup {r}
    /\ UNCHANGED <<intents, payments, usedCount>>

ProcessPayment(r) ==
    /\ At(r, "pay")
    /\ Advance(r, "persist")
    /\ intents' = intents \cup {r}
    /\ UNCHANGED <<orders, payments, usedCount>>

PersistPayment(r) ==
    /\ At(r, "persist")
    /\ Advance(r, "count")
    /\ payments' = payments \cup {r}
    /\ UNCHANGED <<orders, intents, usedCount>>

CountCoupon(r) ==
    /\ At(r, "count")
    /\ Advance(r, "done")
    /\ usedCount' = usedCount + 1
    /\ UNCHANGED <<orders, intents, payments>>

Return(r) ==
    /\ At(r, "done")
    /\ HandlerReturns(r)
    /\ step' = [step EXCEPT ![r] = "none"]
    /\ UNCHANGED <<orders, intents, payments, usedCount>>

\* The coupon is refused, the fraud check blocks, or a call fails; a call
\* whose answer is lost has taken effect.
Throw(r) ==
    /\ HandlerThrows(r)
    /\ step[r] # "done"
    /\ step' = [step EXCEPT ![r] = "none"]
    /\ \/ UNCHANGED <<orders, intents, payments, usedCount>>
       \/ /\ step[r] = "create"
          /\ orders' = orders \cup {r}
          /\ UNCHANGED <<intents, payments, usedCount>>
       \/ /\ step[r] = "pay"
          /\ intents' = intents \cup {r}
          /\ UNCHANGED <<orders, payments, usedCount>>
       \/ /\ step[r] = "persist"
          /\ payments' = payments \cup {r}
          /\ UNCHANGED <<orders, intents, usedCount>>
       \/ /\ step[r] = "count"
          /\ usedCount' = usedCount + 1
          /\ UNCHANGED <<orders, intents, payments>>

Handle(r) ==
    \/ ValidateCoupon(r)
    \/ CreateOrder(r)
    \/ ProcessPayment(r)
    \/ PersistPayment(r)
    \/ CountCoupon(r)
    \/ Return(r)
    \/ Throw(r)

\* The interceptor, a late DEL, and what fails around them.
Finish(r) == (Answering(r) \/ Cleared(r)) /\ UNCHANGED checkoutVars

Disturb ==
    /\ Disturbance
    /\ step' = [r \in Requests |->
                    IF pc'[r] = pc[r] THEN step[r]
                    ELSE IF pc'[r] = "handler" THEN "validate" ELSE "none"]
    /\ UNCHANGED <<orders, intents, payments, usedCount>>

Progress(r) == Guard(r) \/ Handle(r) \/ Finish(r)

Next == Disturb \/ \E r \in Requests : Progress(r)

\* A request that is not cut off goes on: Redis, the database and Stripe
\* answer or fail, and a client library bounds every wait.
Fairness == \A r \in Requests : WF_vars(Progress(r))

Spec == Init /\ [][Next]_vars /\ Fairness

----------------------------------------------------------------------------
\* The types, and that a handler runs exactly between guard and interceptor.
TypeOK ==
    /\ GuardTypeOK
    /\ step \in [Requests -> Steps]
    /\ \A r \in Requests : step[r] # "none" <=> pc[r] = "handler"
    /\ payments \subseteq intents
    /\ intents \subseteq orders
    /\ orders \subseteq Requests
    /\ usedCount \in Nat

\* One purchase, one order, one charge: once a response is final, retries of
\* the same body add neither an order nor a PaymentIntent, unless Redis fails
\* or a key expires.
SettledAddsNothing ==
    [][\A r \in settled, s \in Requests :
        faults' = {} /\ BodyOf[s] = BodyOf[r] =>
            (s \in orders' \cup intents' <=> s \in orders \cup intents)]_vars

\* A request that is past its claim is answered or dies with its instance,
\* whatever its peers do, even when one crashed and left its placeholder.
EveryRequestIsAnswered ==
    \A r \in Requests : pc[r] # "claim" ~> answer[r] # None \/ pc[r] = "crashed"
=============================================================================
