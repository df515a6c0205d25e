----------------------------- MODULE SaleProofs -----------------------------
(***************************************************************************)
(* Theorems about what becomes of a sale outside of Connect: its order and *)
(* payment, the cents in its seller's wallet, and its reversals.           *)
(*                                                                         *)
(* First the idempotency guard and the checkout behind it, for every set   *)
(* of requests and bodies, and every mix of failures, crashes and expiry.  *)
(* The first part is about the guard with any handler; the second shows    *)
(* that createOrder runs under it as such a handler.                       *)
(***************************************************************************)
EXTENDS CheckoutOrders, SellerWallet, SaleReversal, FiniteSetTheorems, TLAPS

(***************************************************************************)
(* The guard.                                                              *)
(***************************************************************************)
\* What is cached for a body is a response to that body.
EntriesMatch ==
    \A b \in Bodies : entry[b] \in Requests => BodyOf[entry[b]] = b

\* A request past the scope check has the scope's body.
ScopeHolds ==
    faults = {} => \A r \in Requests :
        /\ pc[r] \notin {"claim", "compare", "done", "crashed"} \/ r \in started =>
                scope = BodyOf[r]
        /\ pc[r] = "compare" => scope # None

\* An unawaited DEL belongs to a request that was answered with its error.
ClearingIsDone == \A r \in clearing : pc[r] = "done"

GuardInv ==
    /\ GuardTypeOK
    /\ EntriesMatch
    /\ AnswersMatchBody
    /\ ScopeHolds
    /\ ClearingIsDone
    /\ SettledIsFinal

USE GuardAssumption DEF Phases

\* Nothing is cached and nobody answered at the start.
LEMMA GuardInitInv == GuardInit => GuardInv
  BY DEF GuardInit, GuardInv, GuardTypeOK, EntriesMatch, AnswersMatchBody, ScopeHolds,
         ClearingIsDone, SettledIsFinal

\* The steps up to the handler.
LEMMA GuardingKeepsInv ==
    ASSUME GuardInv, NEW r \in Requests, Guarding(r)
    PROVE  GuardInv'
<1> USE DEF GuardInv, GuardTypeOK, EntriesMatch, AnswersMatchBody, ScopeHolds, ClearingIsDone,
            SettledIsFinal, Rivals, CacheKey, Goto, Answer
<1>1. CASE Claim(r)
  BY <1>1 DEF Claim, ScopeAfterClaim
<1>2. CASE Compare(r)
  BY <1>2 DEF Compare
<1>3. CASE Lookup(r)
  BY <1>3 DEF Lookup, Serve
<1>4. CASE Poll(r)
  BY <1>4 DEF Poll, Serve, AfterLastPoll
<1>5. CASE ClearStale(r)
  BY <1>5 DEF ClearStale
<1>6. CASE Place(r)
  BY <1>6 DEF Place
<1> QED  BY <1>1, <1>2, <1>3, <1>4, <1>5, <1>6 DEF Guarding

\* The steps around and after the handler.
LEMMA AnsweringKeepsInv ==
    ASSUME GuardInv, NEW r \in Requests,
           HandlerReturns(r) \/ HandlerThrows(r) \/ Answering(r) \/ Cleared(r)
    PROVE  GuardInv'
<1> USE DEF GuardInv, GuardTypeOK, EntriesMatch, AnswersMatchBody, ScopeHolds, ClearingIsDone,
            SettledIsFinal, Rivals, CacheKey, Goto, Answer
<1>1. CASE HandlerReturns(r)
  BY <1>1 DEF HandlerReturns
<1>2. CASE HandlerThrows(r)
  BY <1>2 DEF HandlerThrows
<1>3. CASE Store(r)
  BY <1>3 DEF Store, ResponseOf
<1>4. CASE Respond(r)
  BY <1>4 DEF Respond
<1>5. CASE Cleared(r)
  BY <1>5 DEF Cleared
<1> QED  BY <1>1, <1>2, <1>3, <1>4, <1>5 DEF Answering

\* Failures, crashes and expiry.
LEMMA DisturbanceKeepsInv ==
    ASSUME GuardInv, Disturbance
    PROVE  GuardInv'
<1> USE DEF GuardInv, GuardTypeOK, EntriesMatch, AnswersMatchBody, ScopeHolds, ClearingIsDone,
            SettledIsFinal, Rivals, CacheKey, Goto
<1>1. CASE Expire
  BY <1>1 DEF Expire
<1>2. ASSUME NEW r \in Requests, RedisFails(r)
      PROVE  GuardInv'
  BY <1>2 DEF RedisFails, ScopeAfterClaim
<1>3. ASSUME NEW r \in Requests, Crash(r)
      PROVE  GuardInv'
  BY <1>3 DEF Crash
<1> QED  BY <1>1, <1>2, <1>3 DEF Disturbance

\* The invariant holds throughout, with any handler.
LEMMA GuardSpecInv == GuardSpec => []GuardInv
<1>1. GuardInv /\ [GuardNext]_guardVars => GuardInv'
  <2>1. ASSUME GuardInv, UNCHANGED guardVars PROVE GuardInv'
    BY <2>1 DEF guardVars, GuardInv, GuardTypeOK, EntriesMatch, AnswersMatchBody, ScopeHolds,
                ClearingIsDone, SettledIsFinal, Rivals, CacheKey
  <2> QED
    BY <2>1, GuardingKeepsInv, AnsweringKeepsInv, DisturbanceKeepsInv DEF GuardNext, Undisturbed
<1> QED  BY GuardInitInv, <1>1, PTL DEF GuardSpec

(***************************************************************************)
(* createOrder under the guard.                                            *)
(***************************************************************************)
\* Every step of the checkout is a step of the guard or leaves it alone.
LEMMA StepIsGuardStep ==
    ASSUME [Next]_vars
    PROVE  [GuardNext]_guardVars
<1>1. ASSUME NEW r \in Requests, Guard(r) PROVE GuardNext
  BY <1>1 DEF Guard, GuardNext, Undisturbed
<1>2. ASSUME NEW r \in Requests, Handle(r) PROVE [GuardNext]_guardVars
  BY <1>2 DEF Handle, ValidateCoupon, CreateOrder, ProcessPayment, PersistPayment, CountCoupon,
              Advance, Return, Throw, GuardNext
<1>3. ASSUME NEW r \in Requests, Finish(r) PROVE GuardNext
  BY <1>3 DEF Finish, GuardNext, Undisturbed
<1>4. CASE Disturb
  BY <1>4 DEF Disturb, GuardNext
<1>5. CASE UNCHANGED vars
  BY <1>5 DEF vars
<1> QED  BY <1>1, <1>2, <1>3, <1>4, <1>5 DEF Next, Progress

\* The composition implements the guard with its abstract handler, so that
\* all that is proved of the guard holds of the checkout.
THEOREM CheckoutImplementsGuard == Spec => GuardSpec
<1>1. Init => GuardInit
  BY DEF Init
<1> QED  BY <1>1, StepIsGuardStep, PTL DEF Spec, GuardSpec

\* No client is ever answered with the response to another body.
THEOREM AnswersAreForTheBody == Spec => []AnswersMatchBody
  BY CheckoutImplementsGuard, GuardSpecInv, PTL DEF GuardInv

\* Without a Redis failure or an expired key, one key means one body.
THEOREM KeyMeansOneBody == Spec => []OneBodyPerKey
<1>1. GuardInv => OneBodyPerKey
  BY DEF GuardInv, GuardTypeOK, ScopeHolds, OneBodyPerKey
<1> QED  BY CheckoutImplementsGuard, GuardSpecInv, <1>1, PTL

\* Without a Redis failure or an expired key, a settled response stays cached
\* and nobody is left who could run the handler for its body.
THEOREM SettledStaysFinal == Spec => []SettledIsFinal
  BY CheckoutImplementsGuard, GuardSpecInv, PTL DEF GuardInv

\* Only a request whose handler runs adds an order or an intent.
LEMMA OnlyHandlersAdd ==
    ASSUME [Next]_vars, NEW s \in Requests,
           ~(s \in orders' \cup intents' <=> s \in orders \cup intents)
    PROVE  pc[s] = "handler"
<1>1. ASSUME NEW r \in Requests, Guard(r) \/ Finish(r) PROVE FALSE
  BY <1>1 DEF Guard, Finish, checkoutVars
<1>2. ASSUME NEW r \in Requests, Handle(r) PROVE pc[s] = "handler"
  BY <1>2 DEF Handle, ValidateCoupon, CreateOrder, ProcessPayment, PersistPayment, CountCoupon,
              At, Return, Throw, HandlerThrows
<1>3. CASE Disturb
  BY <1>3 DEF Disturb
<1>4. CASE UNCHANGED vars
  BY <1>4 DEF vars, checkoutVars
<1> QED  BY <1>1, <1>2, <1>3, <1>4 DEF Next, Progress

\* Retries of a settled purchase add neither an order nor a PaymentIntent.
THEOREM SettledPurchases == Spec => SettledAddsNothing
<1>1. ASSUME GuardInv, GuardInv', [Next]_vars
      PROVE  [\A r \in settled, s \in Requests :
                faults' = {} /\ BodyOf[s] = BodyOf[r] =>
                    (s \in orders' \cup intents' <=> s \in orders \cup intents)]_vars
  <2>1. faults' = {} => faults = {}
    <3>1. [GuardNext]_guardVars
      BY <1>1, StepIsGuardStep
    <3> QED
      BY <3>1 DEF GuardNext, guardVars, Undisturbed, Guarding, Claim, Compare, Lookup, Poll,
                  ClearStale, Place, Answering, Store, Respond, Cleared, HandlerReturns,
                  HandlerThrows, Disturbance, Expire, RedisFails, Crash
  <2>2. ASSUME NEW r \in settled, NEW s \in Requests, faults = {}, BodyOf[s] = BodyOf[r]
        PROVE  pc[s] # "handler"
    BY <1>1, <2>2 DEF GuardInv, SettledIsFinal, Rivals, CacheKey
  <2> QED  BY <1>1, <2>1, <2>2, OnlyHandlersAdd
<1> QED  BY <1>1, CheckoutImplementsGuard, GuardSpecInv, PTL DEF Spec, SettledAddsNothing

(***************************************************************************)
(* Types of the composition.                                               *)
(***************************************************************************)
\* What a handler has entered by the time it reaches a step.
Entered ==
    \A r \in Requests :
        /\ step[r] \in {"pay", "persist", "count", "done"} => r \in orders
        /\ step[r] \in {"persist", "count", "done"} => r \in intents

CheckoutInv == TypeOK /\ Entered

LEMMA GuardKeepsTypes ==
    ASSUME CheckoutInv, GuardTypeOK', NEW r \in Requests, Guard(r) \/ Finish(r)
    PROVE  CheckoutInv'
<1> USE DEF CheckoutInv, TypeOK, Entered, Steps
<1>1. /\ UNCHANGED <<orders, intents, payments, usedCount>>
      /\ \A q \in Requests : q # r => pc'[q] = pc[q] /\ step'[q] = step[q]
      /\ step' \in [Requests -> Steps]
  BY DEF Guard, Finish, checkoutVars, GuardTypeOK, Guarding, Claim, Compare, Lookup, Poll, ClearStale, Place,
         Serve, Answering, Store, Respond, Cleared, Goto, Answer
<1>2. pc[r] # "handler" \/ (pc' = pc /\ step' = step)
  BY DEF Guard, Finish, checkoutVars, Guarding, Claim, Compare, Lookup, Poll, ClearStale, Place,
         Answering, Store, Respond, Cleared
<1>3. \/ Guard(r)
      \/ step' = step /\ (pc' = pc \/ pc'[r] # "handler")
  BY DEF Finish, checkoutVars, GuardTypeOK, Answering, Store, Respond, Cleared, Goto, Answer
<1>4. CASE Guard(r)
  <2>1. step'[r] = IF pc'[r] = "handler" THEN "validate" ELSE step[r]
    BY <1>4 DEF Guard
  <2>2. pc[r] # "handler"
    BY <1>4 DEF Guard, Guarding, Claim, Compare, Lookup, Poll, ClearStale, Place
  <2> QED  BY <1>1, <2>1, <2>2
<1>5. CASE step' = step /\ (pc' = pc \/ pc'[r] # "handler")
  BY <1>1, <1>2, <1>5
<1> QED  BY <1>3, <1>4, <1>5

LEMMA HandleKeepsTypes ==
    ASSUME CheckoutInv, GuardTypeOK', NEW r \in Requests, Handle(r)
    PROVE  CheckoutInv'
<1> USE DEF CheckoutInv, TypeOK, Entered, Steps, At, Advance, GuardTypeOK, guardVars
<1>1. CASE ValidateCoupon(r)
  BY <1>1 DEF ValidateCoupon
<1>2. CASE CreateOrder(r)
  BY <1>2 DEF CreateOrder
<1>3. CASE ProcessPayment(r)
  BY <1>3 DEF ProcessPayment
<1>4. CASE PersistPayment(r)
  BY <1>4 DEF PersistPayment
<1>5. CASE CountCoupon(r)
  BY <1>5 DEF CountCoupon
<1>6. CASE Return(r)
  BY <1>6 DEF Return, HandlerReturns, Goto
<1>7. CASE Throw(r)
  BY <1>7 DEF Throw, HandlerThrows, Answer, Goto
<1> QED  BY <1>1, <1>2, <1>3, <1>4, <1>5, <1>6, <1>7 DEF Handle

LEMMA DisturbKeepsTypes ==
    ASSUME CheckoutInv, GuardTypeOK', Disturb
    PROVE  CheckoutInv'
<1> USE DEF CheckoutInv, TypeOK, Entered, Steps
<1>1. \A q \in Requests : (pc'[q] = "handler" /\ pc[q] # "handler") \/ pc'[q] = pc[q] \/ pc'[q] # "handler"
  OBVIOUS
<1>2. ASSUME NEW q \in Requests
      PROVE  step'[q] = IF pc'[q] = pc[q] THEN step[q] ELSE IF pc'[q] = "handler" THEN "validate" ELSE "none"
  BY DEF Disturb
<1>3. UNCHANGED <<orders, intents, payments, usedCount>>
  BY DEF Disturb
<1>4. step' \in [Requests -> Steps]
  BY DEF Disturb
<1> QED  BY <1>1, <1>2, <1>3, <1>4

\* The checkout's variables keep their types, a handler runs exactly between
\* the guard and the interceptor, and a payment row has its PaymentIntent and
\* its order.
THEOREM CheckoutTypeOK == Spec => []TypeOK
<1> USE CheckoutAssumption
<1>1. Init => CheckoutInv
  BY GuardInitInv DEF Init, GuardInv, GuardInit, CheckoutInv, TypeOK, Entered, Steps
<1>2. GuardTypeOK' /\ CheckoutInv /\ [Next]_vars => CheckoutInv'
  <2>1. ASSUME CheckoutInv, UNCHANGED vars PROVE CheckoutInv'
    BY <2>1 DEF CheckoutInv, TypeOK, Entered, GuardTypeOK, vars, guardVars, checkoutVars
  <2> QED  BY <2>1, GuardKeepsTypes, HandleKeepsTypes, DisturbKeepsTypes DEF Next, Progress
<1>3. GuardInv => GuardTypeOK
  BY DEF GuardInv
<1>4. CheckoutInv => TypeOK
  BY DEF CheckoutInv
<1> QED  BY <1>1, <1>2, <1>3, <1>4, CheckoutImplementsGuard, GuardSpecInv, PTL DEF Spec

----------------------------------------------------------------------------
(***************************************************************************)
(* The seller's wallet, for every set of sales, withdrawals, orders and    *)
(* administrators' calls, and any number of processes.                     *)
(***************************************************************************)
HIDE GuardAssumption DEF Phases

USE SellerAssumption DEF Buckets, Adjusting

\* What a process may do next.
Step(p) ==
    \/ \E s \in Sales : BeginSale(p, s) \/ BeginConfirm(p, s) \/ BeginSettle(p, s)
    \/ \E w \in Withdrawals : BeginWithdrawal(p, w)
    \/ \E k \in Calls : BeginAdjust(p, k)
    \/ CommitSale(p) \/ CommitConfirm(p) \/ CommitSettle(p) \/ CommitWithdrawal(p)
    \/ ChooseBucket(p) \/ CommitAdjust(p) \/ Abandon(p)

LEMMA NextSteps == SellerNext <=> \E p \in Procs : Step(p)
  BY DEF SellerNext, Step

----------------------------------------------------------------------------
(***************************************************************************)
(* Types.                                                                  *)
(***************************************************************************)
\* Division with remainder.
LEMMA DivMod ==
    ASSUME NEW n \in Nat, NEW p \in Nat \ {0}
    PROVE  /\ n \div p \in Nat /\ n % p \in 0 .. p - 1
           /\ n = p * (n \div p) + (n % p)
<1>1. n % p \in 0 .. p - 1
  OBVIOUS
<1>2. n = p * (n \div p) + (n % p)
  OBVIOUS
<1>3. n \div p \in Nat
  OBVIOUS
<1> QED  BY <1>1, <1>2, <1>3

\* Rounding to whole cents takes at most half a cent more than was asked for.
LEMMA RoundedBound ==
    ASSUME NEW n \in Nat
    PROVE  /\ Rounded(n) \in Nat
           /\ 2 * (Grain * Rounded(n)) <= 2 * n + Grain
<1> DEFINE d == 2 * Grain
           m == 2 * n + Grain
<1>1. d \in Nat \ {0} /\ m \in Nat
  OBVIOUS
<1>2. m \div d \in Nat /\ m % d \in 0 .. d - 1 /\ m = d * (m \div d) + (m % d)
  BY <1>1, DivMod
<1>3. Rounded(n) = m \div d
  BY DEF Rounded
<1>4. d * Rounded(n) = 2 * (Grain * Rounded(n))
  BY <1>2, <1>3
<1>5. d * Rounded(n) <= m
  BY <1>2, <1>3
<1> QED  BY <1>2, <1>3, <1>4, <1>5

LEMMA StepKeepsTypes ==
    ASSUME SellerTypeOK, NEW p \in Procs, Step(p)
    PROVE  SellerTypeOK'
<1> USE DEF SellerTypeOK, Start, Leave, money
<1>1. ASSUME NEW s \in Sales, BeginSale(p, s) PROVE SellerTypeOK'
  BY <1>1 DEF BeginSale
<1>2. ASSUME NEW s \in Sales, BeginConfirm(p, s) PROVE SellerTypeOK'
  BY <1>2 DEF BeginConfirm
<1>3. ASSUME NEW s \in Sales, BeginSettle(p, s) PROVE SellerTypeOK'
  BY <1>3 DEF BeginSettle
<1>4. ASSUME NEW w \in Withdrawals, BeginWithdrawal(p, w) PROVE SellerTypeOK'
  BY <1>4 DEF BeginWithdrawal
<1>5. ASSUME NEW k \in Calls, BeginAdjust(p, k) PROVE SellerTypeOK'
  BY <1>5 DEF BeginAdjust, Serving
<1>6. CASE CommitSale(p)
  BY <1>6 DEF CommitSale, Enter, Touch, Row, Keys
<1>7. CASE CommitConfirm(p)
  BY <1>7 DEF CommitConfirm, Release, Touch, Row, Keys
<1>8. CASE CommitSettle(p)
  BY <1>8 DEF CommitSettle, Release, Touch, Row, Keys
<1>9. CASE CommitWithdrawal(p)
  <2>1. work[p] \in Withdrawals /\ Amount[work[p]] \in Nat
    BY <1>9 DEF CommitWithdrawal
  <2>2. Rounded(Amount[work[p]]) \in Nat
    BY <2>1, RoundedBound
  <2> QED  BY <1>9, <2>1, <2>2 DEF CommitWithdrawal, Enter, Touch, Row, Keys
<1>10. CASE ChooseBucket(p)
  BY <1>10 DEF ChooseBucket
<1>11. CASE CommitAdjust(p)
  BY <1>11 DEF CommitAdjust, Enter, Touch, Row, Keys, Verdict
<1>12. CASE Abandon(p)
  BY <1>12 DEF Abandon
<1> QED  BY <1>1, <1>2, <1>3, <1>4, <1>5, <1>6, <1>7, <1>8, <1>9, <1>10, <1>11, <1>12 DEF Step

\* The variables of the wallet, the requests and the processes keep their
\* types, and a process serves a request that fits its phase.
THEOREM SellerTypes == SellerSpec => []SellerTypeOK
<1>1. SellerInit => SellerTypeOK
  BY DEF SellerInit, SellerTypeOK
<1>2. SellerTypeOK /\ [SellerNext]_sellerVars => SellerTypeOK'
  <2>1. ASSUME SellerTypeOK, UNCHANGED sellerVars PROVE SellerTypeOK'
    BY <2>1 DEF SellerTypeOK, sellerVars, money, procs
  <2> QED  BY <2>1, StepKeepsTypes, NextSteps
<1> QED  BY <1>1, <1>2, PTL DEF SellerSpec

----------------------------------------------------------------------------
(***************************************************************************)
(* The book: no row is entered twice.                                      *)
(***************************************************************************)
\* Requests that are made once: all but the two ways to release a sale.
Once(p) == phase[p] \in {"sale", "withdraw"} \cup Adjusting

\* A process that is about to enter a row of its request has it for itself.
Exclusive ==
    /\ \A p \in Procs : Once(p) => work[p] \in begun
    /\ \A p, q \in Procs : Once(p) /\ Once(q) /\ work[p] = work[q] => p = q

\* The rows there are about a request follow from how far it has come.
RowsFollow ==
    /\ \A s \in Sales : Posted("sale", s) => credit[s] # "none"
    /\ \A s \in Sales : credit[s] # "none" => s \in begun
    /\ \A s \in Sales : Posted("out", s) \/ Posted("in", s) => credit[s] = "completed"
    /\ \A w \in Withdrawals : Posted("withdrawal", w) => w \in begun
    /\ \A k \in Calls : Posted("adjust", k) => k \in begun
    /\ \A p \in Procs :
        /\ phase[p] = "sale" => credit[work[p]] = "none"
        /\ phase[p] = "withdraw" => ~Posted("withdrawal", work[p])
        /\ phase[p] \in Adjusting => ~Posted("adjust", work[p])

BookInv == SellerTypeOK /\ Exclusive /\ RowsFollow

\* What is posted after rows were entered.
LEMMA PostedAfterEnter ==
    ASSUME NEW p, NEW kind, NEW x, NEW bucket, NEW cents, NEW parts,
           Enter(p, Row(kind, x, bucket, cents), parts), NEW other, NEW y
    PROVE  Posted(other, y)' <=> Posted(other, y) \/ (other = kind /\ y = x)
<1> DEFINE new == Row(kind, x, bucket, cents)
<1>1. rows' = rows \cup {new} /\ new.key = <<kind, x>>
  BY DEF Enter, Row
<1> HIDE DEF new
<1>2. <<kind, x>> = <<other, y>> <=> (other = kind /\ y = x)
  OBVIOUS
<1> QED  BY <1>1, <1>2 DEF Posted

LEMMA PostedAfterRelease ==
    ASSUME NEW p, NEW s, Release(p, s), NEW other, NEW y
    PROVE  Posted(other, y)' <=> Posted(other, y) \/ (other \in {"out", "in"} /\ y = s)
<1> DEFINE out == Row("out", s, "pending", -Net[s])
           in == Row("in", s, "available", Net[s])
<1>1. rows' = rows \cup {out, in} /\ out.key = <<"out", s>> /\ in.key = <<"in", s>>
  BY DEF Release, Row
<1> HIDE DEF out, in
<1>2. /\ <<"out", s>> = <<other, y>> <=> (other = "out" /\ y = s)
      /\ <<"in", s>> = <<other, y>> <=> (other = "in" /\ y = s)
  OBVIOUS
<1> QED  BY <1>1, <1>2 DEF Posted

\* Steps that begin or give up, or choose a bucket, enter nothing.
LEMMA QuietSteps ==
    ASSUME BookInv, NEW p \in Procs,
           \/ \E s \in Sales : BeginSale(p, s) \/ BeginConfirm(p, s) \/ BeginSettle(p, s)
           \/ \E w \in Withdrawals : BeginWithdrawal(p, w)
           \/ \E k \in Calls : BeginAdjust(p, k)
           \/ ChooseBucket(p) \/ Abandon(p)
    PROVE  Exclusive' /\ RowsFollow' /\ UNCHANGED <<wallet, rows>>
<1> USE DEF BookInv, SellerTypeOK, Exclusive, Once, RowsFollow, Posted, money
<1>1. ASSUME NEW s \in Sales, BeginSale(p, s) PROVE Exclusive' /\ RowsFollow' /\ UNCHANGED <<wallet, rows>>
  BY <1>1 DEF BeginSale, Start
<1>2. ASSUME NEW s \in Sales, BeginConfirm(p, s) \/ BeginSettle(p, s)
      PROVE  Exclusive' /\ RowsFollow' /\ UNCHANGED <<wallet, rows>>
  BY <1>2 DEF BeginConfirm, BeginSettle, Start
<1>3. ASSUME NEW w \in Withdrawals, BeginWithdrawal(p, w)
      PROVE  Exclusive' /\ RowsFollow' /\ UNCHANGED <<wallet, rows>>
  BY <1>3 DEF BeginWithdrawal, Start
<1>4. ASSUME NEW k \in Calls, BeginAdjust(p, k)
      PROVE  Exclusive' /\ RowsFollow' /\ UNCHANGED <<wallet, rows>>
  BY <1>4 DEF BeginAdjust, Start
<1>5. CASE ChooseBucket(p)
  BY <1>5 DEF ChooseBucket
<1>6. CASE Abandon(p)
  BY <1>6 DEF Abandon, Leave
<1> QED  BY <1>1, <1>2, <1>3, <1>4, <1>5, <1>6

\* Commits enter fresh rows.
LEMMA CommitSteps ==
    ASSUME BookInv, NEW p \in Procs,
           \/ CommitSale(p) \/ CommitConfirm(p) \/ CommitSettle(p)
           \/ CommitWithdrawal(p) \/ CommitAdjust(p)
    PROVE  Exclusive' /\ RowsFollow' /\ [Ledger!Next]_<<wallet, rows>>
<1> USE DEF BookInv
<1>0. Exclusive'
  BY DEF SellerTypeOK, Exclusive, Once, Leave,
         CommitSale, CommitConfirm, CommitSettle, CommitWithdrawal, CommitAdjust
<1>1. ASSUME NEW kind, NEW x, NEW bucket, NEW cents, NEW parts, ~Posted(kind, x),
             Enter(p, Row(kind, x, bucket, cents), parts)
      PROVE  Ledger!Next
  <2>1. Row(kind, x, bucket, cents) \in rows'
    BY <1>1 DEF Enter
  <2>2. Ledger!Fresh(Row(kind, x, bucket, cents).key)
    BY <1>1 DEF Posted, Row, Ledger!Fresh
  <2>3. Ledger!Enter
    BY <1>1, <2>1, <2>2 DEF Enter, Ledger!Enter
  <2> QED  BY <2>3 DEF Ledger!Next
<1>2. ASSUME NEW s \in Sales, ~Posted("out", s), ~Posted("in", s), Release(p, s)
      PROVE  Ledger!Next
  <2> DEFINE out == Row("out", s, "pending", -Net[s])
             in == Row("in", s, "available", Net[s])
  <2>1. out \in rows' /\ in \in rows' /\ rows' = rows \cup {out, in}
    BY <1>2 DEF Release
  <2>2. Ledger!Fresh(out.key) /\ Ledger!Fresh(in.key) /\ out.key # in.key
    BY <1>2 DEF Posted, Row, Ledger!Fresh
  <2>3. out.bucket = "pending" /\ in.bucket = "available" /\ out.cents = -in.cents /\ in.cents = Net[s]
    BY DEF Row
  <2>4. wallet' = [wallet EXCEPT ![out.bucket] = @ - in.cents, ![in.bucket] = @ + in.cents]
    BY <1>2, <2>3 DEF Release
  <2> HIDE DEF out, in
  <2>5. Ledger!Move
    BY <2>1, <2>2, <2>3, <2>4 DEF Ledger!Move
  <2> QED  BY <2>5 DEF Ledger!Next
<1>3. CASE CommitSale(p)
  <2>1. work[p] \in Sales /\ ~Posted("sale", work[p])
    BY <1>3 DEF CommitSale, RowsFollow, SellerTypeOK
  <2>2. Ledger!Next
    BY <1>1, <1>3, <2>1 DEF CommitSale
  <2>3. RowsFollow'
    BY <1>3, <2>1, PostedAfterEnter DEF CommitSale, Leave, RowsFollow, Exclusive, Once, SellerTypeOK
  <2> QED  BY <1>0, <2>2, <2>3
<1>4. CASE CommitConfirm(p) \/ CommitSettle(p)
  <2>1. work[p] \in Sales /\ (credit[work[p]] = "pending" => ~Posted("out", work[p]) /\ ~Posted("in", work[p]))
    BY <1>4 DEF CommitConfirm, CommitSettle, RowsFollow, SellerTypeOK
  <2>2. [Ledger!Next]_<<wallet, rows>>
    BY <1>2, <1>4, <2>1 DEF CommitConfirm, CommitSettle, money
  <2>a. /\ phase' = [phase EXCEPT ![p] = "idle"]
        /\ \A q \in Procs : q # p => work'[q] = work[q] /\ phase'[q] = phase[q]
        /\ phase'[p] = "idle"
        /\ begun' = begun
        /\ credit' = credit \/ credit' = [credit EXCEPT ![work[p]] = "completed"]
    BY <1>4 DEF CommitConfirm, CommitSettle, Leave, SellerTypeOK
  <2>3. CASE Release(p, work[p]) /\ credit[work[p]] = "pending" /\ credit' = [credit EXCEPT ![work[p]] = "completed"]
    <3>1. \A kind, x : Posted(kind, x)' <=> Posted(kind, x) \/ (kind \in {"out", "in"} /\ x = work[p])
      BY <2>3, PostedAfterRelease
    <3>2. \A s \in Sales : credit'[s] = IF s = work[p] THEN "completed" ELSE credit[s]
      BY <2>3 DEF SellerTypeOK
    <3>3. \A s \in Sales :
            /\ Posted("sale", s)' => credit'[s] # "none"
            /\ credit'[s] # "none" => s \in begun'
            /\ Posted("out", s)' \/ Posted("in", s)' => credit'[s] = "completed"
      BY <2>1, <2>3, <2>a, <3>1, <3>2 DEF RowsFollow
    <3>4. /\ \A w \in Withdrawals : Posted("withdrawal", w)' => w \in begun'
          /\ \A k \in Calls : Posted("adjust", k)' => k \in begun'
      BY <2>a, <3>1 DEF RowsFollow
    <3>5. ASSUME NEW q \in Procs
          PROVE  /\ phase'[q] = "sale" => credit'[work'[q]] = "none"
                 /\ phase'[q] = "withdraw" => ~Posted("withdrawal", work[q])'
                 /\ phase'[q] \in Adjusting => ~Posted("adjust", work[q])'
      <4>1. CASE q = p
        BY <2>a, <4>1
      <4>2. CASE q # p
        <5>1. work'[q] = work[q] /\ phase'[q] = phase[q]
          BY <2>a, <4>2
        <5>2. phase[q] = "sale" => work[q] \in Sales /\ credit[work[q]] = "none"
          BY DEF RowsFollow, SellerTypeOK
        <5>3. phase'[q] = "sale" => credit'[work'[q]] = "none"
          BY <2>3, <3>2, <5>1, <5>2
        <5>4. \A row \in rows' : row \in rows \/ row.key[1] \in {"out", "in"}
          BY <2>3 DEF Release, Row
        <5>5. /\ Posted("withdrawal", work[q])' => Posted("withdrawal", work[q])
              /\ Posted("adjust", work[q])' => Posted("adjust", work[q])
          BY <5>1, <5>4 DEF Posted
        <5>6. /\ phase[q] = "withdraw" => ~Posted("withdrawal", work[q])
              /\ phase[q] \in Adjusting => ~Posted("adjust", work[q])
          BY DEF RowsFollow
        <5> HIDE DEF Posted, Adjusting
        <5> QED  BY <5>1, <5>3, <5>5, <5>6
      <4> QED  BY <4>1, <4>2
    <3> QED  BY <1>0, <2>2, <3>3, <3>4, <3>5 DEF RowsFollow
  <2>4. CASE UNCHANGED rows /\ (credit' = credit \/ credit[work[p]] = "pending")
    <3>1. \A s \in Sales : credit'[s] = credit[s] \/ (s = work[p] /\ credit[s] = "pending" /\ credit'[s] = "completed")
      BY <2>1, <2>4, <2>a DEF SellerTypeOK
    <3>2. \A s \in Sales :
            /\ Posted("sale", s)' => credit'[s] # "none"
            /\ credit'[s] # "none" => s \in begun'
            /\ Posted("out", s)' \/ Posted("in", s)' => credit'[s] = "completed"
      BY <2>4, <2>a, <3>1 DEF RowsFollow, Posted
    <3>3. \A q \in Procs : phase'[q] = "sale" => credit'[work'[q]] = "none"
      BY <2>a, <3>1 DEF RowsFollow, SellerTypeOK
    <3>4. \A w \in Withdrawals : Posted("withdrawal", w)' => w \in begun'
      BY <2>4, <2>a DEF RowsFollow, Posted
    <3>5. \A k \in Calls : Posted("adjust", k)' => k \in begun'
      BY <2>4, <2>a DEF RowsFollow, Posted
    <3>6. ASSUME NEW q \in Procs
          PROVE  /\ phase'[q] = "withdraw" => ~Posted("withdrawal", work[q])'
                 /\ phase'[q] \in Adjusting => ~Posted("adjust", work[q])'
      BY <2>4, <2>a DEF RowsFollow, Posted
    <3> QED  BY <1>0, <2>2, <3>2, <3>3, <3>4, <3>5, <3>6 DEF RowsFollow
  <2>b. \/ Release(p, work[p]) /\ credit[work[p]] = "pending" /\ credit' = [credit EXCEPT ![work[p]] = "completed"]
        \/ UNCHANGED rows /\ (credit' = credit \/ credit[work[p]] = "pending")
    BY <1>4 DEF CommitConfirm, CommitSettle, money
  <2> QED  BY <2>3, <2>4, <2>b
<1>5. CASE CommitWithdrawal(p)
  <2>1. work[p] \in Withdrawals /\ work[p] \in begun /\ ~Posted("withdrawal", work[p])
    BY <1>5 DEF CommitWithdrawal, RowsFollow, Exclusive, Once, SellerTypeOK
  <2>2. Ledger!Next
    BY <1>1, <1>5, <2>1 DEF CommitWithdrawal
  <2>3. RowsFollow'
    BY <1>5, <2>1, PostedAfterEnter DEF CommitWithdrawal, Leave, RowsFollow, Exclusive, Once, SellerTypeOK
  <2> QED  BY <1>0, <2>2, <2>3
<1>6. CASE CommitAdjust(p)
  <2>1. work[p] \in Calls /\ work[p] \in begun /\ ~Posted("adjust", work[p])
    BY <1>6 DEF CommitAdjust, RowsFollow, Exclusive, Once, SellerTypeOK
  <2>2. Ledger!Next
    BY <1>1, <1>6, <2>1 DEF CommitAdjust
  <2>3. RowsFollow'
    BY <1>6, <2>1, PostedAfterEnter DEF CommitAdjust, Leave, RowsFollow, Exclusive, Once, SellerTypeOK
  <2> QED  BY <1>0, <2>2, <2>3
<1> QED  BY <1>3, <1>4, <1>5, <1>6

LEMMA SellerBook == SellerSpec => []BookInv
<1>1. SellerInit => BookInv
  BY DEF SellerInit, BookInv, SellerTypeOK, Exclusive, Once, RowsFollow, Posted
<1>2. SellerTypeOK /\ SellerTypeOK' /\ BookInv /\ [SellerNext]_sellerVars => BookInv'
  <2>1. ASSUME BookInv, UNCHANGED sellerVars PROVE BookInv'
    BY <2>1 DEF BookInv, SellerTypeOK, Exclusive, Once, RowsFollow, Posted, sellerVars, money, procs
  <2> QED  BY <2>1, QuietSteps, CommitSteps, NextSteps DEF Step, BookInv
<1> QED  BY <1>1, <1>2, SellerTypes, PTL DEF SellerSpec

\* Every change of a balance is entered once in the ledger, in the same step,
\* and a sale is released once, by a confirmation or by the cron: the wallet
\* refines the book.
THEOREM SellerImplementsBook == SellerSpec => ImplementsBook
<1>1. SellerInit => Ledger!Init
  BY DEF SellerInit, Ledger!Init
<1>2. BookInv /\ [SellerNext]_sellerVars => [Ledger!Next]_<<wallet, rows>>
  <2>1. ASSUME UNCHANGED sellerVars PROVE UNCHANGED <<wallet, rows>>
    BY <2>1 DEF sellerVars, money
  <2> QED  BY <2>1, QuietSteps, CommitSteps, NextSteps DEF Step
<1> QED  BY <1>1, <1>2, SellerBook, PTL DEF SellerSpec, ImplementsBook, Ledger!Spec

----------------------------------------------------------------------------
(***************************************************************************)
(* Stranded credits.                                                       *)
(***************************************************************************)
\* A confirmation whose lock will fail has been overlapped.
Noticed == \A p \in Procs : phase[p] = "confirm" => stamp = seen[p] \/ work[p] \in overlapped

\* History and ledger only grow; a commit that touches the wallet marks the
\* confirmations in progress.
LEMMA StepGrows ==
    ASSUME SellerTypeOK, NEW p \in Procs, Step(p)
    PROVE  /\ rows \subseteq rows' /\ overlapped \subseteq overlapped'
           /\ \/ UNCHANGED <<wallet, reais, stamp, ties, overlapped>>
              \/ Touch(p) /\ phase' = [phase EXCEPT ![p] = "idle"]
           /\ \A q \in Procs \ {p} : UNCHANGED <<phase[q], work[q], seen[q]>>
<1>1. rows \subseteq rows'
  BY DEF Step, BeginSale, BeginConfirm, BeginSettle, BeginWithdrawal, BeginAdjust, ChooseBucket, Abandon,
         CommitSale, CommitConfirm, CommitSettle, CommitWithdrawal, CommitAdjust, Enter, Release, money
<1>2. \/ UNCHANGED <<wallet, reais, stamp, ties, overlapped>>
      \/ Touch(p) /\ phase' = [phase EXCEPT ![p] = "idle"]
  BY DEF Step, BeginSale, BeginConfirm, BeginSettle, BeginWithdrawal, BeginAdjust, ChooseBucket, Abandon,
         CommitSale, CommitConfirm, CommitSettle, CommitWithdrawal, CommitAdjust, Enter, Release, Leave, money
<1>3. \A q \in Procs \ {p} : UNCHANGED <<phase[q], work[q], seen[q]>>
  BY DEF Step, BeginSale, BeginConfirm, BeginSettle, BeginWithdrawal, BeginAdjust, ChooseBucket, Abandon,
         CommitSale, CommitConfirm, CommitSettle, CommitWithdrawal, CommitAdjust, Start, Leave, SellerTypeOK
<1>4. overlapped \subseteq overlapped'
  BY <1>2 DEF Touch
<1> QED  BY <1>1, <1>2, <1>3, <1>4

\* What a step does to the status of a sale.
LEMMA CreditSteps ==
    ASSUME SellerTypeOK, NEW p \in Procs, Step(p), NEW s \in Sales, credit'[s] = "completed"
    PROVE  \/ credit[s] = "completed"
           \/ Release(p, s)
           \/ phase[p] = "confirm" /\ stamp # seen[p] /\ work[p] = s
<1>1. CASE credit' = credit
  BY <1>1
<1>2. CASE CommitSale(p)
  BY <1>2 DEF CommitSale, SellerTypeOK
<1>3. CASE CommitConfirm(p)
  BY <1>3 DEF CommitConfirm, Unlocked, SellerTypeOK
<1>4. CASE CommitSettle(p)
  BY <1>4 DEF CommitSettle, SellerTypeOK
<1> QED  BY <1>1, <1>2, <1>3, <1>4
         DEF Step, BeginSale, BeginConfirm, BeginSettle, BeginWithdrawal, BeginAdjust, ChooseBucket, Abandon,
             CommitWithdrawal, CommitAdjust

StrandInv == SellerTypeOK /\ Noticed /\ StrandedOnlyByOverlap

LEMMA StepKeepsStrand ==
    ASSUME StrandInv, NEW p \in Procs, Step(p)
    PROVE  Noticed' /\ StrandedOnlyByOverlap'
<1> USE DEF StrandInv
<1>1. Noticed'
  <2> SUFFICES ASSUME NEW q \in Procs, phase'[q] = "confirm"
               PROVE  stamp' = seen'[q] \/ work'[q] \in overlapped'
    BY DEF Noticed
  <2>1. CASE q = p
    <3>1. phase'[p] = "confirm" => UNCHANGED stamp /\ (seen'[p] = stamp)
      BY DEF Step, BeginSale, BeginConfirm, BeginSettle, BeginWithdrawal, BeginAdjust, ChooseBucket, Abandon, SellerTypeOK,
             CommitSale, CommitConfirm, CommitSettle, CommitWithdrawal, CommitAdjust, Start, Leave, money
    <3> QED  BY <2>1, <3>1
  <2>2. CASE q # p
    <3>1. UNCHANGED <<phase[q], work[q], seen[q]>>
      BY <2>2, StepGrows
    <3>2. CASE UNCHANGED <<wallet, reais, stamp, ties, overlapped>>
      BY <3>1, <3>2 DEF Noticed
    <3>3. CASE Touch(p)
      BY <2>2, <3>1, <3>3 DEF Touch
    <3> QED  BY <3>2, <3>3, StepGrows
  <2> QED  BY <2>1, <2>2
<1>2. StrandedOnlyByOverlap'
  <2> SUFFICES ASSUME NEW s \in Sales, credit'[s] = "completed"
               PROVE  Released(s)' \/ s \in overlapped'
    BY DEF StrandedOnlyByOverlap
  <2>1. CASE credit[s] = "completed"
    <3>1. Released(s) \/ s \in overlapped
      BY <2>1 DEF StrandedOnlyByOverlap
    <3>2. Released(s) => Released(s)'
      BY StepGrows DEF Released, Posted
    <3> QED  BY <3>1, <3>2, StepGrows
  <2>2. CASE Release(p, s)
    BY <2>2, PostedAfterRelease DEF Released
  <2>3. CASE phase[p] = "confirm" /\ stamp # seen[p] /\ work[p] = s
    BY <2>3, StepGrows DEF Noticed
  <2> QED  BY <2>1, <2>2, <2>3, CreditSteps
<1> QED  BY <1>1, <1>2

\* A credit is completed without its cents only if its confirmation overlapped
\* another write of the wallet.
THEOREM CreditsStrandOnlyInOverlap == SellerSpec => []StrandedOnlyByOverlap
<1>1. SellerInit => StrandInv
  BY DEF SellerInit, StrandInv, SellerTypeOK, Noticed, StrandedOnlyByOverlap
<1>2. SellerTypeOK' /\ StrandInv /\ [SellerNext]_sellerVars => StrandInv'
  <2>1. ASSUME StrandInv, UNCHANGED sellerVars PROVE Noticed' /\ StrandedOnlyByOverlap'
    BY <2>1 DEF StrandInv, Noticed, StrandedOnlyByOverlap, Released, Posted, sellerVars, money, procs
  <2> QED  BY <2>1, StepKeepsStrand, NextSteps DEF StrandInv
<1>3. StrandInv => StrandedOnlyByOverlap
  BY DEF StrandInv
<1> QED  BY <1>1, <1>2, <1>3, SellerTypes, PTL DEF SellerSpec

----------------------------------------------------------------------------
(***************************************************************************)
(* Withdrawals.                                                            *)
(***************************************************************************)
\* A withdrawal whose lock will hold is covered: nobody wrote the wallet since
\* its Float was compared.
Covered ==
    \A p \in Procs :
        /\ seen[p] <= stamp
        /\ phase[p] = "withdraw" /\ ties = 0 /\ seen[p] = stamp
            => reais >= Amount[work[p]]

\* The cents follow the Float up to half a cent for every withdrawal booked.
Near ==
    /\ IsFiniteSet(Booked)
    /\ 2 * (Grain * wallet["available"]) >= 2 * reais - Grain * Cardinality(Booked)

CoverInv == BookInv /\ Covered /\ Near

LEMMA StepKeepsCover ==
    ASSUME CoverInv, NEW p \in Procs, Step(p)
    PROVE  Covered'
<1> USE DEF CoverInv, BookInv
<1> SUFFICES ASSUME NEW q \in Procs
             PROVE  /\ seen'[q] <= stamp'
                    /\ phase'[q] = "withdraw" /\ ties' = 0 /\ seen'[q] = stamp'
                        => reais' >= Amount[work'[q]]
  BY DEF Covered
<1>1. stamp' \in Nat /\ stamp \in Nat /\ ties \in Nat /\ stamp <= stamp'
  BY StepGrows DEF SellerTypeOK, Touch
<1>2. CASE q = p
  <2>1. seen'[p] \in {0, stamp, seen[p]}
    BY DEF Step, BeginSale, BeginConfirm, BeginSettle, BeginWithdrawal, BeginAdjust, ChooseBucket, Abandon, SellerTypeOK,
           CommitSale, CommitConfirm, CommitSettle, CommitWithdrawal, CommitAdjust, Start, Leave, money
  <2>2. seen'[p] <= stamp'
    BY <1>1, <2>1 DEF Covered, SellerTypeOK
  <2>3. phase'[p] = "withdraw" => \E w \in Withdrawals : BeginWithdrawal(p, w)
    BY DEF Step, BeginSale, BeginConfirm, BeginSettle, BeginWithdrawal, BeginAdjust, ChooseBucket, Abandon, SellerTypeOK,
           CommitSale, CommitConfirm, CommitSettle, CommitWithdrawal, CommitAdjust, Start, Leave, money
  <2>4. ASSUME NEW w \in Withdrawals, BeginWithdrawal(p, w)
        PROVE  reais' >= Amount[work'[p]]
    BY <2>4 DEF BeginWithdrawal, Start, SellerTypeOK, money
  <2> QED  BY <1>2, <2>2, <2>3, <2>4
<1>3. CASE q # p
  <2>1. UNCHANGED <<phase[q], work[q], seen[q]>>
    BY <1>3, StepGrows
  <2>2. CASE UNCHANGED <<wallet, reais, stamp, ties, overlapped>>
    BY <2>1, <2>2 DEF Covered
  <2>3. CASE Touch(p)
    BY <1>1, <2>1, <2>3 DEF Touch, Covered, SellerTypeOK
  <2> QED  BY <2>2, <2>3, StepGrows
<1> QED  BY <1>2, <1>3

\* What a step does to AVAILABLE, kept twice, and to the withdrawals booked:
\* whole cents move both alike, a withdrawal takes its amount from the Float
\* and the rounded amount from the cents.
LEMMA StepMoves ==
    ASSUME BookInv, NEW p \in Procs, Step(p)
    PROVE  \/ /\ Booked' = Booked
              /\ \E n \in Int : /\ wallet'["available"] = wallet["available"] + n
                                /\ reais' = reais + Grain * n
           \/ /\ CommitWithdrawal(p)
              /\ work[p] \in Withdrawals \ Booked /\ Booked' = Booked \cup {work[p]}
              /\ wallet'["available"] = wallet["available"] - Rounded(Amount[work[p]])
              /\ reais' = reais - Amount[work[p]]
<1> USE DEF BookInv
<1>0. wallet["available"] \in Int /\ reais \in Int /\ wallet \in [Buckets -> Int]
  BY DEF SellerTypeOK
<1>a. ASSUME UNCHANGED rows PROVE Booked' = Booked
  BY <1>a DEF Booked, Posted
<1>b. wallet["available"] = wallet["available"] + 0 /\ reais = reais + Grain * 0
  BY <1>0
<1>1. CASE UNCHANGED money
  BY <1>1, <1>a, <1>b DEF money
<1>2. CASE CommitSale(p)
  <2>1. PICK s \in Sales : Enter(p, Row("sale", s, "pending", Net[s]), Grain * Net[s])
    BY <1>2 DEF CommitSale, SellerTypeOK
  <2>2. Booked' = Booked
    BY <2>1, PostedAfterEnter DEF Booked
  <2>3. UNCHANGED <<wallet["available"], reais>>
    BY <1>0, <2>1 DEF Enter, Row
  <2> QED  BY <1>b, <2>2, <2>3
<1>3. CASE \E s \in Sales : Release(p, s)
  <2>1. PICK s \in Sales : Release(p, s)
    BY <1>3
  <2>2. Booked' = Booked
    BY <2>1, PostedAfterRelease DEF Booked
  <2>3. wallet'["available"] = wallet["available"] + Net[s] /\ reais' = reais + Grain * Net[s]
    BY <1>0, <2>1 DEF Release
  <2> QED  BY <2>2, <2>3
<1>4. CASE CommitWithdrawal(p)
  <2> DEFINE w == work[p]
  <2>1. w \in Withdrawals /\ ~Posted("withdrawal", w)
    BY <1>4 DEF CommitWithdrawal, RowsFollow, SellerTypeOK
  <2>2. Enter(p, Row("withdrawal", w, "available", -Rounded(Amount[w])), -Amount[w])
    BY <1>4 DEF CommitWithdrawal
  <2>3. Booked' = Booked \cup {w}
    BY <2>1, <2>2, PostedAfterEnter DEF Booked
  <2>4. Rounded(Amount[w]) \in Nat /\ Amount[w] \in Nat
    BY <2>1, RoundedBound
  <2>5. wallet'["available"] = wallet["available"] + (-Rounded(Amount[w])) /\ reais' = reais + (-Amount[w])
    BY <1>0, <2>2 DEF Enter, Row
  <2> QED  BY <1>0, <1>4, <2>1, <2>3, <2>4, <2>5 DEF Booked
<1>5. CASE CommitAdjust(p)
  <2>1. work[p] \in Calls /\ phase[p] \in Buckets
    BY <1>5 DEF CommitAdjust, SellerTypeOK
  <2> DEFINE d == Debit[OrderOf[work[p]]]
  <2>2. d \in Nat
    BY <2>1
  <2>3. Enter(p, Row("adjust", work[p], phase[p], -d), -Grain * d)
    BY <1>5 DEF CommitAdjust
  <2>4. Booked' = Booked
    BY <2>3, PostedAfterEnter DEF Booked
  <2> HIDE DEF d
  <2>5. \/ UNCHANGED <<wallet["available"], reais>>
        \/ wallet'["available"] = wallet["available"] + (-d) /\ reais' = reais + (-Grain * d)
    BY <1>0, <2>1, <2>3 DEF Enter, Row
  <2>6. -Grain * d = Grain * (-d) /\ -d \in Int
    BY <2>2
  <2> QED  BY <1>b, <2>4, <2>5, <2>6
<1> QED
  BY <1>1, <1>2, <1>3, <1>4, <1>5
  DEF Step, BeginSale, BeginConfirm, BeginSettle, BeginWithdrawal, BeginAdjust, ChooseBucket, Abandon,
      CommitConfirm, CommitSettle, SellerTypeOK

LEMMA StepKeepsNear ==
    ASSUME CoverInv, NEW p \in Procs, Step(p)
    PROVE  Near'
<1> DEFINE a == wallet["available"]
           c == Cardinality(Booked)
<1>1. /\ a \in Int /\ reais \in Int /\ IsFiniteSet(Booked)
      /\ 2 * (Grain * a) >= 2 * reais - Grain * c
  BY DEF CoverInv, BookInv, SellerTypeOK, Near
<1>2. c \in Nat
  BY <1>1, FS_CardinalityType
<1>3. ASSUME Booked' = Booked, NEW n \in Int, wallet'["available"] = a + n, reais' = reais + Grain * n
      PROVE  Near'
  <2>1. Grain * (a + n) = Grain * a + Grain * n
    BY <1>1
  <2> HIDE DEF a, c
  <2>2. 2 * (Grain * wallet'["available"]) >= 2 * reais' - Grain * c
    BY <1>1, <1>2, <1>3, <2>1
  <2> QED  BY <1>1, <1>3, <2>2 DEF Near, c
<1>4. ASSUME NEW w \in Withdrawals \ Booked, Booked' = Booked \cup {w},
             wallet'["available"] = a - Rounded(Amount[w]), reais' = reais - Amount[w]
      PROVE  Near'
  <2> DEFINE r == Rounded(Amount[w])
  <2>1. r \in Nat /\ Amount[w] \in Nat /\ 2 * (Grain * r) <= 2 * Amount[w] + Grain
    BY RoundedBound
  <2>2. IsFiniteSet(Booked') /\ Cardinality(Booked') = c + 1
    BY <1>1, <1>4, FS_AddElement
  <2> HIDE DEF a, c, r
  <2>3. Grain * (a - r) = Grain * a - Grain * r /\ Grain * (c + 1) = Grain * c + Grain
    BY <1>1, <1>2, <2>1
  <2>4. 2 * (Grain * (a - r)) >= 2 * (reais - Amount[w]) - Grain * (c + 1)
    BY <1>1, <1>2, <2>1, <2>3
  <2> QED  BY <1>4, <2>2, <2>4 DEF Near, r
<1> QED  BY <1>3, <1>4, StepMoves DEF CoverInv

\* A step that books a withdrawal is its commit, and it is covered.
LEMMA BookedIsCovered ==
    ASSUME CoverInv, NEW p \in Procs, Step(p), NEW w \in Withdrawals,
           w \notin Booked, w \in Booked', ties' = 0
    PROVE  /\ reais' >= 0
           /\ 2 * wallet'["available"] >= -Cardinality(Booked')
<1>1. /\ CommitWithdrawal(p) /\ work[p] \in Withdrawals
      /\ wallet'["available"] = wallet["available"] - Rounded(Amount[work[p]])
      /\ reais' = reais - Amount[work[p]]
  BY StepMoves DEF CoverInv
<1>2. phase[p] = "withdraw" /\ stamp = seen[p]
  BY <1>1 DEF CommitWithdrawal, Unlocked
<1>3. ties = 0
  BY <1>1 DEF CommitWithdrawal, Enter, Touch, CoverInv, BookInv, SellerTypeOK
<1>4. reais >= Amount[work[p]] /\ reais \in Int /\ Amount[work[p]] \in Nat
  BY <1>1, <1>2, <1>3 DEF CoverInv, BookInv, Covered, SellerTypeOK
<1>5. reais' \in Int /\ reais' >= 0
  BY <1>1, <1>4
<1>6. Near' /\ wallet'["available"] \in Int
  <2>1. wallet["available"] \in Int /\ Rounded(Amount[work[p]]) \in Nat
    BY <1>4, RoundedBound DEF CoverInv, BookInv, SellerTypeOK
  <2> QED  BY <1>1, <2>1, StepKeepsNear
<1>7. Cardinality(Booked') \in Nat
  BY <1>6, FS_CardinalityType DEF Near
<1>8. ASSUME NEW a \in Int, NEW c \in Nat, NEW x \in Nat, 2 * (Grain * a) >= 2 * x - Grain * c
      PROVE  2 * a >= -c
  <2>1. Grain * (2 * a + c) = 2 * (Grain * a) + Grain * c
    OBVIOUS
  <2>2. Grain * (2 * a + c) >= 0
    BY <1>8, <2>1
  <2>3. ASSUME 2 * a + c <= -1 PROVE FALSE
    BY <2>2, <2>3
  <2> QED  BY <2>3
<1> QED  BY <1>5, <1>6, <1>7, <1>8 DEF Near

\* As long as no two writes of the wallet share a millisecond, the lock makes
\* the comparison that precedes a withdrawal hold when it is booked: the Float
\* stays at or above zero, and the cents, taken rounded and never compared, at
\* most half a cent a withdrawal below it.
THEOREM SellerWithdrawalsAreCovered == SellerSpec => WithdrawalsAreCovered
<1>1. SellerInit => Covered /\ Near
  <2>1. SellerInit => Covered
    BY DEF SellerInit, Covered
  <2>2. SellerInit => Booked = {} /\ wallet["available"] = 0 /\ reais = 0
    BY DEF SellerInit, Booked, Posted
  <2>3. IsFiniteSet({}) /\ Cardinality({}) = 0
    BY FS_EmptySet
  <2>4. Booked = {} => IsFiniteSet(Booked) /\ Cardinality(Booked) = 0
    BY <2>3
  <2>5. 2 * (Grain * 0) >= 2 * 0 - Grain * 0
    OBVIOUS
  <2>6. ASSUME SellerInit PROVE Near
    <3>1. wallet["available"] = 0 /\ reais = 0 /\ IsFiniteSet(Booked) /\ Cardinality(Booked) = 0
      BY <2>2, <2>4, <2>6
    <3> QED  BY <2>5, <3>1 DEF Near
  <2> QED  BY <2>1, <2>6
<1>2. BookInv /\ BookInv' /\ Covered /\ Near /\ [SellerNext]_sellerVars => Covered' /\ Near'
  <2>1. ASSUME Covered /\ Near, UNCHANGED sellerVars PROVE Covered' /\ Near'
    BY <2>1 DEF Covered, Near, Booked, Posted, sellerVars, money, procs
  <2> QED  BY <2>1, StepKeepsCover, StepKeepsNear, NextSteps DEF CoverInv
<1>3. BookInv /\ Covered /\ Near /\ [SellerNext]_sellerVars =>
        [\A w \in Withdrawals :
            w \notin Booked /\ w \in Booked' /\ ties' = 0 =>
                /\ reais' >= 0
                /\ 2 * wallet'["available"] >= -Cardinality(Booked')]_sellerVars
  BY BookedIsCovered, NextSteps DEF CoverInv
<1> QED  BY <1>1, <1>2, <1>3, SellerBook, PTL DEF SellerSpec, WithdrawalsAreCovered

----------------------------------------------------------------------------
(***************************************************************************)
(* Debits.                                                                 *)
(***************************************************************************)
Active(p) == phase[p] \in Adjusting

\* A call that met no other one about its order.
Alone(k) == Posted("adjust", k) /\ k \notin contested

\* The order still shows what was entered for it, except that a refund may be
\* followed by a chargeback.
Shown == \A j \in Calls : Alone(j) =>
            \/ order[OrderOf[j]] = Verdict(j)
            \/ KindOf[j] = "refund" /\ order[OrderOf[j]] = "CHARGEBACK"

\* A call in progress about an order that was already debited.
Behind ==
    \A p \in Procs, j \in Calls :
        Active(p) /\ Alone(j) /\ OrderOf[work[p]] = OrderOf[j] =>
            KindOf[j] = "refund" /\ KindOf[work[p]] = "chargeback"

\* Two calls in progress about one order know of each other.
Together ==
    \A p, q \in Procs :
        p # q /\ Active(p) /\ Active(q) /\ OrderOf[work[p]] = OrderOf[work[q]] => work[p] \in contested

DebitInv == SellerTypeOK /\ Shown /\ Behind /\ Together /\ DebitsHaveCauses

\* Steps that are not about an order.
LEMMA OtherSteps ==
    ASSUME DebitInv, NEW p \in Procs,
           \/ \E s \in Sales : BeginSale(p, s) \/ BeginConfirm(p, s) \/ BeginSettle(p, s)
           \/ \E w \in Withdrawals : BeginWithdrawal(p, w)
           \/ CommitSale(p) \/ CommitConfirm(p) \/ CommitSettle(p) \/ CommitWithdrawal(p)
           \/ ChooseBucket(p) \/ Abandon(p)
    PROVE  Shown' /\ Behind' /\ Together' /\ DebitsHaveCauses'
<1>1. order' = order /\ contested' = contested
  BY DEF BeginSale, BeginConfirm, BeginSettle, BeginWithdrawal, CommitSale, CommitConfirm, CommitSettle,
         CommitWithdrawal, ChooseBucket, Abandon
<1>2. \A row \in rows' : row \in rows \/ row.key[1] # "adjust"
  BY DEF BeginSale, BeginConfirm, BeginSettle, BeginWithdrawal, CommitSale, CommitConfirm, CommitSettle,
         CommitWithdrawal, ChooseBucket, Abandon, Enter, Release, Row, money
<1>3. \A k \in Calls : Alone(k)' => Alone(k)
  BY <1>1, <1>2 DEF Alone, Posted
<1>4. \A q \in Procs : Active(q)' => Active(q) /\ work'[q] = work[q]
  BY DEF BeginSale, BeginConfirm, BeginSettle, BeginWithdrawal, CommitSale, CommitConfirm, CommitSettle,
         CommitWithdrawal, ChooseBucket, Abandon, Start, Leave, Active, DebitInv, SellerTypeOK
<1>5. Shown'
  BY <1>1, <1>3 DEF DebitInv, Shown, Verdict
<1>6. Behind'
  BY <1>3, <1>4 DEF DebitInv, Behind
<1>7. Together'
  BY <1>1, <1>4 DEF DebitInv, Together
<1>8. DebitsHaveCauses'
  <2> SUFFICES ASSUME NEW j \in Calls, NEW k \in Calls, j # k, OrderOf[j] = OrderOf[k], KindOf[j] = KindOf[k],
                      Posted("adjust", j)', Posted("adjust", k)'
               PROVE  {j, k} \cap contested # {}
    BY <1>1 DEF DebitsHaveCauses
  <2>1. Posted("adjust", j) /\ Posted("adjust", k)
    BY <1>2 DEF Posted
  <2> QED  BY <2>1 DEF DebitInv, DebitsHaveCauses
<1> QED  BY <1>5, <1>6, <1>7, <1>8

\* A call is admitted by what its order shows.
LEMMA BeginKeepsDebits ==
    ASSUME DebitInv, NEW p \in Procs, NEW k \in Calls, BeginAdjust(p, k)
    PROVE  Shown' /\ Behind' /\ Together' /\ DebitsHaveCauses'
<1>1. /\ rows' = rows /\ order' = order /\ contested \subseteq contested'
      /\ ~Active(p) /\ Active(p)' /\ work'[p] = k
      /\ \A q \in Procs : q # p => (Active(q)' <=> Active(q)) /\ work'[q] = work[q]
  BY DEF BeginAdjust, Start, Active, DebitInv, SellerTypeOK, money
<1>2. \A q \in Procs : q # p /\ Active(q) /\ OrderOf[work[q]] = OrderOf[k] =>
            k \in contested' /\ work[q] \in contested'
  BY DEF BeginAdjust, Serving, Active
<1>3. \A j \in Calls : Alone(j)' => Alone(j)
  BY <1>1 DEF Alone, Posted
<1>4. Shown'
  BY <1>1, <1>3 DEF DebitInv, Shown, Verdict
<1>5. Behind'
  <2> SUFFICES ASSUME NEW q \in Procs, NEW j \in Calls, Active(q)', Alone(j), OrderOf[work'[q]] = OrderOf[j]
               PROVE  KindOf[j] = "refund" /\ KindOf[work'[q]] = "chargeback"
    BY <1>3 DEF Behind
  <2>1. CASE q = p
    <3>1. Allowed(k) /\ OrderOf[j] = OrderOf[k] /\ KindOf[k] \in {"refund", "chargeback"}
      BY <1>1, <2>1 DEF BeginAdjust
    <3>2. \/ order[OrderOf[k]] = Verdict(j)
          \/ KindOf[j] = "refund" /\ order[OrderOf[k]] = "CHARGEBACK"
      BY <3>1 DEF DebitInv, Shown
    <3> QED  BY <1>1, <2>1, <3>1, <3>2 DEF Allowed, Verdict
  <2>2. CASE q # p
    BY <1>1, <2>2 DEF DebitInv, Behind
  <2> QED  BY <2>1, <2>2
<1>6. Together'
  <2> SUFFICES ASSUME NEW q \in Procs, NEW r \in Procs, q # r, Active(q)', Active(r)',
                      OrderOf[work'[q]] = OrderOf[work'[r]]
               PROVE  work'[q] \in contested'
    BY DEF Together
  <2>1. CASE q = p
    BY <1>1, <1>2, <2>1
  <2>2. CASE r = p
    BY <1>1, <1>2, <2>2
  <2>3. CASE q # p /\ r # p
    BY <1>1, <2>3 DEF DebitInv, Together
  <2> QED  BY <2>1, <2>2, <2>3
<1>7. DebitsHaveCauses'
  <2> SUFFICES ASSUME NEW j \in Calls, NEW i \in Calls, j # i, OrderOf[j] = OrderOf[i], KindOf[j] = KindOf[i],
                      Posted("adjust", j)', Posted("adjust", i)'
               PROVE  {j, i} \cap contested' # {}
    BY DEF DebitsHaveCauses
  <2>1. Posted("adjust", j) /\ Posted("adjust", i)
    BY <1>1 DEF Posted
  <2> QED  BY <1>1, <2>1 DEF DebitInv, DebitsHaveCauses
<1> QED  BY <1>4, <1>5, <1>6, <1>7

\* A debit behind another one of its order is the chargeback behind a refund.
LEMMA CommitKeepsDebits ==
    ASSUME DebitInv, NEW p \in Procs, CommitAdjust(p)
    PROVE  Shown' /\ Behind' /\ Together' /\ DebitsHaveCauses'
<1> DEFINE k == work[p]
<1>1. /\ k \in Calls /\ Active(p) /\ contested' = contested /\ ~Active(p)'
      /\ order' = [order EXCEPT ![OrderOf[k]] = Verdict(k)]
      /\ \A q \in Procs : q # p => (Active(q)' <=> Active(q)) /\ work'[q] = work[q]
  BY DEF CommitAdjust, Leave, Active, DebitInv, SellerTypeOK
<1>2. \A row \in rows' : row \in rows \/ row.key = <<"adjust", k>>
  BY DEF CommitAdjust, Enter, Row
<1>3. \A j \in Calls : Alone(j)' => Alone(j) \/ (j = k /\ k \notin contested)
  BY <1>1, <1>2 DEF Alone, Posted
<1>4. \A j \in Calls : Alone(j) /\ OrderOf[j] = OrderOf[k] => KindOf[j] = "refund" /\ KindOf[k] = "chargeback"
  BY <1>1 DEF DebitInv, Behind
<1>5. ASSUME NEW q \in Procs, Active(q)' PROVE q # p /\ Active(q) /\ work'[q] = work[q]
  BY <1>1, <1>5
<1> HIDE DEF k
<1>6. Shown'
  <2> SUFFICES ASSUME NEW j \in Calls, Alone(j)'
               PROVE  \/ order'[OrderOf[j]] = Verdict(j)
                      \/ KindOf[j] = "refund" /\ order'[OrderOf[j]] = "CHARGEBACK"
    BY DEF Shown, Verdict
  <2>1. CASE j = k
    BY <1>1, <2>1 DEF DebitInv, SellerTypeOK
  <2>2. CASE Alone(j) /\ OrderOf[j] = OrderOf[k]
    BY <1>1, <1>4, <2>2 DEF DebitInv, SellerTypeOK, Verdict
  <2>3. CASE Alone(j) /\ OrderOf[j] # OrderOf[k]
    BY <1>1, <2>3 DEF DebitInv, Shown, SellerTypeOK
  <2> QED  BY <1>3, <2>1, <2>2, <2>3
<1>7. Behind'
  <2> SUFFICES ASSUME NEW q \in Procs, NEW j \in Calls, Active(q)', Alone(j)', OrderOf[work'[q]] = OrderOf[j]
               PROVE  KindOf[j] = "refund" /\ KindOf[work'[q]] = "chargeback"
    BY DEF Behind
  <2>1. q # p /\ Active(q) /\ work'[q] = work[q]
    BY <1>5
  <2>2. CASE Alone(j)
    BY <2>1, <2>2 DEF DebitInv, Behind
  <2>3. CASE j = k /\ k \notin contested
    BY <1>1, <2>1, <2>3 DEF DebitInv, Together, k
  <2> QED  BY <1>3, <2>2, <2>3
<1>8. Together'
  BY <1>1, <1>5 DEF DebitInv, Together
<1>9. DebitsHaveCauses'
  <2> SUFFICES ASSUME NEW j \in Calls, NEW i \in Calls, j # i, OrderOf[j] = OrderOf[i], KindOf[j] = KindOf[i],
                      Posted("adjust", j)', Posted("adjust", i)', j \notin contested, i \notin contested
               PROVE  FALSE
    BY <1>1 DEF DebitsHaveCauses
  <2>1. Alone(j) \/ j = k
    BY <1>1, <1>3 DEF Alone
  <2>2. Alone(i) \/ i = k
    BY <1>1, <1>3 DEF Alone
  <2>3. CASE Alone(j) /\ Alone(i)
    BY <2>3 DEF DebitInv, DebitsHaveCauses, Alone
  <2>4. CASE Alone(j) /\ i = k
    BY <1>4, <2>4
  <2>5. CASE Alone(i) /\ j = k
    BY <1>4, <2>5
  <2> QED  BY <2>1, <2>2, <2>3, <2>4, <2>5
<1> QED  BY <1>6, <1>7, <1>8, <1>9

\* An order is debited twice for one kind of adjustment only when two calls
\* about it were in progress together.
THEOREM SellerDebitsHaveCauses == SellerSpec => []DebitsHaveCauses
<1>1. SellerInit => DebitInv
  BY DEF SellerInit, DebitInv, SellerTypeOK, Shown, Behind, Together, DebitsHaveCauses, Alone, Active, Posted
<1>2. SellerTypeOK' /\ DebitInv /\ [SellerNext]_sellerVars => DebitInv'
  <2>1. ASSUME DebitInv, UNCHANGED sellerVars PROVE Shown' /\ Behind' /\ Together' /\ DebitsHaveCauses'
    BY <2>1 DEF DebitInv, Shown, Behind, Together, DebitsHaveCauses, Alone, Active, Posted, Verdict, sellerVars, money, procs
  <2> QED  BY <2>1, OtherSteps, BeginKeepsDebits, CommitKeepsDebits, NextSteps DEF Step, DebitInv
<1>3. DebitInv => DebitsHaveCauses
  BY DEF DebitInv
<1> QED  BY <1>1, <1>2, <1>3, SellerTypes, PTL DEF SellerSpec

(***************************************************************************)
(* The cents of a sale: the split gives each of them one owner, and the    *)
(* plan of every refund and dispute takes the stakeholders' share back to  *)
(* the cent.  First the split of any sale; then the largest-remainder      *)
(* rounding of any five lines, any price and any part of it; then, by an   *)
(* invariant that ties each plan to its event, the two for every state.    *)
(***************************************************************************)
HIDE SellerAssumption DEF Buckets, Adjusting

\* The commission of a role is a number of cents, positive or not.
LEMMA CommissionInt ==
    ASSUME NEW s \in Sale, NEW role \in PercentRoles
    PROVE  Commission(s, role) \in Int
<1>1. s.saleValue - s.fee \in Int
  BY DEF Sale
<1>2. PICK f \in [PercentRoles -> 0 .. 10000] : s.bp = f
  BY DEF Sale
<1>5. f[role] \in 0 .. 10000
  OBVIOUS
<1>3. PICK b \in 0 .. 10000 : s.bp[role] = b
  BY <1>2, <1>5
<1>4. ASSUME NEW a \in Int PROVE (a * b) \div 10000 \in Int
  OBVIOUS
<1> QED  BY <1>1, <1>3, <1>4 DEF Commission

\* A part is cut to what is left.
LEMMA ClampRange ==
    ASSUME NEW v \in Int, NEW c \in Nat
    PROVE  Clamp(v, c) \in Nat /\ Clamp(v, c) <= c
  BY DEF Clamp

\* The split of any valid sale gives away exactly what Kloel does not keep.
LEMMA SplitOwners ==
    ASSUME NEW s \in Sale
    PROVE  /\ Split(s) \in [Roles -> Nat]
           /\ Total(Split(s)) + KloelTotal(s) = s.buyerPaid
<1>1. AfterKloel(s) \in Int /\ s.supplier \in Nat /\ s.buyerPaid \in Nat /\ s.fee + s.interest \in Nat
      /\ AfterKloel(s) = s.buyerPaid - (s.fee + s.interest)
  BY DEF Sale, AfterKloel
<1>2. CASE AfterKloel(s) < 0
  BY <1>1, <1>2 DEF Split, KloelTotal, Total, Roles
<1>3. CASE AfterKloel(s) >= 0
  <2> DEFINE toSupplier   == SupplierPart(s)
             rest1        == AfterKloel(s) - toSupplier
             toAffiliate  == PercentPart(s, "affiliate", rest1)
             rest2        == rest1 - toAffiliate
             toCoproducer == PercentPart(s, "coproducer", rest2)
             rest3        == rest2 - toCoproducer
             toManager    == PercentPart(s, "manager", rest3)
             rest4        == rest3 - toManager
  <2>1. toSupplier \in Nat /\ rest1 \in Nat
    <3>1. AfterKloel(s) \in Nat
      BY <1>1, <1>3
    <3>2. PICK v \in Int, c \in Nat : s.supplier = v /\ AfterKloel(s) = c
      BY <1>1, <3>1
    <3>3. toSupplier = Clamp(v, c)
      BY <3>2 DEF SupplierPart
    <3>4. toSupplier \in Nat /\ toSupplier <= AfterKloel(s)
      BY <3>2, <3>3, ClampRange
    <3> QED  BY <3>1, <3>4
  <2> HIDE DEF toSupplier
  <2>2. ASSUME NEW role \in PercentRoles, NEW r \in Nat
        PROVE  PercentPart(s, role, r) \in Nat /\ r - PercentPart(s, role, r) \in Nat
    BY CommissionInt, ClampRange DEF PercentPart
  <2>3. toAffiliate \in Nat /\ rest2 \in Nat
    BY <2>1, <2>2 DEF PercentRoles
  <2> HIDE DEF toAffiliate
  <2>4. toCoproducer \in Nat /\ rest3 \in Nat
    BY <2>2, <2>3 DEF PercentRoles
  <2> HIDE DEF toCoproducer
  <2>5. toManager \in Nat /\ rest4 \in Nat
    BY <2>2, <2>4 DEF PercentRoles
  <2> HIDE DEF toManager
  <2>6. Split(s) = [supplier |-> toSupplier, affiliate |-> toAffiliate,
                    coproducer |-> toCoproducer, manager |-> toManager, seller |-> rest4]
    BY <1>1, <1>3 DEF Split, toSupplier, toAffiliate, toCoproducer, toManager
  <2>7. Total(Split(s)) = AfterKloel(s)
    BY <1>1, <2>1, <2>3, <2>4, <2>5, <2>6 DEF Total
  <2>8. Split(s) \in [Roles -> Nat]
    BY <2>1, <2>3, <2>4, <2>5, <2>6 DEF Roles
  <2> QED  BY <1>1, <1>3, <2>7, <2>8 DEF KloelTotal
<1> QED  BY <1>1, <1>2, <1>3

----------------------------------------------------------------------------
\* Division has one result.
LEMMA DivUnique ==
    ASSUME NEW n \in Nat, NEW p \in Nat \ {0}, NEW a \in Nat, NEW r \in 0 .. p - 1, n = p * a + r
    PROVE  n \div p = a
  OBVIOUS

\* A line's share of a part of the price, rounded down, is at most the line,
\* and less than it when something was rounded off.
LEMMA FloorBound ==
    ASSUME NEW n \in Nat, NEW p \in Nat \ {0}, NEW q \in 0 .. p, NEW a \in Nat, NEW r \in 0 .. p - 1,
           n * q = p * a + r
    PROVE  a <= n /\ (r > 0 => a < n)
<1>1. n * q <= p * n
  OBVIOUS
<1>2. p * a + r <= p * n
  BY <1>1
<1>3. ASSUME a >= n + 1 PROVE FALSE
  <2>1. p * a >= p * (n + 1)
    BY <1>3
  <2> QED  BY <1>2, <2>1
<1>4. ASSUME r > 0, a = n PROVE FALSE
  BY <1>2, <1>4
<1> QED  BY <1>3, <1>4

\* The two ways one line can go before another, as counts.
Over(a, b) == IF a > b THEN 1 ELSE 0
Reaches(a, b) == IF a >= b THEN 1 ELSE 0

\* Of five lines, some of them counted, ordered by size and then by place,
\* exactly x are counted and have fewer than x counted lines before them.
LEMMA FirstOnes ==
    ASSUME NEW a \in [Roles -> Int], NEW m \in [Roles -> {0, 1}], NEW r \in [Roles -> Int],
           NEW x \in 0 .. Total(m),
           r["supplier"] = m["affiliate"] * Over(a["affiliate"], a["supplier"])
                            + m["coproducer"] * Over(a["coproducer"], a["supplier"])
                            + m["manager"] * Over(a["manager"], a["supplier"])
                            + m["seller"] * Over(a["seller"], a["supplier"]),
           r["affiliate"] = m["supplier"] * Reaches(a["supplier"], a["affiliate"])
                            + m["coproducer"] * Over(a["coproducer"], a["affiliate"])
                            + m["manager"] * Over(a["manager"], a["affiliate"])
                            + m["seller"] * Over(a["seller"], a["affiliate"]),
           r["coproducer"] = m["supplier"] * Reaches(a["supplier"], a["coproducer"])
                            + m["affiliate"] * Reaches(a["affiliate"], a["coproducer"])
                            + m["manager"] * Over(a["manager"], a["coproducer"])
                            + m["seller"] * Over(a["seller"], a["coproducer"]),
           r["manager"] = m["supplier"] * Reaches(a["supplier"], a["manager"])
                            + m["affiliate"] * Reaches(a["affiliate"], a["manager"])
                            + m["coproducer"] * Reaches(a["coproducer"], a["manager"])
                            + m["seller"] * Over(a["seller"], a["manager"]),
           r["seller"] = m["supplier"] * Reaches(a["supplier"], a["seller"])
                            + m["affiliate"] * Reaches(a["affiliate"], a["seller"])
                            + m["coproducer"] * Reaches(a["coproducer"], a["seller"])
                            + m["manager"] * Reaches(a["manager"], a["seller"])
    PROVE  Total([l \in Roles |-> IF m[l] = 1 /\ r[l] < x THEN 1 ELSE 0]) = x
<1>1. PICK a1 \in Int, a2 \in Int, a3 \in Int, a4 \in Int, a5 \in Int :
          /\ a["supplier"] = a1 /\ a["affiliate"] = a2 /\ a["coproducer"] = a3
          /\ a["manager"] = a4 /\ a["seller"] = a5
  BY DEF Roles
<1>2. PICK m1 \in {0, 1}, m2 \in {0, 1}, m3 \in {0, 1}, m4 \in {0, 1}, m5 \in {0, 1} :
          /\ m["supplier"] = m1 /\ m["affiliate"] = m2 /\ m["coproducer"] = m3
          /\ m["manager"] = m4 /\ m["seller"] = m5
  BY DEF Roles
<1> DEFINE r1 == m2 * Over(a2, a1) + m3 * Over(a3, a1) + m4 * Over(a4, a1) + m5 * Over(a5, a1)
<1> DEFINE r2 == m1 * Reaches(a1, a2) + m3 * Over(a3, a2) + m4 * Over(a4, a2) + m5 * Over(a5, a2)
<1> DEFINE r3 == m1 * Reaches(a1, a3) + m2 * Reaches(a2, a3) + m4 * Over(a4, a3) + m5 * Over(a5, a3)
<1> DEFINE r4 == m1 * Reaches(a1, a4) + m2 * Reaches(a2, a4) + m3 * Reaches(a3, a4) + m5 * Over(a5, a4)
<1> DEFINE r5 == m1 * Reaches(a1, a5) + m2 * Reaches(a2, a5) + m3 * Reaches(a3, a5) + m4 * Reaches(a4, a5)
<1>3. x \in 0 .. (m1 + m2 + m3 + m4 + m5)
  BY <1>2 DEF Total
<1>4. (IF m1 = 1 /\ r1 < x THEN 1 ELSE 0)
        + (IF m2 = 1 /\ r2 < x THEN 1 ELSE 0)
        + (IF m3 = 1 /\ r3 < x THEN 1 ELSE 0)
        + (IF m4 = 1 /\ r4 < x THEN 1 ELSE 0)
        + (IF m5 = 1 /\ r5 < x THEN 1 ELSE 0) = x
  <2>1. /\ a1 \in Int /\ a2 \in Int /\ a3 \in Int /\ a4 \in Int /\ a5 \in Int
        /\ m1 \in {0, 1} /\ m2 \in {0, 1} /\ m3 \in {0, 1} /\ m4 \in {0, 1} /\ m5 \in {0, 1}
    OBVIOUS
  <2> QED  BY <1>3, <2>1, SMTT(60) DEF Over, Reaches
<1>5. /\ r["supplier"] = r1 /\ r["affiliate"] = r2 /\ r["coproducer"] = r3
      /\ r["manager"] = r4 /\ r["seller"] = r5
  BY <1>1, <1>2
<1> QED
  <2> HIDE DEF r1, r2, r3, r4, r5
  <2> QED  BY <1>2, <1>4, <1>5 DEF Total, Roles

\* A set of lines as counts.
Ones(set) == [l \in Roles |-> IF l \in set THEN 1 ELSE 0]

\* The rank of a line, with its ties decided.
LEMMA RankSum ==
    ASSUME NEW rest \in [Roles -> Nat], NEW partial \in SUBSET Roles
    PROVE
     /\ Rank(rest, partial, "supplier") =
          Ones(partial)["affiliate"] * Over(rest["affiliate"], rest["supplier"])
        + Ones(partial)["coproducer"] * Over(rest["coproducer"], rest["supplier"])
        + Ones(partial)["manager"] * Over(rest["manager"], rest["supplier"])
        + Ones(partial)["seller"] * Over(rest["seller"], rest["supplier"])
     /\ Rank(rest, partial, "affiliate") =
          Ones(partial)["supplier"] * Reaches(rest["supplier"], rest["affiliate"])
        + Ones(partial)["coproducer"] * Over(rest["coproducer"], rest["affiliate"])
        + Ones(partial)["manager"] * Over(rest["manager"], rest["affiliate"])
        + Ones(partial)["seller"] * Over(rest["seller"], rest["affiliate"])
     /\ Rank(rest, partial, "coproducer") =
          Ones(partial)["supplier"] * Reaches(rest["supplier"], rest["coproducer"])
        + Ones(partial)["affiliate"] * Reaches(rest["affiliate"], rest["coproducer"])
        + Ones(partial)["manager"] * Over(rest["manager"], rest["coproducer"])
        + Ones(partial)["seller"] * Over(rest["seller"], rest["coproducer"])
     /\ Rank(rest, partial, "manager") =
          Ones(partial)["supplier"] * Reaches(rest["supplier"], rest["manager"])
        + Ones(partial)["affiliate"] * Reaches(rest["affiliate"], rest["manager"])
        + Ones(partial)["coproducer"] * Reaches(rest["coproducer"], rest["manager"])
        + Ones(partial)["seller"] * Over(rest["seller"], rest["manager"])
     /\ Rank(rest, partial, "seller") =
          Ones(partial)["supplier"] * Reaches(rest["supplier"], rest["seller"])
        + Ones(partial)["affiliate"] * Reaches(rest["affiliate"], rest["seller"])
        + Ones(partial)["coproducer"] * Reaches(rest["coproducer"], rest["seller"])
        + Ones(partial)["manager"] * Reaches(rest["manager"], rest["seller"])
<1> DEFINE before(k, l) == IF k \in partial /\ Precedes(rest, k, l) THEN 1 ELSE 0
<1>1. \A l \in Roles : Rank(rest, partial, l) =
          before("supplier", l) + before("affiliate", l) + before("coproducer", l)
            + before("manager", l) + before("seller", l)
  BY DEF Rank, Total, Roles
<1>2. \A k, l \in Roles : rest[k] \in Nat /\ rest[l] \in Nat
  OBVIOUS
<1>3. \A k, l \in Roles : Priority[k] < Priority[l] =>
          before(k, l) = Ones(partial)[k] * Reaches(rest[k], rest[l])
  <2> SUFFICES ASSUME NEW k \in Roles, NEW l \in Roles, Priority[k] < Priority[l]
               PROVE  before(k, l) = Ones(partial)[k] * Reaches(rest[k], rest[l])
    OBVIOUS
  <2>1. Ones(partial)[k] = IF k \in partial THEN 1 ELSE 0
    BY DEF Ones
  <2>2. Precedes(rest, k, l) <=> rest[k] >= rest[l]
    BY <1>2 DEF Precedes
  <2> QED  BY <2>1, <2>2 DEF Reaches
<1>4. \A k, l \in Roles : ~(Priority[k] < Priority[l]) =>
          before(k, l) = Ones(partial)[k] * Over(rest[k], rest[l])
  <2> SUFFICES ASSUME NEW k \in Roles, NEW l \in Roles, ~(Priority[k] < Priority[l])
               PROVE  before(k, l) = Ones(partial)[k] * Over(rest[k], rest[l])
    OBVIOUS
  <2>1. Ones(partial)[k] = IF k \in partial THEN 1 ELSE 0
    BY DEF Ones
  <2>2. Precedes(rest, k, l) <=> rest[k] > rest[l]
    BY <1>2 DEF Precedes
  <2> QED  BY <2>1, <2>2 DEF Over
<1>5. \A l \in Roles : before(l, l) = 0 /\ Priority[l] \in Nat
  BY <1>2 DEF Precedes, Priority, Roles
<1>6. /\ Priority["supplier"] = 1 /\ Priority["affiliate"] = 2 /\ Priority["coproducer"] = 3
      /\ Priority["manager"] = 4 /\ Priority["seller"] = 5
  BY DEF Priority
<1>7. /\ "supplier" \in Roles /\ "affiliate" \in Roles /\ "coproducer" \in Roles
      /\ "manager" \in Roles /\ "seller" \in Roles
  BY DEF Roles
<1>8. \A k, l \in Roles : before(k, l) \in {0, 1}
  OBVIOUS
<1> HIDE DEF before
<1>10. Rank(rest, partial, "supplier") =
            Ones(partial)["affiliate"] * Over(rest["affiliate"], rest["supplier"])
          + Ones(partial)["coproducer"] * Over(rest["coproducer"], rest["supplier"])
          + Ones(partial)["manager"] * Over(rest["manager"], rest["supplier"])
          + Ones(partial)["seller"] * Over(rest["seller"], rest["supplier"])
  BY <1>1, <1>3, <1>4, <1>5, <1>6, <1>7, <1>8
<1>11. Rank(rest, partial, "affiliate") =
            Ones(partial)["supplier"] * Reaches(rest["supplier"], rest["affiliate"])
          + Ones(partial)["coproducer"] * Over(rest["coproducer"], rest["affiliate"])
          + Ones(partial)["manager"] * Over(rest["manager"], rest["affiliate"])
          + Ones(partial)["seller"] * Over(rest["seller"], rest["affiliate"])
  BY <1>1, <1>3, <1>4, <1>5, <1>6, <1>7, <1>8
<1>12. Rank(rest, partial, "coproducer") =
            Ones(partial)["supplier"] * Reaches(rest["supplier"], rest["coproducer"])
          + Ones(partial)["affiliate"] * Reaches(rest["affiliate"], rest["coproducer"])
          + Ones(partial)["manager"] * Over(rest["manager"], rest["coproducer"])
          + Ones(partial)["seller"] * Over(rest["seller"], rest["coproducer"])
  BY <1>1, <1>3, <1>4, <1>5, <1>6, <1>7, <1>8
<1>13. Rank(rest, partial, "manager") =
            Ones(partial)["supplier"] * Reaches(rest["supplier"], rest["manager"])
          + Ones(partial)["affiliate"] * Reaches(rest["affiliate"], rest["manager"])
          + Ones(partial)["coproducer"] * Reaches(rest["coproducer"], rest["manager"])
          + Ones(partial)["seller"] * Over(rest["seller"], rest["manager"])
  BY <1>1, <1>3, <1>4, <1>5, <1>6, <1>7, <1>8
<1>14. Rank(rest, partial, "seller") =
            Ones(partial)["supplier"] * Reaches(rest["supplier"], rest["seller"])
          + Ones(partial)["affiliate"] * Reaches(rest["affiliate"], rest["seller"])
          + Ones(partial)["coproducer"] * Reaches(rest["coproducer"], rest["seller"])
          + Ones(partial)["manager"] * Reaches(rest["manager"], rest["seller"])
  BY <1>1, <1>3, <1>4, <1>5, <1>6, <1>7, <1>8
<1> QED  BY <1>10, <1>11, <1>12, <1>13, <1>14

LEMMA OnesType ==
    ASSUME NEW set
    PROVE  /\ Ones(set) \in [Roles -> {0, 1}]
           /\ \A l \in Roles : Ones(set)[l] = IF l \in set THEN 1 ELSE 0
  BY DEF Ones

\* Exactly the extra cents are handed out.
LEMMA BonusSum ==
    ASSUME NEW rest \in [Roles -> Nat], NEW partial \in SUBSET Roles,
           NEW x \in 0 .. Total(Ones(partial))
    PROVE  Total([l \in Roles |-> Bonus(rest, partial, x, l)]) = x
<1> DEFINE m == Ones(partial)
           r == [l \in Roles |-> Rank(rest, partial, l)]
<1>1. m \in [Roles -> {0, 1}] /\ \A l \in Roles : m[l] = IF l \in partial THEN 1 ELSE 0
  BY OnesType
<1>2. \A l \in Roles : Bonus(rest, partial, x, l) = IF m[l] = 1 /\ r[l] < x THEN 1 ELSE 0
  BY <1>1 DEF Bonus
<1>3. r \in [Roles -> Int]
  <2>1. \A k, l \in Roles : (IF k \in partial /\ Precedes(rest, k, l) THEN 1 ELSE 0) \in {0, 1}
    OBVIOUS
  <2> QED  BY <2>1 DEF Rank, Total, Roles
<1>4. rest \in [Roles -> Int]
  OBVIOUS
<1>5. \A l \in Roles : r[l] = Rank(rest, partial, l)
  OBVIOUS
<1>6. "supplier" \in Roles /\ "affiliate" \in Roles /\ "coproducer" \in Roles
      /\ "manager" \in Roles /\ "seller" \in Roles
  BY DEF Roles
<1> HIDE DEF m, r
<1>7. Total([l \in Roles |-> IF m[l] = 1 /\ r[l] < x THEN 1 ELSE 0]) = x
  BY <1>1, <1>3, <1>4, <1>5, <1>6, RankSum, FirstOnes DEF m
<1> QED  BY <1>2, <1>7

\* The lines with something rounded off.
Positive(rest) == {l \in Roles : rest[l] > 0}

\* A line with nothing rounded off goes after all of those.
LEMMA ZeroRank ==
    ASSUME NEW rest \in [Roles -> Nat], NEW partial \in SUBSET Roles,
           Positive(rest) \subseteq partial, NEW z \in Roles, rest[z] = 0
    PROVE  Rank(rest, partial, z) >= Total(Ones(Positive(rest)))
<1> DEFINE a == [k \in Roles |-> IF k \in partial /\ Precedes(rest, k, z) THEN 1 ELSE 0]
           b == Ones(Positive(rest))
<1>1. \A k \in Roles : k \in Positive(rest) => k \in partial /\ Precedes(rest, k, z)
  BY DEF Precedes, Positive
<1>2. b \in [Roles -> {0, 1}] /\ \A k \in Roles : b[k] = IF k \in Positive(rest) THEN 1 ELSE 0
  BY OnesType
<1>3. \A k \in Roles : a[k] \in {0, 1} /\ (k \in Positive(rest) => a[k] = 1)
  BY <1>1
<1> HIDE DEF a, b
<1>5. \A k \in Roles : a[k] \in {0, 1} /\ b[k] \in {0, 1} /\ a[k] >= b[k]
  <2> SUFFICES ASSUME NEW k \in Roles PROVE a[k] \in {0, 1} /\ b[k] \in {0, 1} /\ a[k] >= b[k]
    OBVIOUS
  <2>1. CASE k \in Positive(rest)
    BY <1>2, <1>3, <2>1
  <2>2. CASE k \notin Positive(rest)
    BY <1>2, <1>3, <2>2
  <2> QED  BY <2>1, <2>2
<1>4. Total(a) >= Total(b)
  BY <1>5 DEF Total, Roles
<1> QED  BY <1>4 DEF Rank, a, b

LEMMA RankType ==
    ASSUME NEW rest, NEW partial, NEW l
    PROVE  Rank(rest, partial, l) \in Nat
<1> DEFINE a == [k \in Roles |-> IF k \in partial /\ Precedes(rest, k, l) THEN 1 ELSE 0]
<1>1. \A k \in Roles : a[k] \in {0, 1}
  OBVIOUS
<1> HIDE DEF a
<1>2. Total(a) \in Nat
  BY <1>1 DEF Total, Roles
<1> QED  BY <1>2 DEF Rank, a

LEMMA OnesCount ==
    ASSUME NEW small, NEW large, small \subseteq large
    PROVE  /\ Total(Ones(small)) \in Nat /\ Total(Ones(large)) \in Nat
           /\ Total(Ones(small)) <= Total(Ones(large))
<1> DEFINE a == Ones(small)
           b == Ones(large)
<1>1. /\ a \in [Roles -> {0, 1}] /\ \A l \in Roles : a[l] = IF l \in small THEN 1 ELSE 0
      /\ b \in [Roles -> {0, 1}] /\ \A l \in Roles : b[l] = IF l \in large THEN 1 ELSE 0
  BY OnesType
<1> HIDE DEF a, b
<1>2. \A l \in Roles : a[l] \in {0, 1} /\ b[l] \in {0, 1} /\ a[l] <= b[l]
  <2> SUFFICES ASSUME NEW l \in Roles PROVE a[l] \in {0, 1} /\ b[l] \in {0, 1} /\ a[l] <= b[l]
    OBVIOUS
  <2>1. CASE l \in small
    BY <1>1, <2>1
  <2>2. CASE l \notin small
    BY <1>1, <2>2
  <2> QED  BY <2>1, <2>2
<1>3. Total(a) \in Nat /\ Total(b) \in Nat /\ Total(a) <= Total(b)
  BY <1>2 DEF Total, Roles
<1> QED  BY <1>3 DEF a, b

\* There are no more extra cents than lines with something rounded off.
LEMMA ExtraBound ==
    ASSUME NEW rest \in [Roles -> Nat], NEW p \in Nat \ {0}, \A l \in Roles : rest[l] <= p - 1,
           NEW e \in Nat, p * e <= Total(rest)
    PROVE  e <= Total(Ones(Positive(rest)))
<1> DEFINE n == Ones(Positive(rest))
           c == Total(n)
<1>1. n \in [Roles -> {0, 1}] /\ \A l \in Roles : n[l] = IF l \in Positive(rest) THEN 1 ELSE 0
  BY OnesType
<1>2. \A l \in Roles : rest[l] \in Nat
  OBVIOUS
<1> HIDE DEF n
<1>3. \A l \in Roles : n[l] \in {0, 1} /\ (n[l] = 0 => rest[l] = 0)
  <2>1. \A l \in Roles : l \notin Positive(rest) => rest[l] = 0
    BY <1>2 DEF Positive
  <2> SUFFICES ASSUME NEW l \in Roles PROVE n[l] \in {0, 1} /\ (n[l] = 0 => rest[l] = 0)
    OBVIOUS
  <2>2. CASE l \in Positive(rest)
    BY <1>1, <2>2
  <2>3. CASE l \notin Positive(rest)
    BY <1>1, <2>1, <2>3
  <2> QED  BY <2>2, <2>3
<1>4. \A l \in Roles : rest[l] <= n[l] * (p - 1)
  <2> SUFFICES ASSUME NEW l \in Roles PROVE rest[l] <= n[l] * (p - 1)
    OBVIOUS
  <2>1. CASE n[l] = 0
    BY <1>2, <1>3, <2>1
  <2>2. CASE n[l] = 1
    BY <2>2
  <2> QED  BY <1>3, <2>1, <2>2
<1>5. c \in 0 .. 5
  <2>1. /\ n["supplier"] \in {0, 1} /\ n["affiliate"] \in {0, 1} /\ n["coproducer"] \in {0, 1}
        /\ n["manager"] \in {0, 1} /\ n["seller"] \in {0, 1}
    BY <1>3 DEF Roles
  <2> QED  BY <2>1 DEF Total
<1>6. Total(rest) <= c * (p - 1)
  <2>1. PICK n1 \in {0, 1}, n2 \in {0, 1}, n3 \in {0, 1}, n4 \in {0, 1}, n5 \in {0, 1} :
            /\ n["supplier"] = n1 /\ n["affiliate"] = n2 /\ n["coproducer"] = n3
            /\ n["manager"] = n4 /\ n["seller"] = n5
    BY <1>3 DEF Roles
  <2>2. PICK a1 \in Nat, a2 \in Nat, a3 \in Nat, a4 \in Nat, a5 \in Nat :
            /\ rest["supplier"] = a1 /\ rest["affiliate"] = a2 /\ rest["coproducer"] = a3
            /\ rest["manager"] = a4 /\ rest["seller"] = a5
    BY <1>2 DEF Roles
  <2>3. /\ a1 <= n1 * (p - 1) /\ a2 <= n2 * (p - 1) /\ a3 <= n3 * (p - 1)
        /\ a4 <= n4 * (p - 1) /\ a5 <= n5 * (p - 1)
    BY <1>4, <2>1, <2>2 DEF Roles
  <2>4. a1 + a2 + a3 + a4 + a5 <= (n1 + n2 + n3 + n4 + n5) * (p - 1)
    BY <2>3
  <2> QED  BY <2>1, <2>2, <2>4 DEF Total
<1> HIDE DEF c
<1>7. p * e <= c * (p - 1)
  <2>1. Total(rest) \in Nat
    BY <1>2 DEF Total, Roles
  <2> QED  BY <1>5, <1>6, <2>1
<1>8. ASSUME e >= c + 1 PROVE FALSE
  <2>1. p * e >= p * (c + 1)
    BY <1>5, <1>8
  <2> QED  BY <1>5, <1>7, <2>1
<1>9. e <= c
  BY <1>5, <1>8
<1> QED  BY <1>9 DEF c, n

\* A plan adds up to the share of the reversal rounded down once, and each of
\* its lines is less than a cent from its own share.
LEMMA PlanExact ==
    ASSUME NEW ls \in [Roles -> Nat], NEW p \in Nat \ {0}, NEW q \in 0 .. p
    PROVE  /\ Plan(ls, q, p) \in [Roles -> Nat]
           /\ Total(Plan(ls, q, p)) = (Total(ls) * q) \div p
           /\ \A l \in Roles : /\ Plan(ls, q, p)[l] * p > ls[l] * q - p
                               /\ Plan(ls, q, p)[l] * p < ls[l] * q + p
<1> DEFINE floor   == Floors(ls, q, p)
           rest    == Rests(ls, q, p)
           partial == {l \in Roles : floor[l] < ls[l]}
           extra   == (Total(ls) * q) \div p - Total(floor)
           bonus   == [l \in Roles |-> Bonus(rest, partial, extra, l)]
<1>1. \A l \in Roles : /\ floor[l] \in Nat /\ rest[l] \in Nat /\ rest[l] <= p - 1
                       /\ ls[l] * q = p * floor[l] + rest[l]
                       /\ floor[l] <= ls[l] /\ (rest[l] > 0 => floor[l] < ls[l])
  <2> SUFFICES ASSUME NEW l \in Roles
               PROVE  /\ floor[l] \in Nat /\ rest[l] \in Nat /\ rest[l] <= p - 1
                      /\ ls[l] * q = p * floor[l] + rest[l]
                      /\ floor[l] <= ls[l] /\ (rest[l] > 0 => floor[l] < ls[l])
    OBVIOUS
  <2>1. PICK v \in Nat, n \in Nat : ls[l] = v /\ n = v * q
    <3>1. ls[l] \in Nat
      OBVIOUS
    <3>2. ls[l] * q \in Nat
      BY <3>1
    <3> QED  BY <3>1, <3>2
  <2>2. floor[l] = n \div p /\ rest[l] = n % p
    BY <2>1 DEF Floors, Rests
  <2>3. PICK a \in Nat, r \in 0 .. p - 1 : a = n \div p /\ r = n % p /\ n = p * a + r
    BY DivMod
  <2>4. a <= v /\ (r > 0 => a < v)
    BY <2>1, <2>3, FloorBound
  <2> QED  BY <2>1, <2>2, <2>3, <2>4
<1>2. floor \in [Roles -> Nat] /\ rest \in [Roles -> Nat]
  BY <1>1 DEF Floors, Rests
<1>3. Positive(rest) \subseteq partial
  BY <1>1 DEF Positive
<1> HIDE DEF floor, rest
<1>4. Total(floor) \in Nat /\ Total(rest) \in Nat /\ Total(ls) \in Nat
  BY <1>2 DEF Total, Roles
<1>5. Total(ls) * q = p * Total(floor) + Total(rest)
  <2>1. PICK l1 \in Nat, l2 \in Nat, l3 \in Nat, l4 \in Nat, l5 \in Nat :
            /\ ls["supplier"] = l1 /\ ls["affiliate"] = l2 /\ ls["coproducer"] = l3
            /\ ls["manager"] = l4 /\ ls["seller"] = l5
    BY DEF Roles
  <2>2. PICK f1 \in Nat, f2 \in Nat, f3 \in Nat, f4 \in Nat, f5 \in Nat :
            /\ floor["supplier"] = f1 /\ floor["affiliate"] = f2 /\ floor["coproducer"] = f3
            /\ floor["manager"] = f4 /\ floor["seller"] = f5
    BY <1>2 DEF Roles
  <2>3. PICK r1 \in Nat, r2 \in Nat, r3 \in Nat, r4 \in Nat, r5 \in Nat :
            /\ rest["supplier"] = r1 /\ rest["affiliate"] = r2 /\ rest["coproducer"] = r3
            /\ rest["manager"] = r4 /\ rest["seller"] = r5
    BY <1>2 DEF Roles
  <2>4. /\ l1 * q = p * f1 + r1 /\ l2 * q = p * f2 + r2 /\ l3 * q = p * f3 + r3
        /\ l4 * q = p * f4 + r4 /\ l5 * q = p * f5 + r5
    BY <1>1, <2>1, <2>2, <2>3 DEF Roles
  <2>5. (l1 + l2 + l3 + l4 + l5) * q
          = p * (f1 + f2 + f3 + f4 + f5) + (r1 + r2 + r3 + r4 + r5)
    BY <2>4
  <2> QED  BY <2>1, <2>2, <2>3, <2>5 DEF Total
<1>6. PICK e \in Nat, r \in 0 .. p - 1 : Total(rest) = p * e + r
  <2>1. PICK n \in Nat : n = Total(rest)
    BY <1>4
  <2>2. n \div p \in Nat /\ n % p \in 0 .. p - 1 /\ n = p * (n \div p) + (n % p)
    BY DivMod
  <2> QED  BY <2>1, <2>2
<1>7. (Total(ls) * q) \div p = Total(floor) + e
  <2>1. PICK t \in Nat, f \in Nat, a \in Nat : t = Total(ls) * q /\ f = Total(floor) /\ a = f + e
    <3>1. Total(ls) * q \in Nat
      BY <1>4
    <3> QED  BY <1>4, <3>1
  <2>2. t = p * a + r
    <3>1. t = p * f + (p * e + r)
      BY <1>5, <1>6, <2>1
    <3>2. p * a = p * f + p * e
      BY <2>1
    <3> QED  BY <3>1, <3>2
  <2>3. t \div p = a
    BY <2>2, DivUnique
  <2> QED  BY <2>1, <2>3
<1>8. extra = e
  BY <1>4, <1>7
<1>9. e <= Total(Ones(Positive(rest)))
  <2>1. p * e <= Total(rest)
    BY <1>6
  <2> QED  BY <1>1, <1>2, <2>1, ExtraBound
<1>10. e <= Total(Ones(partial))
  BY <1>3, <1>9, OnesCount
<1>11. Total(bonus) = e
  <2>1. Total(Ones(partial)) \in Nat
    BY OnesCount
  <2>2. e \in 0 .. Total(Ones(partial)) /\ partial \in SUBSET Roles
    BY <1>10, <2>1
  <2>3. Total([l \in Roles |-> Bonus(rest, partial, e, l)]) = e
    BY <1>2, <2>2, BonusSum
  <2> QED  BY <1>8, <2>3
<1>12. \A l \in Roles : bonus[l] \in {0, 1} /\ (bonus[l] = 1 => rest[l] > 0)
  <2> SUFFICES ASSUME NEW l \in Roles
               PROVE  bonus[l] \in {0, 1} /\ (bonus[l] = 1 => rest[l] > 0)
    OBVIOUS
  <2>1. ASSUME rest[l] = 0 PROVE Rank(rest, partial, l) >= e
    <3>1. Rank(rest, partial, l) >= Total(Ones(Positive(rest)))
      BY <1>2, <1>3, <2>1, ZeroRank
    <3> QED  BY <1>9, <3>1, RankType, OnesCount
  <2>2. bonus[l] = Bonus(rest, partial, e, l)
    BY <1>8
  <2>3. bonus[l] \in {0, 1} /\ (bonus[l] = 1 => Rank(rest, partial, l) < e)
    BY <2>2 DEF Bonus
  <2>4. rest[l] = 0 \/ rest[l] > 0
    BY <1>1
  <2> QED  BY <2>1, <2>3, <2>4, RankType
<1>13. Plan(ls, q, p) = [l \in Roles |-> floor[l] + bonus[l]]
  BY DEF Plan, floor, rest
<1> HIDE DEF bonus, extra, partial
<1>14. Plan(ls, q, p) \in [Roles -> Nat]
  BY <1>1, <1>12, <1>13
<1>15. Total(Plan(ls, q, p)) = Total(floor) + Total(bonus)
  <2>1. \A l \in Roles : Plan(ls, q, p)[l] = floor[l] + bonus[l]
    BY <1>13
  <2>2. \A l \in Roles : floor[l] \in Nat /\ bonus[l] \in Nat
    <3> SUFFICES ASSUME NEW l \in Roles PROVE floor[l] \in Nat /\ bonus[l] \in Nat
      OBVIOUS
    <3>1. bonus[l] \in {0, 1}
      BY <1>12
    <3> QED  BY <1>1, <3>1
  <2> QED  BY <2>1, <2>2 DEF Total, Roles
<1>16. ASSUME NEW l \in Roles
       PROVE  /\ Plan(ls, q, p)[l] * p > ls[l] * q - p
              /\ Plan(ls, q, p)[l] * p < ls[l] * q + p
  <2>1. PICK f \in Nat, b \in {0, 1}, r0 \in 0 .. p - 1 :
            floor[l] = f /\ bonus[l] = b /\ rest[l] = r0
    <3>1. floor[l] \in Nat /\ rest[l] \in 0 .. p - 1
      BY <1>1
    <3>2. bonus[l] \in {0, 1}
      BY <1>12
    <3> QED  BY <3>1, <3>2
  <2>2. Plan(ls, q, p)[l] = f + b /\ ls[l] * q = p * f + r0 /\ (b = 1 => r0 > 0)
    BY <1>1, <1>12, <1>13, <2>1
  <2>3. (f + b) * p = p * f + p * b
    OBVIOUS
  <2>4. p * b = IF b = 1 THEN p ELSE 0
    OBVIOUS
  <2> QED  BY <2>2, <2>3, <2>4
<1> QED  BY <1>7, <1>11, <1>14, <1>15, <1>16

\* Every plan is that of its event and of the original transfers.
ReversalInv ==
    /\ sale \in SaleInputs
    /\ lines = Split(sale)
    /\ amount \in [Events -> 0 .. sale.buyerPaid]
    /\ plan \in [Events -> [Roles -> Nat]]
    /\ \A e \in Happened : plan[e] = Plan(lines, amount[e], sale.buyerPaid)

LEMMA ReversalInitInv == ReversalInit => ReversalInv
<1> SUFFICES ASSUME ReversalInit PROVE ReversalInv
  OBVIOUS
<1>1. sale.buyerPaid \in Nat
  BY SaleAssumption DEF ReversalInit, Sale
<1> QED  BY <1>1 DEF ReversalInit, ReversalInv, Happened, NoCents

LEMMA ReversalInvHolds ==
    ASSUME ReversalInv
    PROVE  SplitConserves /\ PlansAreExact
<1>1. sale \in Sale
  BY SaleAssumption DEF ReversalInv
<1>2. SplitConserves
  BY <1>1, SplitOwners DEF ReversalInv, SplitConserves
<1>3. PlansAreExact
  <2> SUFFICES ASSUME NEW e \in Happened
               PROVE  /\ Total(plan[e]) = (Total(lines) * amount[e]) \div sale.buyerPaid
                      /\ \A l \in Roles :
                          /\ plan[e][l] * sale.buyerPaid > lines[l] * amount[e] - sale.buyerPaid
                          /\ plan[e][l] * sale.buyerPaid < lines[l] * amount[e] + sale.buyerPaid
    BY DEF PlansAreExact
  <2>1. PICK p \in Nat : sale.buyerPaid = p
    BY <1>1 DEF Sale
  <2>2. amount[e] \in 0 .. p /\ amount[e] > 0
    BY <2>1 DEF ReversalInv, Happened
  <2>3. PICK q \in 0 .. p : amount[e] = q
    BY <2>2
  <2>4. p \in Nat \ {0}
    BY <2>2
  <2>5. plan[e] = Plan(lines, q, p)
    BY <2>1, <2>3 DEF ReversalInv
  <2>6. lines \in [Roles -> Nat]
    BY <1>2 DEF SplitConserves
  <2> QED  BY <2>1, <2>3, <2>4, <2>5, <2>6, PlanExact
<1> QED  BY <1>2, <1>3

LEMMA ReversalInvStep == ReversalInv /\ [ReversalNext]_reversalVars => ReversalInv'
<1> SUFFICES ASSUME ReversalInv, [ReversalNext]_reversalVars PROVE ReversalInv'
  OBVIOUS
<1>1. CASE UNCHANGED reversalVars
  BY <1>1 DEF ReversalInv, Happened, reversalVars
<1>2. ASSUME NEW e \in Events, Close(e) PROVE ReversalInv'
  BY <1>2 DEF Close, ReversalInv, Happened
<1>3. ASSUME NEW e \in Events, NEW l \in Roles, ReverseLine(e, l) PROVE ReversalInv'
  BY <1>3 DEF ReverseLine, ReversalInv, Happened
<1>4. ASSUME NEW e \in Events, NEW q \in 1 .. sale.buyerPaid, Ask(e, q) PROVE ReversalInv'
  <2>1. sale' = sale /\ lines' = lines
        /\ amount' = [amount EXCEPT ![e] = q]
        /\ plan' = [plan EXCEPT ![e] = Plan(lines, q, sale.buyerPaid)]
    BY <1>4 DEF Ask
  <2>2. PICK p \in Nat : sale.buyerPaid = p
    BY SaleAssumption DEF ReversalInv, Sale
  <2>3. q \in 0 .. p /\ p \in Nat \ {0}
    BY <2>2
  <2>4. lines \in [Roles -> Nat]
    BY ReversalInvHolds DEF SplitConserves
  <2>5. Plan(lines, q, p) \in [Roles -> Nat]
    BY <2>3, <2>4, PlanExact
  <2>6. amount' \in [Events -> 0 .. p]
    BY <2>1, <2>2, <2>3 DEF ReversalInv
  <2>7. plan' \in [Events -> [Roles -> Nat]]
    BY <2>1, <2>2, <2>5 DEF ReversalInv
  <2>8. \A d \in Happened' : plan'[d] = Plan(lines, amount'[d], p)
    <3> SUFFICES ASSUME NEW d \in Events, amount'[d] > 0
                 PROVE  plan'[d] = Plan(lines, amount'[d], p)
      BY DEF Happened
    <3>1. CASE d = e
      BY <2>1, <2>2, <3>1 DEF ReversalInv
    <3>2. CASE d # e
      <4>1. amount'[d] = amount[d] /\ plan'[d] = plan[d]
        BY <2>1, <3>2 DEF ReversalInv
      <4> QED  BY <2>2, <4>1 DEF ReversalInv, Happened
    <3> QED  BY <3>1, <3>2
  <2> QED  BY <2>1, <2>2, <2>6, <2>7, <2>8 DEF ReversalInv
<1> QED  BY <1>1, <1>2, <1>3, <1>4 DEF ReversalNext, Process

\* Every cent the buyer paid has one owner, whatever the sale.
THEOREM ReversalSplit == ReversalSpec => []SplitConserves
<1>1. ReversalInv => SplitConserves
  BY ReversalInvHolds
<1> QED  BY <1>1, ReversalInitInv, ReversalInvStep, PTL DEF ReversalSpec

\* Each event's lines add up to the stakeholders' share of it, and none is a
\* cent or more from its own share.
THEOREM ReversalPlans == ReversalSpec => []PlansAreExact
<1>1. ReversalInv => PlansAreExact
  BY ReversalInvHolds
<1> QED  BY <1>1, ReversalInitInv, ReversalInvStep, PTL DEF ReversalSpec

\* What the treasury is debited for an event is a part of the event, so that a
\* refund never credits the treasury nor costs it more than was refunded.
DebitsArePartial == \A e \in Happened : MarketplaceDebit(e) \in 0 .. amount[e]

\* The stakeholders' share of a reversal is at most the reversal.
THEOREM ReversalDebits == ReversalSpec => []DebitsArePartial
<1>1. ASSUME ReversalInv PROVE DebitsArePartial
  <2> SUFFICES ASSUME NEW e \in Happened PROVE MarketplaceDebit(e) \in 0 .. amount[e]
    BY DEF DebitsArePartial
  <2>1. sale \in Sale
    BY <1>1, SaleAssumption DEF ReversalInv
  <2>2. PICK p \in Nat : sale.buyerPaid = p
    BY <2>1 DEF Sale
  <2>3. amount[e] \in 0 .. p /\ amount[e] > 0
    BY <1>1, <2>2 DEF ReversalInv, Happened
  <2>4. PICK q \in 0 .. p : amount[e] = q
    BY <2>3
  <2>5. p \in Nat \ {0}
    BY <2>3
  <2>6. KloelTotal(sale) \in Nat
    BY <2>1 DEF Sale, KloelTotal
  <2>7. Total(lines) \in Nat
    <3>1. lines \in [Roles -> Nat]
      BY <1>1, ReversalInvHolds DEF SplitConserves
    <3> QED  BY <3>1 DEF Total, Roles
  <2>8. PICK n \in 0 .. p : Total(lines) = n
    BY <1>1, <2>2, <2>6, <2>7, ReversalInvHolds DEF SplitConserves
  <2>9. q * n \in Nat
    OBVIOUS
  <2>10. /\ (q * n) \div p \in Nat /\ (q * n) % p \in 0 .. p - 1
         /\ q * n = p * ((q * n) \div p) + ((q * n) % p)
    BY <2>5, <2>9, DivMod
  <2>11. (q * n) \div p <= q
    BY <2>5, <2>10, FloorBound
  <2>12. Total(plan[e]) = (n * q) \div p
    BY <1>1, <2>2, <2>4, <2>8, ReversalInvHolds DEF PlansAreExact
  <2>13. n * q = q * n
    OBVIOUS
  <2> QED  BY <2>4, <2>10, <2>11, <2>12, <2>13 DEF MarketplaceDebit
<1> QED  BY <1>1, ReversalInitInv, ReversalInvStep, PTL DEF ReversalSpec
=============================================================================
