------------------------ MODULE PrepaidWalletProofs ------------------------
(***************************************************************************)
(* Theorems about the prepaid wallet, for every set of requests, top-ups   *)
(* and processes, every price and every mix of faults.                     *)
(***************************************************************************)
EXTENDS PrepaidWallet, TLAPS

USE WalletAssumption DEF ServerPhases, WorkPhases

(***************************************************************************)
(* Types, and a balance that is never negative.                            *)
(***************************************************************************)
\* A transaction that is about to debit has read a balance that covers it.
SnapsCover ==
    \A p \in Procs :
        /\ phase[p] = "charging" => snap[p] >= Quote[req[p]]
        /\ phase[p] = "settling" => snap[p] >= Delta(p)

BalanceInv == TypeOK /\ SnapsCover

\* Nothing has happened yet.
LEMMA InitBalance == Init => BalanceInv
<1> SUFFICES ASSUME Init PROVE BalanceInv
  OBVIOUS
<1>1. TypeOK
  BY DEF Init, TypeOK
<1>2. SnapsCover
  BY DEF Init, SnapsCover
<1> QED  BY <1>1, <1>2 DEF BalanceInv

\* What a process may do next.
Step(p) ==
    \/ BeginTopUp(p) \/ AbandonTopUp(p)
    \/ \E t \in TopUps : CreditFromWebhook(p, t)
    \/ \E r \in Requests : Begin(p, r) \/ TakeJob(p, r)
    \/ ReadForCharge(p) \/ RefuseCharge(p) \/ ChargeForUsage(p)
    \/ ProviderSucceeds(p) \/ ProviderFails(p)
    \/ CreateSource(p) \/ Enqueue(p) \/ EnqueueFails(p) \/ IngestFails(p)
    \/ ReadForSettle(p) \/ RefuseSettle(p) \/ SettleUsageCharge(p) \/ Deliver(p)
    \/ ReadForRefund(p) \/ NothingToRefund(p) \/ RefundUsageCharge(p)
    \/ Rollback(p) \/ ReplyLost(p) \/ CreateSourceFails(p)
    \/ EnqueueReplyLost(p) \/ LateFailure(p) \/ Crash(p)

\* Every step keeps the types; a debit needs what was read to cover it.
LEMMA StepKeepsTypes ==
    ASSUME BalanceInv, NEW p \in Procs, Step(p)
    PROVE  TypeOK'
<1> USE DEF BalanceInv, TypeOK,
            Write, Read, Skip, Resume, Stay, Goto, Leave, End, Disturb, tables
<1>1. CASE BeginTopUp(p) \/ AbandonTopUp(p)
  BY <1>1 DEF BeginTopUp, AbandonTopUp
<1>2. ASSUME NEW t \in TopUps, CreditFromWebhook(p, t) PROVE TypeOK'
  BY <1>2 DEF CreditFromWebhook
<1>3. CASE \E r \in Requests : Begin(p, r) \/ TakeJob(p, r)
  BY <1>3 DEF Begin, TakeJob
<1>4. CASE ReadForCharge(p) \/ RefuseCharge(p)
  BY <1>4 DEF ReadForCharge, RefuseCharge
<1>5. CASE ChargeForUsage(p)
  BY <1>5 DEF ChargeForUsage, SnapsCover
<1>6. CASE ReplyLost(p)
  BY <1>6 DEF ReplyLost, SnapsCover
<1>7. CASE ProviderSucceeds(p) \/ ProviderFails(p)
  BY <1>7 DEF ProviderSucceeds, ProviderFails
<1>8. CASE CreateSource(p) \/ CreateSourceFails(p)
  BY <1>8 DEF CreateSource, CreateSourceFails
<1>9. CASE Enqueue(p) \/ EnqueueFails(p) \/ EnqueueReplyLost(p)
  BY <1>9 DEF Enqueue, EnqueueFails, EnqueueReplyLost
<1>10. CASE IngestFails(p)
  BY <1>10 DEF IngestFails, AttemptFails
<1>11. CASE ReadForSettle(p) \/ RefuseSettle(p)
  BY <1>11 DEF ReadForSettle, RefuseSettle, AttemptFails
<1>12. CASE SettleUsageCharge(p)
  BY <1>12 DEF SettleUsageCharge, Adjustment, SnapsCover, Delta
<1>13. CASE Deliver(p) \/ LateFailure(p)
  BY <1>13 DEF Deliver, LateFailure, ThrowsTo
<1>14. CASE ReadForRefund(p) \/ NothingToRefund(p)
  BY <1>14 DEF ReadForRefund, NothingToRefund
<1>15. CASE RefundUsageCharge(p)
  BY <1>15 DEF RefundUsageCharge
<1>16. CASE Rollback(p)
  BY <1>16 DEF Rollback, ThrowsTo
<1>17. CASE Crash(p)
  BY <1>17 DEF Crash
<1> QED
  BY <1>1, <1>2, <1>3, <1>4, <1>5, <1>6, <1>7, <1>8, <1>9,
     <1>10, <1>11, <1>12, <1>13, <1>14, <1>15, <1>16, <1>17
     DEF Step

\* A transaction that is to debit has compared what it read.
LEMMA StepKeepsCover ==
    ASSUME BalanceInv, NEW p \in Procs, Step(p)
    PROVE  SnapsCover'
<1> USE DEF BalanceInv, TypeOK, SnapsCover,
            Delta, Write, Read, Skip, Resume, Stay, Goto, Leave, End, Disturb, tables
<1>1. CASE BeginTopUp(p) \/ AbandonTopUp(p)
  BY <1>1 DEF BeginTopUp, AbandonTopUp
<1>2. ASSUME NEW t \in TopUps, CreditFromWebhook(p, t) PROVE SnapsCover'
  BY <1>2 DEF CreditFromWebhook
<1>3. CASE \E r \in Requests : Begin(p, r) \/ TakeJob(p, r)
  BY <1>3 DEF Begin, TakeJob
<1>4. CASE ReadForCharge(p) \/ RefuseCharge(p)
  BY <1>4 DEF ReadForCharge, RefuseCharge, Covers
<1>5. CASE ChargeForUsage(p)
  BY <1>5 DEF ChargeForUsage
<1>6. CASE ReplyLost(p)
  BY <1>6 DEF ReplyLost
<1>7. CASE ProviderSucceeds(p) \/ ProviderFails(p)
  BY <1>7 DEF ProviderSucceeds, ProviderFails
<1>8. CASE CreateSource(p) \/ CreateSourceFails(p)
  BY <1>8 DEF CreateSource, CreateSourceFails
<1>9. CASE Enqueue(p) \/ EnqueueFails(p) \/ EnqueueReplyLost(p)
  BY <1>9 DEF Enqueue, EnqueueFails, EnqueueReplyLost
<1>10. CASE IngestFails(p)
  BY <1>10 DEF IngestFails, AttemptFails
<1>11. CASE ReadForSettle(p) \/ RefuseSettle(p)
  BY <1>11 DEF ReadForSettle, RefuseSettle, AttemptFails, Covers
<1>12. CASE SettleUsageCharge(p)
  BY <1>12 DEF SettleUsageCharge, Adjustment
<1>13. CASE Deliver(p) \/ LateFailure(p)
  BY <1>13 DEF Deliver, LateFailure, ThrowsTo
<1>14. CASE ReadForRefund(p) \/ NothingToRefund(p)
  BY <1>14 DEF ReadForRefund, NothingToRefund
<1>15. CASE RefundUsageCharge(p)
  BY <1>15 DEF RefundUsageCharge
<1>16. CASE Rollback(p)
  BY <1>16 DEF Rollback, ThrowsTo
<1>17. CASE Crash(p)
  BY <1>17 DEF Crash
<1> QED
  BY <1>1, <1>2, <1>3, <1>4, <1>5, <1>6, <1>7, <1>8, <1>9,
     <1>10, <1>11, <1>12, <1>13, <1>14, <1>15, <1>16, <1>17
     DEF Step

LEMMA BalanceHolds == Spec => []BalanceInv
<1>1. ASSUME BalanceInv, [Next]_vars PROVE BalanceInv'
  <2>1. CASE \E p \in Procs : Step(p)
    BY <1>1, <2>1, StepKeepsTypes, StepKeepsCover DEF BalanceInv
  <2>2. CASE UNCHANGED vars
    BY <1>1, <2>2 DEF BalanceInv, TypeOK, SnapsCover, Delta, vars
  <2> QED  BY <1>1, <2>1, <2>2 DEF Next, Step
<1> QED  BY InitBalance, <1>1, PTL DEF Spec

\* Types, and a balance that no interleaving and no fault makes negative.
THEOREM WalletTypeOK == Spec => []TypeOK
  BY BalanceHolds, PTL DEF BalanceInv

(***************************************************************************)
(* What a call made once and met by no fault has cost.                     *)
(***************************************************************************)
Untouched(r) == r \notin charged /\ adjusted[r] = 0 /\ r \notin refunded

Charged(r) == r \in charged /\ adjusted[r] = 0 /\ r \notin refunded

\* What the phase of the process that serves r says of its rows.
Stage(p, r) ==
    /\ phase[p] \in {"charge", "charging"} => Untouched(r)
    /\ phase[p] \in {"serve", "enqueue", "refund", "refunding", "ingest", "settle", "settling"} =>
            Charged(r)
    /\ phase[p] = "finish" =>
            r \in charged /\ r \notin refunded /\ adjusted[r] = Quote[r] - cost[p]
    /\ phase[p] \in ServerPhases => attempts[r] = 0
    /\ phase[p] = "enqueue" => r \in Ingestions

\* One process at most serves a regular request, and only until it has ended;
\* a job that waits for its next attempt is charged and not settled.
Accounted(r) ==
    /\ r \notin begun =>
            /\ Untouched(r) /\ attempts[r] = 0 /\ owed[r] = Open
            /\ \A p \in Procs : req[p] # r
    /\ r \notin Ingestions => attempts[r] = 0
    /\ \A p, q \in Procs : req[p] = r /\ req[q] = r => p = q
    /\ \A p \in Procs : req[p] = r => owed[r] = Open /\ Stage(p, r)
    /\ attempts[r] > 0 =>
            owed[r] = Open /\ ((\A p \in Procs : req[p] # r) => Charged(r))
    /\ owed[r] # Open => Net(r) = -owed[r]

RegularRequests == \A r \in Requests \ irregular : Accounted(r)

LEMMA InitAccounted == Init => RegularRequests
<1> SUFFICES ASSUME Init, NEW r \in Requests PROVE Accounted(r)
  BY DEF RegularRequests
<1>1. Untouched(r) /\ attempts[r] = 0 /\ owed[r] = Open
  BY DEF Init, Untouched
<1>2. \A p \in Procs : req[p] # r
  BY DEF Init
<1> QED  BY <1>1, <1>2 DEF Accounted

\* A step of p keeps the account of every request that is regular after it.
LEMMA StepKeepsAccount ==
    ASSUME TypeOK, NEW r \in Requests, r \notin irregular', r \notin irregular => Accounted(r),
           NEW p \in Procs, Step(p)
    PROVE  Accounted(r)'
<1> USE DEF TypeOK, Accounted, Stage, Untouched, Charged, Net,
            Write, Read, Skip, Resume, Stay, Goto, Leave, End, Disturb, tables
<1>1. CASE BeginTopUp(p) \/ AbandonTopUp(p)
  BY <1>1 DEF BeginTopUp, AbandonTopUp
<1>2. ASSUME NEW t \in TopUps, CreditFromWebhook(p, t) PROVE Accounted(r)'
  BY <1>2 DEF CreditFromWebhook
<1>3. ASSUME NEW q \in Requests, Begin(p, q) PROVE Accounted(r)'
  <2>1. CASE q = r
    BY <1>3, <2>1 DEF Begin
  <2>2. CASE q # r
    BY <1>3, <2>2 DEF Begin
  <2> QED  BY <2>1, <2>2
<1>4. ASSUME NEW q \in Requests, TakeJob(p, q) PROVE Accounted(r)'
  <2>1. CASE q = r
    BY <1>4, <2>1 DEF TakeJob, InProgress
  <2>2. CASE q # r
    BY <1>4, <2>2 DEF TakeJob
  <2> QED  BY <2>1, <2>2
<1>5. CASE ReadForCharge(p) \/ RefuseCharge(p)
  BY <1>5 DEF ReadForCharge, RefuseCharge
<1>6. CASE ChargeForUsage(p)
  BY <1>6 DEF ChargeForUsage
<1>7. CASE ReplyLost(p)
  BY <1>7 DEF ReplyLost
<1>8. CASE ProviderSucceeds(p) \/ ProviderFails(p)
  BY <1>8 DEF ProviderSucceeds, ProviderFails
<1>9. CASE CreateSource(p) \/ CreateSourceFails(p)
  BY <1>9 DEF CreateSource, CreateSourceFails
<1>10. CASE Enqueue(p) \/ EnqueueFails(p) \/ EnqueueReplyLost(p)
  BY <1>10 DEF Enqueue, EnqueueFails, EnqueueReplyLost
<1>11. CASE IngestFails(p)
  <2>1. CASE req[p] = r
    BY <1>11, <2>1 DEF IngestFails, AttemptFails
  <2>2. CASE req[p] # r
    BY <1>11, <2>2 DEF IngestFails, AttemptFails
  <2> QED  BY <2>1, <2>2
<1>12. CASE ReadForSettle(p)
  BY <1>12 DEF ReadForSettle, NothingToSettle, Delta
<1>13. CASE RefuseSettle(p)
  <2>1. CASE phase' = [phase EXCEPT ![p] = "refund"]
    BY <1>13, <2>1 DEF RefuseSettle, AttemptFails, NothingToSettle
  <2>2. CASE AttemptFails(p) /\ UNCHANGED <<tables, attempts, begun, irregular>> /\ req[p] = r
    BY <1>13, <2>2 DEF RefuseSettle, AttemptFails
  <2>3. CASE AttemptFails(p) /\ UNCHANGED <<tables, attempts, begun, irregular>> /\ req[p] # r
    BY <1>13, <2>3 DEF RefuseSettle, AttemptFails
  <2> QED  BY <1>13, <2>1, <2>2, <2>3 DEF RefuseSettle
<1>14. CASE SettleUsageCharge(p)
  BY <1>14 DEF SettleUsageCharge, Adjustment, Delta
<1>15. CASE Deliver(p) \/ LateFailure(p)
  BY <1>15 DEF Deliver, LateFailure, ThrowsTo
<1>16. CASE ReadForRefund(p) \/ NothingToRefund(p)
  BY <1>16 DEF ReadForRefund, NothingToRefund
<1>17. CASE RefundUsageCharge(p)
  BY <1>17 DEF RefundUsageCharge
<1>18. CASE Rollback(p)
  BY <1>18 DEF Rollback, ThrowsTo
<1>19. CASE Crash(p)
  BY <1>19 DEF Crash
<1> QED
  BY <1>1, <1>2, <1>3, <1>4, <1>5, <1>6, <1>7, <1>8, <1>9, <1>10,
     <1>11, <1>12, <1>13, <1>14, <1>15, <1>16, <1>17, <1>18, <1>19
     DEF Step

LEMMA AccountsHold == Spec => []RegularRequests
<1>1. ASSUME TypeOK, RegularRequests, [Next]_vars PROVE RegularRequests'
  <2>1. CASE \E p \in Procs : Step(p)
    BY <1>1, <2>1, StepKeepsAccount DEF RegularRequests
  <2>2. CASE UNCHANGED vars
    BY <1>1, <2>2 DEF RegularRequests, Accounted, Stage, Untouched, Charged, Net, vars
  <2> QED  BY <1>1, <2>1, <2>2 DEF Next, Step
<1> QED  BY InitAccounted, <1>1, WalletTypeOK, PTL DEF Spec

\* A call made once and met by no fault is paid for as it ended, however the
\* calls of other requests and the top-ups interleave with it.
THEOREM WalletOutcomes == Spec => []OutcomesArePaidFor
<1>1. RegularRequests => OutcomesArePaidFor
  BY DEF RegularRequests, Accounted, OutcomesArePaidFor
<1> QED  BY <1>1, AccountsHold, PTL
=============================================================================
