------------------------ MODULE StripeWebhookProofs ------------------------
(***************************************************************************)
(* Theorems about the Stripe webhook, for every number of split lines,     *)
(* handlers and failures and every set of triggers, with redeliveries at   *)
(* any time, while a claim is held too.                                    *)
(***************************************************************************)
EXTENDS StripeWebhook, TLAPS

USE DEF Events

EarlyPhases == {"early", "earlyOrder"}
SaleLoop == {"transfer", "credit"}
AfterLoop == {"snapshot", "fee", "approve", "order", "toProcessing", "toPaid"}
Approving == {"approve", "order", "toProcessing", "toPaid"}
ReversalLoop == {"reverse", "debit"}
AfterReversal == {"reversedStatus", "residue", "whole", "pending", "available"}

\* A handler is in a phase of the event it handles, which Stripe has created.
PhaseFits(p) ==
    /\ phase[p] # "idle" => event[p] \in emitted
    /\ phase[p] \in EarlyPhases => event[p] \in EarlyEvents
    /\ phase[p] \in {"load"} \cup ReversalLoop \cup AfterReversal => event[p] \in Triggers

\* A handler that has reached a line of the sale has done the lines before it,
\* and past the loop every step before its own.
SaleProgress(p) ==
    /\ phase[p] \in SaleLoop => \A k \in Lines : k < line[p] => k \in credits
    /\ phase[p] = "credit" => line[p] \in transfers
    /\ phase[p] \in AfterLoop => Distributed
    /\ phase[p] \in AfterLoop \ {"snapshot"} => snapshot
    /\ phase[p] \in Approving => fee

\* Likewise for the lines of a reversal.
ReversalProgress(p) ==
    /\ phase[p] = "load" => line[p] = 1
    /\ phase[p] \in ReversalLoop =>
            snapshot /\ \A k \in Lines : k < line[p] => k \in debited[event[p]]
    /\ phase[p] = "debit" => line[p] \in reversed[event[p]]
    /\ phase[p] \in AfterReversal => Reversed(event[p])

Typed == TypeOK /\ \A p \in Procs : PhaseFits(p)

Progress == \A p \in Procs : SaleProgress(p) /\ ReversalProgress(p)

IInv ==
    /\ Typed
    /\ Progress
    /\ ReversedOnlyIfDistributed
    /\ StatusesAreTrue

\* What is done stays done.
Grows ==
    /\ transfers \subseteq transfers'
    /\ credits \subseteq credits'
    /\ snapshot => snapshot'
    /\ fee => fee'
    /\ \A t \in Triggers : reversed[t] \subseteq reversed'[t] /\ debited[t] \subseteq debited'[t]

\* The handler itself does not move.
Stays(p) == phase'[p] = phase[p] /\ event'[p] = event[p] /\ line'[p] = line[p]

\* The initial state satisfies the inductive invariant.
LEMMA InitIInv == Init => IInv
<1> SUFFICES ASSUME Init PROVE IInv
  OBVIOUS
<1>1. TypeOK
  <2>1. line \in [Procs -> Lines] /\ failures \in 0..MaxFailures
    BY WebhookAssumption DEF Init, Lines
  <2>2. \A p \in Procs : phase[p] = "idle" <=> event[p] = "none"
    BY DEF Init
  <2> QED  BY <2>1, <2>2 DEF Init, TypeOK, Phases
<1>2. \A p \in Procs : PhaseFits(p) /\ SaleProgress(p) /\ ReversalProgress(p)
  BY DEF Init, PhaseFits, SaleProgress, ReversalProgress, EarlyPhases, SaleLoop, AfterLoop,
         Approving, ReversalLoop, AfterReversal
<1>3. ReversedOnlyIfDistributed /\ StatusesAreTrue
  BY DEF Init, ReversedOnlyIfDistributed, StatusesAreTrue, ReversedStatus
<1> QED  BY <1>1, <1>2, <1>3 DEF IInv, Typed, Progress

----------------------------------------------------------------------------
\* The statuses that an event of an unsuccessful intent may write.
LEMMA EarlyStatusType ==
    ASSUME NEW e \in EarlyEvents
    PROVE  EarlyStatus(e) \in {"PROCESSING", "DECLINED", "CANCELED"}
<1>1. e \in {"processing", "failed", "canceled"}
  BY WebhookAssumption
<1>2. CASE e = "processing"
  BY <1>2 DEF EarlyStatus
<1>3. CASE e = "failed"
  BY <1>3 DEF EarlyStatus
<1>4. CASE e = "canceled"
  BY <1>4 DEF EarlyStatus
<1> QED  BY <1>1, <1>2, <1>3, <1>4

\* One more line for one trigger.
LEMMA AddLine ==
    ASSUME NEW f \in [Triggers -> SUBSET Lines], NEW t \in Triggers, NEW k \in Lines
    PROVE  [f EXCEPT ![t] = @ \cup {k}] \in [Triggers -> SUBSET Lines]
  OBVIOUS

\* Typing and the fit of phase and event are preserved by deliveries.
LEMMA DeliveryTyped ==
    ASSUME Typed,
           \/ \E e \in Events : Emit(e) \/ DeliverDuplicate(e) \/ Expire(e)
           \/ \E p \in Procs, e \in Events : Deliver(p, e)
           \/ \E p \in Procs : Throw(p) \/ Acknowledge(p)
           \/ UNCHANGED vars
    PROVE  Typed'
<1> USE WebhookAssumption DEF Lines, Typed, TypeOK, PhaseFits, delivery, handler, sale, reversal, status
<1>1. CASE \E e \in Events : Emit(e) \/ DeliverDuplicate(e) \/ Expire(e)
  BY <1>1, ZenonT(40) DEF Emit, DeliverDuplicate, Expire
<1>2. ASSUME NEW p \in Procs, NEW e \in Events, Deliver(p, e)
      PROVE  Typed'
  <2>1. FirstPhase(e) \in {"transfer", "load", "early"}
        /\ (FirstPhase(e) = "load" => e \in Triggers)
        /\ (FirstPhase(e) = "early" => e \in EarlyEvents)
    BY DEF FirstPhase
  <2>2. e # "none"
    OBVIOUS
  <2>3. TypeOK'
    BY <1>2, <2>1, <2>2 DEF Deliver, Phases
  <2>4. \A q \in Procs : PhaseFits(q)'
    BY <1>2, <2>1 DEF Deliver, EarlyPhases, ReversalLoop, AfterReversal
  <2> QED  BY <2>3, <2>4
<1>3. ASSUME NEW p \in Procs, Throw(p) \/ Acknowledge(p)
      PROVE  Typed'
  <2>0. failures' \in 0..MaxFailures
    BY <1>3 DEF Throw, Acknowledge
  <2>1. /\ Stop(p) /\ UNCHANGED <<emitted, skipped, transfers, credits, snapshot, fee>>
        /\ UNCHANGED <<reversed, debited, residue, payment, order>>
    <3>1. CASE Throw(p)
      BY <3>1 DEF Throw
    <3>2. CASE Acknowledge(p)
      BY <3>2 DEF Acknowledge
    <3> QED  BY <1>3, <3>1, <3>2
  <2>2. /\ acked' \subseteq emitted' /\ claims' \subseteq emitted'
        /\ thrown' \subseteq emitted' /\ skipped' \subseteq acked'
    <3>1. CASE Throw(p)
      <4>1. event[p] \in emitted /\ thrown' = thrown \cup ({event[p]} \ EarlyEvents)
            /\ UNCHANGED <<emitted, acked, claims, skipped>>
        BY <3>1 DEF Throw
      <4> QED  BY <4>1
    <3>2. CASE Acknowledge(p)
      <4>1. /\ event[p] \in emitted /\ acked' = acked \cup {event[p]}
            /\ claims' = claims \ {event[p]} /\ thrown' = thrown \ {event[p]}
            /\ UNCHANGED <<emitted, skipped>>
        BY <3>2 DEF Acknowledge
      <4> QED  BY <4>1
    <3> QED  BY <1>3, <3>1, <3>2
  <2>3. TypeOK'
    BY <2>0, <2>1, <2>2 DEF Stop, Phases
  <2>4. \A q \in Procs : PhaseFits(q)'
    BY <2>1 DEF Stop, EarlyPhases, ReversalLoop, AfterReversal
  <2> QED  BY <2>3, <2>4
<1>4. CASE UNCHANGED vars
  BY <1>4 DEF vars
<1> QED  BY <1>1, <1>2, <1>3, <1>4

\* So are they by a step of a handler at work.
LEMMA HandlerTyped ==
    ASSUME Typed, NEW p \in Procs, Handle(p)
    PROVE  Typed'
<1> USE WebhookAssumption DEF Lines, Typed, TypeOK, PhaseFits, delivery, handler, sale, reversal, status
<1>1. CASE EarlyPayment(p)
  <2>1. payment' \in {payment, "PROCESSING", "DECLINED", "CANCELED"}
    BY <1>1, EarlyStatusType DEF EarlyPayment, EarlyPhases
  <2>2. UNCHANGED <<delivery, sale, reversal, order, event, line, thrown>>
        /\ phase[p] = "early" /\ phase' = [phase EXCEPT ![p] = "earlyOrder"]
        /\ failures' \in 0..MaxFailures
    BY <1>1 DEF EarlyPayment, GoTo
  <2>3. TypeOK'
    BY <2>1, <2>2 DEF Phases
  <2> QED  BY <2>2, <2>3 DEF EarlyPhases, ReversalLoop, AfterReversal
<1>2. CASE EarlyOrder(p)
  <2>1. order' \in {order, "PROCESSING", "CANCELED"}
    <3>1. event[p] \in EarlyEvents
      BY <1>2 DEF EarlyOrder, EarlyPhases
    <3>2. CASE event[p] = "failed"
      BY <1>2, <3>2 DEF EarlyOrder
    <3>3. CASE event[p] = "processing"
      BY <1>2, <3>3 DEF EarlyOrder, EarlyStatus
    <3>4. CASE event[p] = "canceled"
      BY <1>2, <3>4 DEF EarlyOrder, EarlyStatus
    <3> QED  BY <3>1, <3>2, <3>3, <3>4
  <2>2. UNCHANGED <<delivery, sale, reversal, payment, event, line, failures, thrown>>
        /\ phase[p] = "earlyOrder" /\ phase' = [phase EXCEPT ![p] = "done"]
    BY <1>2 DEF EarlyOrder, GoTo
  <2>3. TypeOK'
    BY <2>1, <2>2 DEF Phases
  <2> QED  BY <2>2, <2>3 DEF EarlyPhases, ReversalLoop, AfterReversal
<1>3. CASE Transfer(p)
  BY <1>3, ZenonT(40) DEF Transfer, GoTo, Phases, EarlyPhases, ReversalLoop, AfterReversal
<1>4. CASE Credit(p)
  <2>1. line' \in [Procs -> Lines]
    BY <1>4 DEF Credit, NextLine
  <2>2. credits' \subseteq Lines
    BY <1>4 DEF Credit
  <2>3. phase' \in {[phase EXCEPT ![p] = "transfer"], [phase EXCEPT ![p] = "snapshot"]}
        /\ phase[p] = "credit"
        /\ UNCHANGED <<delivery, transfers, snapshot, fee, reversal, status, failures, event, thrown>>
    BY <1>4 DEF Credit, NextLine
  <2>4. TypeOK'
    BY <2>1, <2>2, <2>3 DEF Phases
  <2> QED  BY <2>3, <2>4 DEF EarlyPhases, ReversalLoop, AfterReversal
<1>5. CASE PersistSnapshot(p)
  BY <1>5 DEF PersistSnapshot, GoTo, Phases, EarlyPhases, ReversalLoop, AfterReversal
<1>6. CASE CreditFee(p)
  BY <1>6 DEF CreditFee, GoTo, Phases, EarlyPhases, ReversalLoop, AfterReversal
<1>7. CASE ApprovePayment(p)
  BY <1>7 DEF ApprovePayment, GoTo, Phases, EarlyPhases, ReversalLoop, AfterReversal
<1>8. CASE ReadOrder(p)
  BY <1>8 DEF ReadOrder, GoTo, Phases, EarlyPhases, ReversalLoop, AfterReversal
<1>9. CASE WriteOrder(p)
  BY <1>9 DEF WriteOrder, GoTo, Phases, EarlyPhases, ReversalLoop, AfterReversal
<1>10. CASE LoadSnapshot(p)
  <2>1. UNCHANGED <<delivery, sale, reversal, status, failures>> /\ phase[p] = "load"
    BY <1>10 DEF LoadSnapshot
  <2>2. thrown' \subseteq emitted
    <3>1. event[p] \in emitted /\ thrown' \in {thrown, thrown \cup ({event[p]} \ EarlyEvents)}
      BY <1>10, <2>1 DEF LoadSnapshot
    <3> QED  BY <3>1
  <2>3. /\ phase' \in [Procs -> Phases] /\ event' \in [Procs -> Events \cup {"none"}]
        /\ line' \in [Procs -> Lines]
        /\ \A q \in Procs : phase'[q] = "idle" <=> event'[q] = "none"
        /\ \A q \in Procs : PhaseFits(q)'
    BY <1>10, <2>1
    DEF LoadSnapshot, GoTo, Stop, Phases, EarlyPhases, ReversalLoop, AfterReversal
  <2> QED  BY <2>1, <2>2, <2>3
<1>11. CASE ReverseTransfer(p)
  <2>1. reversed' \in [Triggers -> SUBSET Lines]
    <3>1. event[p] \in Triggers /\ line[p] \in Lines
      BY <1>11 DEF ReverseTransfer, ReversalLoop
    <3>2. reversed' = [reversed EXCEPT ![event[p]] = @ \cup {line[p]}]
      BY <1>11 DEF ReverseTransfer
    <3> QED  BY <3>1, <3>2, AddLine
  <2>2. /\ phase' = [phase EXCEPT ![p] = "debit"] /\ phase[p] = "reverse"
        /\ UNCHANGED <<delivery, sale, debited, residue, status, failures, event, line, thrown>>
    BY <1>11 DEF ReverseTransfer, GoTo
  <2>3. TypeOK'
    BY <2>1, <2>2 DEF Phases
  <2> QED  BY <2>2, <2>3 DEF EarlyPhases, ReversalLoop, AfterReversal
<1>12. CASE DebitStakeholder(p)
  <2>1. line' \in [Procs -> Lines]
    BY <1>12 DEF DebitStakeholder, NextLine
  <2>2. debited' \in [Triggers -> SUBSET Lines]
    <3>1. event[p] \in Triggers /\ line[p] \in Lines
      BY <1>12 DEF DebitStakeholder, ReversalLoop
    <3>2. debited' = [debited EXCEPT ![event[p]] = @ \cup {line[p]}]
      BY <1>12 DEF DebitStakeholder
    <3> QED  BY <3>1, <3>2, AddLine
  <2>3. phase' \in {[phase EXCEPT ![p] = "reverse"], [phase EXCEPT ![p] = "reversedStatus"]}
        /\ phase[p] = "debit"
        /\ UNCHANGED <<delivery, sale, reversed, residue, status, failures, event, thrown>>
    BY <1>12 DEF DebitStakeholder, NextLine
  <2>4. TypeOK'
    BY <2>1, <2>2, <2>3 DEF Phases
  <2> QED  BY <2>3, <2>4 DEF EarlyPhases, ReversalLoop, AfterReversal
<1>13. CASE MarkReversed(p)
  BY <1>13
  DEF MarkReversed, ReversedStatus, GoTo, Phases, EarlyPhases, ReversalLoop, AfterReversal
<1>14. CASE SplitResidue(p)
  BY <1>14 DEF SplitResidue, GoTo, Phases, EarlyPhases, ReversalLoop, AfterReversal
<1>15. CASE DebitResidue(p)
  BY <1>15, ZenonT(40) DEF DebitResidue, GoTo, Phases, EarlyPhases, ReversalLoop, AfterReversal
<1>16. CASE Acknowledge(p)
  BY <1>16, DeliveryTyped
<1> QED  BY <1>1, <1>2, <1>3, <1>4, <1>5, <1>6, <1>7, <1>8, <1>9, <1>10, <1>11, <1>12,
            <1>13, <1>14, <1>15, <1>16 DEF Handle

----------------------------------------------------------------------------
\* A step only adds to what is done, and moves one handler at most.
LEMMA StepGrows ==
    ASSUME Typed, [Next]_vars
    PROVE  Grows
<1> USE DEF Typed, TypeOK, Grows, delivery, handler, sale, reversal, status
<1>1. CASE \E p \in Procs : Handle(p)
  BY <1>1
  DEF Handle, EarlyPayment, EarlyOrder, Transfer, Credit, PersistSnapshot, CreditFee,
      ApprovePayment, ReadOrder, WriteOrder, LoadSnapshot, ReverseTransfer,
      DebitStakeholder, MarkReversed, SplitResidue, DebitResidue, Acknowledge
<1>2. CASE UNCHANGED <<sale, reversal>>
  BY <1>2
<1> QED  BY <1>1, <1>2 DEF Next, Throw, Deliver, Emit, DeliverDuplicate, Expire, vars

\* A handler that does not move keeps its progress, whatever the others do.
LEMMA StaysProgress ==
    ASSUME Typed, Typed', Grows, NEW p \in Procs, Stays(p),
           SaleProgress(p) /\ ReversalProgress(p)
    PROVE  (SaleProgress(p) /\ ReversalProgress(p))'
<1>1. Distributed => Distributed'
  BY DEF Typed, TypeOK, Grows, Distributed
<1>2. SaleProgress(p)'
  BY <1>1 DEF SaleProgress, Stays, Grows
<1>3. ReversalProgress(p)'
  <2>1. ASSUME event[p] \in Triggers
        PROVE  /\ reversed[event[p]] \subseteq reversed'[event[p]]
               /\ debited[event[p]] \subseteq debited'[event[p]]
               /\ reversed'[event[p]] \subseteq Lines
               /\ debited'[event[p]] \subseteq Lines
    BY <2>1 DEF Grows, Typed, TypeOK
  <2>2. phase[p] \in ReversalLoop \cup AfterReversal => event[p] \in Triggers
    BY DEF Typed, PhaseFits
  <2>3. event[p] \in Triggers /\ Reversed(event[p]) => Reversed(event[p])'
    <3>1. event[p] \in Triggers /\ Reversed(event[p]) =>
             reversed'[event[p]] = Lines /\ debited'[event[p]] = Lines
      BY <2>1 DEF Reversed
    <3>2. event'[p] = event[p]
      BY DEF Stays
    <3> QED  BY <3>1, <3>2 DEF Reversed
  <2>4. phase[p] \in ReversalLoop =>
            snapshot' /\ \A k \in Lines : k < line[p] => k \in debited'[event[p]]
    BY <2>1, <2>2 DEF ReversalProgress, Grows
  <2>5. phase[p] = "debit" => line[p] \in reversed'[event[p]]
    BY <2>1, <2>2 DEF ReversalProgress, ReversalLoop
  <2>6. phase[p] \in AfterReversal => Reversed(event[p])'
    BY <2>2, <2>3 DEF ReversalProgress
  <2> QED  BY <2>4, <2>5, <2>6 DEF ReversalProgress, Stays
<1> QED  BY <1>2, <1>3

\* A step of the sale leaves its handler with the progress it claims.
LEMMA SaleActor ==
    ASSUME IInv, Typed', NEW p \in Procs,
           \/ Transfer(p) \/ Credit(p) \/ PersistSnapshot(p) \/ CreditFee(p)
           \/ ApprovePayment(p) \/ ReadOrder(p) \/ WriteOrder(p)
    PROVE  (SaleProgress(p) /\ ReversalProgress(p))'
<1>1. /\ SaleProgress(p)
      /\ phase \in [Procs -> Phases] /\ line \in [Procs -> Lines]
      /\ credits \subseteq transfers /\ credits \subseteq Lines /\ transfers \subseteq Lines
      /\ credits' \subseteq Lines /\ transfers' \subseteq Lines
  BY DEF IInv, Typed, TypeOK, Progress, ReversedOnlyIfDistributed
<1> USE DEF SaleProgress, ReversalProgress, EarlyPhases, SaleLoop, AfterLoop, Approving,
            ReversalLoop, AfterReversal, sale, reversal, status
<1>2. CASE Transfer(p)
  BY <1>1, <1>2 DEF Transfer, GoTo
<1>3. CASE Credit(p)
  <2>1. /\ line[p] \in transfers /\ credits' = credits \cup {line[p]} /\ transfers' = transfers
        /\ \A k \in Lines : k < line[p] => k \in credits
    BY <1>1, <1>3 DEF Credit
  <2>2. CASE line[p] < NLines
    <3>1. phase'[p] = "transfer" /\ line'[p] = line[p] + 1
      BY <1>1, <1>3, <2>2 DEF Credit, NextLine
    <3>2. \A k \in Lines : k < line[p] + 1 => k \in credits'
      BY <1>1, <2>1, WebhookAssumption DEF Lines
    <3> QED  BY <3>1, <3>2
  <2>3. CASE ~(line[p] < NLines)
    <3>1. phase'[p] = "snapshot"
      BY <1>1, <1>3, <2>3 DEF Credit, NextLine
    <3>2. \A k \in Lines : k \in credits'
      BY <1>1, <2>1, <2>3, WebhookAssumption DEF Lines
    <3>3. credits' = Lines /\ transfers' = Lines
      BY <1>1, <2>1, <3>2
    <3> QED  BY <3>1, <3>3 DEF Distributed
  <2> QED  BY <2>2, <2>3
<1>4. CASE PersistSnapshot(p)
  BY <1>1, <1>4 DEF PersistSnapshot, GoTo, Distributed
<1>5. CASE CreditFee(p)
  BY <1>1, <1>5 DEF CreditFee, GoTo, Distributed
<1>6. CASE ApprovePayment(p)
  BY <1>1, <1>6 DEF ApprovePayment, GoTo, Distributed
<1>7. CASE ReadOrder(p)
  BY <1>1, <1>7 DEF ReadOrder, GoTo, Distributed
<1>8. CASE WriteOrder(p)
  BY <1>1, <1>8 DEF WriteOrder, GoTo, Distributed
<1> QED  BY <1>2, <1>3, <1>4, <1>5, <1>6, <1>7, <1>8

\* So does a step of a reversal.
LEMMA ReversalActor ==
    ASSUME IInv, Typed', NEW p \in Procs,
           \/ LoadSnapshot(p) \/ ReverseTransfer(p) \/ DebitStakeholder(p)
           \/ MarkReversed(p) \/ SplitResidue(p) \/ DebitResidue(p)
    PROVE  (SaleProgress(p) /\ ReversalProgress(p))'
<1>1. /\ ReversalProgress(p)
      /\ phase \in [Procs -> Phases] /\ line \in [Procs -> Lines]
      /\ event \in [Procs -> Events \cup {"none"}]
      /\ reversed \in [Triggers -> SUBSET Lines] /\ debited \in [Triggers -> SUBSET Lines]
  BY DEF IInv, Typed, TypeOK, Progress
<1>2. ~LoadSnapshot(p) => event[p] \in Triggers /\ event'[p] = event[p]
  BY DEF IInv, Typed, PhaseFits, ReverseTransfer, DebitStakeholder, MarkReversed,
         SplitResidue, DebitResidue, GoTo, NextLine, ReversalLoop, AfterReversal
<1> USE DEF SaleProgress, ReversalProgress, EarlyPhases, SaleLoop, AfterLoop, Approving,
            ReversalLoop, AfterReversal
<1>3. CASE LoadSnapshot(p)
  <2>1. phase'[p] \in {"reverse", "idle"} /\ line'[p] = 1
        /\ (phase'[p] = "reverse" => snapshot')
    BY <1>1, <1>3 DEF LoadSnapshot, GoTo, Stop, sale
  <2>2. \A k \in Lines : ~(k < 1)
    BY WebhookAssumption DEF Lines
  <2> QED  BY <2>1, <2>2
<1>4. CASE ReverseTransfer(p)
  <2>1. /\ phase'[p] = "debit" /\ line'[p] = line[p] /\ snapshot' = snapshot
        /\ debited' = debited /\ phase[p] = "reverse"
    BY <1>1, <1>4 DEF ReverseTransfer, GoTo, sale
  <2>2. line[p] \in reversed'[event[p]]
    BY <1>1, <1>2, <1>4 DEF ReverseTransfer, LoadSnapshot
  <2>3. event'[p] = event[p]
    BY <1>4 DEF ReverseTransfer, GoTo
  <2> QED  BY <1>1, <2>1, <2>2, <2>3
<1>5. CASE DebitStakeholder(p)
  <2>1. /\ event[p] \in Triggers /\ event'[p] = event[p]
        /\ snapshot' = snapshot /\ reversed' = reversed /\ phase[p] = "debit"
        /\ debited'[event[p]] = debited[event[p]] \cup {line[p]}
    BY <1>1, <1>2, <1>5 DEF DebitStakeholder, LoadSnapshot, sale
  <2>2. \A k \in Lines : k < line[p] => k \in debited[event[p]]
    BY <1>1, <2>1
  <2>3. debited[event[p]] \subseteq reversed[event[p]] /\ line[p] \in reversed[event[p]]
    BY <1>1, <2>1 DEF IInv, ReversedOnlyIfDistributed
  <2>4. CASE line[p] < NLines
    <3>1. phase'[p] = "reverse" /\ line'[p] = line[p] + 1
      BY <1>1, <1>5, <2>4 DEF DebitStakeholder, NextLine
    <3>2. \A k \in Lines : k < line[p] + 1 => k \in debited'[event[p]]
      BY <1>1, <2>1, <2>2, WebhookAssumption DEF Lines
    <3>3. snapshot'
      BY <1>1, <2>1
    <3> QED  BY <2>1, <3>1, <3>2, <3>3
  <2>5. CASE ~(line[p] < NLines)
    <3>1. phase'[p] = "reversedStatus"
      BY <1>1, <1>5, <2>5 DEF DebitStakeholder, NextLine
    <3>2. \A k \in Lines : k \in debited'[event[p]]
      BY <1>1, <2>1, <2>2, <2>5, WebhookAssumption DEF Lines
    <3>3. debited'[event[p]] = Lines /\ reversed'[event[p]] = Lines
      BY <1>1, <2>1, <2>3, <3>2
    <3> QED  BY <2>1, <3>1, <3>3 DEF Reversed
  <2> QED  BY <2>4, <2>5
<1>6. CASE MarkReversed(p) \/ SplitResidue(p) \/ DebitResidue(p)
  <2>1. /\ phase[p] \in AfterReversal /\ phase'[p] \in AfterReversal \cup {"done"}
        /\ UNCHANGED <<reversed, debited>> /\ event'[p] = event[p]
    BY <1>1, <1>6 DEF MarkReversed, SplitResidue, DebitResidue, GoTo, reversal
  <2> QED  BY <1>1, <2>1 DEF Reversed
<1> QED  BY <1>3, <1>4, <1>5, <1>6

\* A handler moves alone.
LEMMA OthersStay ==
    ASSUME Typed, NEW p \in Procs, NEW q \in Procs, q # p,
           \/ Handle(p) \/ Throw(p)
           \/ \E e \in Events : Deliver(p, e)
    PROVE  Stays(q)
<1> USE DEF Typed, TypeOK, Stays
<1>1. CASE Handle(p)
  BY <1>1
  DEF Handle, EarlyPayment, EarlyOrder, Transfer, Credit, PersistSnapshot, CreditFee,
      ApprovePayment, ReadOrder, WriteOrder, LoadSnapshot, ReverseTransfer,
      DebitStakeholder, MarkReversed, SplitResidue, DebitResidue, Acknowledge, GoTo,
      NextLine, Stop
<1>2. CASE Throw(p)
  BY <1>2 DEF Throw, Stop
<1>3. CASE \E e \in Events : Deliver(p, e)
  BY <1>3 DEF Deliver
<1> QED  BY <1>1, <1>2, <1>3

\* Every step preserves the progress of every handler.
LEMMA ProgressStep ==
    ASSUME IInv, Typed', [Next]_vars
    PROVE  Progress'
<1>1. Grows
  BY StepGrows DEF IInv
<1>2. ASSUME NEW q \in Procs, Stays(q)
      PROVE  (SaleProgress(q) /\ ReversalProgress(q))'
  BY <1>1, <1>2, StaysProgress DEF IInv, Progress
<1>3. ASSUME NEW p \in Procs, NEW q \in Procs, q # p,
             \/ Handle(p) \/ Throw(p)
             \/ \E e \in Events : Deliver(p, e)
      PROVE  Stays(q)
  BY <1>3, OthersStay DEF IInv
<1>4. ASSUME NEW p \in Procs,
             Handle(p) \/ Throw(p) \/ \E e \in Events : Deliver(p, e)
      PROVE  (SaleProgress(p) /\ ReversalProgress(p))'
  <2> USE DEF SaleProgress, ReversalProgress, SaleLoop, AfterLoop, Approving, ReversalLoop,
              AfterReversal
  <2>1. CASE EarlyPayment(p) \/ EarlyOrder(p) \/ Throw(p) \/ Acknowledge(p)
    <3>1. phase'[p] \in {"earlyOrder", "done", "idle"}
      BY <2>1
      DEF IInv, Typed, TypeOK, EarlyPayment, EarlyOrder, Throw, Acknowledge, GoTo, Stop
    <3> QED  BY <3>1
  <2>2. CASE \E e \in Events : Deliver(p, e)
    <3>1. phase'[p] \in {"early", "transfer", "load"} /\ line'[p] = 1
      BY <2>2 DEF IInv, Typed, TypeOK, Deliver, FirstPhase
    <3>2. \A k \in Lines : ~(k < 1)
      BY WebhookAssumption DEF Lines
    <3> QED  BY <3>1, <3>2
  <2> QED  BY <1>4, <2>1, <2>2, SaleActor, ReversalActor DEF Handle
<1>5. CASE \E e \in Events : Emit(e) \/ DeliverDuplicate(e) \/ Expire(e)
  <2>1. \A q \in Procs : Stays(q)
    BY <1>5 DEF Emit, DeliverDuplicate, Expire, Stays, handler
  <2> QED  BY <1>2, <2>1 DEF Progress
<1>6. CASE UNCHANGED vars
  <2>1. \A q \in Procs : Stays(q)
    BY <1>6 DEF Stays, vars, handler
  <2> QED  BY <1>2, <2>1 DEF Progress
<1>7. CASE \E p \in Procs : Handle(p) \/ Throw(p) \/ \E e \in Events : Deliver(p, e)
  BY <1>2, <1>3, <1>4, <1>7 DEF Progress
<1> QED  BY <1>5, <1>6, <1>7 DEF Next

\* Every step keeps reversals behind the distribution of the sale.
LEMMA DistributedStep ==
    ASSUME IInv, Typed', [Next]_vars
    PROVE  ReversedOnlyIfDistributed'
<1>1. Grows
  BY StepGrows DEF IInv
<1>2. Distributed => Distributed'
  BY <1>1 DEF IInv, Typed, TypeOK, Grows, Distributed
<1>3. CASE \E p \in Procs : Credit(p)
  BY <1>1, <1>2, <1>3
  DEF IInv, Progress, SaleProgress, ReversedOnlyIfDistributed, Credit, reversal, sale
<1>4. CASE \E p \in Procs : PersistSnapshot(p)
  BY <1>1, <1>2, <1>4
  DEF IInv, Progress, SaleProgress, ReversedOnlyIfDistributed, PersistSnapshot, AfterLoop,
      reversal
<1>5. CASE \E p \in Procs : ReverseTransfer(p)
  <2>1. PICK p \in Procs : ReverseTransfer(p)
    BY <1>5
  <2>2. snapshot
    BY <2>1 DEF IInv, Progress, ReversalProgress, ReversalLoop, ReverseTransfer
  <2>3. Distributed'
    BY <1>2, <2>2 DEF IInv, ReversedOnlyIfDistributed
  <2>4. \A t \in Triggers : debited'[t] \subseteq reversed'[t]
    BY <1>1, <2>1 DEF IInv, ReversedOnlyIfDistributed, Grows, ReverseTransfer
  <2> QED  BY <2>1, <2>3, <2>4 DEF IInv, ReversedOnlyIfDistributed, ReverseTransfer, sale
<1>6. CASE \E p \in Procs : DebitStakeholder(p)
  <2>1. PICK p \in Procs : DebitStakeholder(p)
    BY <1>6
  <2>2. line[p] \in reversed[event[p]]
    BY <2>1 DEF IInv, Progress, ReversalProgress, DebitStakeholder
  <2>3. \A t \in Triggers : debited'[t] \subseteq reversed'[t]
    BY <2>1, <2>2 DEF IInv, Typed, TypeOK, ReversedOnlyIfDistributed, DebitStakeholder
  <2> QED  BY <1>2, <2>1, <2>3 DEF IInv, ReversedOnlyIfDistributed, DebitStakeholder, sale
<1>7. CASE UNCHANGED <<credits, snapshot, reversal>>
  BY <1>1, <1>2, <1>7 DEF IInv, ReversedOnlyIfDistributed, Grows, reversal
<1>8. CASE UNCHANGED vars
  BY <1>7, <1>8 DEF vars, sale
<1>9. ASSUME NEW p \in Procs,
             \/ Throw(p) \/ Acknowledge(p) \/ EarlyPayment(p) \/ EarlyOrder(p)
             \/ Transfer(p) \/ CreditFee(p) \/ ApprovePayment(p) \/ ReadOrder(p)
             \/ WriteOrder(p) \/ LoadSnapshot(p) \/ MarkReversed(p) \/ SplitResidue(p)
      PROVE  UNCHANGED <<credits, snapshot, reversal>>
  BY <1>9
  DEF Throw, Acknowledge, EarlyPayment, EarlyOrder, Transfer, CreditFee, ApprovePayment,
      ReadOrder, WriteOrder, LoadSnapshot, MarkReversed, SplitResidue, sale
<1>10. CASE \E p \in Procs : DebitResidue(p)
  BY <1>1, <1>2, <1>10 DEF IInv, ReversedOnlyIfDistributed, Grows, DebitResidue, sale
<1>11. CASE \/ \E e \in Events : Emit(e) \/ DeliverDuplicate(e) \/ Expire(e)
            \/ \E p \in Procs, e \in Events : Deliver(p, e)
  BY <1>7, <1>11 DEF Emit, DeliverDuplicate, Expire, Deliver, sale
<1> QED
  BY <1>3, <1>4, <1>5, <1>6, <1>7, <1>8, <1>9, <1>10, <1>11 DEF Next, Handle

\* Every step keeps the statuses true.
LEMMA StatusesStep ==
    ASSUME IInv, Typed', [Next]_vars
    PROVE  StatusesAreTrue'
<1>1. Grows
  BY StepGrows DEF IInv
<1>2. Settled => Settled'
  BY <1>1 DEF IInv, Typed, TypeOK, Grows, Distributed, Settled
<1>3. ASSUME NEW t \in Triggers, Reversed(t)
      PROVE  Reversed(t)'
  <2>1. /\ reversed[t] \subseteq reversed'[t] /\ debited[t] \subseteq debited'[t]
        /\ reversed'[t] \subseteq Lines /\ debited'[t] \subseteq Lines
    BY <1>1 DEF Typed, TypeOK, Grows
  <2>2. reversed'[t] = Lines /\ debited'[t] = Lines
    BY <1>3, <2>1 DEF Reversed
  <2> QED  BY <2>2 DEF Reversed
<1>4. \A t \in Triggers : /\ ReversedStatus(t) \in {"REFUNDED", "CHARGEBACK"}
                          /\ ReversedStatus(t)' = ReversedStatus(t)
  BY DEF ReversedStatus
<1>5. CASE /\ payment' \in {payment, "PROCESSING", "DECLINED", "CANCELED"}
           /\ order' \in {order, "PROCESSING", "CANCELED"}
  BY <1>2, <1>3, <1>4, <1>5 DEF IInv, StatusesAreTrue
<1>6. CASE /\ Settled
           /\ payment' \in {payment, "APPROVED"}
           /\ order' \in {order, "PROCESSING", "PAID"}
  BY <1>2, <1>3, <1>4, <1>6 DEF IInv, StatusesAreTrue
<1>7. ASSUME NEW p \in Procs, MarkReversed(p)
      PROVE  StatusesAreTrue'
  <2>1. event[p] \in Triggers /\ Reversed(event[p])
    BY <1>7
    DEF IInv, Typed, PhaseFits, Progress, ReversalProgress, AfterReversal, MarkReversed
  <2>2. payment' = ReversedStatus(event[p]) /\ order' = ReversedStatus(event[p])
    BY <1>7 DEF MarkReversed
  <2>3. \A t \in Triggers : ReversedStatus(t) = ReversedStatus(event[p]) => t = event[p]
    BY <2>1, WebhookAssumption DEF ReversedStatus
  <2> QED  BY <1>3, <1>4, <2>1, <2>2, <2>3 DEF StatusesAreTrue
<1>8. ASSUME NEW p \in Procs, EarlyPayment(p) \/ EarlyOrder(p)
      PROVE  /\ payment' \in {payment, "PROCESSING", "DECLINED", "CANCELED"}
             /\ order' \in {order, "PROCESSING", "CANCELED"}
  <2>1. event[p] \in EarlyEvents
    BY <1>8 DEF IInv, Typed, PhaseFits, EarlyPhases, EarlyPayment, EarlyOrder
  <2>2. event[p] # "failed" => EarlyStatus(event[p]) \in {"PROCESSING", "CANCELED"}
    <3>1. CASE event[p] = "processing"
      BY <3>1 DEF EarlyStatus
    <3>2. CASE event[p] = "canceled"
      BY <3>2 DEF EarlyStatus
    <3> QED  BY <2>1, <3>1, <3>2, WebhookAssumption
  <2> QED  BY <1>8, <2>1, <2>2, EarlyStatusType DEF EarlyPayment, EarlyOrder
<1>9. ASSUME NEW p \in Procs, ApprovePayment(p) \/ ReadOrder(p) \/ WriteOrder(p)
      PROVE  /\ Settled
             /\ payment' \in {payment, "APPROVED"}
             /\ order' \in {order, "PROCESSING", "PAID"}
  BY <1>9
  DEF IInv, Progress, SaleProgress, AfterLoop, Approving, Settled, ApprovePayment,
      ReadOrder, WriteOrder, status
<1>10. CASE UNCHANGED status
  BY <1>5, <1>10 DEF status
<1>11. CASE UNCHANGED vars
  BY <1>10, <1>11 DEF vars
<1> QED
  BY <1>5, <1>6, <1>7, <1>8, <1>9, <1>10, <1>11
  DEF Next, Handle, Emit, DeliverDuplicate, Expire, Deliver, Throw, Acknowledge, Transfer,
      Credit, PersistSnapshot, CreditFee, LoadSnapshot, ReverseTransfer, DebitStakeholder,
      SplitResidue, DebitResidue

----------------------------------------------------------------------------
\* The inductive invariant holds in every reachable state.
LEMMA SpecIInv == Spec => []IInv
<1>1. IInv /\ [Next]_vars => IInv'
  <2> SUFFICES ASSUME IInv, [Next]_vars PROVE IInv'
    OBVIOUS
  <2>1. Typed'
    BY DeliveryTyped, HandlerTyped DEF IInv, Next
  <2> QED  BY <2>1, ProgressStep, DistributedStep, StatusesStep DEF IInv
<1> QED  BY InitIInv, <1>1, PTL DEF Spec

\* The variables keep their types, and an idle handler has no event.
THEOREM WebhookTypeOK == Spec => []TypeOK
<1>1. IInv => TypeOK
  BY DEF IInv, Typed
<1> QED  BY SpecIInv, <1>1, PTL

\* Whatever overtakes what, nothing is reversed before the whole sale has
\* been transferred and credited: applyReversals throws without a snapshot,
\* which is stored only behind the last credit.
THEOREM ReversalsAreBacked == Spec => []ReversedOnlyIfDistributed
<1>1. IInv => ReversedOnlyIfDistributed
  BY DEF IInv
<1> QED  BY SpecIInv, <1>1, PTL

\* An approved payment or paid order has been distributed and its fee
\* credited, and a refunded or charged back one has been reversed on every
\* line, however deliveries overlap, fail and are repeated.
THEOREM StatusesTellTheTruth == Spec => []StatusesAreTrue
<1>1. IInv => StatusesAreTrue
  BY DEF IInv
<1> QED  BY SpecIInv, <1>1, PTL
----------------------------------------------------------------------------
(***************************************************************************)
(* Acknowledgements.  While a claim is held a redelivery is answered 200   *)
(* at once, whatever became of the handler that claimed the event.         *)
(***************************************************************************)

\* A handler of the sale handles the sale's event; one that has debited the
\* first of two buckets, or has finished, has done what comes before.
HandlerDone(p) ==
    /\ phase[p] \in SaleLoop \cup AfterLoop => event[p] = "succeeded"
    /\ phase[p] = "available" => "pending" \in residue[event[p]]
    /\ phase[p] = "done" => Done(event[p])

Handled(e) == \E p \in Procs : event[p] = e

\* An acknowledged event is done, or still handled, or forgone.
AckedFate == \A e \in acked : Done(e) \/ Handled(e) \/ e \in Forgone

\* A claim that can answer a redelivery belongs to a handler at work, to one
\* that threw, or to an early event.
ClaimFate == \A e \in claims \ acked : Handled(e) \/ e \in thrown \/ e \in EarlyEvents

\* What was acknowledged undone was answered as a duplicate.
SkippedFate == \A e \in acked : Done(e) \/ e \in skipped

AckInv == (\A p \in Procs : HandlerDone(p)) /\ AckedFate /\ ClaimFate /\ SkippedFate

\* The buckets debited for a trigger stay debited.
LEMMA ResidueGrows ==
    ASSUME Typed, [Next]_vars
    PROVE  \A t \in Triggers : residue[t] \subseteq residue'[t]
<1>1. CASE \E p \in Procs : DebitResidue(p)
  BY <1>1 DEF DebitResidue, Typed, TypeOK
<1>2. CASE UNCHANGED residue
  BY <1>2
<1>3. CASE \E p \in Procs : Handle(p) /\ ~DebitResidue(p)
  BY <1>2, <1>3
  DEF Handle, EarlyPayment, EarlyOrder, Transfer, Credit, PersistSnapshot, CreditFee,
      ApprovePayment, ReadOrder, WriteOrder, LoadSnapshot, ReverseTransfer,
      DebitStakeholder, MarkReversed, SplitResidue, Acknowledge, reversal
<1>4. CASE UNCHANGED vars
  BY <1>2, <1>4 DEF vars, reversal
<1> QED
  BY <1>1, <1>2, <1>3, <1>4 DEF Next, Throw, Deliver, Emit, DeliverDuplicate, Expire, reversal

\* What an event has done is not undone.
LEMMA DoneStays ==
    ASSUME IInv, IInv', [Next]_vars, NEW e, Done(e)
    PROVE  Done(e)'
<1>1. Grows /\ \A t \in Triggers : residue[t] \subseteq residue'[t]
  BY StepGrows, ResidueGrows DEF IInv
<1>2. CASE e = "succeeded"
  <2>1. Settled
    BY <1>2 DEF Done
  <2>2. Settled'
    BY <1>1, <2>1 DEF Settled, Distributed, Grows, IInv, Typed, TypeOK
  <2> QED  BY <1>2, <2>2 DEF Done
<1>3. CASE e # "succeeded" /\ e \in Triggers
  <2>1. /\ reversed[e] = Lines /\ debited[e] = Lines
        /\ "whole" \in residue[e] \/ {"pending", "available"} \subseteq residue[e]
        /\ reversed[e] \subseteq reversed'[e] /\ debited[e] \subseteq debited'[e]
        /\ residue[e] \subseteq residue'[e]
        /\ reversed'[e] \subseteq Lines /\ debited'[e] \subseteq Lines
    BY <1>1, <1>3 DEF Done, Refunded, Reversed, Grows, IInv, Typed, TypeOK
  <2>2. reversed'[e] = Lines /\ debited'[e] = Lines
    BY <2>1
  <2>3. "whole" \in residue'[e] \/ {"pending", "available"} \subseteq residue'[e]
    BY <2>1
  <2> QED  BY <1>3, <2>2, <2>3 DEF Done, Refunded, Reversed
<1>4. CASE e # "succeeded" /\ e \notin Triggers
  BY <1>4 DEF Done
<1> QED  BY <1>2, <1>3, <1>4

\* The early events move no money.
LEMMA EarlyIsDone ==
    ASSUME NEW e \in EarlyEvents
    PROVE  Done(e) /\ Done(e)'
  BY WebhookAssumption DEF Done

\* A handler keeps what it has done, and comes to its end only when it has
\* done everything.
LEMMA HandlerDoneStep ==
    ASSUME IInv, IInv', [Next]_vars, NEW p \in Procs, HandlerDone(p),
           \/ Handle(p) \/ Throw(p) \/ \E e \in Events : Deliver(p, e)
           \/ Stays(p)
    PROVE  HandlerDone(p)'
<1> USE DEF HandlerDone, SaleLoop, AfterLoop
<1>1. CASE Throw(p) \/ Acknowledge(p) \/ LoadSnapshot(p)
  <2>1. phase'[p] \in {"idle", "reverse"}
    BY <1>1 DEF Throw, Acknowledge, LoadSnapshot, Stop, GoTo, IInv, Typed, TypeOK
  <2> QED  BY <2>1
<1>2. CASE \E e \in Events : Deliver(p, e)
  BY <1>2 DEF Deliver, FirstPhase, IInv, Typed, TypeOK
<1>3. CASE EarlyPayment(p) \/ EarlyOrder(p)
  <2>1. /\ phase'[p] \in {"earlyOrder", "done"} /\ event'[p] = event[p]
        /\ event[p] \in EarlyEvents
    BY <1>3
    DEF EarlyPayment, EarlyOrder, GoTo, IInv, Typed, TypeOK, PhaseFits, EarlyPhases
  <2>2. Done(event[p])'
    BY <2>1, WebhookAssumption DEF Done
  <2> QED  BY <2>1, <2>2
<1>4. CASE \/ Transfer(p) \/ Credit(p) \/ PersistSnapshot(p) \/ CreditFee(p)
           \/ ApprovePayment(p) \/ ReadOrder(p)
  <2>1. /\ event[p] = "succeeded" /\ event'[p] = event[p]
        /\ phase'[p] \notin {"available", "done"}
    BY <1>4
    DEF IInv, Typed, TypeOK, Transfer, Credit, PersistSnapshot, CreditFee,
        ApprovePayment, ReadOrder, GoTo, NextLine
  <2> QED  BY <2>1
<1>5. CASE WriteOrder(p)
  <2>1. /\ event[p] = "succeeded" /\ event'[p] = event[p] /\ phase'[p] = "done" /\ Settled
    BY <1>5
    DEF IInv, Typed, TypeOK, Progress, SaleProgress, Approving, Settled, WriteOrder, GoTo
  <2>2. Done("succeeded")'
    BY <2>1, DoneStays DEF Done
  <2> QED  BY <2>1, <2>2
<1>6. CASE ReverseTransfer(p) \/ DebitStakeholder(p) \/ MarkReversed(p) \/ SplitResidue(p)
  <2>1. phase'[p] \in {"debit", "reverse", "reversedStatus", "residue", "whole", "pending"}
    BY <1>6
    DEF ReverseTransfer, DebitStakeholder, MarkReversed, SplitResidue, GoTo, NextLine,
        IInv, Typed, TypeOK
  <2> QED  BY <2>1
<1>7. CASE DebitResidue(p)
  <2>1. /\ event[p] \in Triggers /\ event'[p] = event[p] /\ Reversed(event[p])
        /\ phase[p] \in {"whole", "pending", "available"}
        /\ phase'[p] = IF phase[p] = "pending" THEN "available" ELSE "done"
        /\ residue'[event[p]] = residue[event[p]] \cup {phase[p]}
        /\ UNCHANGED <<reversed, debited>>
    BY <1>7
    DEF DebitResidue, GoTo, IInv, Typed, TypeOK, PhaseFits, Progress, ReversalProgress,
        AfterReversal
  <2>2. phase'[p] = "available" => "pending" \in residue'[event'[p]]
    BY <2>1
  <2>3. ASSUME phase'[p] = "done"
        PROVE  Done(event[p])'
    <3>1. "whole" \in residue'[event[p]] \/ {"pending", "available"} \subseteq residue'[event[p]]
      BY <2>1, <2>3
    <3>2. reversed'[event[p]] = Lines /\ debited'[event[p]] = Lines
      BY <2>1 DEF Reversed
    <3>3. event[p] # "succeeded"
      BY <2>1, WebhookAssumption
    <3> QED  BY <2>1, <3>1, <3>2, <3>3 DEF Done, Refunded, Reversed
  <2> QED  BY <2>1, <2>2, <2>3
<1>8. CASE Stays(p)
  <2>1. phase[p] = "available" => event[p] \in Triggers
    BY DEF IInv, Typed, PhaseFits, AfterReversal
  <2>2. phase[p] = "available" => "pending" \in residue'[event[p]]
    BY <2>1, ResidueGrows DEF IInv
  <2> QED  BY <1>8, <2>2, DoneStays DEF Stays
<1> QED  BY <1>1, <1>2, <1>3, <1>4, <1>5, <1>6, <1>7, <1>8 DEF Handle

\* A step that adds no acknowledgement or claim and ends no handler keeps the
\* fates of the events.
LEMMA QuietFates ==
    ASSUME IInv, IInv', [Next]_vars, AckedFate, ClaimFate, SkippedFate,
           acked' = acked, skipped' = skipped, thrown' = thrown,
           claims' \subseteq claims, \A e : Handled(e) => Handled(e)'
    PROVE  (AckedFate /\ ClaimFate /\ SkippedFate)'
  BY DoneStays DEF AckedFate, ClaimFate, SkippedFate, Forgone

\* A handler that throws leaves its event among the thrown, and what was
\* acknowledged of it is done or was answered as a duplicate.
LEMMA ThrownFates ==
    ASSUME IInv, IInv', [Next]_vars, AckedFate, ClaimFate, SkippedFate,
           NEW p \in Procs, phase[p] # "idle", Stop(p),
           thrown' = thrown \cup ({event[p]} \ EarlyEvents), UNCHANGED delivery
    PROVE  (AckedFate /\ ClaimFate /\ SkippedFate)'
<1> USE DEF delivery
<1>1. \A e : Handled(e) => Handled(e)' \/ e = event[p]
  BY DEF Handled, Stop, IInv, Typed, TypeOK
<1>2. event[p] \in thrown' \/ event[p] \in EarlyEvents
  OBVIOUS
<1>3. AckedFate'
  <2> SUFFICES ASSUME NEW e \in acked PROVE (Done(e) \/ Handled(e) \/ e \in Forgone)'
    BY DEF AckedFate
  <2>1. CASE e = event[p]
    BY <1>2, <2>1, DoneStays, EarlyIsDone DEF SkippedFate, Forgone
  <2>2. CASE e # event[p]
    BY <1>1, <2>2, DoneStays DEF AckedFate, Forgone
  <2> QED  BY <2>1, <2>2
<1>4. ClaimFate'
  BY <1>1, <1>2 DEF ClaimFate
<1>5. SkippedFate'
  BY DoneStays DEF SkippedFate
<1> QED  BY <1>3, <1>4, <1>5

\* Every step keeps the fates of the events.
LEMMA FatesStep ==
    ASSUME IInv, IInv', AckInv, [Next]_vars
    PROVE  (AckedFate /\ ClaimFate /\ SkippedFate)'
<1> USE DEF AckInv
<1>1. CASE UNCHANGED vars \/ \E e \in Events : Emit(e) \/ Expire(e)
  <2>1. /\ acked' = acked /\ skipped' = skipped /\ thrown' = thrown /\ event' = event
        /\ claims' \subseteq claims
    BY <1>1 DEF vars, delivery, handler, Emit, Expire
  <2> QED  BY <2>1, QuietFates DEF Handled
<1>2. ASSUME NEW e \in Events, DeliverDuplicate(e)
      PROVE  (AckedFate /\ ClaimFate /\ SkippedFate)'
  <2>1. /\ e \in claims \ acked /\ acked' = acked \cup {e}
        /\ skipped' = skipped \cup ({e} \ EarlyEvents)
        /\ claims' = claims \ {e} /\ thrown' = thrown /\ event' = event
    BY <1>2 DEF DeliverDuplicate, handler
  <2>2. Done(e)' \/ Handled(e)' \/ e \in Forgone'
    BY <2>1, EarlyIsDone DEF ClaimFate, Handled, Forgone
  <2>3. AckedFate'
    BY <2>1, <2>2, DoneStays DEF AckedFate, Handled, Forgone
  <2>4. ClaimFate'
    BY <2>1 DEF ClaimFate, Handled
  <2>5. SkippedFate'
    BY <2>1, DoneStays, EarlyIsDone DEF SkippedFate
  <2> QED  BY <2>3, <2>4, <2>5
<1>3. ASSUME NEW p \in Procs, NEW e \in Events, Deliver(p, e)
      PROVE  (AckedFate /\ ClaimFate /\ SkippedFate)'
  <2>1. /\ UNCHANGED <<acked, skipped, thrown>> /\ claims' = claims \cup {e}
        /\ event[p] = "none" /\ event' = [event EXCEPT ![p] = e]
    BY <1>3 DEF Deliver, IInv, Typed, TypeOK
  <2>2. Handled(e)' /\ \A f : f # "none" /\ Handled(f) => Handled(f)'
    BY <2>1 DEF Handled, IInv, Typed, TypeOK
  <2>3. \A f \in acked \cup claims : f # "none"
    BY WebhookAssumption DEF IInv, Typed, TypeOK
  <2>4. AckedFate'
    BY <2>1, <2>2, <2>3, DoneStays DEF AckedFate, Forgone
  <2>5. ClaimFate'
    BY <2>1, <2>2, <2>3 DEF ClaimFate
  <2>6. SkippedFate'
    BY <2>1, DoneStays DEF SkippedFate
  <2> QED  BY <2>4, <2>5, <2>6
<1>4. ASSUME NEW p \in Procs, Throw(p)
      PROVE  (AckedFate /\ ClaimFate /\ SkippedFate)'
  BY <1>4, ThrownFates DEF Throw
<1>5. ASSUME NEW p \in Procs, Acknowledge(p)
      PROVE  (AckedFate /\ ClaimFate /\ SkippedFate)'
  <2>1. /\ acked' = acked \cup {event[p]} /\ claims' = claims \ {event[p]}
        /\ thrown' = thrown \ {event[p]} /\ skipped' = skipped /\ Done(event[p])
    BY <1>5 DEF Acknowledge, HandlerDone
  <2>2. \A e : Handled(e) => Handled(e)' \/ e = event[p]
    BY <1>5 DEF Acknowledge, Handled, Stop, IInv, Typed, TypeOK
  <2>3. AckedFate'
    BY <2>1, <2>2, DoneStays DEF AckedFate, Forgone
  <2>4. ClaimFate'
    BY <2>1, <2>2 DEF ClaimFate
  <2>5. SkippedFate'
    BY <2>1, DoneStays DEF SkippedFate
  <2> QED  BY <2>3, <2>4, <2>5
<1>6. ASSUME NEW p \in Procs, LoadSnapshot(p)
      PROVE  (AckedFate /\ ClaimFate /\ SkippedFate)'
  <2>1. CASE snapshot
    <3>1. UNCHANGED <<delivery, thrown, event>>
      BY <1>6, <2>1 DEF LoadSnapshot, GoTo
    <3> QED  BY <3>1, QuietFates DEF delivery, Handled
  <2>2. CASE ~ snapshot
    BY <1>6, <2>2, ThrownFates DEF LoadSnapshot
  <2> QED  BY <2>1, <2>2
<1>7. ASSUME NEW p \in Procs, Handle(p), ~ Acknowledge(p), ~ LoadSnapshot(p)
      PROVE  (AckedFate /\ ClaimFate /\ SkippedFate)'
  <2>1. UNCHANGED <<delivery, thrown, event>>
    BY <1>7
    DEF Handle, EarlyPayment, EarlyOrder, Transfer, Credit, PersistSnapshot, CreditFee,
        ApprovePayment, ReadOrder, WriteOrder, ReverseTransfer, DebitStakeholder,
        MarkReversed, SplitResidue, DebitResidue, GoTo, NextLine
  <2> QED  BY <2>1, QuietFates DEF delivery, Handled
<1> QED  BY <1>1, <1>2, <1>3, <1>4, <1>5, <1>6, <1>7 DEF Next

\* Every step keeps what the handlers have done and the fates of the events.
LEMMA AckStep ==
    ASSUME IInv, IInv', AckInv, [Next]_vars
    PROVE  AckInv'
<1>1. ASSUME NEW q \in Procs
      PROVE  HandlerDone(q)'
  <2>1. CASE UNCHANGED vars \/ \E e \in Events : Emit(e) \/ DeliverDuplicate(e) \/ Expire(e)
    <3>1. Stays(q)
      BY <2>1 DEF Stays, vars, handler, Emit, DeliverDuplicate, Expire
    <3> QED  BY <3>1, HandlerDoneStep DEF AckInv
  <2>2. ASSUME NEW p \in Procs, Handle(p) \/ Throw(p) \/ \E e \in Events : Deliver(p, e)
        PROVE  HandlerDone(q)'
    <3>1. p # q => Stays(q)
      BY <2>2, OthersStay DEF IInv
    <3> QED  BY <2>2, <3>1, HandlerDoneStep DEF AckInv
  <2> QED  BY <2>1, <2>2 DEF Next
<1> QED  BY <1>1, FatesStep DEF AckInv

\* An event answered 200 that no handler is still at has had its effect,
\* whatever fails, overlaps, expires or comes late, unless a handler of it
\* threw and a delivery of it was answered by the claim.  Nothing is assumed
\* of when Stripe delivers again.
THEOREM AcknowledgedIsDone == Spec => []UndoneOnlyIfForgone
<1>1. Init => AckInv
  BY DEF Init, AckInv, HandlerDone, SaleLoop, AfterLoop, AckedFate, ClaimFate, SkippedFate
<1>2. IInv /\ IInv' /\ AckInv /\ [Next]_vars => AckInv'
  BY AckStep
<1>3. AckInv => UndoneOnlyIfForgone
  BY DEF AckInv, AckedFate, Handled, UndoneOnlyIfForgone, Quiet
<1> QED  BY SpecIInv, <1>1, <1>2, <1>3, PTL DEF Spec
=============================================================================
