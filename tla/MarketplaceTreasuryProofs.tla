--------------------- MODULE MarketplaceTreasuryProofs ---------------------
(***************************************************************************)
(* Theorems about the marketplace's treasury, for every set of sales,      *)
(* reversals, requests, handlers and crons, any window of the cron and any *)
(* number of deliveries and failures.                                      *)
(***************************************************************************)
EXTENDS MarketplaceTreasury, SequenceTheorems, TLAPS

USE TreasuryAssumption DEF Buckets

ReversalPhases == {"pending", "available", "answer"}
PayoutPhases == {"debit", "create", "return"}

\* A step of a handler, of a cron, or of neither.
HandlerStep(p) ==
    \/ \E t \in Reversals : BeginReversal(p, t)
    \/ DebitPending(p) \/ DebitAvailable(p) \/ AnswerReversal(p)
    \/ \E r \in Requests : BeginPayout(p, r)
    \/ DebitPayout(p) \/ CreatePayout(p) \/ CreateRefused(p) \/ CreateReplyLost(p)
    \/ ReturnPayout(p) \/ HandlerFails(p)

CronStep(c) == ScanFees(c) \/ LookForMarker(c) \/ MatureFee(c) \/ CronFails(c)

OtherStep ==
    \/ \E s \in Sales : SaleCredit(s)
    \/ \E r \in Requests : PayoutFails(r) \/ HandleFailedPayout(r)

LEMMA NextSteps ==
    Next <=> (\E p \in Procs : HandlerStep(p)) \/ (\E c \in Crons : CronStep(c)) \/ OtherStep
  BY DEF Next, HandlerStep, CronStep, OtherStep, Cron

----------------------------------------------------------------------------
(***************************************************************************)
(* Types.                                                                  *)
(***************************************************************************)
\* The fees a run takes are sales.
LEMMA OldestType == ASSUME sold \in Seq(Sales) PROVE Oldest \in Seq(Sales)
<1>1. CASE Len(sold) <= Window
  BY <1>1 DEF Oldest
<1>2. CASE Len(sold) > Window
  <2>1. Window \in 1 .. Len(sold)
    BY <1>2, LenProperties
  <2>2. SubSeq(sold, 1, Window) \in Seq(Sales)
    BY <2>1, SubSeqProperties
  <2> QED  BY <1>2, <2>2, LenProperties DEF Oldest
<1> QED  BY <1>1, <1>2, LenProperties

\* The Boolean variables of the types apart from the others.
Flags == due \in [Crons -> BOOLEAN]

DataTypes ==
    /\ money \in [Buckets -> Int]
    /\ rows \subseteq [key : Keys, bucket : Buckets, cents : Int]
    /\ sold \in Seq(Sales)
    /\ phase \in [Procs -> {"idle"} \cup ReversalPhases \cup PayoutPhases]
    /\ work \in [Procs -> Reversals \cup Requests \cup {None}]
    /\ read \in [Procs -> Int]
    /\ \A p \in Procs :
        /\ phase[p] = "idle" => work[p] = None
        /\ phase[p] \in ReversalPhases => work[p] \in Reversals
        /\ phase[p] \in PayoutPhases => work[p] \in Requests
    /\ acked \subseteq Reversals
    /\ calls \in [Reversals \cup Requests -> 0 .. MaxCalls]
    /\ payout \in [Requests -> {"none", "created", "failed"}]
    /\ batch \in [Crons -> Seq(Sales)]
    /\ failures \in 0 .. MaxFailures
    /\ parts \in [Reversals -> SUBSET Int]
    /\ contested \subseteq Requests

LEMMA TypesSplit == TypeOK <=> DataTypes /\ Flags
  BY Zenon DEF TypeOK, DataTypes, Flags, ReversalPhases, PayoutPhases

LEMMA FlagsHold == ASSUME Flags, [Next]_vars PROVE Flags'
<1> USE DEF Flags, handlers, crons, history
<1>1. CASE \E p \in Procs : HandlerStep(p)
  <2> PICK p \in Procs : HandlerStep(p)
    BY <1>1
  <2>1. UNCHANGED due
    BY DEF HandlerStep, BeginReversal, DebitPending, DebitAvailable, AnswerReversal,
           BeginPayout, DebitPayout, CreatePayout, CreateRefused, CreateReplyLost, ReturnPayout,
           HandlerFails
  <2> QED  BY Zenon, <2>1
<1>2. CASE \E c \in Crons : CronStep(c)
  <2> PICK c \in Crons : CronStep(c)
    BY <1>2
  <2>1. due' = due \/ due' = [due EXCEPT ![c] = FALSE] \/ due' = [due EXCEPT ![c] = TRUE]
    BY DEF CronStep, ScanFees, LookForMarker, MatureFee, CronFails, NextFee
  <2>2. due' \in [Crons -> BOOLEAN]
    BY Zenon, <2>1
  <2> QED  BY Zenon, <2>2
<1>3. CASE OtherStep
  <2>1. UNCHANGED due
    BY <1>3 DEF OtherStep, SaleCredit, PayoutFails, HandleFailedPayout
  <2> QED  BY Zenon, <2>1
<1>4. CASE UNCHANGED vars
  BY Zenon, <1>4 DEF vars
<1> QED  BY <1>1, <1>2, <1>3, <1>4, NextSteps

LEMMA HandlerKeepsTypes ==
    ASSUME DataTypes, NEW p \in Procs, HandlerStep(p)
    PROVE  DataTypes'
<1> USE DEF DataTypes, ReversalPhases, PayoutPhases, handlers, crons, history, Keys, Row,
            Enter, EnterOnce, Skip, Leave, Goto, Call
<1>1. ASSUME NEW t \in Reversals, BeginReversal(p, t) PROVE DataTypes'
  BY <1>1 DEF BeginReversal, PartOf
<1>2. CASE DebitPending(p)
  BY <1>2 DEF DebitPending, ReversalKey, PendingPart, AvailablePart, PartOf
<1>3. CASE DebitAvailable(p)
  BY <1>3, SMTT(20) DEF DebitAvailable, ReversalKey, PendingPart, AvailablePart, PartOf
<1>4. CASE AnswerReversal(p)
  BY <1>4 DEF AnswerReversal
<1>5. ASSUME NEW r \in Requests, BeginPayout(p, r) PROVE DataTypes'
  <2>1. CASE Call(p, r, "create", 0)
    BY <1>5, <2>1 DEF BeginPayout
  <2>2. CASE Call(p, r, "debit", 0)
    BY <1>5, <2>2 DEF BeginPayout
  <2> QED  BY <1>5, <2>1, <2>2 DEF BeginPayout
<1>6. CASE DebitPayout(p)
  <2>1. phase[p] = "debit" /\ work[p] \in Requests
    BY <1>6 DEF DebitPayout
  <2>2. UNCHANGED <<sold, acked, calls, payout, crons, failures, parts, contested>>
    BY <1>6 DEF DebitPayout
  <2>3. \/ Enter(Row("payout", work[p], "AVAILABLE", -Amount[work[p]])) /\ Goto(p, "create")
        \/ Skip /\ Leave(p)
    BY Zenon, <1>6 DEF DebitPayout
  <2>4. CASE Enter(Row("payout", work[p], "AVAILABLE", -Amount[work[p]])) /\ Goto(p, "create")
    BY <2>1, <2>2, <2>4
  <2>5. CASE Skip /\ Leave(p)
    BY <2>1, <2>2, <2>5
  <2> QED  BY <2>3, <2>4, <2>5
<1>7. CASE CreatePayout(p)
  BY <1>7 DEF CreatePayout
<1>8. CASE CreateRefused(p)
  BY <1>8 DEF CreateRefused
<1>9. CASE CreateReplyLost(p)
  BY <1>9 DEF CreateReplyLost
<1>10. CASE ReturnPayout(p)
  BY <1>10 DEF ReturnPayout
<1>11. CASE HandlerFails(p)
  BY <1>11 DEF HandlerFails
<1> QED
  BY <1>1, <1>2, <1>3, <1>4, <1>5, <1>6, <1>7, <1>8, <1>9, <1>10, <1>11 DEF HandlerStep

LEMMA CronKeepsTypes ==
    ASSUME DataTypes, NEW c \in Crons, CronStep(c)
    PROVE  DataTypes'
<1> USE DEF DataTypes, handlers, crons, history, Keys, Row, Skip, NextFee
<1>1. CASE ScanFees(c)
  BY <1>1, OldestType DEF ScanFees
<1>2. batch[c] # <<>> => Head(batch[c]) \in Sales /\ Tail(batch[c]) \in Seq(Sales)
  BY HeadTailProperties
<1>3. CASE LookForMarker(c)
  <2>1. UNCHANGED <<money, rows, sold, handlers, acked, calls, payout, failures, history>>
    BY <1>3 DEF LookForMarker
  <2>2. batch[c] # <<>> /\ (UNCHANGED batch \/ batch' = [batch EXCEPT ![c] = Tail(@)])
    BY Zenon, <1>3 DEF LookForMarker
  <2>3. batch' \in [Crons -> Seq(Sales)]
    BY <1>2, <2>2
  <2> QED  BY <2>1, <2>3
<1>4. CASE MatureFee(c)
  <2>1. UNCHANGED <<sold, handlers, acked, calls, payout, failures, history>>
    BY <1>4 DEF MatureFee
  <2>2. batch[c] # <<>> /\ batch' = [batch EXCEPT ![c] = Tail(@)]
    BY <1>4 DEF MatureFee
  <2>3. batch' \in [Crons -> Seq(Sales)]
    BY <1>2, <2>2
  <2>4. rows' \subseteq [key : Keys, bucket : Buckets, cents : Int]
    BY <1>2, <1>4 DEF MatureFee
  <2>5. money' \in [Buckets -> Int]
    <3>1. Fee[Head(batch[c])] \in Int
      BY <1>2, <2>2, TreasuryAssumption
    <3>2. \/ UNCHANGED money
          \/ money' = [money EXCEPT !["PENDING"] = @ - Fee[Head(batch[c])],
                                    !["AVAILABLE"] = @ + Fee[Head(batch[c])]]
      BY Zenon, <1>4 DEF MatureFee
    <3> QED  BY <3>1, <3>2 DEF Buckets
  <2> QED  BY <2>1, <2>3, <2>4, <2>5
<1>5. CASE CronFails(c)
  <2>1. UNCHANGED <<money, rows, sold, handlers, acked, calls, payout, history>>
    BY <1>5 DEF CronFails
  <2>2. failures' \in 0 .. MaxFailures
    BY <1>5 DEF CronFails
  <2>3. /\ batch[c] # <<>>
        /\ batch' = [batch EXCEPT ![c] = Tail(@)] \/ batch' = [batch EXCEPT ![c] = <<>>]
    BY Zenon, <1>5 DEF CronFails
  <2>4. <<>> \in Seq(Sales)
    BY EmptySeq
  <2>5. batch' \in [Crons -> Seq(Sales)]
    <3>1. PICK rest \in Seq(Sales) : batch' = [batch EXCEPT ![c] = rest]
      BY Zenon, <1>2, <2>3, <2>4
    <3> QED  BY Zenon, <3>1
  <2> QED  BY <2>1, <2>2, <2>5
<1> QED  BY <1>1, <1>3, <1>4, <1>5 DEF CronStep

LEMMA OtherKeepsTypes == ASSUME DataTypes, OtherStep PROVE DataTypes'
<1> USE DEF DataTypes, handlers, crons, history, Keys, Row, Enter
<1>1. ASSUME NEW s \in Sales, SaleCredit(s) PROVE DataTypes'
  <2>1. Append(sold, s) \in Seq(Sales)
    BY AppendProperties
  <2> QED  BY <1>1, <2>1 DEF SaleCredit
<1>2. ASSUME NEW r \in Requests, PayoutFails(r) PROVE DataTypes'
  BY <1>2 DEF PayoutFails
<1>3. ASSUME NEW r \in Requests, HandleFailedPayout(r) PROVE DataTypes'
  BY <1>3 DEF HandleFailedPayout
<1> QED  BY <1>1, <1>2, <1>3 DEF OtherStep

\* The types of the treasury's variables hold throughout.
THEOREM TreasuryTypeOK == Spec => []TypeOK
<1>1. Init => Flags
  BY Zenon DEF Init, Flags
<1>2. Init => DataTypes
  BY EmptySeq DEF Init, DataTypes, ReversalPhases, PayoutPhases
<1>3. DataTypes /\ Flags /\ [Next]_vars => (DataTypes /\ Flags)'
  <2>1. ASSUME DataTypes, UNCHANGED vars PROVE DataTypes'
    BY <2>1 DEF DataTypes, vars, handlers, crons, history
  <2> QED
    BY <2>1, NextSteps, HandlerKeepsTypes, CronKeepsTypes, OtherKeepsTypes, FlagsHold
<1> QED  BY <1>1, <1>2, <1>3, TypesSplit, PTL DEF Spec

----------------------------------------------------------------------------
(***************************************************************************)
(* The refinement: every step is an entry, a move or leaves the book as it *)
(* is.                                                                     *)
(***************************************************************************)
Still == UNCHANGED <<money, rows>>

LEMMA EntryInBook == ASSUME NEW row, Fresh(row.key), Enter(row) PROVE Ledger!Enter
<1>1. row \in rows' /\ Ledger!Fresh(row.key)
  BY DEF Enter, Fresh, Ledger!Fresh
<1> QED  BY <1>1 DEF Enter, Ledger!Enter

LEMMA EnteredOnce == ASSUME NEW row, EnterOnce(row) PROVE Ledger!Enter \/ Still
  BY EntryInBook DEF EnterOnce, Skip, Still

\* A fee that matures leaves PENDING and enters AVAILABLE by two fresh rows.
LEMMA MaturedInBook ==
    ASSUME TypeOK, NEW c \in Crons, MatureFee(c)
    PROVE  Ledger!Move \/ Still
<1> DEFINE s == Head(batch[c])
           out == Row("mature:pending", s, "PENDING", -Fee[s])
           in == Row("mature:available", s, "AVAILABLE", Fee[s])
<1>1. s \in Sales
  BY HeadTailProperties DEF TypeOK, MatureFee
<1>2. Fee[s] \in Int /\ money \in [Buckets -> Int]
  BY <1>1 DEF TypeOK
<1>3. /\ out.key # in.key /\ out.bucket = "PENDING" /\ in.bucket = "AVAILABLE"
      /\ out.cents = -Fee[s] /\ in.cents = Fee[s]
  BY DEF Row
<1> HIDE DEF s, out, in
<1>4. CASE /\ Fresh(out.key) /\ Fresh(in.key)
           /\ rows' = rows \cup {out, in}
           /\ money' = [money EXCEPT !["PENDING"] = @ - Fee[s], !["AVAILABLE"] = @ + Fee[s]]
  <2>1. out \in rows' /\ in \in rows' /\ Ledger!Fresh(out.key) /\ Ledger!Fresh(in.key)
    BY <1>4 DEF Fresh, Ledger!Fresh
  <2>2. money' = [money EXCEPT ![out.bucket] = @ - in.cents, ![in.bucket] = @ + in.cents]
    BY <1>3, <1>4
  <2>3. out.bucket # in.bucket /\ out.cents = -in.cents
    BY <1>2, <1>3
  <2> QED  BY <1>3, <1>4, <2>1, <2>2, <2>3 DEF Ledger!Move
<1>5. CASE Skip
  BY <1>5 DEF Skip, Still
<1> QED  BY <1>4, <1>5 DEF MatureFee, s, out, in

LEMMA StepInBook == ASSUME TypeOK, [Next]_vars PROVE Ledger!Next \/ Still
<1>1. ASSUME NEW p \in Procs, HandlerStep(p) PROVE Ledger!Next \/ Still
  <2>1. \/ Still
        \/ DebitPending(p) \/ DebitAvailable(p) \/ DebitPayout(p) \/ ReturnPayout(p)
    BY <1>1 DEF HandlerStep, Still, BeginReversal, AnswerReversal, BeginPayout,
                CreatePayout, CreateRefused, CreateReplyLost, HandlerFails
  <2>2. CASE DebitPending(p)
    BY <2>2, EnteredOnce DEF DebitPending, Ledger!Next
  <2>3. CASE DebitAvailable(p)
    BY <2>3, EnteredOnce DEF DebitAvailable, Ledger!Next
  <2>4. CASE DebitPayout(p)
    BY Zenon, <2>4, EntryInBook DEF DebitPayout, Skip, Still, Ledger!Next
  <2>5. CASE ReturnPayout(p)
    BY <2>5, EnteredOnce DEF ReturnPayout, Ledger!Next
  <2> QED  BY <2>1, <2>2, <2>3, <2>4, <2>5
<1>2. ASSUME NEW c \in Crons, CronStep(c) PROVE Ledger!Next \/ Still
  <2>1. Still \/ MatureFee(c)
    BY <1>2 DEF CronStep, Still, ScanFees, LookForMarker, CronFails
  <2> QED  BY <2>1, MaturedInBook DEF Ledger!Next
<1>3. ASSUME OtherStep PROVE Ledger!Next \/ Still
  <2>1. ASSUME NEW s \in Sales, SaleCredit(s) PROVE Ledger!Next
    <3> DEFINE row == Row("sale", s, "PENDING", Fee[s])
    <3>1. Fresh(row.key) /\ Enter(row)
      BY <2>1 DEF SaleCredit, Row
    <3> QED  BY <3>1, EntryInBook DEF Ledger!Next
  <2>2. ASSUME NEW r \in Requests, HandleFailedPayout(r) PROVE Ledger!Next
    <3> DEFINE row == Row("payout_failed", r, "AVAILABLE", Amount[r])
    <3>1. Fresh(row.key) /\ Enter(row)
      BY <2>2 DEF HandleFailedPayout, Row
    <3> QED  BY <3>1, EntryInBook DEF Ledger!Next
  <2>3. ASSUME NEW r \in Requests, PayoutFails(r) PROVE Still
    BY <2>3 DEF PayoutFails, Still
  <2> QED  BY <1>3, <2>1, <2>2, <2>3 DEF OtherStep
<1>4. CASE UNCHANGED vars
  BY <1>4 DEF vars, Still
<1> QED  BY <1>1, <1>2, <1>3, <1>4, NextSteps

\* Every change of a balance is entered once in the ledger, in the same step,
\* and fees mature by entries that cancel out: the treasury keeps its book.
THEOREM TreasuryImplementsBook == Spec => ImplementsBook
<1>1. Init => Ledger!Init
  BY DEF Init, Ledger!Init
<1>2. TypeOK /\ [Next]_vars => [Ledger!Next]_<<money, rows>>
  BY StepInBook DEF Still
<1> QED  BY <1>1, <1>2, TreasuryTypeOK, PTL DEF Spec, ImplementsBook, Ledger!Spec

----------------------------------------------------------------------------
(***************************************************************************)
(* Payouts called once and met by no failure.                              *)
(***************************************************************************)
Debited(r) == Posted("payout", r)
Returned(r) == Posted("payout_failed_request", r)
Credited(r) == Posted("payout_failed", r)

Untouched(r) == payout[r] = "none" /\ ~Debited(r) /\ ~Returned(r) /\ ~Credited(r)
Withheld(r) == payout[r] = "none" /\ Debited(r) /\ ~Returned(r) /\ ~Credited(r)

\* What nobody works on: nothing was done, Stripe has refused and the cents
\* are back, Stripe has it, or let it fail and the event is credited or not.
Resting(r) ==
    \/ Untouched(r)
    \/ payout[r] = "none" /\ Debited(r) /\ Returned(r) /\ ~Credited(r)
    \/ payout[r] = "created" /\ Debited(r) /\ ~Returned(r) /\ ~Credited(r)
    \/ payout[r] = "failed" /\ Debited(r) /\ ~Returned(r)

Accounted(r) ==
    /\ calls[r] <= 1
    /\ calls[r] = 0 => Untouched(r) /\ AtRest(r)
    /\ \A p, q \in Procs : work[p] = r /\ work[q] = r => p = q
    /\ \A p \in Procs : work[p] = r =>
        /\ phase[p] = "debit" => Untouched(r)
        /\ phase[p] \in {"create", "return"} => Withheld(r)
        /\ phase[p] \in PayoutPhases
    /\ AtRest(r) => Resting(r)

RegularPayouts == \A r \in Requests \ contested : Accounted(r)

\* What was posted stays so, and a step posts only the rows it enters.
LEMMA PostedAfter ==
    ASSUME NEW row, Enter(row), NEW prefix, NEW source
    PROVE  Posted(prefix, source)' <=> Posted(prefix, source) \/ row.key = <<prefix, source>>
  BY DEF Enter, Posted

\* The rows a step of another kind enters are about no payout.
PayoutRowsKept(r) == Debited(r)' = Debited(r) /\ Returned(r)' = Returned(r) /\ Credited(r)' = Credited(r)

LEMMA RowsKept ==
    ASSUME NEW row, EnterOnce(row), NEW r,
           row.key \notin {<<"payout", r>>, <<"payout_failed_request", r>>, <<"payout_failed", r>>}
    PROVE  PayoutRowsKept(r)
  BY DEF EnterOnce, Enter, Skip, Posted, PayoutRowsKept, Debited, Returned, Credited

\* A step that changes neither the state of r nor who works on it, or its rows.
Unmoved(r) ==
    /\ PayoutRowsKept(r)
    /\ payout'[r] = payout[r] /\ calls'[r] = calls[r]
    /\ \A p \in Procs :
        /\ work'[p] = r <=> work[p] = r
        /\ work[p] = r => phase'[p] = phase[p]

LEMMA UnmovedKeepsAccount ==
    ASSUME NEW r \in Requests, Accounted(r), Unmoved(r)
    PROVE  Accounted(r)'
  BY DEF Accounted, Unmoved, PayoutRowsKept, AtRest, Resting, Untouched, Withheld,
         Debited, Returned, Credited

LEMMA HandlerKeepsAccount ==
    ASSUME TypeOK, TypeOK', NEW r \in Requests, r \notin contested', Accounted(r),
           NEW p \in Procs, HandlerStep(p)
    PROVE  Accounted(r)'
<1> USE DEF TypeOK, handlers, history, Goto, Leave, Call, ReversalPhases, PayoutPhases
<1>1. ASSUME NEW t \in Reversals, BeginReversal(p, t) PROVE Accounted(r)'
  <2>1. PayoutRowsKept(r)
    BY <1>1 DEF BeginReversal, PayoutRowsKept, Debited, Returned, Credited, Posted
  <2>2. Unmoved(r)
    BY <1>1, <2>1 DEF BeginReversal, Unmoved
  <2> QED  BY <2>2, UnmovedKeepsAccount
<1>2. CASE DebitPending(p) \/ DebitAvailable(p)
  <2>1. PayoutRowsKept(r)
    <3> DEFINE row(b, c) == [key |-> ReversalKey(p, b), bucket |-> b, cents |-> c]
    <3>1. PICK b \in Buckets, c \in {-PendingPart(p), -AvailablePart(p)} : EnterOnce(row(b, c))
      BY Zenon, <1>2 DEF DebitPending, DebitAvailable
    <3>2. work[p] # r
      BY <1>2 DEF DebitPending, DebitAvailable
    <3>3. row(b, c).key = ReversalKey(p, b)
      OBVIOUS
    <3>4. ReversalKey(p, b) \in {<<prefix, work[p]>> :
                                prefix \in {"reversal", "reversal:pending", "reversal:available"}}
      BY DEF ReversalKey
    <3>5. row(b, c).key \notin {<<"payout", r>>, <<"payout_failed_request", r>>, <<"payout_failed", r>>}
      BY <3>2, <3>3, <3>4
    <3> HIDE DEF row
    <3> QED  BY <3>1, <3>5, RowsKept
  <2>2. Unmoved(r)
    BY <1>2, <2>1 DEF DebitPending, DebitAvailable, Unmoved
  <2> QED  BY <2>2, UnmovedKeepsAccount
<1>3. CASE AnswerReversal(p)
  <2>1. PayoutRowsKept(r)
    BY <1>3 DEF AnswerReversal, PayoutRowsKept, Debited, Returned, Credited, Posted
  <2>2. Unmoved(r)
    BY <1>3, <2>1 DEF AnswerReversal, Unmoved
  <2> QED  BY <2>2, UnmovedKeepsAccount
<1>4. ASSUME NEW q \in Requests, BeginPayout(p, q) PROVE Accounted(r)'
  <2>1. PayoutRowsKept(r)
    BY <1>4 DEF BeginPayout, PayoutRowsKept, Debited, Returned, Credited, Posted
  <2>2. CASE q # r
    <3>1. Unmoved(r)
      BY <1>4, <2>1, <2>2 DEF BeginPayout, Unmoved
    <3> QED  BY <3>1, UnmovedKeepsAccount
  <2>3. CASE q = r
    <3>1. calls[r] = 0
      BY <1>4, <2>3 DEF BeginPayout, Accounted
    <3>2. Untouched(r) /\ AtRest(r)
      BY <3>1 DEF Accounted
    <3>3. phase' = [phase EXCEPT ![p] = "debit"] /\ work' = [work EXCEPT ![p] = r]
      BY <1>4, <2>3, <3>2 DEF BeginPayout, Untouched, Debited
    <3>4. Untouched(r)' /\ calls'[r] = 1
      BY <1>4, <2>1, <2>3, <3>1, <3>2 DEF BeginPayout, Untouched, PayoutRowsKept
    <3> QED  BY <3>2, <3>3, <3>4 DEF Accounted, AtRest
  <2> QED  BY <2>2, <2>3
<1>5. CASE DebitPayout(p)
  <2> DEFINE row == Row("payout", work[p], "AVAILABLE", -Amount[work[p]])
  <2>1. row.key = <<"payout", work[p]>>
    BY DEF Row
  <2>2. CASE work[p] # r
    <3>1. PayoutRowsKept(r)
      <4>1. EnterOnce(row)
        BY Zenon, <1>5 DEF DebitPayout, EnterOnce
      <4> QED  BY <2>1, <2>2, <4>1, RowsKept
    <3>2. Unmoved(r)
      BY <1>5, <2>2, <3>1 DEF DebitPayout, Unmoved
    <3> QED  BY <3>2, UnmovedKeepsAccount
  <2>3. CASE work[p] = r
    <3>1. Untouched(r)
      BY <1>5, <2>3 DEF DebitPayout, Accounted
    <3>2. Fresh(row.key)
      BY <2>1, <2>3, <3>1 DEF Untouched, Debited, Posted, Fresh
    <3>3. Enter(row) /\ Goto(p, "create")
      BY Zenon, <1>5, <3>2 DEF DebitPayout
    <3>4. Withheld(r)'
      BY <1>5, <2>1, <2>3, <3>1, <3>3, PostedAfter
         DEF DebitPayout, Untouched, Withheld, Debited, Returned, Credited
    <3>5. UNCHANGED calls /\ UNCHANGED work /\ phase' = [phase EXCEPT ![p] = "create"]
      BY <1>5, <3>3 DEF DebitPayout
    <3> QED  BY <2>3, <3>4, <3>5 DEF Accounted, AtRest, DebitPayout
  <2> QED  BY <2>2, <2>3
<1>6. CASE CreatePayout(p)
  <2>1. PayoutRowsKept(r)
    BY <1>6 DEF CreatePayout, PayoutRowsKept, Debited, Returned, Credited, Posted
  <2>2. CASE work[p] # r
    <3>1. Unmoved(r)
      BY <1>6, <2>1, <2>2 DEF CreatePayout, Unmoved
    <3> QED  BY <3>1, UnmovedKeepsAccount
  <2>3. CASE work[p] = r
    <3>1. Withheld(r)
      BY <1>6, <2>3 DEF CreatePayout, Accounted
    <3>2. payout'[r] = "created"
      BY <1>6, <2>3, <3>1 DEF CreatePayout, Withheld
    <3> QED
      BY <1>6, <2>1, <2>3, <3>1, <3>2
         DEF CreatePayout, Accounted, AtRest, Resting, Withheld, Untouched, PayoutRowsKept
  <2> QED  BY <2>2, <2>3
<1>7. CASE CreateRefused(p)
  <2>1. PayoutRowsKept(r)
    BY <1>7 DEF CreateRefused, PayoutRowsKept, Debited, Returned, Credited, Posted
  <2> QED
    BY <1>7, <2>1 DEF CreateRefused, Accounted, AtRest, Resting, Withheld, Untouched, PayoutRowsKept
<1>8. CASE CreateReplyLost(p)
  <2>1. PayoutRowsKept(r)
    BY <1>8 DEF CreateReplyLost, PayoutRowsKept, Debited, Returned, Credited, Posted
  <2>2. Unmoved(r)
    BY <1>8, <2>1 DEF CreateReplyLost, Unmoved
  <2> QED  BY <2>2, UnmovedKeepsAccount
<1>9. CASE ReturnPayout(p)
  <2> DEFINE row == Row("payout_failed_request", work[p], "AVAILABLE", Amount[work[p]])
  <2>1. row.key = <<"payout_failed_request", work[p]>> /\ EnterOnce(row)
    BY <1>9 DEF Row, ReturnPayout
  <2>2. CASE work[p] # r
    <3>1. PayoutRowsKept(r)
      BY <2>1, <2>2, RowsKept
    <3>2. Unmoved(r)
      BY <1>9, <2>2, <3>1 DEF ReturnPayout, Unmoved
    <3> QED  BY <3>2, UnmovedKeepsAccount
  <2>3. CASE work[p] = r
    <3>1. Withheld(r)
      BY <1>9, <2>3 DEF ReturnPayout, Accounted
    <3>2. Fresh(row.key)
      BY <2>1, <2>3, <3>1 DEF Withheld, Returned, Posted, Fresh
    <3>3. Enter(row)
      BY <2>1, <3>2 DEF EnterOnce
    <3>4. payout'[r] = "none" /\ Debited(r)' /\ Returned(r)' /\ ~Credited(r)'
      BY <1>9, <2>1, <2>3, <3>1, <3>3, PostedAfter
         DEF ReturnPayout, Withheld, Debited, Returned, Credited
    <3> QED
      BY <1>9, <2>3, <3>1, <3>4 DEF ReturnPayout, Accounted, AtRest, Resting, Withheld, Untouched
  <2> QED  BY <2>2, <2>3
<1>10. CASE HandlerFails(p)
  <2>1. PayoutRowsKept(r)
    BY <1>10 DEF HandlerFails, PayoutRowsKept, Debited, Returned, Credited, Posted
  <2>2. Unmoved(r)
    BY <1>10, <2>1 DEF HandlerFails, Unmoved
  <2> QED  BY <2>2, UnmovedKeepsAccount
<1> QED
  BY <1>1, <1>2, <1>3, <1>4, <1>5, <1>6, <1>7, <1>8, <1>9, <1>10 DEF HandlerStep

LEMMA CronKeepsAccount ==
    ASSUME TypeOK, NEW r \in Requests, Accounted(r), NEW c \in Crons, CronStep(c)
    PROVE  Accounted(r)'
<1>1. UNCHANGED <<handlers, calls, payout>>
  BY DEF CronStep, ScanFees, LookForMarker, MatureFee, CronFails
<1>2. PayoutRowsKept(r)
  <2>1. CASE MatureFee(c)
    <3>1. PICK s : rows' \in {rows, rows \cup {Row("mature:pending", s, "PENDING", -Fee[s]),
                                               Row("mature:available", s, "AVAILABLE", Fee[s])}}
      BY <2>1 DEF MatureFee, Skip
    <3> QED  BY <3>1 DEF PayoutRowsKept, Debited, Returned, Credited, Posted, Row
  <2>2. rows' = rows \/ MatureFee(c)
    BY DEF CronStep, ScanFees, LookForMarker, CronFails
  <2> QED  BY <2>1, <2>2 DEF PayoutRowsKept, Debited, Returned, Credited, Posted
<1>3. Unmoved(r)
  BY <1>1, <1>2 DEF Unmoved, handlers
<1> QED  BY <1>3, UnmovedKeepsAccount

LEMMA OtherKeepsAccount ==
    ASSUME TypeOK, NEW r \in Requests, Accounted(r), OtherStep
    PROVE  Accounted(r)'
<1> USE DEF handlers
<1>1. ASSUME NEW s \in Sales, SaleCredit(s) PROVE Accounted(r)'
  <2>1. PayoutRowsKept(r)
    BY <1>1 DEF SaleCredit, Enter, Row, PayoutRowsKept, Debited, Returned, Credited, Posted
  <2>2. Unmoved(r)
    BY <1>1, <2>1 DEF SaleCredit, Unmoved
  <2> QED  BY <2>2, UnmovedKeepsAccount
<1>2. ASSUME NEW q \in Requests, PayoutFails(q) PROVE Accounted(r)'
  <2>1. PayoutRowsKept(r)
    BY <1>2 DEF PayoutFails, PayoutRowsKept, Debited, Returned, Credited, Posted
  <2>2. CASE q # r
    <3>1. Unmoved(r)
      BY <1>2, <2>1, <2>2 DEF PayoutFails, Unmoved, TypeOK
    <3> QED  BY <3>1, UnmovedKeepsAccount
  <2>3. CASE q = r
    <3>1. payout[r] = "created" /\ payout'[r] = "failed" /\ UNCHANGED <<handlers, calls>>
      BY <1>2, <2>3 DEF PayoutFails, TypeOK
    <3>2. AtRest(r)
      BY <3>1 DEF Accounted, AtRest, Untouched, Withheld, TypeOK
    <3> QED
      BY <2>1, <3>1, <3>2 DEF Accounted, AtRest, Resting, Untouched, Withheld, PayoutRowsKept
  <2> QED  BY <2>2, <2>3
<1>3. ASSUME NEW q \in Requests, HandleFailedPayout(q) PROVE Accounted(r)'
  <2> DEFINE row == Row("payout_failed", q, "AVAILABLE", Amount[q])
  <2>1. row.key = <<"payout_failed", q>> /\ Fresh(row.key) /\ Enter(row)
    BY <1>3 DEF HandleFailedPayout, Row
  <2>2. UNCHANGED <<handlers, calls, payout>>
    BY <1>3 DEF HandleFailedPayout
  <2> HIDE DEF row
  <2>3. CASE q # r
    <3>1. Unmoved(r)
      BY <2>1, <2>2, <2>3, RowsKept DEF EnterOnce, Unmoved
    <3> QED  BY <3>1, UnmovedKeepsAccount
  <2>4. CASE q = r
    <3>1. payout[r] = "failed"
      BY <1>3, <2>4 DEF HandleFailedPayout
    <3>2. (Debited(r)' <=> Debited(r)) /\ (Returned(r)' <=> Returned(r))
      <4>1. row.key # <<"payout", r>> /\ row.key # <<"payout_failed_request", r>>
        BY <2>1
      <4> QED  BY Zenon, <2>1, <4>1, PostedAfter DEF Debited, Returned
    <3>3. AtRest(r) /\ Debited(r) /\ ~Returned(r)
      BY <3>1 DEF Accounted, AtRest, Resting, Untouched, Withheld, TypeOK
    <3> QED
      BY <2>2, <3>1, <3>2, <3>3 DEF Accounted, AtRest, Resting, Untouched, Withheld
  <2> QED  BY <2>3, <2>4
<1> QED  BY <1>1, <1>2, <1>3 DEF OtherStep

LEMMA AccountsHold == Spec => []RegularPayouts
<1>1. Init => RegularPayouts
  BY DEF Init, RegularPayouts, Accounted, AtRest, Resting, Untouched, Debited, Returned,
         Credited, Posted
<1>2. TypeOK /\ TypeOK' /\ RegularPayouts /\ [Next]_vars => RegularPayouts'
  <2> SUFFICES ASSUME TypeOK, TypeOK', RegularPayouts, [Next]_vars,
                      NEW r \in Requests, r \notin contested'
               PROVE  Accounted(r)'
    BY DEF RegularPayouts
  <2>1. contested \subseteq contested'
    BY DEF Next, vars, history, handlers, crons, SaleCredit, BeginReversal, DebitPending,
           DebitAvailable, AnswerReversal, BeginPayout, DebitPayout, CreatePayout,
           CreateRefused, CreateReplyLost, ReturnPayout, HandlerFails, PayoutFails,
           HandleFailedPayout, Cron, ScanFees, LookForMarker, MatureFee, CronFails
  <2>2. Accounted(r)
    BY <2>1 DEF RegularPayouts
  <2>3. CASE UNCHANGED vars
    <3>1. Unmoved(r)
      BY <2>3 DEF vars, handlers, Unmoved, PayoutRowsKept, Debited, Returned, Credited, Posted
    <3> QED  BY <2>2, <3>1, UnmovedKeepsAccount
  <2> QED
    BY <2>2, <2>3, NextSteps, HandlerKeepsAccount, CronKeepsAccount, OtherKeepsAccount
<1> QED  BY <1>1, <1>2, TreasuryTypeOK, PTL DEF Spec

\* Whatever the other handlers and the crons do meanwhile, a payout called once
\* and met by no failure keeps its cents exactly as long as Stripe has it, or
\* until the event of its failure is handled.
THEOREM TreasuryPayouts == Spec => []PayoutsAreAccountedFor
<1>1. RegularPayouts => PayoutsAreAccountedFor
  BY DEF RegularPayouts, PayoutsAreAccountedFor, Accounted, Resting, Untouched, Debited,
         Returned, Credited
<1> QED  BY <1>1, AccountsHold, PTL

----------------------------------------------------------------------------
(***************************************************************************)
(* Reversals whose deliveries all found the share to split alike.          *)
(***************************************************************************)
\* The rows that take the share of t when c cents of it come out of PENDING.
PendingRow(t, c) ==
    [key |-> <<IF c = Share[t] THEN "reversal" ELSE "reversal:pending", t>>,
     bucket |-> "PENDING", cents |-> -c]

AvailableRow(t, c) ==
    [key |-> <<IF c = 0 THEN "reversal" ELSE "reversal:available", t>>,
     bucket |-> "AVAILABLE", cents |-> -(Share[t] - c)]

RowsOf(t, c) ==
    (IF c > 0 THEN {PendingRow(t, c)} ELSE {}) \cup
    (IF c < Share[t] THEN {AvailableRow(t, c)} ELSE {})

OwnRows(t) == {row \in rows : row.key[2] = t}

\* A delivery under way splits as one of the parts says.
Follows(p, t) ==
    LET c == PartOf(t, read[p])
    IN  /\ phase[p] \in ReversalPhases
        /\ c \in parts[t]
        /\ phase[p] = "pending" => c > 0
        /\ phase[p] = "available" => c < Share[t]

Parted(t) ==
    /\ parts[t] \subseteq 0 .. Share[t]
    /\ t \in acked => parts[t] # {}
    /\ parts[t] = {} => OwnRows(t) = {}
    /\ \A p \in Procs : work[p] = t => Follows(p, t)

\* With one way to split, the rows are those of that split, complete when the
\* event is answered.
Whole(t, c) ==
    /\ OwnRows(t) \subseteq RowsOf(t, c)
    /\ t \in acked => RowsOf(t, c) \subseteq OwnRows(t)
    /\ \A p \in Procs : work[p] = t =>
        /\ phase[p] = "available" /\ c > 0 => PendingRow(t, c) \in OwnRows(t)
        /\ phase[p] = "answer" => RowsOf(t, c) \subseteq OwnRows(t)

Taken(t) == Parted(t) /\ \A c \in 0 .. Share[t] : parts[t] = {c} => Whole(t, c)

PartsKept == \A t \in Reversals : Taken(t)

\* A step that changes nothing of t, except that a handler may give it up.
Undisturbed(t) ==
    /\ OwnRows(t)' = OwnRows(t)
    /\ parts'[t] = parts[t]
    /\ t \in acked' <=> t \in acked
    /\ \A p \in Procs : work'[p] = t =>
        work[p] = t /\ phase'[p] = phase[p] /\ read'[p] = read[p]

LEMMA UndisturbedKeepsTaken ==
    ASSUME NEW t \in Reversals, Taken(t), Undisturbed(t)
    PROVE  Taken(t)'
<1>1. Parted(t)'
  BY DEF Taken, Parted, Follows, Undisturbed, PartOf
<1>2. ASSUME NEW c \in 0 .. Share[t], parts'[t] = {c} PROVE Whole(t, c)'
  <2>1. Whole(t, c)
    BY <1>2 DEF Taken, Undisturbed
  <2> QED  BY <2>1 DEF Whole, Undisturbed, RowsOf, PendingRow, AvailableRow
<1> QED  BY <1>1, <1>2 DEF Taken

\* A row of another reversal, a sale or a request is not one of t's.
LEMMA OthersRow ==
    ASSUME NEW t, NEW row, EnterOnce(row), row.key[2] # t
    PROVE  OwnRows(t)' = OwnRows(t)
  BY DEF EnterOnce, Enter, Skip, OwnRows

\* The row of a split is entered now or was entered before.
LEMMA RowOfSplit ==
    ASSUME NEW t \in Reversals, NEW c \in 0 .. Share[t], OwnRows(t) \subseteq RowsOf(t, c),
           NEW row \in RowsOf(t, c), EnterOnce(row)
    PROVE  OwnRows(t)' = OwnRows(t) \cup {row}
<1>1. row.key[2] = t
  BY DEF RowsOf, PendingRow, AvailableRow
<1>2. CASE Enter(row)
  BY <1>1, <1>2 DEF Enter, OwnRows
<1>3. CASE ~Fresh(row.key) /\ Skip
  <2>1. PICK old \in rows : old.key = row.key
    BY <1>3 DEF Fresh
  <2>2. old \in RowsOf(t, c)
    BY <1>1, <2>1 DEF OwnRows
  <2>3. old = row
    BY <2>1, <2>2 DEF RowsOf, PendingRow, AvailableRow
  <2> QED  BY <1>1, <1>3, <2>1, <2>3 DEF Skip, OwnRows
<1> QED  BY <1>2, <1>3 DEF EnterOnce

LEMMA ReversalKeepsTaken ==
    ASSUME TypeOK, NEW t \in Reversals, Taken(t), NEW p \in Procs,
           \/ \E u \in Reversals : BeginReversal(p, u)
           \/ DebitPending(p) \/ DebitAvailable(p) \/ AnswerReversal(p)
    PROVE  Taken(t)'
<1> USE DEF handlers, history, Goto, Leave, Call, ReversalPhases
<1>1. ASSUME NEW u \in Reversals, BeginReversal(p, u) PROVE Taken(t)'
  <2>1. OwnRows(t)' = OwnRows(t)
    BY <1>1 DEF BeginReversal, OwnRows
  <2>2. CASE u # t
    <3>1. Undisturbed(t)
      BY <1>1, <2>1, <2>2 DEF BeginReversal, Undisturbed, TypeOK
    <3> QED  BY <3>1, UndisturbedKeepsTaken
  <2>3. CASE u = t
    <3> DEFINE d == PartOf(t, money["PENDING"])
    <3>1. /\ d \in 0 .. Share[t]
          /\ money["PENDING"] > 0 => d > 0
          /\ money["PENDING"] <= 0 => d = 0
      BY DEF PartOf, TypeOK
    <3>2. parts'[t] = parts[t] \cup {d} /\ t \notin acked' /\ d \in parts'[t]
      BY <1>1, <2>3 DEF BeginReversal, TypeOK
    <3>3. ASSUME NEW q \in Procs, work'[q] = t PROVE Follows(q, t)'
      <4>1. CASE q = p
        BY <1>1, <2>3, <3>1, <3>2, <4>1 DEF BeginReversal, Follows, TypeOK
      <4>2. CASE q # p
        BY <1>1, <3>2, <3>3, <4>2 DEF BeginReversal, Follows, Taken, Parted, TypeOK, PartOf
      <4> QED  BY <4>1, <4>2
    <3>4. Parted(t)'
      BY <2>1, <3>1, <3>2, <3>3 DEF Taken, Parted
    <3>5. ASSUME NEW c \in 0 .. Share[t], parts'[t] = {c} PROVE Whole(t, c)'
      <4>1. d = c /\ (parts[t] = {} \/ parts[t] = {c})
        BY <3>2, <3>5
      <4>2. OwnRows(t) \subseteq RowsOf(t, c)
        BY <4>1 DEF Taken, Parted, Whole
      <4>3. ASSUME NEW q \in Procs, work'[q] = t
            PROVE  /\ phase'[q] = "available" /\ c > 0 => PendingRow(t, c) \in OwnRows(t)
                   /\ phase'[q] = "answer" => RowsOf(t, c) \subseteq OwnRows(t)
        <5>1. CASE q = p
          BY <1>1, <3>1, <4>1, <5>1 DEF BeginReversal, TypeOK
        <5>2. CASE q # p
          <6>1. work[q] = t /\ phase'[q] = phase[q]
            BY <1>1, <4>3, <5>2 DEF BeginReversal, TypeOK
          <6>2. parts[t] = {c}
            BY <4>1, <6>1 DEF Taken, Parted, Follows
          <6> QED  BY <6>1, <6>2 DEF Taken, Whole
        <5> QED  BY <5>1, <5>2
      <4> QED
        BY <2>1, <3>2, <4>2, <4>3 DEF Whole, RowsOf, PendingRow, AvailableRow
    <3> QED  BY <3>4, <3>5 DEF Taken
  <2> QED  BY <2>2, <2>3
<1>2. CASE (DebitPending(p) \/ DebitAvailable(p)) /\ work[p] # t
  <2> DEFINE row(b, c) == [key |-> ReversalKey(p, b), bucket |-> b, cents |-> c]
  <2>1. PICK b \in Buckets, c \in {-PendingPart(p), -AvailablePart(p)} : EnterOnce(row(b, c))
    BY Zenon, <1>2 DEF DebitPending, DebitAvailable
  <2>2. row(b, c).key[2] # t
    BY <1>2 DEF ReversalKey
  <2> HIDE DEF row
  <2>3. OwnRows(t)' = OwnRows(t)
    BY <2>1, <2>2, OthersRow
  <2>4. Undisturbed(t)
    BY <1>2, <2>3 DEF DebitPending, DebitAvailable, Undisturbed, TypeOK
  <2> QED  BY <2>4, UndisturbedKeepsTaken
<1>3. CASE (DebitPending(p) \/ DebitAvailable(p)) /\ work[p] = t
  <2> DEFINE d == PartOf(t, read[p])
             row == IF phase[p] = "pending" THEN PendingRow(t, d) ELSE AvailableRow(t, d)
  <2>1. d \in parts[t] /\ d \in 0 .. Share[t] /\ d = PendingPart(p) /\ Share[t] - d = AvailablePart(p)
    <3>1. Follows(p, t) /\ parts[t] \subseteq 0 .. Share[t]
      BY <1>3 DEF Taken, Parted
    <3>2. d \in parts[t]
      BY <3>1 DEF Follows
    <3>3. d = PendingPart(p)
      BY <1>3 DEF PendingPart
    <3>4. Share[t] - d = AvailablePart(p)
      BY <1>3, <3>3 DEF AvailablePart
    <3> QED  BY <3>1, <3>2, <3>3, <3>4
  <2>2. (phase[p] = "pending" /\ d > 0) \/ (phase[p] = "available" /\ d < Share[t])
    <3>1. Follows(p, t)
      BY <1>3 DEF Taken, Parted
    <3>2. (phase[p] = "pending" => d > 0) /\ (phase[p] = "available" => d < Share[t])
      BY Zenon, <3>1 DEF Follows
    <3>3. phase[p] = "pending" \/ phase[p] = "available"
      BY <1>3 DEF DebitPending, DebitAvailable
    <3> HIDE DEF d
    <3> QED  BY <3>2, <3>3
  <2>3. EnterOnce(row) /\ row \in RowsOf(t, d)
    <3>1. CASE DebitPending(p)
      <4>1. ReversalKey(p, "PENDING") = PendingRow(t, d).key
        BY <1>3, <2>1, <2>2, <3>1 DEF DebitPending, ReversalKey, PendingRow
      <4>2. row = [key |-> ReversalKey(p, "PENDING"), bucket |-> "PENDING", cents |-> -PendingPart(p)]
        BY <2>1, <3>1, <4>1 DEF DebitPending, PendingRow
      <4> QED  BY <2>2, <3>1, <4>2 DEF DebitPending, RowsOf
    <3>2. CASE DebitAvailable(p)
      <4>1. ReversalKey(p, "AVAILABLE") = AvailableRow(t, d).key
        BY <1>3, <2>1, <2>2, <3>2 DEF DebitAvailable, ReversalKey, AvailableRow
      <4>2. row = [key |-> ReversalKey(p, "AVAILABLE"), bucket |-> "AVAILABLE",
                   cents |-> -AvailablePart(p)]
        BY <2>1, <3>2, <4>1 DEF DebitAvailable, AvailableRow
      <4> QED  BY <2>2, <3>2, <4>2 DEF DebitAvailable, RowsOf
    <3> QED  BY <1>3, <3>1, <3>2
  <2>4. /\ phase' = [phase EXCEPT ![p] = IF @ = "pending" /\ d < Share[t] THEN "available" ELSE "answer"]
        /\ UNCHANGED <<work, read, acked, parts>>
    BY <1>3, <2>1, <2>2 DEF DebitPending, DebitAvailable, TypeOK
  <2>5. row.key[2] = t
    BY DEF PendingRow, AvailableRow
  <2>6. Parted(t)'
    <3>1. \A q \in Procs : work'[q] = t => Follows(q, t)'
      BY <2>2, <2>4, <2>1 DEF Taken, Parted, Follows, TypeOK, PartOf
    <3> QED  BY <2>1, <2>4, <3>1 DEF Taken, Parted
  <2>7. ASSUME NEW c \in 0 .. Share[t], parts'[t] = {c} PROVE Whole(t, c)'
    <3>1. c = d /\ parts[t] = {c} /\ Whole(t, c)
      BY <2>1, <2>4, <2>7 DEF Taken
    <3>2. OwnRows(t)' = OwnRows(t) \cup {row}
      <4> HIDE DEF row, d
      <4> QED  BY <2>1, <2>3, <3>1, RowOfSplit DEF Whole
    <3>3. phase[p] = "available" => RowsOf(t, c) \subseteq OwnRows(t)'
      BY <1>3, <3>1, <3>2 DEF Whole, RowsOf
    <3>4. phase[p] = "pending" => PendingRow(t, c) \in OwnRows(t)'
      BY <3>1, <3>2
    <3>5. phase[p] = "pending" /\ ~(d < Share[t]) => RowsOf(t, c) \subseteq OwnRows(t)'
      BY <2>1, <3>1, <3>4 DEF RowsOf
    <3>6. ASSUME NEW q \in Procs, work'[q] = t
          PROVE  /\ phase'[q] = "available" /\ c > 0 => PendingRow(t, c) \in OwnRows(t)'
                 /\ phase'[q] = "answer" => RowsOf(t, c) \subseteq OwnRows(t)'
      <4>1. CASE q = p
        BY <2>2, <2>4, <3>3, <3>4, <3>5, <4>1 DEF TypeOK
      <4>2. CASE q # p
        BY <2>4, <3>1, <3>2, <3>6, <4>2 DEF Whole, TypeOK
      <4> QED  BY <4>1, <4>2
    <3>7. OwnRows(t)' \subseteq RowsOf(t, c) /\ (t \in acked => RowsOf(t, c) \subseteq OwnRows(t)')
      BY <2>3, <3>1, <3>2 DEF Whole
    <3> QED
      BY <2>4, <3>6, <3>7 DEF Whole, RowsOf, PendingRow, AvailableRow
  <2> QED  BY <2>6, <2>7 DEF Taken
<1>4. CASE AnswerReversal(p)
  <2>1. OwnRows(t)' = OwnRows(t) /\ parts' = parts /\ acked' = acked \cup {work[p]}
    BY <1>4 DEF AnswerReversal, OwnRows
  <2>2. \A q \in Procs : work'[q] = t =>
            work[q] = t /\ phase'[q] = phase[q] /\ read'[q] = read[q]
    BY <1>4 DEF AnswerReversal, TypeOK
  <2>3. CASE work[p] # t
    <3>1. Undisturbed(t)
      BY <2>1, <2>2, <2>3 DEF Undisturbed
    <3> QED  BY <3>1, UndisturbedKeepsTaken
  <2>4. CASE work[p] = t
    <3>1. parts[t] # {}
      BY <2>4 DEF Taken, Parted, Follows
    <3>2. Parted(t)'
      BY <2>1, <2>2, <3>1 DEF Taken, Parted, Follows, PartOf
    <3>3. ASSUME NEW c \in 0 .. Share[t], parts'[t] = {c} PROVE Whole(t, c)'
      <4>1. Whole(t, c) /\ RowsOf(t, c) \subseteq OwnRows(t)
        BY <1>4, <2>1, <2>4, <3>3 DEF Taken, Whole, AnswerReversal
      <4> QED  BY <2>1, <2>2, <4>1 DEF Whole, RowsOf, PendingRow, AvailableRow
    <3> QED  BY <3>2, <3>3 DEF Taken
  <2> QED  BY <2>3, <2>4
<1> QED  BY <1>1, <1>2, <1>3, <1>4

\* The steps of payouts and a failure of a handler.
LEMMA PayoutKeepsTaken ==
    ASSUME TypeOK, NEW t \in Reversals, Taken(t), NEW p \in Procs,
           \/ \E r \in Requests : BeginPayout(p, r)
           \/ DebitPayout(p) \/ CreatePayout(p) \/ CreateRefused(p) \/ CreateReplyLost(p)
           \/ ReturnPayout(p) \/ HandlerFails(p)
    PROVE  Taken(t)'
<1> USE DEF handlers, history, Goto, Leave, Call, PayoutPhases
<1>1. UNCHANGED <<acked, parts>>
  BY DEF BeginPayout, DebitPayout, CreatePayout, CreateRefused, CreateReplyLost,
         ReturnPayout, HandlerFails
<1>2. OwnRows(t)' = OwnRows(t)
  <2>1. CASE DebitPayout(p)
    <3> DEFINE row == Row("payout", work[p], "AVAILABLE", -Amount[work[p]])
    <3>1. row.key[2] # t
      BY <2>1 DEF TypeOK, DebitPayout, Row
    <3>2. EnterOnce(row)
      BY Zenon, <2>1 DEF DebitPayout, EnterOnce
    <3> QED  BY <3>1, <3>2, OthersRow
  <2>2. CASE ReturnPayout(p)
    <3> DEFINE row == Row("payout_failed_request", work[p], "AVAILABLE", Amount[work[p]])
    <3>1. row.key[2] # t /\ EnterOnce(row)
      BY <2>2 DEF TypeOK, ReturnPayout, Row
    <3> QED  BY <3>1, OthersRow
  <2>3. DebitPayout(p) \/ ReturnPayout(p) \/ rows' = rows
    BY DEF BeginPayout, CreatePayout, CreateRefused, CreateReplyLost, HandlerFails
  <2> QED  BY <2>1, <2>2, <2>3 DEF OwnRows
<1>3. ASSUME NEW q \in Procs, work'[q] = t
      PROVE  work[q] = t /\ phase'[q] = phase[q] /\ read'[q] = read[q]
  <2>1. CASE \E r \in Requests : BeginPayout(p, r)
    BY <1>3, <2>1 DEF BeginPayout, TypeOK
  <2>2. CASE DebitPayout(p)
    <3>1. work[p] # t /\ (Goto(p, "create") \/ Leave(p))
      BY <2>2 DEF DebitPayout, TypeOK
    <3> QED  BY <1>3, <3>1 DEF TypeOK
  <2>3. CASE CreatePayout(p) \/ CreateRefused(p) \/ CreateReplyLost(p)
    BY <1>3, <2>3 DEF CreatePayout, CreateRefused, CreateReplyLost, TypeOK
  <2>4. CASE ReturnPayout(p) \/ HandlerFails(p)
    BY <1>3, <2>4 DEF ReturnPayout, HandlerFails, TypeOK
  <2> QED  BY <2>1, <2>2, <2>3, <2>4
<1>4. Undisturbed(t)
  BY <1>1, <1>2, <1>3 DEF Undisturbed
<1> QED  BY <1>4, UndisturbedKeepsTaken

LEMMA CronKeepsTaken ==
    ASSUME TypeOK, NEW t \in Reversals, Taken(t), NEW c \in Crons, CronStep(c)
    PROVE  Taken(t)'
<1>1. UNCHANGED <<handlers, acked, parts>>
  BY DEF CronStep, ScanFees, LookForMarker, MatureFee, CronFails, history
<1>2. OwnRows(t)' = OwnRows(t)
  <2>1. CASE MatureFee(c)
    <3>1. Head(batch[c]) \in Sales
      BY <2>1, HeadTailProperties DEF TypeOK, MatureFee
    <3>2. PICK s \in Sales :
            rows' \in {rows, rows \cup {Row("mature:pending", s, "PENDING", -Fee[s]),
                                        Row("mature:available", s, "AVAILABLE", Fee[s])}}
      BY <2>1, <3>1 DEF MatureFee, Skip
    <3> QED  BY <3>2 DEF OwnRows, Row
  <2>2. rows' = rows \/ MatureFee(c)
    BY DEF CronStep, ScanFees, LookForMarker, CronFails
  <2> QED  BY <2>1, <2>2 DEF OwnRows
<1>3. Undisturbed(t)
  BY <1>1, <1>2 DEF Undisturbed, handlers
<1> QED  BY <1>3, UndisturbedKeepsTaken

LEMMA OtherKeepsTaken ==
    ASSUME TypeOK, NEW t \in Reversals, Taken(t), OtherStep
    PROVE  Taken(t)'
<1>1. UNCHANGED <<handlers, acked, parts>>
  BY DEF OtherStep, SaleCredit, PayoutFails, HandleFailedPayout, history
<1>2. OwnRows(t)' = OwnRows(t)
  <2>1. \/ rows' = rows
        \/ \E s \in Sales : rows' = rows \cup {Row("sale", s, "PENDING", Fee[s])}
        \/ \E r \in Requests : rows' = rows \cup {Row("payout_failed", r, "AVAILABLE", Amount[r])}
    BY DEF OtherStep, SaleCredit, PayoutFails, HandleFailedPayout, Enter
  <2> QED  BY <2>1 DEF OwnRows, Row
<1>3. Undisturbed(t)
  BY <1>1, <1>2 DEF Undisturbed, handlers
<1> QED  BY <1>3, UndisturbedKeepsTaken

\* However often a reversal is delivered or interrupted, and whatever sales,
\* payouts and crons do to the balances meanwhile, it has taken the share of
\* the marketplace when it is answered, if each delivery meant to split it alike.
THEOREM TreasuryReversals == Spec => []ReversalsAreWhole
<1>1. Init => PartsKept
  BY DEF Init, PartsKept, Taken, Parted, Whole, OwnRows
<1>2. TypeOK /\ PartsKept /\ [Next]_vars => PartsKept'
  <2> SUFFICES ASSUME TypeOK, PartsKept, [Next]_vars, NEW t \in Reversals
               PROVE  Taken(t)'
    BY DEF PartsKept
  <2>1. Taken(t)
    BY DEF PartsKept
  <2>2. ASSUME NEW p \in Procs, HandlerStep(p) PROVE Taken(t)'
    BY <2>1, <2>2, ReversalKeepsTaken, PayoutKeepsTaken DEF HandlerStep
  <2>3. CASE UNCHANGED vars
    <3>1. Undisturbed(t)
      BY <2>3 DEF vars, handlers, history, Undisturbed, OwnRows
    <3> QED  BY <2>1, <3>1, UndisturbedKeepsTaken
  <2> QED  BY <2>1, <2>2, <2>3, NextSteps, CronKeepsTaken, OtherKeepsTaken
<1>3. TypeOK /\ PartsKept => ReversalsAreWhole
  <2> SUFFICES ASSUME PartsKept, NEW t \in acked, t \in Reversals, \A x, y \in parts[t] : x = y
               PROVE  \/ \E row \in OwnRows(t) : OwnRows(t) = {row} /\ row.cents = -Share[t]
                      \/ \E x, y \in OwnRows(t) :
                            OwnRows(t) = {x, y} /\ x # y /\ x.cents + y.cents = -Share[t]
    BY DEF ReversalsAreWhole, OwnRows, TypeOK
  <2>1. PICK c \in 0 .. Share[t] : parts[t] = {c}
    BY DEF PartsKept, Taken, Parted
  <2>2. OwnRows(t) = RowsOf(t, c)
    BY <2>1 DEF PartsKept, Taken, Whole
  <2>3. CASE c = 0
    <3>1. RowsOf(t, c) = {AvailableRow(t, c)} /\ AvailableRow(t, c).cents = -Share[t]
      BY <2>3 DEF RowsOf, AvailableRow
    <3> QED  BY <2>2, <3>1
  <2>4. CASE c = Share[t]
    <3>1. RowsOf(t, c) = {PendingRow(t, c)} /\ PendingRow(t, c).cents = -Share[t]
      BY <2>4 DEF RowsOf, PendingRow
    <3> QED  BY <2>2, <3>1
  <2>5. CASE c # 0 /\ c # Share[t]
    <3>1. RowsOf(t, c) = {PendingRow(t, c), AvailableRow(t, c)}
      BY <2>5 DEF RowsOf
    <3>2. PendingRow(t, c).bucket # AvailableRow(t, c).bucket
      BY DEF PendingRow, AvailableRow
    <3>3. PendingRow(t, c).cents + AvailableRow(t, c).cents = -Share[t]
      BY DEF PendingRow, AvailableRow
    <3> QED  BY <2>2, <3>1, <3>2, <3>3
  <2> QED  BY <2>3, <2>4, <2>5
<1> QED  BY <1>1, <1>2, <1>3, TreasuryTypeOK, PTL DEF Spec
=============================================================================
