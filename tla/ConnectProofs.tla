--------------------------- MODULE ConnectProofs ---------------------------
(***************************************************************************)
(* Theorems about the two halves of Connect: the ledger, for every set of  *)
(* accounts, callers and postings, and the payouts from it, for every set  *)
(* of requests, handlers and faults.                                       *)
(***************************************************************************)
EXTENDS ConnectLedger, ConnectPayout, FiniteSetTheorems, TLAPS

----------------------------------------------------------------------------
(***************************************************************************)
(* Sums of cents.                                                          *)
(***************************************************************************)
\* What a member adds to a sum: nothing when its number is negative.
Part(n) == IF n > 0 THEN n ELSE 0

\* The cents of a single member.
LEMMA CentsOfOne ==
    ASSUME NEW f, NEW x, f[x] \in Int
    PROVE  /\ CentsOf(f, {x}) = {x} \X (1 .. f[x])
           /\ IsFiniteSet(CentsOf(f, {x}))
           /\ Worth(f, {x}) = Part(f[x])
<1>1. CentsOf(f, {x}) = {x} \X (1 .. f[x])
  BY DEF CentsOf
<1>2. IsFiniteSet({x}) /\ Cardinality({x}) = 1
  BY FS_Singleton
<1>3. IsFiniteSet(1 .. f[x]) /\ Cardinality(1 .. f[x]) = Part(f[x])
  BY FS_Interval DEF Part
<1>4. /\ IsFiniteSet({x} \X (1 .. f[x]))
      /\ Cardinality({x} \X (1 .. f[x])) = 1 * Part(f[x])
  BY <1>2, <1>3, FS_Product
<1>5. 1 * Part(f[x]) = Part(f[x])
  BY DEF Part
<1> QED  BY <1>1, <1>4, <1>5 DEF Worth

\* The cents of two sets together.
LEMMA CentsOfUnion ==
    ASSUME NEW f, NEW S, NEW T
    PROVE  CentsOf(f, S \cup T) = CentsOf(f, S) \cup CentsOf(f, T)
  BY DEF CentsOf

\* A part of a set has no more cents than the set.
LEMMA CentsWithin ==
    ASSUME NEW f, NEW S, NEW T, S \subseteq T, IsFiniteSet(CentsOf(f, T))
    PROVE  IsFiniteSet(CentsOf(f, S)) /\ Worth(f, S) \in Nat /\ Worth(f, S) <= Worth(f, T)
           /\ Worth(f, T) \in Nat
<1>1. CentsOf(f, S) \subseteq CentsOf(f, T)
  BY DEF CentsOf
<1> QED  BY <1>1, FS_Subset, FS_CardinalityType DEF Worth

\* The sum over two sets with no member in common.
LEMMA WorthOfUnion ==
    ASSUME NEW f, NEW S, NEW T, S \cap T = {}, IsFiniteSet(CentsOf(f, S)), IsFiniteSet(CentsOf(f, T))
    PROVE  /\ IsFiniteSet(CentsOf(f, S \cup T))
           /\ Worth(f, S \cup T) = Worth(f, S) + Worth(f, T)
<1>1. CentsOf(f, S) \cap CentsOf(f, T) = {}
  BY DEF CentsOf
<1>2. /\ IsFiniteSet(CentsOf(f, S) \cup CentsOf(f, T))
      /\ Cardinality(CentsOf(f, S) \cup CentsOf(f, T)) =
             Cardinality(CentsOf(f, S)) + Cardinality(CentsOf(f, T)) - Cardinality({})
  BY <1>1, FS_Union
<1>3. Cardinality({}) = 0
  BY FS_EmptySet
<1>4. Worth(f, S) \in Nat /\ Worth(f, T) \in Nat
  BY FS_CardinalityType DEF Worth
<1>5. CentsOf(f, S \cup T) = CentsOf(f, S) \cup CentsOf(f, T)
  BY CentsOfUnion
<1>6. Worth(f, S \cup T) = Worth(f, S) + Worth(f, T) - 0
  BY <1>2, <1>3, <1>5 DEF Worth
<1>7. IsFiniteSet(CentsOf(f, S \cup T))
  BY <1>2, <1>5
<1>8. Worth(f, S \cup T) = Worth(f, S) + Worth(f, T)
  BY <1>4, <1>6
<1> QED  BY <1>7, <1>8

\* The sum over a set that grows by a member.
LEMMA WorthOfMore ==
    ASSUME NEW f, NEW S, NEW x, x \notin S, f[x] \in Int, IsFiniteSet(CentsOf(f, S))
    PROVE  /\ IsFiniteSet(CentsOf(f, S \cup {x}))
           /\ Worth(f, S) \in Nat
           /\ Worth(f, S \cup {x}) = Worth(f, S) + Part(f[x])
<1>1. S \cap {x} = {}
  OBVIOUS
<1>2. IsFiniteSet(CentsOf(f, {x})) /\ Worth(f, {x}) = Part(f[x])
  BY CentsOfOne
<1>3. /\ IsFiniteSet(CentsOf(f, S \cup {x}))
      /\ Worth(f, S \cup {x}) = Worth(f, S) + Worth(f, {x})
  BY <1>1, <1>2, WorthOfUnion
<1>4. Worth(f, S) \in Nat
  BY FS_CardinalityType DEF Worth
<1> QED  BY <1>2, <1>3, <1>4
----------------------------------------------------------------------------
(***************************************************************************)
(* The ledger.                                                             *)
(***************************************************************************)
USE DEF Columns, RequestTypes, Types, Job, Row, Balance

(***************************************************************************)
(* The arithmetic.                                                         *)
(***************************************************************************)

\* Every operation maps balances to balances.
LEMMA AfterType ==
    ASSUME NEW j \in Job, NEW s \in Balance
    PROVE  After(j, s) \in Balance
  BY DEF After, CreditPending, MoveFromPendingToAvailable, DebitAvailableForPayout,
         DebitForChargeback, DebitForRefund, Absorbed, CreditAvailableByAdjustment

\* The row a transaction inserts is a row.
LEMMA NewRowType ==
    ASSUME NEW j \in Job, NEW s \in Balance
    PROVE  NewRow(j, s) \in Row
  BY DEF NewRow, Absorbed

\* Replaying a row maps balances to balances.
LEMMA ReplayType ==
    ASSUME NEW r \in Row, NEW s \in Balance
    PROVE  Replay(s, r) \in Balance
  BY DEF Replay

\* An operation writes columns of the balance.
LEMMA WrittenType ==
    ASSUME NEW j \in Job
    PROVE  Written(j.type) \subseteq Columns
  BY DEF Written

\* On a column the operation writes, replaying its row over a balance that
\* agrees with the one it read gives the value it stored.
LEMMA ReplayOfWrittenColumn ==
    ASSUME NEW j \in Job, NEW s \in Balance, NEW d \in Balance,
           NEW c \in Written(j.type), s[c] = d[c]
    PROVE  Replay(d, NewRow(j, s))[c] = After(j, s)[c]
  BY DEF Written, Replay, NewRow, After, CreditPending, MoveFromPendingToAvailable,
         DebitAvailableForPayout, DebitForChargeback, DebitForRefund, Absorbed,
         CreditAvailableByAdjustment

\* On every other column, replaying its row changes nothing.
LEMMA ReplayOfOtherColumn ==
    ASSUME NEW j \in Job, NEW s \in Balance, NEW d \in Balance,
           NEW c \in Columns \ Written(j.type)
    PROVE  Replay(d, NewRow(j, s))[c] = d[c]
  BY DEF Written, Replay, NewRow, Absorbed

(***************************************************************************)
(* The inductive invariant.                                                *)
(***************************************************************************)

\* A (reference, type) pair identifies a row.
OneRowPerKey ==
    \A r1, r2 \in rows : r1.ref = r2.ref /\ r1.type = r2.type => r1 = r2

\* A transaction that matures a credit has that credit's account and amount.
JobsPromoteCredits ==
    \A p \in Callers : job[p] # NoJob /\ job[p].type = "MATURE" =>
        \E e \in rows : /\ e.type = "CREDIT_PENDING"
                        /\ e.ref = job[p].ref
                        /\ e.account = job[p].account
                        /\ e.amount = job[p].amount

\* A payout past its read had read enough.
ReadsSuffice ==
    \A p \in Callers : stage[p] = "read" => CanProceed(job[p], snap[p])

IInv ==
    /\ LedgerTypeOK
    /\ OneRowPerKey
    /\ JobsPromoteCredits
    /\ ReadsSuffice
    /\ MaturedIffMoved
    /\ DriftOnlyFromLostUpdates

\* The empty ledger satisfies the inductive invariant.
LEMMA InitIInv == LedgerInit => IInv
  BY DEF LedgerInit, IInv, LedgerTypeOK, OneRowPerKey, JobsPromoteCredits, ReadsSuffice, MaturedIffMoved,
         DriftOnlyFromLostUpdates, Zero

\* Opening, reading and closing a transaction leave the committed data alone.
LEMMA UncommittedStep ==
    ASSUME IInv, NEW p \in Callers,
           \/ \E r \in Postings : Begin(p, r)
           \/ \E entry \in rows : BeginMature(p, entry)
           \/ ReadBalance(p)
           \/ RefusePayout(p)
           \/ Rollback(p)
    PROVE  IInv' /\ UNCHANGED <<balance, rows, replayed, lost>>
<1>1. CASE \E r \in Postings : Begin(p, r)
  BY <1>1, RequestsAssumption
  DEF IInv, LedgerTypeOK, OneRowPerKey, JobsPromoteCredits, ReadsSuffice, MaturedIffMoved,
      DriftOnlyFromLostUpdates, Begin, Open, Posted
<1>2. CASE \E entry \in rows : BeginMature(p, entry)
  BY <1>2, RequestsAssumption
  DEF IInv, LedgerTypeOK, OneRowPerKey, JobsPromoteCredits, ReadsSuffice, MaturedIffMoved,
      DriftOnlyFromLostUpdates, BeginMature, Open, Posted, DueEntries
<1>3. CASE ReadBalance(p)
  BY <1>3
  DEF IInv, LedgerTypeOK, OneRowPerKey, JobsPromoteCredits, ReadsSuffice, MaturedIffMoved,
      DriftOnlyFromLostUpdates, ReadBalance, Posted
<1>4. CASE RefusePayout(p) \/ Rollback(p)
  <2>1. Close(p) /\ UNCHANGED <<balance, rows, replayed, lost>>
    BY <1>4 DEF RefusePayout, Rollback
  <2>2. LedgerTypeOK'
    BY <2>1 DEF IInv, LedgerTypeOK, Close, Zero
  <2>3. JobsPromoteCredits'
    BY <2>1 DEF IInv, LedgerTypeOK, JobsPromoteCredits, Close
  <2>5. ReadsSuffice'
    BY <2>1 DEF IInv, LedgerTypeOK, ReadsSuffice, Close, CanProceed
  <2>4. (OneRowPerKey /\ MaturedIffMoved /\ DriftOnlyFromLostUpdates)'
    BY <2>1 DEF IInv, OneRowPerKey, MaturedIffMoved, DriftOnlyFromLostUpdates, Posted
  <2> QED  BY <2>1, <2>2, <2>3, <2>4, <2>5 DEF IInv
<1> QED  BY <1>1, <1>2, <1>3, <1>4

\* The step that publishes a transaction.
LEMMA CommitStep ==
    ASSUME IInv, NEW p \in Callers, Commit(p)
    PROVE  IInv'
<1> DEFINE j == job[p]
           a == j.account
           s == snap[p]
           new == NewRow(j, s)
<1>1. /\ stage[p] = "read"
      /\ j \in Job
      /\ s \in Balance
      /\ a \in Accounts
      /\ ~Posted(j.ref, j.type)
      /\ balance' = [balance EXCEPT ![a] = Stored(j, s, balance[a])]
      /\ rows' = {Flagged(j, r) : r \in rows} \cup {new}
      /\ replayed' = [replayed EXCEPT ![a] = Replay(replayed[a], new)]
      /\ lost' = [lost EXCEPT ![a] =
                      lost[a] \cup {c \in Written(j.type) : s[c] # balance[a][c]}]
      /\ Close(p)
  BY DEF Commit, IInv, LedgerTypeOK, UniqueIndexAllows
<1> HIDE DEF j, a, s, new
<1>2. /\ new \in Row
      /\ new.type = j.type /\ new.ref = j.ref /\ new.account = a
      /\ new.amount = j.amount /\ new.matured = FALSE
  BY <1>1, NewRowType DEF new, NewRow, a
<1>3. \A r \in rows : /\ Flagged(j, r) \in Row
                      /\ Flagged(j, r).type = r.type
                      /\ Flagged(j, r).ref = r.ref
                      /\ Flagged(j, r).account = r.account
                      /\ Flagged(j, r).amount = r.amount
                      /\ Flagged(j, r).matured =
                            (r.matured \/ (j.type = "MATURE" /\ r.type = "CREDIT_PENDING"
                                             /\ r.ref = j.ref))
  <2> SUFFICES ASSUME NEW r \in rows
               PROVE  /\ Flagged(j, r) \in Row
                      /\ Flagged(j, r).type = r.type
                      /\ Flagged(j, r).ref = r.ref
                      /\ Flagged(j, r).account = r.account
                      /\ Flagged(j, r).amount = r.amount
                      /\ Flagged(j, r).matured =
                            (r.matured \/ (j.type = "MATURE" /\ r.type = "CREDIT_PENDING"
                                             /\ r.ref = j.ref))
    OBVIOUS
  <2>1. r \in Row
    BY DEF IInv, LedgerTypeOK
  <2>2. CASE j.type = "MATURE" /\ r.type = "CREDIT_PENDING" /\ r.ref = j.ref
    <3>1. Flagged(j, r) = [r EXCEPT !.matured = TRUE]
      BY <2>2 DEF Flagged
    <3> QED  BY <2>1, <2>2, <3>1
  <2>3. CASE ~(j.type = "MATURE" /\ r.type = "CREDIT_PENDING" /\ r.ref = j.ref)
    <3>1. Flagged(j, r) = r
      BY <2>3 DEF Flagged
    <3>2. r.matured \in BOOLEAN
      BY <2>1
    <3>3. r.matured = (r.matured \/ (j.type = "MATURE" /\ r.type = "CREDIT_PENDING"
                                       /\ r.ref = j.ref))
      BY <2>3, <3>2
    <3> QED  BY <2>1, <3>1, <3>3
  <2> QED  BY <2>2, <2>3
<1>4. LedgerTypeOK'
  <2>1. balance' \in [Accounts -> Balance]
    <3>1. Stored(j, s, balance[a]) \in Balance
      BY <1>1, AfterType DEF Stored, IInv, LedgerTypeOK
    <3> QED  BY <1>1, <3>1 DEF IInv, LedgerTypeOK
  <2>2. rows' \subseteq Row
    BY <1>1, <1>2, <1>3
  <2>3. replayed' \in [Accounts -> Balance]
    <3>1. Replay(replayed[a], new) \in Balance
      BY <1>1, <1>2, ReplayType DEF IInv, LedgerTypeOK
    <3> QED  BY <1>1, <3>1 DEF IInv, LedgerTypeOK
  <2>4. lost' \in [Accounts -> SUBSET Columns]
    BY <1>1, WrittenType DEF IInv, LedgerTypeOK
  <2>5. /\ stage' \in [Callers -> {"idle", "checked", "read"}]
        /\ job' \in [Callers -> Job \cup {NoJob}]
        /\ snap' \in [Callers -> Balance]
        /\ \A q \in Callers : stage'[q] # "idle" <=> job'[q] # NoJob
    BY <1>1 DEF IInv, LedgerTypeOK, Close, Zero
  <2> QED  BY <2>1, <2>2, <2>3, <2>4, <2>5 DEF LedgerTypeOK
<1>5. OneRowPerKey'
  <2>1. ASSUME NEW r1 \in rows', NEW r2 \in rows', r1.ref = r2.ref, r1.type = r2.type
        PROVE  r1 = r2
    <3>1. CASE r1 = new
      BY <1>1, <1>2, <1>3, <2>1, <3>1 DEF Posted
    <3>2. CASE r2 = new
      BY <1>1, <1>2, <1>3, <2>1, <3>2 DEF Posted
    <3>3. CASE r1 # new /\ r2 # new
      <4>1. PICK o1 \in rows : r1 = Flagged(j, o1)
        BY <1>1, <3>3
      <4>2. PICK o2 \in rows : r2 = Flagged(j, o2)
        BY <1>1, <3>3
      <4>3. o1 = o2
        BY <1>3, <2>1, <4>1, <4>2 DEF IInv, OneRowPerKey
      <4> QED  BY <4>1, <4>2, <4>3
    <3> QED  BY <3>1, <3>2, <3>3
  <2> QED  BY <2>1 DEF OneRowPerKey
<1>6. JobsPromoteCredits'
  <2> SUFFICES ASSUME NEW q \in Callers, job'[q] # NoJob, job'[q].type = "MATURE"
               PROVE  \E e \in rows' : /\ e.type = "CREDIT_PENDING"
                                       /\ e.ref = job'[q].ref
                                       /\ e.account = job'[q].account
                                       /\ e.amount = job'[q].amount
    BY DEF JobsPromoteCredits
  <2>1. q # p /\ job'[q] = job[q]
    BY <1>1 DEF Close, IInv, LedgerTypeOK
  <2>2. PICK e \in rows : /\ e.type = "CREDIT_PENDING"
                          /\ e.ref = job[q].ref
                          /\ e.account = job[q].account
                          /\ e.amount = job[q].amount
    BY <2>1 DEF IInv, JobsPromoteCredits
  <2>3. Flagged(j, e) \in rows'
    BY <1>1
  <2> QED  BY <1>3, <2>1, <2>2, <2>3
<1>7. MaturedIffMoved'
  <2>1. ASSUME NEW r \in rows', r.type = "CREDIT_PENDING"
        PROVE  r.matured <=> Posted(r.ref, "MATURE")'
    <3>1. CASE r = new
      <4>1. ~r.matured
        BY <1>2, <3>1
      <4>2. \A m \in rows : ~(m.type = "MATURE" /\ m.ref = r.ref)
        BY <1>1, <1>2, <2>1, <3>1 DEF IInv, MaturedIffMoved, Posted
      <4>3. ~Posted(r.ref, "MATURE")'
        BY <1>1, <1>2, <1>3, <2>1, <3>1, <4>2 DEF Posted
      <4> QED  BY <4>1, <4>3
    <3>2. CASE r # new
      <4>1. PICK o \in rows : r = Flagged(j, o)
        BY <1>1, <3>2
      <4>2. o.type = "CREDIT_PENDING" /\ o.ref = r.ref
        BY <1>3, <2>1, <4>1
      <4>3. o.matured <=> Posted(r.ref, "MATURE")
        BY <4>2 DEF IInv, MaturedIffMoved
      <4>4. r.matured <=> o.matured \/ (j.type = "MATURE" /\ j.ref = r.ref)
        BY <1>3, <4>1, <4>2
      <4>5. Posted(r.ref, "MATURE")' <=>
                Posted(r.ref, "MATURE") \/ (j.type = "MATURE" /\ j.ref = r.ref)
        BY <1>1, <1>2, <1>3 DEF Posted
      <4> QED  BY <4>3, <4>4, <4>5
    <3> QED  BY <3>1, <3>2
  <2>2. ASSUME NEW m \in rows', m.type = "MATURE"
        PROVE  \E e \in rows' : /\ e.type = "CREDIT_PENDING"
                                /\ e.ref = m.ref
                                /\ e.account = m.account
                                /\ e.amount = m.amount
    <3>1. PICK e \in rows : /\ e.type = "CREDIT_PENDING"
                            /\ e.ref = m.ref
                            /\ e.account = m.account
                            /\ e.amount = m.amount
      <4>1. CASE m = new
        <5>1. j # NoJob /\ j.type = "MATURE"
          BY <1>1, <1>2, <2>2, <4>1, RequestsAssumption
        <5> QED  BY <1>2, <4>1, <5>1 DEF IInv, JobsPromoteCredits, j, a
      <4>2. CASE m # new
        <5>1. PICK o \in rows : m = Flagged(j, o)
          BY <1>1, <4>2
        <5> QED  BY <1>3, <2>2, <5>1 DEF IInv, MaturedIffMoved
      <4> QED  BY <4>1, <4>2
    <3>2. Flagged(j, e) \in rows'
      BY <1>1
    <3> QED  BY <1>3, <3>1, <3>2
  <2> QED  BY <2>1, <2>2 DEF MaturedIffMoved
<1>8. DriftOnlyFromLostUpdates'
  <2> SUFFICES ASSUME NEW b \in Accounts, NEW c \in Columns \ lost'[b]
               PROVE  balance'[b][c] = replayed'[b][c]
    BY DEF DriftOnlyFromLostUpdates
  <2>0. replayed[a] \in Balance
    BY <1>1 DEF IInv, LedgerTypeOK
  <2>1. CASE b # a
    BY <1>1, <2>1 DEF IInv, LedgerTypeOK, DriftOnlyFromLostUpdates
  <2>2. CASE b = a /\ c \in Written(j.type)
    <3>1. lost'[a] = lost[a] \cup {d \in Written(j.type) : s[d] # balance[a][d]}
      BY <1>1 DEF IInv, LedgerTypeOK
    <3>2. s[c] = balance[a][c] /\ balance[a][c] = replayed[a][c]
      BY <1>1, <2>2, <3>1 DEF IInv, DriftOnlyFromLostUpdates
    <3>3. Replay(replayed[a], new)[c] = After(j, s)[c]
      BY ONLY <1>1, <2>0, <2>2, <3>2, ReplayOfWrittenColumn DEF new
    <3>4. balance'[a][c] = After(j, s)[c]
      BY <1>1, <2>2 DEF Stored, IInv, LedgerTypeOK
    <3>5. replayed'[a] = Replay(replayed[a], new)
      BY <1>1 DEF IInv, LedgerTypeOK
    <3> QED  BY <2>2, <3>3, <3>4, <3>5
  <2>3. CASE b = a /\ c \notin Written(j.type)
    <3>1. balance[a][c] = replayed[a][c]
      BY <1>1, <2>3 DEF IInv, LedgerTypeOK, DriftOnlyFromLostUpdates
    <3>2. Replay(replayed[a], new)[c] = replayed[a][c]
      BY ONLY <1>1, <2>0, <2>3, ReplayOfOtherColumn DEF new
    <3>3. balance'[a][c] = balance[a][c]
      BY <1>1, <2>3 DEF Stored, IInv, LedgerTypeOK
    <3> QED  BY <1>1, <2>3, <3>1, <3>2, <3>3 DEF IInv, LedgerTypeOK
  <2> QED  BY <2>1, <2>2, <2>3
<1>9. ReadsSuffice'
  BY <1>1 DEF IInv, LedgerTypeOK, ReadsSuffice, Close, CanProceed
<1> QED  BY <1>4, <1>5, <1>6, <1>7, <1>8, <1>9 DEF IInv

\* So does a step that changes nothing.
LEMMA StutterStep ==
    ASSUME IInv, UNCHANGED ledgerVars
    PROVE  IInv'
  BY DEF ledgerVars, IInv, LedgerTypeOK, OneRowPerKey, JobsPromoteCredits, ReadsSuffice, MaturedIffMoved,
         DriftOnlyFromLostUpdates, Posted, CanProceed

\* The inductive invariant holds in every reachable state.
LEMMA SpecIInv == LedgerSpec => []IInv
<1>1. IInv /\ [LedgerNext]_ledgerVars => IInv'
  BY UncommittedStep, CommitStep, StutterStep DEF LedgerNext
<1> QED  BY InitIInv, <1>1, PTL DEF LedgerSpec

\* The variables keep their types and a process outside a transaction has no job.
THEOREM LedgerTypes == LedgerSpec => []LedgerTypeOK
  BY SpecIInv, PTL DEF IInv

\* Overwritten updates are the only cause of drift between the stored
\* balances and the replay of their rows.
THEOREM LedgerDrift == LedgerSpec => []DriftOnlyFromLostUpdates
  BY SpecIInv, PTL DEF IInv

\* No interleaving of crons moves a credit twice or flags it without moving it.
THEOREM LedgerMaturation == LedgerSpec => []MaturedIffMoved
  BY SpecIInv, PTL DEF IInv


(***************************************************************************)
(* The rows implement the journal.                                         *)
(***************************************************************************)
\* A commit appends one row, or promotes one credit.
LEMMA CommitIsJournalStep ==
    ASSUME IInv, NEW p \in Callers, Commit(p)
    PROVE  JournalOfRows!Next
<1> DEFINE j == job[p]
           new == NewRow(j, snap[p])
<1>1. /\ j \in Job
      /\ snap[p] \in Balance
      /\ ~Posted(j.ref, j.type)
      /\ rows' = {Flagged(j, r) : r \in rows} \cup {new}
  BY DEF Commit, IInv, LedgerTypeOK, UniqueIndexAllows
<1> HIDE DEF j
<1>2. /\ new.type = j.type /\ new.ref = j.ref /\ new.account = j.account
      /\ new.amount = j.amount /\ new.matured = FALSE
  BY DEF NewRow
<1> HIDE DEF new
<1>3. CASE j.type # "MATURE"
  <2>1. \A r \in rows : Flagged(j, r) = r
    BY <1>3 DEF Flagged
  <2>2. rows' = rows \cup {new}
    BY <1>1, <2>1
  <2>3. ~JournalOfRows!Posted(new.ref, new.type)
    BY <1>1, <1>2 DEF Posted, JournalOfRows!Posted
  <2>4. new \in rows'
    BY <2>2
  <2>5. JournalOfRows!Append
    BY <1>2, <1>3, <2>2, <2>3, <2>4 DEF JournalOfRows!Append
  <2> QED  BY <2>5 DEF JournalOfRows!Next
<1>4. CASE j.type = "MATURE"
  <2>1. j # NoJob
    BY <1>1, RequestsAssumption
  <2>2. PICK credit \in rows : /\ credit.type = "CREDIT_PENDING"
                               /\ credit.ref = j.ref
                               /\ credit.account = j.account
                               /\ credit.amount = j.amount
    BY <1>4, <2>1 DEF IInv, JobsPromoteCredits, j
  <2>3. ~credit.matured
    BY <1>1, <1>4, <2>2 DEF IInv, MaturedIffMoved
  <2>4. Flagged(j, credit) = [credit EXCEPT !.matured = TRUE]
    BY <1>4, <2>2 DEF Flagged
  <2>5. \A r \in rows \ {credit} : Flagged(j, r) = r
    BY <2>2 DEF Flagged, IInv, OneRowPerKey
  <2>6. rows' = (rows \ {credit}) \cup {[credit EXCEPT !.matured = TRUE], new}
    <3>1. {Flagged(j, r) : r \in rows} =
              (rows \ {credit}) \cup {[credit EXCEPT !.matured = TRUE]}
      BY <2>4, <2>5
    <3> QED  BY <1>1, <3>1
  <2>7. new \in rows'
    BY <2>6
  <2>8. ~JournalOfRows!Posted(credit.ref, "MATURE")
    BY <1>1, <1>4, <2>2 DEF Posted, JournalOfRows!Posted
  <2>9. JournalOfRows!Promote
    BY <1>2, <1>4, <2>2, <2>3, <2>6, <2>7, <2>8 DEF JournalOfRows!Promote
  <2> QED  BY <2>9 DEF JournalOfRows!Next
<1> QED  BY <1>3, <1>4

\* The separate check, read and insert of concurrent callers implement the
\* append-only journal with one posting per (reference, type).
THEOREM LedgerImplementsJournal == LedgerSpec => ImplementsJournal
<1>1. LedgerInit => JournalOfRows!Init
  BY DEF LedgerInit, JournalOfRows!Init
<1>2. IInv /\ [LedgerNext]_ledgerVars => [JournalOfRows!Next]_rows
  BY UncommittedStep, CommitIsJournalStep DEF LedgerNext, ledgerVars
<1> QED
  BY <1>1, <1>2, SpecIInv, PTL DEF LedgerSpec, ImplementsJournal, JournalOfRows!Spec

(***************************************************************************)
(* With a single writer nothing is overwritten, hence nothing drifts.      *)
(***************************************************************************)
SingleWriter == \A p, q \in Callers : p = q

\* What the writer read is still what is stored.
ReadIsCurrent ==
    \A p \in Callers : stage[p] = "read" => snap[p] = balance[job[p].account]

SerialInv == /\ IInv
             /\ ReadIsCurrent
             /\ \A a \in Accounts : lost[a] = {}

\* Columns that are not lost do not drift, and here none is.
LEMMA NothingLostNoDrift == SerialInv => NoDrift
<1> SUFFICES ASSUME SerialInv, NEW a \in Accounts
             PROVE  balance[a] = replayed[a]
  BY DEF NoDrift
<1>1. balance[a] \in Balance /\ replayed[a] \in Balance
  BY DEF SerialInv, IInv, LedgerTypeOK
<1>2. \A c \in Columns : balance[a][c] = replayed[a][c]
  BY DEF SerialInv, IInv, DriftOnlyFromLostUpdates
<1> QED  BY <1>1, <1>2

\* With one caller at a time no transaction's read goes stale, so every step
\* keeps the ledger free of overwritten updates.
LEMMA SerialStep ==
    ASSUME SingleWriter, SerialInv, [LedgerNext]_ledgerVars
    PROVE  SerialInv'
<1>1. IInv'
  BY UncommittedStep, CommitStep, StutterStep DEF LedgerNext, SerialInv
<1>2. CASE UNCHANGED ledgerVars
  BY <1>1, <1>2 DEF SerialInv, ReadIsCurrent, ledgerVars
<1>3. ASSUME NEW p \in Callers, Commit(p)
      PROVE  SerialInv'
  <2> DEFINE j == job[p]
  <2>1. /\ j \in Job
        /\ snap[p] = balance[j.account]
        /\ lost' = [lost EXCEPT ![j.account] = lost[j.account] \cup
                        {c \in Written(j.type) : snap[p][c] # balance[j.account][c]}]
        /\ stage'[p] = "idle"
    BY <1>3 DEF SerialInv, ReadIsCurrent, IInv, LedgerTypeOK, Commit, Close
  <2>2. \A a \in Accounts : lost'[a] = {}
    BY <2>1 DEF SerialInv, IInv, LedgerTypeOK
  <2>3. ReadIsCurrent'
    BY <2>1 DEF SingleWriter, ReadIsCurrent
  <2> QED  BY <1>1, <2>2, <2>3 DEF SerialInv
<1>4. ASSUME NEW p \in Callers,
             \/ \E r \in Postings : Begin(p, r)
             \/ \E entry \in rows : BeginMature(p, entry)
             \/ ReadBalance(p)
             \/ RefusePayout(p)
             \/ Rollback(p)
      PROVE  SerialInv'
  <2>1. UNCHANGED <<balance, rows, replayed, lost>>
    BY <1>4, UncommittedStep DEF SerialInv
  <2>2. ReadIsCurrent'
    <3>1. ASSUME ReadBalance(p) PROVE ReadIsCurrent'
      BY <3>1, <2>1
      DEF SerialInv, SingleWriter, ReadIsCurrent, ReadBalance, CanProceed, IInv, LedgerTypeOK
    <3>2. ASSUME ~ReadBalance(p) PROVE stage'[p] # "read"
      BY <1>4, <3>2
      DEF SerialInv, IInv, LedgerTypeOK, Begin, BeginMature, Open, RefusePayout, Rollback, Close
    <3> QED  BY <3>1, <3>2 DEF SingleWriter, ReadIsCurrent
  <2> QED  BY <1>1, <2>1, <2>2 DEF SerialInv
<1> QED  BY <1>2, <1>3, <1>4 DEF LedgerNext

\* The strengthened invariant holds throughout a run with one caller.
LEMMA SpecSerialInv ==
    ASSUME SingleWriter
    PROVE  LedgerSpec => []SerialInv
<1>1. LedgerInit => SerialInv
  BY InitIInv DEF SerialInv, ReadIsCurrent, LedgerInit
<1>2. SerialInv /\ [LedgerNext]_ledgerVars => SerialInv'
  BY SerialStep
<1> QED  BY <1>1, <1>2, PTL DEF LedgerSpec

\* With one caller at a time the stored balances are exactly what replaying
\* the rows gives, for every sequence of calls, retries and rollbacks.
THEOREM SerialLedgerNeverDrifts ==
    ASSUME SingleWriter
    PROVE  LedgerSpec => []NoDrift
  BY SpecSerialInv, NothingLostNoDrift, PTL

(***************************************************************************)
(* Payouts, with any number of callers.                                    *)
(***************************************************************************)
\* The step that posts a payout whose account lost no change of AVAILABLE.
LEMMA PayoutStep ==
    ASSUME IInv, NEW p \in Callers, Commit(p), NEW r \in rows' \ rows,
           r.type = "DEBIT_PAYOUT", "available" \notin lost'[r.account]
    PROVE  replayed'[r.account]["available"] >= 0
<1> DEFINE j == job[p]
           s == snap[p]
           a == j.account
           new == NewRow(j, s)
<1>1. /\ j \in Job
      /\ s \in Balance
      /\ CanProceed(j, s)
      /\ rows' = {Flagged(j, o) : o \in rows} \cup {new}
      /\ replayed' = [replayed EXCEPT ![a] = Replay(replayed[a], new)]
      /\ lost'[a] = lost[a] \cup {c \in Written(j.type) : s[c] # balance[a][c]}
  BY DEF IInv, LedgerTypeOK, ReadsSuffice, Commit
<1>2. ASSUME NEW o \in rows, r = Flagged(j, o) PROVE FALSE
  BY <1>2 DEF Flagged, IInv, LedgerTypeOK
<1>3. r = new
  BY <1>1, <1>2
<1>4. r.account = a /\ j.type = "DEBIT_PAYOUT" /\ r.amount = j.amount
  BY <1>3 DEF NewRow
<1>5. s["available"] = balance[a]["available"] /\ "available" \notin lost[a]
  BY <1>1, <1>4 DEF Written
<1>6. replayed[a]["available"] = s["available"]
  BY <1>1, <1>5 DEF IInv, DriftOnlyFromLostUpdates
<1>7. s["available"] >= j.amount
  BY <1>1, <1>4 DEF CanProceed
<1>8. Replay(replayed[a], new)["available"] = replayed[a]["available"] - j.amount
  BY <1>1, <1>4 DEF Replay, NewRow, IInv, LedgerTypeOK
<1>9. replayed'[a] = Replay(replayed[a], new)
  BY <1>1 DEF IInv, LedgerTypeOK
<1>10. s["available"] \in Int /\ j.amount \in Nat
  BY <1>1
<1> HIDE DEF j, s, a, new
<1> QED  BY <1>4, <1>6, <1>7, <1>8, <1>9, <1>10

\* However many callers race, a payout that finds no overwritten AVAILABLE
\* leaves the ledger's AVAILABLE at zero or above.
THEOREM LedgerPayoutsAreCovered == LedgerSpec => PayoutsAreCovered
<1>1. ASSUME IInv, [LedgerNext]_ledgerVars
      PROVE  [\A r \in rows' \ rows :
                r.type = "DEBIT_PAYOUT" /\ "available" \notin lost'[r.account] =>
                    replayed'[r.account]["available"] >= 0]_ledgerVars
  <2>1. CASE UNCHANGED ledgerVars
    BY <2>1
  <2>2. ASSUME NEW p \in Callers, Commit(p)
        PROVE  \A r \in rows' \ rows :
                 r.type = "DEBIT_PAYOUT" /\ "available" \notin lost'[r.account] =>
                     replayed'[r.account]["available"] >= 0
    BY <1>1, <2>2, PayoutStep
  <2>3. ASSUME NEW p \in Callers,
               \/ \E q \in Postings : Begin(p, q)
               \/ \E entry \in rows : BeginMature(p, entry)
               \/ ReadBalance(p)
               \/ RefusePayout(p)
               \/ Rollback(p)
        PROVE  rows' = rows
    BY <1>1, <2>3, UncommittedStep
  <2> QED  BY <1>1, <2>1, <2>2, <2>3 DEF LedgerNext
<1> QED  BY <1>1, SpecIInv, PTL DEF LedgerSpec, PayoutsAreCovered


(***************************************************************************)
(* What PENDING is made of.  A commit posts one row, and a promotion also  *)
(* replaces its credit by the flagged one; the sums over an account's rows *)
(* and over its pending credits change by the cents of those rows.         *)
(***************************************************************************)
OnlyDebitsTake ==
    \A r \in rows : r.type \notin {"DEBIT_CHARGEBACK", "DEBIT_REFUND"} => r.fromPending = 0

PendingInv ==
    /\ OnlyDebitsTake
    /\ \A f \in {AmountOf, Taken, GivenBack} : IsFiniteSet(CentsOf(f, rows))
    /\ PendingIsAccountedFor

\* A function that gives every row a number of cents.
LEMMA RowCents ==
    ASSUME NEW r \in Row
    PROVE  /\ AmountOf[r] = r.amount /\ r.amount \in Nat \ {0}
           /\ Taken[r] = r.fromPending /\ GivenBack[r] = -r.fromPending
           /\ r.fromPending \in Int
           /\ AmountOf[r] \in Int /\ Taken[r] \in Int /\ GivenBack[r] \in Int
  BY DEF AmountOf, Taken, GivenBack

\* The change of the stored PENDING, when nothing was overwritten.
LEMMA PendingChange ==
    ASSUME IInv, NEW p \in Callers, Commit(p), NEW a \in Accounts, "pending" \notin lost'[a]
    PROVE  /\ "pending" \notin lost[a]
           /\ job[p].account # a => balance'[a] = balance[a]
           /\ job[p].account = a =>
                balance'[a]["pending"] =
                    balance[a]["pending"]
                      + (IF job[p].type = "CREDIT_PENDING" THEN job[p].amount ELSE 0)
                      - (IF job[p].type = "MATURE" THEN job[p].amount ELSE 0)
                      - NewRow(job[p], snap[p]).fromPending
<1> DEFINE j == job[p]
           s == snap[p]
<1>1. /\ j \in Job /\ s \in Balance /\ j.account \in Accounts
      /\ balance \in [Accounts -> Balance] /\ lost \in [Accounts -> SUBSET Columns]
      /\ balance' = [balance EXCEPT ![j.account] = Stored(j, s, balance[j.account])]
      /\ lost' = [lost EXCEPT ![j.account] =
                      lost[j.account] \cup {c \in Written(j.type) : s[c] # balance[j.account][c]}]
  BY DEF Commit, IInv, LedgerTypeOK
<1> HIDE DEF j, s
<1>2. "pending" \notin lost[a]
  BY <1>1
<1>3. CASE j.account # a
  BY <1>1, <1>2, <1>3 DEF j
<1>4. CASE j.account = a
  <2>1. balance'[a] = Stored(j, s, balance[a])
    BY <1>1, <1>4
  <2>2. "pending" \in Written(j.type) => s["pending"] = balance[a]["pending"]
    BY <1>1, <1>4
  <2>3. balance[a]["pending"] \in Int /\ s["pending"] \in Int /\ j.amount \in Int
    BY <1>1
  <2>4. balance'[a]["pending"] =
            IF "pending" \in Written(j.type) THEN After(j, s)["pending"] ELSE balance[a]["pending"]
    BY <2>1 DEF Stored
  <2>5. balance'[a]["pending"] =
            balance[a]["pending"]
              + (IF j.type = "CREDIT_PENDING" THEN j.amount ELSE 0)
              - (IF j.type = "MATURE" THEN j.amount ELSE 0)
              - NewRow(j, s).fromPending
    <3>1. CASE j.type = "CREDIT_PENDING"
      BY <1>1, <2>2, <2>3, <2>4, <3>1 DEF Written, After, CreditPending, NewRow
    <3>2. CASE j.type = "MATURE"
      BY <1>1, <2>2, <2>3, <2>4, <3>2 DEF Written, After, MoveFromPendingToAvailable, NewRow
    <3>3. CASE j.type \in {"DEBIT_CHARGEBACK", "DEBIT_REFUND"}
      <4>1. Absorbed(s, j.amount) \in Int
        BY <2>3 DEF Absorbed
      <4>2. After(j, s)["pending"] = s["pending"] - Absorbed(s, j.amount)
        BY <1>1, <3>3 DEF After, DebitForRefund, DebitForChargeback
      <4>3. "pending" \in Written(j.type) /\ NewRow(j, s).fromPending = Absorbed(s, j.amount)
        BY <3>3 DEF Written, NewRow
      <4> QED  BY <2>2, <2>3, <2>4, <3>3, <4>1, <4>2, <4>3
    <3>4. CASE j.type \in {"DEBIT_PAYOUT", "ADJUSTMENT"}
      BY <2>3, <2>4, <3>4 DEF Written, NewRow
    <3> QED  BY <1>1, <3>1, <3>2, <3>3, <3>4
  <2> QED  BY <1>2, <1>4, <2>5 DEF j, s
<1> QED  BY <1>3, <1>4

\* The rows after a commit.
LEMMA CommitRows ==
    ASSUME IInv, NEW p \in Callers, Commit(p)
    PROVE  LET new == NewRow(job[p], snap[p])
           IN  /\ new \in Row /\ new \notin rows /\ ~new.matured
               /\ new.type = job[p].type /\ new.account = job[p].account
               /\ new.amount = job[p].amount
               /\ new.type \notin {"DEBIT_CHARGEBACK", "DEBIT_REFUND"} => new.fromPending = 0
               /\ new.type # "MATURE" => rows' = rows \cup {new}
               /\ new.type = "MATURE" =>
                    \E e \in DueEntries :
                        /\ e.account = new.account /\ e.amount = new.amount
                        /\ rows' = (rows \ {e}) \cup {[e EXCEPT !.matured = TRUE]} \cup {new}
                        /\ [e EXCEPT !.matured = TRUE] \notin rows
<1> DEFINE j == job[p]
           new == NewRow(j, snap[p])
<1>1. /\ j \in Job
      /\ snap[p] \in Balance
      /\ ~Posted(j.ref, j.type)
      /\ rows' = {Flagged(j, r) : r \in rows} \cup {new}
      /\ rows \subseteq Row
  BY DEF Commit, IInv, LedgerTypeOK, UniqueIndexAllows
<1> HIDE DEF j
<1>2. /\ new.type = j.type /\ new.ref = j.ref /\ new.account = j.account
      /\ new.amount = j.amount /\ new.matured = FALSE
      /\ new.type \notin {"DEBIT_CHARGEBACK", "DEBIT_REFUND"} => new.fromPending = 0
  BY DEF NewRow
<1>3. new \in Row
  BY <1>1, NewRowType
<1> HIDE DEF new
<1>4. new \notin rows
  BY <1>1, <1>2 DEF Posted
<1>5. ASSUME j.type # "MATURE" PROVE rows' = rows \cup {new}
  <2>1. \A r \in rows : Flagged(j, r) = r
    BY <1>5 DEF Flagged
  <2> QED  BY <1>1, <2>1
<1>6. ASSUME j.type = "MATURE"
      PROVE  \E e \in DueEntries :
                /\ e.account = new.account /\ e.amount = new.amount
                /\ rows' = (rows \ {e}) \cup {[e EXCEPT !.matured = TRUE]} \cup {new}
                /\ [e EXCEPT !.matured = TRUE] \notin rows
  <2>1. j # NoJob
    BY <1>1, RequestsAssumption
  <2>2. PICK e \in rows : /\ e.type = "CREDIT_PENDING"
                          /\ e.ref = j.ref
                          /\ e.account = j.account
                          /\ e.amount = j.amount
    BY <1>6, <2>1 DEF IInv, JobsPromoteCredits, j
  <2>3. ~e.matured
    BY <1>1, <1>6, <2>2 DEF IInv, MaturedIffMoved
  <2>4. Flagged(j, e) = [e EXCEPT !.matured = TRUE]
    BY <1>6, <2>2 DEF Flagged
  <2>5. \A r \in rows \ {e} : Flagged(j, r) = r
    BY <2>2 DEF Flagged, IInv, OneRowPerKey
  <2>6. {Flagged(j, r) : r \in rows} = (rows \ {e}) \cup {[e EXCEPT !.matured = TRUE]}
    BY <2>4, <2>5
  <2>7. rows' = (rows \ {e}) \cup {[e EXCEPT !.matured = TRUE]} \cup {new}
    BY <1>1, <2>6
  <2>8. [e EXCEPT !.matured = TRUE] \notin rows
    <3>1. e \in Row
      BY <1>1
    <3>2. /\ [e EXCEPT !.matured = TRUE].ref = e.ref
          /\ [e EXCEPT !.matured = TRUE].type = e.type
          /\ [e EXCEPT !.matured = TRUE].matured = TRUE
      BY <3>1
    <3> QED  BY <2>2, <2>3, <3>2 DEF IInv, OneRowPerKey
  <2>9. e \in DueEntries
    BY <2>2, <2>3 DEF DueEntries
  <2> QED  BY <1>2, <2>2, <2>7, <2>8, <2>9
<1> QED  BY <1>2, <1>3, <1>4, <1>5, <1>6 DEF new, j

\* A row that joins a set of rows: its cents join the sums.
LEMMA OneMoreRow ==
    ASSUME NEW S, NEW r \in Row \ S, NEW f \in {AmountOf, Taken, GivenBack},
           IsFiniteSet(CentsOf(f, S))
    PROVE  /\ IsFiniteSet(CentsOf(f, S \cup {r}))
           /\ Worth(f, S) \in Nat
           /\ Worth(f, S \cup {r}) = Worth(f, S) + Part(f[r])
<1>1. f[r] \in Int
  BY RowCents
<1> QED  BY <1>1, WorthOfMore

\* The sums after a commit that is no promotion.
LEMMA PostedSums ==
    ASSUME IInv, PendingInv, NEW new \in Row \ rows, new.type # "MATURE", rows' = rows \cup {new},
           ~new.matured, NEW a \in Accounts
    PROVE  /\ \A f \in {AmountOf, Taken, GivenBack} : IsFiniteSet(CentsOf(f, rows'))
           /\ \A f \in {Taken, GivenBack} :
                Worth(f, RowsOf(a)') =
                    Worth(f, RowsOf(a)) + (IF new.account = a THEN Part(f[new]) ELSE 0)
           /\ Worth(AmountOf, RowsOf(a)' \cap DueEntries') =
                Worth(AmountOf, RowsOf(a) \cap DueEntries)
                  + (IF new.account = a /\ new.type = "CREDIT_PENDING" THEN new.amount ELSE 0)
<1>1. /\ rows \subseteq Row
      /\ \A f \in {AmountOf, Taken, GivenBack} : IsFiniteSet(CentsOf(f, rows))
  BY DEF IInv, LedgerTypeOK, PendingInv
<1>2. ASSUME NEW f \in {AmountOf, Taken, GivenBack}, NEW S \in SUBSET rows
      PROVE  /\ IsFiniteSet(CentsOf(f, S)) /\ Worth(f, S) \in Nat
             /\ IsFiniteSet(CentsOf(f, S \cup {new}))
             /\ Worth(f, S \cup {new}) = Worth(f, S) + Part(f[new])
  <2>1. IsFiniteSet(CentsOf(f, S)) /\ new \in Row \ S
    BY <1>1, CentsWithin
  <2> QED  BY <2>1, OneMoreRow
<1>3. \A f \in {AmountOf, Taken, GivenBack} : IsFiniteSet(CentsOf(f, rows'))
  BY <1>2
<1>4. ASSUME NEW f \in {Taken, GivenBack}
      PROVE  Worth(f, RowsOf(a)') =
                Worth(f, RowsOf(a)) + (IF new.account = a THEN Part(f[new]) ELSE 0)
  <2>1. RowsOf(a) \in SUBSET rows
    BY DEF RowsOf
  <2>2. CASE new.account = a
    <3>1. RowsOf(a)' = RowsOf(a) \cup {new}
      BY <2>2 DEF RowsOf
    <3> QED  BY <1>2, <2>1, <2>2, <3>1
  <2>3. CASE new.account # a
    <3>1. RowsOf(a)' = RowsOf(a)
      BY <2>3 DEF RowsOf
    <3>2. Worth(f, RowsOf(a)) \in Nat
      BY <1>2, <2>1
    <3> QED  BY <2>3, <3>1, <3>2
  <2> QED  BY <2>2, <2>3
<1>5. Worth(AmountOf, RowsOf(a)' \cap DueEntries') =
          Worth(AmountOf, RowsOf(a) \cap DueEntries)
            + (IF new.account = a /\ new.type = "CREDIT_PENDING" THEN new.amount ELSE 0)
  <2> DEFINE D == RowsOf(a) \cap DueEntries
  <2>1. D \in SUBSET rows
    BY DEF RowsOf
  <2>2. CASE new.account = a /\ new.type = "CREDIT_PENDING"
    <3>1. RowsOf(a)' \cap DueEntries' = D \cup {new}
      BY <2>2 DEF RowsOf, DueEntries
    <3>2. Part(AmountOf[new]) = new.amount
      BY RowCents DEF Part
    <3>3. Worth(AmountOf, D \cup {new}) = Worth(AmountOf, D) + Part(AmountOf[new])
      BY <1>2, <2>1
    <3> QED  BY <2>2, <3>1, <3>2, <3>3
  <2>3. CASE ~(new.account = a /\ new.type = "CREDIT_PENDING")
    <3>1. RowsOf(a)' \cap DueEntries' = D
      BY <2>3 DEF RowsOf, DueEntries
    <3>2. Worth(AmountOf, D) \in Nat
      BY <1>2, <2>1
    <3> QED  BY <2>3, <3>1, <3>2
  <2> QED  BY <2>2, <2>3
<1> QED  BY <1>3, <1>4, <1>5

\* The sums after a promotion: the credit, its flagged copy and the promotion
\* took nothing from PENDING, and one credit less is due.
LEMMA PromotedSums ==
    ASSUME IInv, PendingInv, NEW new \in Row \ rows, new.type = "MATURE", new.fromPending = 0,
           NEW e \in DueEntries, e.account = new.account, e.amount = new.amount,
           rows' = (rows \ {e}) \cup {[e EXCEPT !.matured = TRUE]} \cup {new},
           [e EXCEPT !.matured = TRUE] \notin rows, NEW a \in Accounts
    PROVE  /\ \A f \in {AmountOf, Taken, GivenBack} : IsFiniteSet(CentsOf(f, rows'))
           /\ \A f \in {Taken, GivenBack} : Worth(f, RowsOf(a)') = Worth(f, RowsOf(a))
           /\ Worth(AmountOf, RowsOf(a)' \cap DueEntries') =
                Worth(AmountOf, RowsOf(a) \cap DueEntries)
                  - (IF new.account = a THEN new.amount ELSE 0)
<1> DEFINE e2 == [e EXCEPT !.matured = TRUE]
<1>1. /\ rows \subseteq Row
      /\ \A f \in {AmountOf, Taken, GivenBack} : IsFiniteSet(CentsOf(f, rows))
  BY DEF IInv, LedgerTypeOK, PendingInv
<1>2. /\ e \in rows /\ e \in Row /\ e.type = "CREDIT_PENDING" /\ ~e.matured /\ e.fromPending = 0
  BY <1>1 DEF DueEntries, PendingInv, OnlyDebitsTake
<1>3. /\ e2 \in Row /\ e2.account = e.account /\ e2.type = e.type /\ e2.matured
      /\ e2.fromPending = 0 /\ e2 # new
  BY <1>2
<1> HIDE DEF e2
<1>4. \A f \in {Taken, GivenBack} : f[e] = 0 /\ f[e2] = 0 /\ f[new] = 0
  BY <1>2, <1>3, RowCents
<1>5. ASSUME NEW f \in {AmountOf, Taken, GivenBack}, NEW S \in SUBSET (rows \ {e})
      PROVE  /\ IsFiniteSet(CentsOf(f, S)) /\ Worth(f, S) \in Nat
             /\ Worth(f, S \cup {e}) = Worth(f, S) + Part(f[e])
             /\ IsFiniteSet(CentsOf(f, S \cup {e2} \cup {new}))
             /\ Worth(f, S \cup {e2} \cup {new}) = Worth(f, S) + Part(f[e2]) + Part(f[new])
  <2>1. IsFiniteSet(CentsOf(f, S))
    BY <1>1, CentsWithin
  <2>2. e2 \notin rows /\ new \notin rows
    BY DEF e2
  <2>3. e \in Row \ S /\ e2 \in Row \ S /\ new \in Row \ (S \cup {e2})
    BY <1>2, <1>3, <2>2
  <2>4. /\ IsFiniteSet(CentsOf(f, S \cup {e2}))
        /\ Worth(f, S) \in Nat /\ Worth(f, S \cup {e2}) = Worth(f, S) + Part(f[e2])
    <3>1. e2 \in Row \ S
      BY <2>3
    <3> QED  BY <2>1, <3>1, OneMoreRow
  <2>5. Worth(f, S \cup {e}) = Worth(f, S) + Part(f[e])
    <3>1. e \in Row \ S
      BY <2>3
    <3> QED  BY <2>1, <3>1, OneMoreRow
  <2>6. /\ IsFiniteSet(CentsOf(f, S \cup {e2} \cup {new}))
        /\ Worth(f, S \cup {e2} \cup {new}) = Worth(f, S \cup {e2}) + Part(f[new])
    BY <2>3, <2>4, OneMoreRow
  <2> QED  BY <2>1, <2>4, <2>5, <2>6
<1>6. rows' = (rows \ {e}) \cup {e2} \cup {new}
  BY DEF e2
<1>7. \A f \in {AmountOf, Taken, GivenBack} : IsFiniteSet(CentsOf(f, rows'))
  BY <1>5, <1>6
<1>8. ASSUME NEW f \in {Taken, GivenBack} PROVE Worth(f, RowsOf(a)') = Worth(f, RowsOf(a))
  <2>1. CASE new.account = a
    <3>1. /\ RowsOf(a) = (RowsOf(a) \ {e}) \cup {e}
          /\ RowsOf(a)' = (RowsOf(a) \ {e}) \cup {e2} \cup {new}
          /\ RowsOf(a) \ {e} \in SUBSET (rows \ {e})
      BY <1>2, <1>3, <1>6, <2>1 DEF RowsOf
    <3>2. Part(f[e]) = 0 /\ Part(f[e2]) = 0 /\ Part(f[new]) = 0
      BY <1>4 DEF Part
    <3>3. /\ Worth(f, RowsOf(a) \ {e}) \in Nat
          /\ Worth(f, (RowsOf(a) \ {e}) \cup {e}) = Worth(f, RowsOf(a) \ {e}) + Part(f[e])
          /\ Worth(f, (RowsOf(a) \ {e}) \cup {e2} \cup {new}) =
                Worth(f, RowsOf(a) \ {e}) + Part(f[e2]) + Part(f[new])
      BY <1>5, <3>1
    <3>4. /\ Worth(f, (RowsOf(a) \ {e}) \cup {e}) = Worth(f, RowsOf(a) \ {e})
          /\ Worth(f, (RowsOf(a) \ {e}) \cup {e2} \cup {new}) = Worth(f, RowsOf(a) \ {e})
      BY <3>2, <3>3
    <3> QED  BY <3>1, <3>4
  <2>2. CASE new.account # a
    <3>1. RowsOf(a)' = RowsOf(a)
      BY <1>3, <1>6, <2>2 DEF RowsOf
    <3> QED  BY <3>1
  <2> QED  BY <2>1, <2>2
<1>9. Worth(AmountOf, RowsOf(a)' \cap DueEntries') =
          Worth(AmountOf, RowsOf(a) \cap DueEntries)
            - (IF new.account = a THEN new.amount ELSE 0)
  <2> DEFINE D == RowsOf(a) \cap DueEntries
  <2>1. CASE new.account = a
    <3>1. /\ D = (D \ {e}) \cup {e}
          /\ RowsOf(a)' \cap DueEntries' = D \ {e}
          /\ D \ {e} \in SUBSET (rows \ {e})
      BY <1>2, <1>3, <1>6, <2>1 DEF RowsOf, DueEntries
    <3>2. Part(AmountOf[e]) = new.amount /\ new.amount \in Nat
      BY <1>2, RowCents DEF Part
    <3>3. /\ Worth(AmountOf, D \ {e}) \in Nat
          /\ Worth(AmountOf, (D \ {e}) \cup {e}) = Worth(AmountOf, D \ {e}) + Part(AmountOf[e])
      BY <1>5, <3>1
    <3>4. Worth(AmountOf, D) = Worth(AmountOf, D \ {e}) + new.amount
      BY <3>1, <3>2, <3>3
    <3>5. Worth(AmountOf, RowsOf(a)' \cap DueEntries') = Worth(AmountOf, D \ {e})
      BY <3>1
    <3> HIDE DEF D
    <3>6. Worth(AmountOf, RowsOf(a)' \cap DueEntries') = Worth(AmountOf, D) - new.amount
      BY <3>2, <3>3, <3>4, <3>5
    <3> QED  BY <2>1, <3>6 DEF D
  <2>2. CASE new.account # a
    <3>1. RowsOf(a)' \cap DueEntries' = D
      BY <1>2, <1>3, <1>6, <2>2 DEF RowsOf, DueEntries
    <3>2. Worth(AmountOf, D) \in Nat
      <4>1. D \subseteq rows
        BY DEF RowsOf
      <4> QED  BY <1>1, <4>1, CentsWithin
    <3>3. Worth(AmountOf, RowsOf(a)' \cap DueEntries') = Worth(AmountOf, D)
      BY <3>1
    <3> HIDE DEF D
    <3>4. Worth(AmountOf, RowsOf(a)' \cap DueEntries') = Worth(AmountOf, D) - 0
      BY <3>2, <3>3
    <3> QED  BY <2>2, <3>4 DEF D
  <2> QED  BY <2>1, <2>2
<1> QED  BY <1>7, <1>8, <1>9

\* A commit keeps PENDING accounted for.
LEMMA CommitKeepsPending ==
    ASSUME IInv, PendingInv, NEW p \in Callers, Commit(p)
    PROVE  PendingInv'
<1> DEFINE new == NewRow(job[p], snap[p])
<1>1. /\ new \in Row /\ new \notin rows /\ ~new.matured
      /\ new.type = job[p].type /\ new.account = job[p].account
      /\ new.amount = job[p].amount
      /\ new.type \notin {"DEBIT_CHARGEBACK", "DEBIT_REFUND"} => new.fromPending = 0
      /\ new.type # "MATURE" => rows' = rows \cup {new}
      /\ new.type = "MATURE" =>
            \E e \in DueEntries :
                /\ e.account = new.account /\ e.amount = new.amount
                /\ rows' = (rows \ {e}) \cup {[e EXCEPT !.matured = TRUE]} \cup {new}
                /\ [e EXCEPT !.matured = TRUE] \notin rows
  BY CommitRows
<1> HIDE DEF new
<1>2. new.fromPending \in Int /\ new.amount \in Nat
  BY <1>1, RowCents
<1>3. OnlyDebitsTake'
  <2>1. CASE new.type # "MATURE"
    BY <1>1, <2>1 DEF PendingInv, OnlyDebitsTake
  <2>2. CASE new.type = "MATURE"
    <3>1. PICK e \in DueEntries :
              rows' = (rows \ {e}) \cup {[e EXCEPT !.matured = TRUE]} \cup {new}
      BY <1>1, <2>2
    <3>2. e \in Row /\ e \in rows
      BY DEF DueEntries, IInv, LedgerTypeOK
    <3>3. /\ [e EXCEPT !.matured = TRUE].type = e.type
          /\ [e EXCEPT !.matured = TRUE].fromPending = e.fromPending
      BY <3>2
    <3> QED  BY <1>1, <3>1, <3>2, <3>3 DEF PendingInv, OnlyDebitsTake
  <2> QED  BY <2>1, <2>2
<1>4. ASSUME NEW a \in Accounts
      PROVE  /\ Worth(Taken, RowsOf(a)) \in Nat /\ Worth(GivenBack, RowsOf(a)) \in Nat
             /\ Worth(AmountOf, RowsOf(a) \cap DueEntries) \in Nat
  <2>1. RowsOf(a) \subseteq rows /\ RowsOf(a) \cap DueEntries \subseteq rows
    BY DEF RowsOf
  <2> QED  BY <2>1, CentsWithin DEF PendingInv
<1>5. ASSUME NEW a \in Accounts
      PROVE  /\ \A f \in {AmountOf, Taken, GivenBack} : IsFiniteSet(CentsOf(f, rows'))
             /\ \A f \in {Taken, GivenBack} :
                  Worth(f, RowsOf(a)') =
                    Worth(f, RowsOf(a)) + (IF new.account = a THEN Part(f[new]) ELSE 0)
             /\ Worth(AmountOf, RowsOf(a)' \cap DueEntries') =
                  Worth(AmountOf, RowsOf(a) \cap DueEntries)
                    + (IF new.account = a /\ new.type = "CREDIT_PENDING" THEN new.amount ELSE 0)
                    - (IF new.account = a /\ new.type = "MATURE" THEN new.amount ELSE 0)
  <2>1. CASE new.type # "MATURE"
    <3>1. /\ \A f \in {AmountOf, Taken, GivenBack} : IsFiniteSet(CentsOf(f, rows'))
          /\ \A f \in {Taken, GivenBack} :
               Worth(f, RowsOf(a)') =
                 Worth(f, RowsOf(a)) + (IF new.account = a THEN Part(f[new]) ELSE 0)
          /\ Worth(AmountOf, RowsOf(a)' \cap DueEntries') =
               Worth(AmountOf, RowsOf(a) \cap DueEntries)
                 + (IF new.account = a /\ new.type = "CREDIT_PENDING" THEN new.amount ELSE 0)
      BY <1>1, <2>1, PostedSums
    <3> QED  BY <1>2, <1>4, <2>1, <3>1
  <2>2. CASE new.type = "MATURE"
    <3>1. PICK e \in DueEntries :
            /\ e.account = new.account /\ e.amount = new.amount
            /\ rows' = (rows \ {e}) \cup {[e EXCEPT !.matured = TRUE]} \cup {new}
            /\ [e EXCEPT !.matured = TRUE] \notin rows
      BY <1>1, <2>2
    <3>2. /\ \A f \in {AmountOf, Taken, GivenBack} : IsFiniteSet(CentsOf(f, rows'))
          /\ \A f \in {Taken, GivenBack} : Worth(f, RowsOf(a)') = Worth(f, RowsOf(a))
          /\ Worth(AmountOf, RowsOf(a)' \cap DueEntries') =
               Worth(AmountOf, RowsOf(a) \cap DueEntries)
                 - (IF new.account = a THEN new.amount ELSE 0)
      BY <1>1, <2>2, <3>1, PromotedSums
    <3>3. \A f \in {Taken, GivenBack} : Part(f[new]) = 0
      BY <1>1, <2>2, RowCents DEF Part
    <3>4. \A f \in {Taken, GivenBack} : Worth(f, RowsOf(a)) \in Nat
      BY <1>4
    <3> QED  BY <1>2, <1>4, <2>2, <3>2, <3>3, <3>4
  <2> QED  BY <2>1, <2>2
<1>6. \A f \in {AmountOf, Taken, GivenBack} : IsFiniteSet(CentsOf(f, rows'))
  BY <1>1, <1>5
<1>7. ASSUME NEW a \in Accounts, "pending" \notin lost'[a]
      PROVE  balance'[a]["pending"] =
                Worth(AmountOf, RowsOf(a)' \cap DueEntries')
                  - Worth(Taken, RowsOf(a)') + Worth(GivenBack, RowsOf(a)')
  <2>1. PICK n \in Nat, t \in Nat, g \in Nat :
            /\ n = Worth(AmountOf, RowsOf(a) \cap DueEntries)
            /\ t = Worth(Taken, RowsOf(a)) /\ g = Worth(GivenBack, RowsOf(a))
    BY <1>4
  <2>2. "pending" \notin lost[a]
    BY <1>7, PendingChange
  <2>3. balance[a]["pending"] = n - t + g
    BY <2>1, <2>2 DEF PendingInv, PendingIsAccountedFor
  <2>4. Taken[new] = new.fromPending /\ GivenBack[new] = -new.fromPending
    BY <1>1, RowCents
  <2>5. CASE new.account = a
    <3>1. balance'[a]["pending"] =
            balance[a]["pending"]
              + (IF new.type = "CREDIT_PENDING" THEN new.amount ELSE 0)
              - (IF new.type = "MATURE" THEN new.amount ELSE 0)
              - new.fromPending
      <4>1. job[p].account = a
        BY <1>1, <2>5
      <4>2. balance'[a]["pending"] =
                balance[a]["pending"]
                  + (IF job[p].type = "CREDIT_PENDING" THEN job[p].amount ELSE 0)
                  - (IF job[p].type = "MATURE" THEN job[p].amount ELSE 0)
                  - NewRow(job[p], snap[p]).fromPending
        BY <1>7, <4>1, PendingChange
      <4>3. NewRow(job[p], snap[p]).fromPending = new.fromPending
        BY DEF new
      <4> QED  BY <1>1, <4>2, <4>3
    <3>2. /\ Worth(Taken, RowsOf(a)') = t + Part(new.fromPending)
          /\ Worth(GivenBack, RowsOf(a)') = g + Part(-new.fromPending)
      BY <1>5, <2>1, <2>4, <2>5
    <3>3. Worth(AmountOf, RowsOf(a)' \cap DueEntries') =
              n + (IF new.type = "CREDIT_PENDING" THEN new.amount ELSE 0)
                - (IF new.type = "MATURE" THEN new.amount ELSE 0)
      BY <1>5, <2>1, <2>5
    <3> QED  BY <1>2, <2>3, <3>1, <3>2, <3>3 DEF Part
  <2>6. CASE new.account # a
    <3>1. balance'[a] = balance[a]
      BY <1>1, <1>7, <2>6, PendingChange
    <3>2. /\ Worth(Taken, RowsOf(a)') = t + 0
          /\ Worth(GivenBack, RowsOf(a)') = g + 0
          /\ Worth(AmountOf, RowsOf(a)' \cap DueEntries') = n + 0 - 0
      BY <1>5, <2>1, <2>6
    <3> QED  BY <2>3, <3>1, <3>2
  <2> QED  BY <2>5, <2>6
<1> QED  BY <1>3, <1>6, <1>7 DEF PendingInv, PendingIsAccountedFor, RowsOf, DueEntries

\* For any accounts, callers and postings, the stored PENDING is the cents of
\* the credits not yet matured, less what refunds and disputes took from it,
\* unless a committed change of it was overwritten.
THEOREM LedgerPending == LedgerSpec => []PendingIsAccountedFor
<1>1. LedgerInit => PendingInv
  <2> SUFFICES ASSUME LedgerInit PROVE PendingInv
    OBVIOUS
  <2>1. rows = {} /\ \A a \in Accounts : RowsOf(a) = {} /\ balance[a]["pending"] = 0
    BY DEF LedgerInit, RowsOf, Zero
  <2>2. \A f : CentsOf(f, {}) = {}
    BY DEF CentsOf
  <2>3. \A f : IsFiniteSet(CentsOf(f, {})) /\ Worth(f, {}) = 0
    BY <2>2, FS_EmptySet DEF Worth
  <2>4. PendingIsAccountedFor
    <3> SUFFICES ASSUME NEW a \in Accounts
                 PROVE  balance[a]["pending"] =
                          Worth(AmountOf, RowsOf(a) \cap DueEntries)
                            - Worth(Taken, RowsOf(a)) + Worth(GivenBack, RowsOf(a))
      BY DEF PendingIsAccountedFor
    <3>1. RowsOf(a) \cap DueEntries = {}
      BY <2>1
    <3> QED  BY <2>1, <2>3, <3>1
  <2> QED  BY <2>1, <2>3, <2>4 DEF PendingInv, OnlyDebitsTake
<1>2. IInv /\ PendingInv /\ [LedgerNext]_ledgerVars => PendingInv'
  <2>1. ASSUME PendingInv, UNCHANGED <<balance, rows, lost>> PROVE PendingInv'
    BY <2>1 DEF PendingInv, OnlyDebitsTake, PendingIsAccountedFor, RowsOf, DueEntries
  <2> QED  BY <2>1, UncommittedStep, CommitKeepsPending DEF LedgerNext, ledgerVars
<1>3. PendingInv => PendingIsAccountedFor
  BY DEF PendingInv
<1> QED  BY <1>1, <1>2, <1>3, SpecIInv, PTL DEF LedgerSpec

----------------------------------------------------------------------------
(***************************************************************************)
(* The payouts.                                                            *)
(***************************************************************************)
HIDE DEF Columns, RequestTypes, Types, Job, Row, Balance

USE DEF Phases

\* The phases of a handler that runs createPayout.
PayoutPhases == {"opened", "checked", "enabled", "debited", "created", "refused", "threw"}

Working(p, r) == task[p] = r /\ phase[p] \in PayoutPhases

\* What has been done for a request when a handler of it is in a phase, if it
\* was called once and Stripe's reply was not lost.
Untouched(r) == r \notin debits /\ r \notin returns /\ payout[r] = "none"
Withheld(r) == r \in debits /\ r \notin returns /\ payout[r] = "none"
PaidOut(r) == r \in debits /\ r \notin returns /\ payout[r] # "none"
Backed(r) ==
    /\ payout[r] # "none" => r \in debits \ returns
    /\ r \in returns => r \in debits

Progress(p, r) ==
    /\ phase[p] \in {"opened", "checked", "enabled"} => Untouched(r)
    /\ phase[p] \in {"debited", "refused"} => Withheld(r)
    /\ phase[p] = "created" => PaidOut(r)

\* In every environment: a handler past Stripe's answer has a payout, only
\* approval requests are answered, nothing is done for a request that was not
\* called, and of two called with one id both count as repeated.
HandlersAreBacked ==
    /\ \A p \in Procs :
        /\ phase[p] = "created" => Exists(task[p])
        /\ phase[p] \in PayoutPhases => task[p] \in begun
        /\ phase[p] \in {"asking", "rejecting", "threw"} => task[p] \in Approvals
    /\ \A r \in Requests \ begun : Untouched(r)
    /\ \A r \in begun \ repeated : SameId(r) \cap begun = {r}

ApprovedExist == \A r \in Approvals : approval[r] = "APPROVED" => Exists(r)

\* A request called once, whose replies were heard, has at most one handler,
\* and its state is the one the handler's phase says.  When no handler died and
\* no compensation failed, payout and debit agree once createPayout is over.
RegularRequests ==
    \A r \in Requests \ (repeated \cup unheard) :
        /\ \A p, q \in Procs : Working(p, r) /\ Working(q, r) => p = q
        /\ \A p \in Procs : Working(p, r) => Progress(p, r)
        /\ Backed(r)
        /\ r \notin broken /\ (\A p \in Procs : Working(p, r) => phase[p] = "threw")
              => Agrees(r)

PayoutInv == TypeOK /\ HandlersAreBacked /\ ApprovedExist /\ RegularRequests

\* The initial state satisfies the inductive invariant.
LEMMA InitPayout == Init => PayoutInv
  BY PayoutAssumption
  DEF Init, PayoutInv, TypeOK, HandlersAreBacked, ApprovedExist, RegularRequests,
      Working, PayoutPhases, Untouched, Backed, Agrees

\* A request called once has the rows and the payout of its id to itself.
LEMMA OnlyItself ==
    ASSUME PayoutInv, NEW r \in begun \ repeated
    PROVE  /\ HasRow(debits, r) <=> r \in debits
           /\ HasRow(returns, r) <=> r \in returns
           /\ Exists(r) <=> payout[r] # "none"
           /\ UnderKey(r) = {} <=> payout[r] = "none"
<1>1. \A q \in SameId(r) \ {r} : q \notin debits /\ q \notin returns /\ payout[q] = "none"
  BY DEF PayoutInv, HandlersAreBacked, Untouched, SameId
<1>2. r \in Requests /\ r \in SameId(r)
  BY DEF PayoutInv, TypeOK, SameId
<1> QED  BY <1>1, <1>2 DEF HasRow, Exists, UnderKey

\* A payout that exists goes on existing.
LEMMA ExistsStays ==
    ASSUME \A q \in Requests : payout[q] # "none" => payout'[q] # "none"
    PROVE  \A r \in Requests : Exists(r) => Exists(r)'
  BY DEF Exists, UnderKey, SameId

\* A step that disturbs neither handlers nor calls nor faults, and takes no
\* payout away, keeps the state of the handlers.
LEMMA QuietStep ==
    ASSUME PayoutInv, UNCHANGED <<debits, returns, approval, phase, task, history>>,
           \A s \in Requests : payout'[s] = "none" <=> payout[s] = "none"
    PROVE  HandlersAreBacked' /\ ApprovedExist' /\ RegularRequests'
<1>1. \A r \in Requests : Exists(r) => Exists(r)'
  BY ExistsStays
<1>2. HandlersAreBacked'
  <2>1. \A p \in Procs : phase[p] = "created" => task[p] \in Requests
    BY DEF PayoutInv, TypeOK, HandlersAreBacked, PayoutPhases
  <2> QED  BY <1>1, <2>1 DEF PayoutInv, HandlersAreBacked, Untouched, history
<1>3. ApprovedExist'
  BY <1>1 DEF PayoutInv, ApprovedExist, Requests
<1>4. RegularRequests'
  <2>1. \A s \in Requests :
            /\ Agrees(s)' <=> Agrees(s)
            /\ Backed(s)' <=> Backed(s)
            /\ \A q \in Procs : Working(q, s)' <=> Working(q, s)
            /\ \A q \in Procs : Progress(q, s) => Progress(q, s)'
    BY DEF Working, Progress, Untouched, Withheld, PaidOut, Backed, Agrees
  <2> QED  BY <2>1 DEF PayoutInv, RegularRequests, history
<1> QED  BY <1>2, <1>3, <1>4

\* Asking, rejecting and recording a verdict.
LEMMA ApprovalStep ==
    ASSUME PayoutInv, NEW p \in Procs,
           \/ \E r \in Approvals : AskApproval(p, r) \/ Reject(p, r)
           \/ CreateApproval(p) \/ RecordRejected(p) \/ RecordFailed(p)
           \/ RecordApproved(p)
    PROVE  PayoutInv'
<1>1. /\ UNCHANGED <<ledger, payout, webhook, history>>
      /\ approval' \in [Approvals -> {"NONE", "OPEN", "APPROVED", "REJECTED", "FAILED"}]
  BY PayoutAssumption
  DEF PayoutInv, TypeOK, HandlersAreBacked, AskApproval, Reject, CreateApproval, RecordRejected,
      RecordFailed, RecordApproved, Answer
<1>2. \/ \E r \in Approvals : phase[p] = "idle" /\ (Start(p, r, "asking") \/ Start(p, r, "rejecting"))
      \/ phase[p] \in {"asking", "rejecting", "threw", "created"} /\ Finish(p)
  BY DEF AskApproval, Reject, CreateApproval, RecordRejected,
      RecordFailed, RecordApproved, Answer, Start
<1>3. TypeOK'
  BY <1>1, <1>2, PayoutAssumption
  DEF PayoutInv, TypeOK, Start, Finish, ledger, webhook, history, Requests
<1>4. \A r \in Requests : Exists(r) <=> Exists(r)'
  BY <1>1 DEF Exists, UnderKey, SameId
<1>5. HandlersAreBacked'
  <2>1. \A r \in Requests \ begun : Untouched(r)'
    BY <1>1 DEF PayoutInv, HandlersAreBacked, Untouched, ledger
  <2>2. \A q \in Procs :
            /\ phase'[q] = "created" => phase[q] = "created" /\ task'[q] = task[q]
            /\ phase'[q] \in PayoutPhases => phase[q] \in PayoutPhases /\ task'[q] = task[q]
            /\ phase'[q] \in {"asking", "rejecting", "threw"} => task'[q] \in Approvals
            /\ phase[q] = "created" => task[q] \in Requests
    BY <1>2 DEF PayoutInv, TypeOK, HandlersAreBacked, Start, Finish, PayoutPhases
  <2> QED  BY <1>1, <1>4, <2>1, <2>2 DEF PayoutInv, HandlersAreBacked, history
<1>6. ApprovedExist'
  BY <1>1, <1>4
  DEF PayoutInv, TypeOK, HandlersAreBacked, ApprovedExist, AskApproval, Reject,
      CreateApproval, RecordRejected, RecordFailed, RecordApproved, Answer, Requests
<1>7. RegularRequests'
  <2>1. \A q \in Procs, r \in Requests : Working(q, r)' => Working(q, r) /\ phase'[q] = phase[q]
    BY <1>1, <1>2 DEF PayoutInv, TypeOK, Working, PayoutPhases, Start, Finish
  <2>2. \A r \in Requests : Working(p, r) => phase[p] \in {"threw", "created"}
    BY <1>2 DEF Working, PayoutPhases
  <2>3. \A q \in Procs, r \in Requests : q # p => (Working(q, r)' <=> Working(q, r))
    BY <1>2 DEF PayoutInv, TypeOK, Working, Start, Finish
  <2>4. \A r \in Requests : (Agrees(r)' <=> Agrees(r)) /\ (Backed(r)' <=> Backed(r))
    BY <1>1 DEF Agrees, Backed, ledger
  <2>5. \A q \in Procs, r \in Requests : Working(q, r)' /\ Progress(q, r) => Progress(q, r)'
    BY <1>1, <2>1 DEF Progress, Untouched, Withheld, PaidOut, ledger
  <2>6. \A r \in Requests \ (repeated \cup unheard) :
            Working(p, r) /\ phase[p] = "created" => Agrees(r)
    BY DEF PayoutInv, RegularRequests, Progress, PaidOut, Agrees
  <2>7. ASSUME NEW r \in Requests \ (repeated \cup unheard), r \notin broken,
               \A q \in Procs : Working(q, r)' => phase'[q] = "threw"
        PROVE  Agrees(r)
    <3>1. \A q \in Procs \ {p} : Working(q, r) => phase[q] = "threw"
      BY <1>2, <2>3, <2>7 DEF Start, Finish, PayoutInv, TypeOK
    <3>2. Working(p, r) => phase[p] = "threw" \/ Agrees(r)
      BY <2>2, <2>6
    <3> QED  BY <2>7, <3>1, <3>2 DEF PayoutInv, RegularRequests
  <2> QED
    BY <1>1, <2>1, <2>4, <2>5, <2>7 DEF PayoutInv, RegularRequests, history
<1> QED  BY <1>3, <1>5, <1>6, <1>7 DEF PayoutInv

\* A step of one handler that leaves every other request and handler alone
\* keeps the regular requests regular, if it does so for its own.
LEMMA OwnRequestOnly ==
    ASSUME PayoutInv, NEW p \in Procs, NEW r \in Requests,
           Working(p, r) \/ \A q \in Procs : ~Working(q, r),
           \A q \in Procs \ {p} : phase'[q] = phase[q] /\ task'[q] = task[q],
           \A s \in Requests \ {r} : ~Working(p, s) /\ ~Working(p, s)',
           repeated \subseteq repeated', unheard \subseteq unheard', broken \subseteq broken',
           \A s \in Requests \ {r} : /\ s \in debits' <=> s \in debits
                                     /\ s \in returns' <=> s \in returns
                                     /\ payout'[s] = payout[s],
           r \notin repeated' \cup unheard' =>
                /\ Working(p, r)' => Progress(p, r)'
                /\ Backed(r)'
                /\ r \notin broken' /\ (Working(p, r)' => phase'[p] = "threw") => Agrees(r)'
    PROVE  RegularRequests'
<1> SUFFICES ASSUME NEW s \in Requests, s \notin repeated' \cup unheard'
             PROVE  (/\ \A o, q \in Procs : Working(o, s) /\ Working(q, s) => o = q
                     /\ \A q \in Procs : Working(q, s) => Progress(q, s)
                     /\ Backed(s)
                     /\ s \notin broken /\ (\A q \in Procs : Working(q, s) => phase[q] = "threw")
                          => Agrees(s))'
  BY DEF RegularRequests
<1>1. /\ \A o, q \in Procs : Working(o, s) /\ Working(q, s) => o = q
      /\ \A q \in Procs : Working(q, s) => Progress(q, s)
      /\ Backed(s)
      /\ s \notin broken /\ (\A q \in Procs : Working(q, s) => phase[q] = "threw") => Agrees(s)
  BY DEF PayoutInv, RegularRequests
<1>2. \A q \in Procs \ {p} : (Working(q, s)' <=> Working(q, s)) /\ phase'[q] = phase[q]
  BY DEF Working
<1>3. CASE s # r
  <2>1. (Agrees(s)' <=> Agrees(s)) /\ (Backed(s)' <=> Backed(s))
    BY <1>3 DEF Agrees, Backed
  <2>2. /\ \A q \in Procs : Working(q, s)' <=> Working(q, s)
        /\ ~Working(p, s)
    BY <1>2, <1>3
  <2>3. \A q \in Procs : Working(q, s)' /\ Progress(q, s) => Progress(q, s)'
    BY <1>2, <1>3, <2>2 DEF Progress, Untouched, Withheld, PaidOut
  <2> QED  BY <1>1, <1>2, <2>1, <2>2, <2>3
<1>4. CASE s = r
  <2>1. \A q \in Procs \ {p} : ~Working(q, s)'
    BY <1>1, <1>2, <1>4
  <2> QED  BY <1>4, <2>1
<1> QED  BY <1>3, <1>4
\* The steps of createPayout, the answer of the direct endpoint included.
CreatePayoutStep(p) ==
    \/ CheckAvailable(p) \/ RetrieveAccount(p) \/ Debit(p) \/ CreatePayout(p)
    \/ ReturnCents(p) \/ Respond(p)

\* What such a step changes: the handler, and the entries of its request.
LEMMA CreatePayoutStepFrame ==
    ASSUME PayoutInv, NEW p \in Procs, CreatePayoutStep(p)
    PROVE  \E r \in Requests :
            /\ task[p] = r /\ Working(p, r)
            /\ phase[p] \in {"opened", "checked", "enabled", "debited", "created", "refused"}
            /\ \A q \in Procs \ {p} : phase'[q] = phase[q] /\ task'[q] = task[q]
            /\ \/ task' = task /\ phase' = [phase EXCEPT ![p] = phase'[p]] /\ phase'[p] \in PayoutPhases
               \/ task' = [task EXCEPT ![p] = NoRequest] /\ phase' = [phase EXCEPT ![p] = "idle"]
            /\ phase'[p] = "threw" => r \in Approvals
            /\ phase'[p] = "created" => Exists(r)'
            /\ UNCHANGED <<credits, approval, webhook, calls, begun, repeated>>
            /\ available' \in [Payees -> Nat]
            /\ debits' \in {debits, debits \cup {r}}
            /\ returns' \in {returns, returns \cup {r}}
            /\ unheard' \in {unheard, unheard \cup {r}}
            /\ broken' \in {broken, broken \cup {r}}
            /\ payout' \in {payout, [payout EXCEPT ![r] = "pending"]}
            /\ payout[r] # "none" => payout' = payout \/ UnderKey(r) = {}
<1>1. PICK r \in Requests :
        /\ task[p] = r
        /\ phase[p] \in {"opened", "checked", "enabled", "debited", "created", "refused"}
        /\ Working(p, r)
  BY DEF CreatePayoutStep, CheckAvailable, RetrieveAccount, Debit, CreatePayout, ReturnCents,
         Respond, PayoutInv, TypeOK, Working, PayoutPhases
<1>2. /\ available[AccountOf[r]] \in Nat /\ Amount[r] \in Nat /\ AccountOf[r] \in Payees
  BY <1>1, PayoutAssumption DEF PayoutInv, TypeOK
<1>3. /\ \A q \in Procs \ {p} : phase'[q] = phase[q] /\ task'[q] = task[q]
      /\ \/ task' = task /\ phase' = [phase EXCEPT ![p] = phase'[p]] /\ phase'[p] \in PayoutPhases
         \/ task' = [task EXCEPT ![p] = NoRequest] /\ phase' = [phase EXCEPT ![p] = "idle"]
      /\ UNCHANGED <<credits, approval, webhook, calls, begun, repeated>>
      /\ phase'[p] = "threw" => r \in Approvals
  BY <1>1 DEF CreatePayoutStep, CheckAvailable, RetrieveAccount, Debit, CreatePayout, ReturnCents,
         Respond, PayoutInv, TypeOK, Working, PayoutPhases, GoTo, Throw, Finish, ledger, history
<1>4. /\ available' \in [Payees -> Nat]
      /\ debits' \in {debits, debits \cup {r}}
      /\ returns' \in {returns, returns \cup {r}}
      /\ unheard' \in {unheard, unheard \cup {r}}
      /\ broken' \in {broken, broken \cup {r}}
      /\ payout' \in {payout, [payout EXCEPT ![r] = "pending"]}
      /\ payout' # payout => UnderKey(r) = {}
  <2>1. CASE CheckAvailable(p) \/ RetrieveAccount(p) \/ Respond(p)
    BY <2>1 DEF CheckAvailable, RetrieveAccount, Respond, PayoutInv, TypeOK, ledger, history
  <2>2. CASE Debit(p)
    BY <1>1, <1>2, <2>2 DEF Debit, Covers, PayoutInv, TypeOK, ledger, history
  <2>3. CASE CreatePayout(p)
    BY <1>1, <1>2, <2>3 DEF CreatePayout, Accepted, PayoutInv, TypeOK, ledger, history
  <2>4. CASE ReturnCents(p)
    BY <1>1, <1>2, <2>4 DEF ReturnCents, PayoutInv, TypeOK, ledger, history
  <2> QED  BY <2>1, <2>2, <2>3, <2>4 DEF CreatePayoutStep
<1>5. ASSUME phase'[p] = "created" PROVE Exists(r)'
  <2>1. CreatePayout(p) /\ Accepted(r)
    BY <1>1, <1>5
    DEF CreatePayoutStep, CheckAvailable, RetrieveAccount, Debit, CreatePayout, ReturnCents,
        Respond, GoTo, Throw, Finish, PayoutInv, TypeOK
  <2>2. CASE payout' = [payout EXCEPT ![r] = "pending"]
    BY <1>1, <2>2 DEF Exists, UnderKey, SameId, PayoutInv, TypeOK
  <2>3. CASE Exists(r) /\ UNCHANGED payout
    BY <2>3 DEF Exists, UnderKey
  <2> QED  BY <2>1, <2>2, <2>3 DEF Accepted
<1> QED  BY <1>1, <1>3, <1>4, <1>5

\* What it means for a request called once: its phase tells the truth.
LEMMA CreatePayoutProgress ==
    ASSUME PayoutInv, NEW p \in Procs, CreatePayoutStep(p), NEW r \in Requests, task[p] = r,
           Progress(p, r), r \in begun \ repeated, r \notin unheard'
    PROVE  /\ phase'[p] \in PayoutPhases => Progress(p, r)'
           /\ Backed(r)'
           /\ r \notin broken' /\ phase'[p] \in {"idle", "threw"} => Agrees(r)'
<1>1. /\ HasRow(debits, r) <=> r \in debits
      /\ HasRow(returns, r) <=> r \in returns
      /\ Exists(r) <=> payout[r] # "none"
      /\ UnderKey(r) = {} <=> payout[r] = "none"
  BY OnlyItself
<1> USE DEF GoTo, Throw, Finish, PayoutInv, TypeOK, Progress, Untouched, Withheld, PaidOut,
            Backed, Agrees
<1>2. CASE CheckAvailable(p) \/ RetrieveAccount(p) \/ Respond(p)
  BY <1>2 DEF CheckAvailable, RetrieveAccount, Respond, ledger, history
<1>3. CASE Debit(p)
  BY <1>1, <1>3 DEF Debit, ledger, history
<1>4. CASE CreatePayout(p)
  BY <1>1, <1>4 DEF CreatePayout, Accepted, ledger, history
<1>5. CASE ReturnCents(p)
  BY <1>1, <1>5 DEF ReturnCents, ledger, history
<1> QED  BY <1>2, <1>3, <1>4, <1>5 DEF CreatePayoutStep
\* The steps of createPayout keep the inductive invariant.
LEMMA CreatePayoutStepIInv ==
    ASSUME PayoutInv, NEW p \in Procs, CreatePayoutStep(p)
    PROVE  PayoutInv'
<1>1. PICK r \in Requests :
        /\ task[p] = r /\ Working(p, r)
        /\ phase[p] \in {"opened", "checked", "enabled", "debited", "created", "refused"}
        /\ \A q \in Procs \ {p} : phase'[q] = phase[q] /\ task'[q] = task[q]
        /\ \/ task' = task /\ phase' = [phase EXCEPT ![p] = phase'[p]] /\ phase'[p] \in PayoutPhases
           \/ task' = [task EXCEPT ![p] = NoRequest] /\ phase' = [phase EXCEPT ![p] = "idle"]
        /\ phase'[p] = "threw" => r \in Approvals
        /\ phase'[p] = "created" => Exists(r)'
        /\ UNCHANGED <<credits, approval, webhook, calls, begun, repeated>>
        /\ available' \in [Payees -> Nat]
        /\ debits' \in {debits, debits \cup {r}}
        /\ returns' \in {returns, returns \cup {r}}
        /\ unheard' \in {unheard, unheard \cup {r}}
        /\ broken' \in {broken, broken \cup {r}}
        /\ payout' \in {payout, [payout EXCEPT ![r] = "pending"]}
  BY CreatePayoutStepFrame
<1>2. r \in begun
  BY <1>1 DEF PayoutInv, HandlersAreBacked, PayoutPhases
<1>3. TypeOK'
  <2>1. /\ phase' \in [Procs -> Phases]
        /\ task' \in [Procs -> Requests \cup {NoRequest}]
        /\ \A q \in Procs : phase'[q] # "idle" <=> task'[q] # NoRequest
    BY <1>1, PayoutAssumption DEF PayoutInv, TypeOK, PayoutPhases
  <2> QED  BY <1>1, <2>1 DEF PayoutInv, TypeOK, webhook
<1>4. \A s \in Requests : Exists(s) => Exists(s)'
  <2>1. \A q \in Requests : payout[q] # "none" => payout'[q] # "none"
    BY <1>1 DEF PayoutInv, TypeOK
  <2> QED  BY <2>1, ExistsStays
<1>5. HandlersAreBacked'
  <2>1. \A s \in Requests \ begun : Untouched(s)'
    BY <1>1, <1>2 DEF PayoutInv, TypeOK, HandlersAreBacked, Untouched
  <2>2. \A q \in Procs :
            /\ phase'[q] = "created" => Exists(task[q])' /\ task'[q] = task[q]
            /\ phase'[q] \in PayoutPhases => task'[q] \in begun
            /\ phase'[q] \in {"asking", "rejecting", "threw"} => task'[q] \in Approvals
    <3> TAKE q \in Procs
    <3>1. CASE q = p
      BY <1>1, <1>2, <3>1 DEF PayoutInv, TypeOK, PayoutPhases
    <3>2. CASE q # p
      <4>1. phase[q] = "created" => task[q] \in Requests
        BY DEF PayoutInv, TypeOK, HandlersAreBacked, PayoutPhases
      <4> QED  BY <1>1, <1>4, <3>2, <4>1 DEF PayoutInv, TypeOK, HandlersAreBacked
    <3> QED  BY <3>1, <3>2
  <2>3. \A q \in Procs : phase'[q] = "created" => Exists(task[q])' /\ task'[q] = task[q]
    BY <2>2
  <2>4. \A q \in Procs : phase'[q] = "created" => Exists(task[q])'
    BY <2>3
  <2>5. (\A q \in Procs : phase[q] = "created" => Exists(task[q]))'
    BY <2>3 DEF Exists, UnderKey, SameId
  <2> QED  BY <1>1, <2>1, <2>2, <2>5 DEF PayoutInv, HandlersAreBacked
<1>6. ApprovedExist'
  BY <1>1, <1>4 DEF PayoutInv, ApprovedExist, Requests
<1>7. RegularRequests'
  <2>1. \A s \in Requests \ {r} : ~Working(p, s) /\ ~Working(p, s)'
    BY <1>1 DEF Working, PayoutInv, TypeOK, PayoutPhases
  <2>2. ASSUME r \notin repeated' \cup unheard'
        PROVE  /\ Working(p, r)' => Progress(p, r)'
               /\ Backed(r)'
               /\ r \notin broken' /\ (Working(p, r)' => phase'[p] = "threw") => Agrees(r)'
    <3>1. r \notin repeated /\ r \notin unheard
      BY <1>1, <2>2
    <3>2. Progress(p, r)
      BY <1>1, <3>1 DEF PayoutInv, RegularRequests
    <3>3. /\ phase'[p] \in PayoutPhases => Progress(p, r)'
          /\ Backed(r)'
          /\ r \notin broken' /\ phase'[p] \in {"idle", "threw"} => Agrees(r)'
      BY <1>1, <1>2, <2>2, <3>1, <3>2, CreatePayoutProgress
    <3>4. Working(p, r)' \/ phase'[p] = "idle"
      BY <1>1 DEF Working, PayoutInv, TypeOK
    <3> QED  BY <3>3, <3>4 DEF Working
  <2>3. \A s \in Requests \ {r} : /\ s \in debits' <=> s \in debits
                                  /\ s \in returns' <=> s \in returns
                                  /\ payout'[s] = payout[s]
    BY <1>1 DEF PayoutInv, TypeOK
  <2> QED  BY <1>1, <2>1, <2>2, <2>3, OwnRequestOnly
<1> QED  BY <1>3, <1>5, <1>6, <1>7 DEF PayoutInv

\* So does calling createPayout, for the first time or again.
LEMMA BeginIInv ==
    ASSUME PayoutInv, NEW p \in Procs, NEW r \in Requests,
           (r \in Approvals /\ Approve(p, r)) \/ (r \in Direct /\ Submit(p, r))
    PROVE  PayoutInv'
<1>1. /\ phase[p] = "idle"
      /\ phase' = [phase EXCEPT ![p] = "opened"]
      /\ task' = [task EXCEPT ![p] = r]
      /\ begun' = begun \cup {r}
      /\ repeated' = IF HasRow(begun, r) THEN repeated \cup SameId(r) ELSE repeated
      /\ calls < Calls /\ calls' = calls + 1
      /\ UNCHANGED <<ledger, approval, payout, webhook, unheard, broken>>
  BY DEF Approve, Submit, Call, Start
<1>2. r \in SameId(r) /\ SameId(r) \subseteq Requests
  BY DEF SameId
<1>3. TypeOK'
  <2>1. calls' \in 0..Calls
    BY <1>1, PayoutAssumption DEF PayoutInv, TypeOK
  <2> QED  BY <1>1, <1>2, <2>1, PayoutAssumption DEF PayoutInv, TypeOK, ledger, webhook
<1>4. \A s \in Requests : Exists(s) <=> Exists(s)'
  BY <1>1 DEF Exists, UnderKey, SameId
<1>5. HandlersAreBacked'
  <2>1. ASSUME NEW s \in begun', s \notin repeated' PROVE SameId(s) \cap begun' = {s}
    <3>1. SameId(r) \cap begun = {} \/ s \notin SameId(r)
      BY <1>1, <2>1 DEF HasRow
    <3>2. CASE s = r
      BY <1>1, <1>2, <3>1, <3>2
    <3>3. CASE s # r
      <4>1. s \in begun /\ s \notin repeated /\ SameId(s) \cap begun = {s}
        BY <1>1, <2>1, <3>3 DEF PayoutInv, HandlersAreBacked
      <4>2. s \notin SameId(r) /\ s \in Requests
        BY <3>1, <4>1 DEF PayoutInv, TypeOK
      <4>3. r \notin SameId(s)
        BY <4>2 DEF SameId
      <4> QED  BY <1>1, <4>1, <4>3
    <3> QED  BY <3>2, <3>3
  <2>2. \A q \in Procs : phase[q] = "created" => task[q] \in Requests
    BY DEF PayoutInv, TypeOK, HandlersAreBacked, PayoutPhases
  <2> QED  BY <1>1, <1>4, <2>1, <2>2
           DEF PayoutInv, TypeOK, HandlersAreBacked, PayoutPhases, Untouched, ledger
<1>6. ApprovedExist'
  BY <1>1, <1>4 DEF PayoutInv, ApprovedExist, Requests
<1>7. RegularRequests'
  <2>1. \A s \in Requests : ~Working(p, s)
    BY <1>1 DEF Working, PayoutPhases
  <2>2. \A s \in Requests \ {r} : ~Working(p, s)'
    BY <1>1 DEF Working, PayoutInv, TypeOK
  <2>3. CASE r \in begun
    <3>0. r \in repeated' /\ repeated \subseteq repeated'
      BY <1>1, <1>2, <2>3 DEF HasRow
    <3>1. \A s \in Requests \ (repeated' \cup unheard') :
            /\ s # r
            /\ (Agrees(s)' <=> Agrees(s)) /\ (Backed(s)' <=> Backed(s))
            /\ \A q \in Procs : (Working(q, s)' <=> Working(q, s))
            /\ \A q \in Procs : Working(q, s) => phase'[q] = phase[q]
            /\ \A q \in Procs : Working(q, s)' /\ Progress(q, s) => Progress(q, s)'
      BY <1>1, <2>1, <2>2, <3>0
      DEF PayoutInv, TypeOK, Working, Progress, Untouched, Withheld, PaidOut, Agrees, Backed,
          ledger
    <3> QED  BY <1>1, <3>0, <3>1 DEF PayoutInv, RegularRequests
  <2>4. CASE r \notin begun
    <3>1. \A q \in Procs : ~Working(q, r)
      BY <2>4 DEF PayoutInv, HandlersAreBacked, Working
    <3>2. Untouched(r)'
      BY <1>1, <2>4 DEF PayoutInv, HandlersAreBacked, Untouched, ledger
    <3>3. Working(p, r)' /\ Progress(p, r)' /\ Backed(r)' /\ phase'[p] # "threw"
      BY <1>1, <3>2 DEF Working, Progress, Backed, Untouched, PayoutPhases, PayoutInv, TypeOK
    <3>4. repeated \subseteq repeated' /\ unheard \subseteq unheard' /\ broken \subseteq broken'
      BY <1>1
    <3>5. /\ \A q \in Procs \ {p} : phase'[q] = phase[q] /\ task'[q] = task[q]
          /\ UNCHANGED <<debits, returns, payout>>
      BY <1>1 DEF ledger, PayoutInv, TypeOK
    <3> QED  BY <2>1, <2>2, <3>1, <3>3, <3>4, <3>5, OwnRequestOnly
  <2> QED  BY <2>3, <2>4
<1> QED  BY <1>3, <1>5, <1>6, <1>7 DEF PayoutInv

\* So does the death of a handler, which leaves its request withheld at worst.
LEMMA CrashIInv ==
    ASSUME PayoutInv, NEW p \in Procs, Crash(p)
    PROVE  PayoutInv'
<1>1. /\ task[p] \in Requests
      /\ phase' = [phase EXCEPT ![p] = "idle"]
      /\ task' = [task EXCEPT ![p] = NoRequest]
      /\ broken' = broken \cup {task[p]}
      /\ UNCHANGED <<ledger, approval, payout, webhook, calls, begun, repeated, unheard>>
  BY DEF Crash, Finish, PayoutInv, TypeOK
<1>2. TypeOK'
  BY <1>1, PayoutAssumption DEF PayoutInv, TypeOK, ledger, webhook
<1>3. \A s \in Requests : Exists(s) <=> Exists(s)'
  BY <1>1 DEF Exists, UnderKey, SameId
<1>4. HandlersAreBacked'
  <2>1. \A q \in Procs : phase[q] = "created" => task[q] \in Requests
    BY DEF PayoutInv, TypeOK, HandlersAreBacked, PayoutPhases
  <2> QED  BY <1>1, <1>3, <2>1
           DEF PayoutInv, TypeOK, HandlersAreBacked, PayoutPhases, Untouched, ledger
<1>5. ApprovedExist'
  BY <1>1, <1>3 DEF PayoutInv, ApprovedExist, Requests
<1>6. RegularRequests'
  <2>1. \A s \in Requests :
            /\ (Agrees(s)' <=> Agrees(s)) /\ (Backed(s)' <=> Backed(s))
            /\ \A q \in Procs : Working(q, s)' => Working(q, s) /\ phase'[q] = phase[q]
            /\ \A q \in Procs : Working(q, s)' /\ Progress(q, s) => Progress(q, s)'
            /\ s # task[p] => \A q \in Procs : Working(q, s) => Working(q, s)' /\ phase'[q] = phase[q]
    BY <1>1
    DEF PayoutInv, TypeOK, Working, Progress, Untouched, Withheld, PaidOut, Agrees, Backed,
        ledger, PayoutPhases
  <2> QED  BY <1>1, <2>1 DEF PayoutInv, RegularRequests
<1> QED  BY <1>2, <1>4, <1>5, <1>6 DEF PayoutInv
\* The steps of the payout.failed webhook.
WebhookStep(r) ==
    Deliver(r) \/ ClaimExpires(r) \/ HandleFailedPayout(r) \/ FailNotice(r)

\* They change at most the account's AVAILABLE and the rows of the credits.
LEMMA WebhookFrame ==
    ASSUME PayoutInv, NEW r \in Requests, WebhookStep(r)
    PROVE  /\ UNCHANGED <<debits, returns, approval, payout, phase, task, history>>
           /\ available' \in [Payees -> Nat] /\ credits' \subseteq Requests
           /\ (claimed \cup handling \cup acked \cup thrown \cup skipped \subseteq Requests)'
           /\ \/ UNCHANGED ledger
              \/ HandleFailedPayout(r) /\ r \notin credits /\ CreditBack(r)
<1>1. available[AccountOf[r]] \in Nat /\ Amount[r] \in Nat
  BY PayoutAssumption DEF PayoutInv, TypeOK
<1>2. CASE Deliver(r)
  BY <1>2 DEF Deliver, PayoutInv, TypeOK, ledger
<1>3. CASE ClaimExpires(r)
  BY <1>3 DEF ClaimExpires, PayoutInv, TypeOK, ledger
<1>4. CASE FailNotice(r)
  BY <1>4 DEF FailNotice, ThrowNotice, PayoutInv, TypeOK, ledger
<1>5. CASE HandleFailedPayout(r)
  BY <1>1, <1>5 DEF HandleFailedPayout, EndNotice, ThrowNotice, CreditBack, PayoutInv, TypeOK, ledger
<1> QED  BY <1>2, <1>3, <1>4, <1>5 DEF WebhookStep

\* So do Stripe's settling of a payout and the payout.failed webhook.
LEMMA StripeIInv ==
    ASSUME PayoutInv, NEW r \in Requests, SettleAtStripe(r) \/ WebhookStep(r)
    PROVE  PayoutInv'
<1>1. /\ UNCHANGED <<debits, returns, approval, phase, task, history>>
      /\ \A s \in Requests : payout'[s] = "none" <=> payout[s] = "none"
      /\ payout' \in [Requests -> {"none", "pending", "paid", "failed"}]
      /\ available' \in [Payees -> Nat] /\ credits' \subseteq Requests
      /\ (claimed \cup handling \cup acked \cup thrown \cup skipped \subseteq Requests)'
  <2>1. CASE SettleAtStripe(r)
    BY <2>1 DEF SettleAtStripe, PayoutInv, TypeOK, ledger, webhook
  <2>2. CASE WebhookStep(r)
    BY <2>2, WebhookFrame DEF PayoutInv, TypeOK
  <2> QED  BY <2>1, <2>2
<1>2. TypeOK'
  BY <1>1 DEF PayoutInv, TypeOK, history
<1> QED  BY <1>1, <1>2, QuietStep DEF PayoutInv

\* So does a step that changes nothing.
LEMMA StutterIInv ==
    ASSUME PayoutInv, UNCHANGED vars
    PROVE  PayoutInv'
<1>1. TypeOK'
  BY DEF PayoutInv, TypeOK, vars, ledger, webhook, history
<1> QED  BY <1>1, QuietStep DEF PayoutInv, vars, ledger

\* The inductive invariant holds in every reachable state.
LEMMA SpecPayoutInv == Spec => []PayoutInv
<1>1. ASSUME PayoutInv, [Next]_vars
      PROVE  PayoutInv'
  <2>1. CASE \E p \in Procs, r \in Approvals : AskApproval(p, r) \/ Reject(p, r)
    BY <1>1, <2>1, ApprovalStep
  <2>2. CASE \E p \in Procs, r \in Approvals : Approve(p, r)
    BY <1>1, <2>2, BeginIInv DEF Requests
  <2>3. CASE \E p \in Procs, r \in Direct : Submit(p, r)
    BY <1>1, <2>3, BeginIInv DEF Requests
  <2>4. CASE \E p \in Procs : Handle(p)
    BY <1>1, <2>4, ApprovalStep, CreatePayoutStepIInv DEF Handle, CreatePayoutStep
  <2>5. CASE \E p \in Procs : Crash(p)
    BY <1>1, <2>5, CrashIInv
  <2>6. CASE \E r \in Requests : SettleAtStripe(r) \/ WebhookStep(r)
    BY <1>1, <2>6, StripeIInv
  <2>7. CASE UNCHANGED vars
    BY <1>1, <2>7, StutterIInv
  <2> QED  BY <1>1, <2>1, <2>2, <2>3, <2>4, <2>5, <2>6, <2>7 DEF Next, WebhookStep
<1> QED  BY InitPayout, <1>1, PTL DEF Spec

\* The variables keep their types, and AVAILABLE never becomes negative.
THEOREM PayoutTypeOK == Spec => []TypeOK
  BY SpecPayoutInv, PTL DEF PayoutInv

\* A payout without a standing debit of its own needs a second call of its id
\* or a lost reply, and no approval is recorded without a payout, for any
\* number of handlers, requests that share ids, and faults.
THEOREM PayoutsAreDebited == Spec => []PaidAgainstADebit
<1>1. PayoutInv => PaidAgainstADebit
  BY DEF PayoutInv, ApprovedExist, RegularRequests, Backed, PaidAgainstADebit
<1> QED  BY <1>1, SpecPayoutInv, PTL

\* A request whose id is called once, and hit by no crash, lost reply or failed
\* compensation, ends with a payout exactly when its debit stands.
THEOREM PayoutDeviations == Spec => []DeviationsHaveCauses
<1>1. PayoutInv => DeviationsHaveCauses
  BY DEF PayoutInv, RegularRequests, DeviationsHaveCauses, Quiet, Working, irregular
<1> QED  BY <1>1, SpecPayoutInv, PTL
----------------------------------------------------------------------------
(***************************************************************************)
(* Verdicts.  A request that is regular is answered once: while it is      *)
(* being created nothing else knows it, and once FAILED nothing works on   *)
(* it any more.                                                            *)
(***************************************************************************)
Asking ==
    \A p \in Procs : phase[p] = "asking" =>
        approval[task[p]] = "NONE" /\ \A q \in Procs : task[q] = task[p] => q = p

Failing ==
    \A r \in Approvals \ irregular :
        /\ \A p \in Procs : task[p] = r /\ phase[p] = "threw" => payout[r] = "none"
        /\ approval[r] = "FAILED" =>
            r \in begun /\ payout[r] = "none" /\ \A p \in Procs : ~Working(p, r)

VerdictInv == Asking /\ Failing

\* A request that is being created has no other handler, and is not yet open.
LEMMA AskingStep ==
    ASSUME PayoutInv, PayoutInv', Asking, [Next]_vars
    PROVE  Asking'
<1> USE DEF Asking, PayoutInv, TypeOK
<1>1. ASSUME NEW p \in Procs, NEW r \in Approvals,
             AskApproval(p, r) \/ Approve(p, r) \/ Reject(p, r)
      PROVE  Asking'
  BY <1>1 DEF AskApproval, Approve, Reject, Call, Start
<1>2. ASSUME NEW p \in Procs, NEW r \in Direct, Submit(p, r)
      PROVE  Asking'
  BY <1>2, PayoutAssumption DEF Submit, Call, Start, HandlersAreBacked
<1>3. ASSUME NEW p \in Procs, CreateApproval(p) \/ RecordRejected(p) \/ RecordFailed(p)
                              \/ RecordApproved(p)
      PROVE  Asking'
  <2>1. /\ phase[p] # "idle" /\ task[p] \in Approvals
        /\ \A r \in Approvals \ {task[p]} : approval'[r] = approval[r]
        /\ phase' = [phase EXCEPT ![p] = "idle"]
        /\ task' = [task EXCEPT ![p] = NoRequest]
    BY <1>3
    DEF CreateApproval, RecordRejected, RecordFailed, RecordApproved, Answer, Finish,
        HandlersAreBacked
  <2> SUFFICES ASSUME NEW q \in Procs, phase'[q] = "asking"
               PROVE  approval'[task'[q]] = "NONE" /\ \A o \in Procs : task'[o] = task'[q] => o = q
    OBVIOUS
  <2>2. q # p /\ phase[q] = "asking" /\ task'[q] = task[q]
    BY <2>1
  <2>3. task[q] \in Approvals /\ task[q] # task[p] /\ task[q] # NoRequest
    BY <2>2 DEF HandlersAreBacked
  <2> QED  BY <2>1, <2>2, <2>3
<1>4. ASSUME NEW p \in Procs, CreatePayoutStep(p)
      PROVE  Asking'
  BY <1>4, PayoutAssumption
  DEF CreatePayoutStep, CheckAvailable, RetrieveAccount, Debit, CreatePayout, ReturnCents,
      Respond, GoTo, Throw, Finish
<1>5. ASSUME NEW p \in Procs, Crash(p)
      PROVE  Asking'
  BY <1>5, PayoutAssumption DEF Crash, Finish
<1>6. ASSUME NEW r \in Requests, SettleAtStripe(r) \/ WebhookStep(r)
      PROVE  Asking'
  BY <1>6, WebhookFrame DEF SettleAtStripe
<1>7. CASE UNCHANGED vars
  BY <1>7 DEF vars
<1> QED  BY <1>1, <1>2, <1>3, <1>4, <1>5, <1>6, <1>7 DEF Next, Handle, CreatePayoutStep, WebhookStep

\* A regular request is recorded as FAILED only after createPayout has thrown
\* without a payout, and nobody takes it up again.
LEMMA FailingStep ==
    ASSUME PayoutInv, PayoutInv', VerdictInv, [Next]_vars
    PROVE  Failing'
<1> SUFFICES ASSUME NEW r \in Approvals, r \notin irregular'
             PROVE  (/\ \A p \in Procs : task[p] = r /\ phase[p] = "threw" => payout[r] = "none"
                     /\ approval[r] = "FAILED" =>
                          r \in begun /\ payout[r] = "none" /\ \A p \in Procs : ~Working(p, r))'
  BY DEF Failing
<1>0. ASSUME r \notin irregular
      PROVE  /\ \A p \in Procs : task[p] = r /\ phase[p] = "threw" => payout[r] = "none"
             /\ approval[r] = "FAILED" =>
                  r \in begun /\ payout[r] = "none" /\ \A p \in Procs : ~Working(p, r)
  BY <1>0 DEF VerdictInv, Failing
<1> USE DEF PayoutInv, TypeOK
<1>1. ASSUME NEW p \in Procs, NEW s \in Approvals, AskApproval(p, s) \/ Reject(p, s)
      PROVE  /\ r \notin irregular
             /\ UNCHANGED <<approval, payout, begun>>
             /\ \A q \in Procs : /\ (task[q] = r /\ phase[q] = "threw")' => task[q] = r /\ phase[q] = "threw"
                                 /\ Working(q, r)' => Working(q, r)
  BY <1>1 DEF AskApproval, Reject, Start, Working, PayoutPhases, history, irregular
<1>2. ASSUME NEW p \in Procs, NEW s \in Approvals, Approve(p, s)
      PROVE  /\ r \notin irregular
             /\ UNCHANGED <<approval, payout>> /\ begun \subseteq begun'
             /\ \A q \in Procs : /\ (task[q] = r /\ phase[q] = "threw")' => task[q] = r /\ phase[q] = "threw"
                                 /\ Working(q, r)' /\ approval[r] = "FAILED" => Working(q, r)
  BY <1>2 DEF Approve, Call, Start, Working, PayoutPhases, irregular
<1>3. ASSUME NEW p \in Procs, NEW s \in Direct, Submit(p, s)
      PROVE  /\ r \notin irregular
             /\ UNCHANGED <<approval, payout>> /\ begun \subseteq begun'
             /\ \A q \in Procs : /\ (task[q] = r /\ phase[q] = "threw")' => task[q] = r /\ phase[q] = "threw"
                                 /\ Working(q, r)' => Working(q, r)
  BY <1>3, PayoutAssumption DEF Submit, Call, Start, Working, PayoutPhases, irregular
<1>4. ASSUME NEW p \in Procs, Crash(p)
      PROVE  /\ r \notin irregular
             /\ UNCHANGED <<approval, payout, begun>>
             /\ \A q \in Procs : /\ (task[q] = r /\ phase[q] = "threw")' => task[q] = r /\ phase[q] = "threw"
                                 /\ Working(q, r)' => Working(q, r)
  BY <1>4 DEF Crash, Finish, Working, PayoutPhases, irregular
<1>5. ASSUME NEW s \in Requests, SettleAtStripe(s) \/ WebhookStep(s)
      PROVE  /\ r \notin irregular
             /\ payout'[r] = "none" <=> payout[r] = "none"
             /\ UNCHANGED <<approval, begun, phase, task>>
  BY <1>5, WebhookFrame DEF SettleAtStripe, history, Requests, irregular
<1>6. ASSUME NEW p \in Procs,
             CreateApproval(p) \/ RecordRejected(p) \/ RecordApproved(p) \/ RecordFailed(p)
      PROVE  /\ r \notin irregular
             /\ UNCHANGED <<payout, begun>>
             /\ \A q \in Procs : /\ (task[q] = r /\ phase[q] = "threw")' => task[q] = r /\ phase[q] = "threw"
                                 /\ Working(q, r)' => Working(q, r) /\ q # p
             /\ approval'[r] = "FAILED" =>
                    \/ approval[r] = "FAILED"
                    \/ task[p] = r /\ phase[p] = "threw"
  <2>1. /\ task' = [task EXCEPT ![p] = NoRequest] /\ phase' = [phase EXCEPT ![p] = "idle"]
        /\ UNCHANGED <<payout, begun>> /\ irregular' = irregular
    BY <1>6
    DEF CreateApproval, RecordRejected, RecordApproved, RecordFailed, Answer, Finish, history,
        irregular
  <2>2. approval'[r] = "FAILED" =>
            approval[r] = "FAILED" \/ (task[p] = r /\ phase[p] = "threw")
    BY <1>6 DEF CreateApproval, RecordRejected, RecordApproved, RecordFailed, Answer
  <2> QED  BY <2>1, <2>2, PayoutAssumption DEF Working, PayoutPhases, Requests
<1>7. ASSUME NEW p \in Procs, task[p] = r, phase[p] = "threw", r \notin irregular
      PROVE  /\ payout[r] = "none" /\ r \in begun
             /\ \A q \in Procs : Working(q, r) => q = p
  BY <1>7
  DEF VerdictInv, Failing, HandlersAreBacked, RegularRequests, Working, PayoutPhases, Requests,
      irregular
<1>8. ASSUME NEW p \in Procs, CreatePayoutStep(p)
      PROVE  /\ r \notin irregular
             /\ UNCHANGED <<approval, begun>>
             /\ \A q \in Procs : Working(q, r)' => Working(q, r)
             /\ task[p] # r => /\ payout'[r] = payout[r]
                               /\ \A q \in Procs :
                                    (task[q] = r /\ phase[q] = "threw")' => task[q] = r /\ phase[q] = "threw"
             /\ task[p] = r => /\ Working(p, r)
                               /\ \A q \in Procs : (task[q] = r /\ phase[q] = "threw")' => payout'[r] = "none"
  <2>1. /\ phase[p] \in {"opened", "checked", "enabled", "debited", "created", "refused"}
        /\ task[p] \in Requests
        /\ irregular \subseteq irregular' /\ UNCHANGED <<approval, begun>>
        /\ task' = task \/ task' = [task EXCEPT ![p] = NoRequest]
        /\ \A q \in Procs \ {p} : phase'[q] = phase[q]
        /\ task[p] # r => payout'[r] = payout[r]
    <3> HIDE DEF PayoutInv, TypeOK
    <3>1. PICK s \in Requests :
            /\ task[p] = s
            /\ phase[p] \in {"opened", "checked", "enabled", "debited", "created", "refused"}
            /\ \A q \in Procs \ {p} : phase'[q] = phase[q]
            /\ task' = task \/ task' = [task EXCEPT ![p] = NoRequest]
            /\ UNCHANGED <<approval, begun, repeated>>
            /\ unheard' \in {unheard, unheard \cup {s}}
            /\ broken' \in {broken, broken \cup {s}}
            /\ payout' \in {payout, [payout EXCEPT ![s] = "pending"]}
      BY <1>8, CreatePayoutStepFrame
    <3>2. irregular \subseteq irregular'
      BY <3>1 DEF irregular
    <3>3. task[p] # r => payout'[r] = payout[r]
      BY <3>1 DEF PayoutInv, TypeOK, Requests
    <3> QED  BY <3>1, <3>2, <3>3
  <2>2. \A q \in Procs : Working(q, r)' => Working(q, r)
    <3>1. r # NoRequest
      BY PayoutAssumption DEF Requests
    <3> QED  BY <2>1, <3>1 DEF Working, PayoutPhases
  <2>3. ASSUME task[p] = r
        PROVE  /\ Working(p, r)
               /\ \A q \in Procs : (task[q] = r /\ phase[q] = "threw")' => payout'[r] = "none"
    <3>1. Working(p, r)
      BY <2>1, <2>3 DEF Working, PayoutPhases
    <3>2. Progress(p, r) /\ \A q \in Procs : Working(q, r) => q = p
      BY <2>1, <3>1 DEF RegularRequests, Requests, irregular
    <3>3. (task[p] = r /\ phase[p] = "threw")' => payout'[r] = "none"
      <4>1. r \in begun \ repeated /\ r \notin irregular'
        BY <2>1, <3>1 DEF HandlersAreBacked, irregular, Working
      <4>2. /\ Exists(r) <=> payout[r] # "none"
            /\ HasRow(debits, r) <=> r \in debits
        BY <4>1, OnlyItself
      <4> QED
        BY <1>8, <2>3, <3>2, <4>1, <4>2
        DEF CreatePayoutStep, CheckAvailable, RetrieveAccount, Debit, CreatePayout, ReturnCents,
            Respond, GoTo, Throw, Finish, Accepted, Progress, Untouched, Withheld, irregular
    <3>4. \A q \in Procs : (task[q] = r /\ phase[q] = "threw")' => q = p
      BY <2>2, <3>2 DEF Working, PayoutPhases
    <3> QED  BY <3>1, <3>3, <3>4
  <2> QED  BY <2>1, <2>2, <2>3, PayoutAssumption DEF Requests
<1>9. CASE UNCHANGED vars
  BY <1>0, <1>9 DEF vars, history, Working, irregular
<1> HIDE DEF PayoutInv, TypeOK
<1>10. CASE \E p \in Procs, s \in Approvals : AskApproval(p, s) \/ Reject(p, s)
  BY <1>0, <1>1, <1>10
<1>11. CASE \E p \in Procs, s \in Approvals : Approve(p, s)
  BY <1>0, <1>2, <1>11
<1>12. CASE \E p \in Procs, s \in Direct : Submit(p, s)
  BY <1>0, <1>3, <1>12
<1>13. CASE \E p \in Procs : Crash(p)
  BY <1>0, <1>4, <1>13
<1>14. CASE \E s \in Requests : SettleAtStripe(s) \/ WebhookStep(s)
  BY <1>0, <1>5, <1>14 DEF Working
<1>15. CASE \E p \in Procs : CreateApproval(p) \/ RecordRejected(p) \/ RecordApproved(p) \/ RecordFailed(p)
  BY <1>0, <1>6, <1>7, <1>15
<1>16. CASE \E p \in Procs : CreatePayoutStep(p)
  BY <1>0, <1>8, <1>16
<1> QED
  BY <1>9, <1>10, <1>11, <1>12, <1>13, <1>14, <1>15, <1>16 DEF Next, Handle, CreatePayoutStep,
     WebhookStep

\* A request that is FAILED has no payout and withholds nothing, unless it was
\* answered twice or met a fault: approveRequest updates by id alone, and yet
\* no interleaving of the other requests and handlers makes it lie.
THEOREM PayoutVerdicts == Spec => []VerdictsAreTrue
<1>1. Init => VerdictInv
  BY DEF Init, VerdictInv, Asking, Failing
<1>2. PayoutInv /\ PayoutInv' /\ VerdictInv /\ [Next]_vars => VerdictInv'
  BY AskingStep, FailingStep DEF VerdictInv
<1>3. PayoutInv /\ VerdictInv => VerdictsAreTrue
  <2> SUFFICES ASSUME PayoutInv, VerdictInv, NEW r \in Approvals \ irregular,
                      approval[r] = "FAILED"
               PROVE  payout[r] = "none" /\ r \notin debits \ returns
    BY DEF VerdictsAreTrue
  <2>1. payout[r] = "none" /\ \A p \in Procs : ~Working(p, r)
    BY DEF VerdictInv, Failing
  <2>2. Agrees(r)
    BY <2>1 DEF PayoutInv, RegularRequests, irregular, Requests
  <2> QED  BY <2>1, <2>2 DEF Agrees
<1> QED  BY SpecPayoutInv, <1>1, <1>2, <1>3, PTL DEF Spec

----------------------------------------------------------------------------
(***************************************************************************)
(* The cents of an account.  AVAILABLE is always what the account started  *)
(* with, less the debits, plus what was returned or credited back; that    *)
(* needs no regularity.  A regular request adds to only one of the sides   *)
(* after its debit: it is returned, credited back or alive at Stripe.      *)
(***************************************************************************)
Books ==
    /\ IsFiniteSet(CentsOf(Amount, debits))
    /\ IsFiniteSet(CentsOf(Amount, returns))
    /\ IsFiniteSet(CentsOf(Amount, credits))
    /\ \A a \in Payees :
        available[a] + Worth(Amount, RequestsOf(a) \cap debits) =
            Funds[a] + Worth(Amount, RequestsOf(a) \cap returns)
                     + Worth(Amount, RequestsOf(a) \cap credits)

\* The webhook handles and credits failed payouts only.
Announced == \A r \in credits \cup handling : payout[r] = "failed"

LEMMA AnnouncedStep ==
    ASSUME PayoutInv, Announced, [Next]_vars
    PROVE  Announced'
<1>1. ASSUME UNCHANGED <<credits, handling>>,
             \A r \in Requests : payout[r] = "failed" => payout'[r] = "failed"
      PROVE  Announced'
  BY <1>1 DEF Announced, PayoutInv, TypeOK
<1>2. ASSUME NEW p \in Procs, CreatePayoutStep(p) PROVE Announced'
  <2>1. UNCHANGED <<credits, handling>>
    BY <1>2, CreatePayoutStepFrame DEF webhook
  <2>2. \A r \in Requests : payout[r] = "failed" => payout'[r] = "failed"
    BY <1>2
    DEF CreatePayoutStep, CheckAvailable, RetrieveAccount, Debit, CreatePayout, ReturnCents,
        Respond, Accepted, UnderKey, SameId, PayoutInv, TypeOK
  <2> QED  BY <1>1, <2>1, <2>2
<1>3. ASSUME NEW p \in Procs,
             \/ \E r \in Approvals : AskApproval(p, r) \/ Approve(p, r) \/ Reject(p, r)
             \/ \E r \in Direct : Submit(p, r)
             \/ CreateApproval(p) \/ RecordRejected(p) \/ RecordFailed(p) \/ RecordApproved(p)
             \/ Crash(p)
      PROVE  Announced'
  BY <1>1, <1>3
  DEF AskApproval, Approve, Reject, Submit, Call, CreateApproval, RecordRejected, RecordFailed,
      RecordApproved, Answer, Crash, ledger, webhook
<1>4. ASSUME NEW r \in Requests, SettleAtStripe(r) PROVE Announced'
  BY <1>1, <1>4 DEF SettleAtStripe, ledger, webhook, PayoutInv, TypeOK
<1>5. ASSUME NEW r \in Requests, WebhookStep(r) PROVE Announced'
  <2>1. payout' = payout
    BY <1>5, WebhookFrame
  <2>2. credits' \cup handling' \subseteq credits \cup handling \cup {r}
    BY <1>5
    DEF WebhookStep, Deliver, ClaimExpires, HandleFailedPayout, FailNotice, EndNotice, CreditBack,
        ledger
  <2>3. r \in credits' \cup handling' => r \in credits \cup handling \/ payout[r] = "failed"
    BY <1>5
    DEF WebhookStep, Deliver, ClaimExpires, HandleFailedPayout, FailNotice, EndNotice, CreditBack,
        ledger
  <2> QED  BY <2>1, <2>2, <2>3 DEF Announced
<1>6. CASE UNCHANGED vars
  BY <1>1, <1>6 DEF vars, ledger, webhook
<1> QED
  BY <1>2, <1>3, <1>4, <1>5, <1>6 DEF Next, Handle, CreatePayoutStep, WebhookStep

\* A request that joins a set adds its cents to its own account only.
LEMMA OneMoreRequest ==
    ASSUME NEW S, NEW r \in Requests \ S, IsFiniteSet(CentsOf(Amount, S)), NEW a \in Payees
    PROVE  /\ IsFiniteSet(CentsOf(Amount, S \cup {r}))
           /\ Worth(Amount, RequestsOf(a) \cap S) \in Nat
           /\ Worth(Amount, RequestsOf(a) \cap (S \cup {r})) =
                  Worth(Amount, RequestsOf(a) \cap S)
                    + (IF a = AccountOf[r] THEN Amount[r] ELSE 0)
<1>1. Amount[r] \in Nat /\ Amount[r] \in Int /\ Part(Amount[r]) = Amount[r]
  BY PayoutAssumption DEF Part
<1>2. IsFiniteSet(CentsOf(Amount, S \cup {r}))
  BY <1>1, WorthOfMore
<1> DEFINE T == RequestsOf(a) \cap S
<1>3. IsFiniteSet(CentsOf(Amount, T)) /\ Worth(Amount, T) \in Nat
  BY CentsWithin
<1>4. CASE a = AccountOf[r]
  <2>1. RequestsOf(a) \cap (S \cup {r}) = T \cup {r} /\ r \notin T
    BY <1>4 DEF RequestsOf
  <2>2. Worth(Amount, T \cup {r}) = Worth(Amount, T) + Part(Amount[r])
    BY <1>1, <1>3, <2>1, WorthOfMore
  <2> QED  BY <1>1, <1>2, <1>3, <1>4, <2>1, <2>2
<1>5. CASE a # AccountOf[r]
  <2>1. RequestsOf(a) \cap (S \cup {r}) = T
    BY <1>5 DEF RequestsOf
  <2>2. Worth(Amount, RequestsOf(a) \cap (S \cup {r})) = Worth(Amount, T)
    BY <2>1
  <2> HIDE DEF T
  <2>3. Worth(Amount, T) = Worth(Amount, T) + (IF a = AccountOf[r] THEN Amount[r] ELSE 0)
    BY <1>3, <1>5
  <2> QED  BY <1>2, <1>3, <2>2, <2>3 DEF T
<1> QED  BY <1>4, <1>5

\* A debit is booked on both sides.
LEMMA DebitBooks ==
    ASSUME PayoutInv, Books, NEW r \in Requests \ debits,
           available' = [available EXCEPT ![AccountOf[r]] = @ - Amount[r]],
           debits' = debits \cup {r}, UNCHANGED <<returns, credits>>
    PROVE  Books'
<1>1. IsFiniteSet(CentsOf(Amount, debits \cup {r}))
  BY PayoutAssumption, WorthOfMore DEF Books
<1>2. ASSUME NEW a \in Payees
      PROVE  available'[a] + Worth(Amount, RequestsOf(a) \cap debits') =
                 Funds[a] + Worth(Amount, RequestsOf(a) \cap returns')
                          + Worth(Amount, RequestsOf(a) \cap credits')
  <2>1. /\ Worth(Amount, RequestsOf(a) \cap debits) \in Nat
        /\ Worth(Amount, RequestsOf(a) \cap debits') =
               Worth(Amount, RequestsOf(a) \cap debits)
                 + (IF a = AccountOf[r] THEN Amount[r] ELSE 0)
    BY OneMoreRequest DEF Books
  <2>2. /\ available'[a] = available[a] - (IF a = AccountOf[r] THEN Amount[r] ELSE 0)
        /\ available[a] \in Nat /\ Amount[r] \in Nat
    BY PayoutAssumption DEF PayoutInv, TypeOK
  <2>3. available'[a] + Worth(Amount, RequestsOf(a) \cap debits') =
            available[a] + Worth(Amount, RequestsOf(a) \cap debits)
    BY <2>1, <2>2
  <2> QED  BY <2>3 DEF Books
<1> QED  BY <1>1, <1>2 DEF Books, RequestsOf

\* So is a compensation, of either kind.
LEMMA CompensationBooks ==
    ASSUME PayoutInv, Books, NEW r \in Requests,
           available' = [available EXCEPT ![AccountOf[r]] = @ + Amount[r]],
           \/ r \notin returns /\ returns' = returns \cup {r} /\ credits' = credits
           \/ r \notin credits /\ credits' = credits \cup {r} /\ returns' = returns,
           UNCHANGED debits
    PROVE  Books'
<1>1. /\ IsFiniteSet(CentsOf(Amount, returns')) /\ IsFiniteSet(CentsOf(Amount, credits'))
  BY PayoutAssumption, WorthOfMore DEF Books
<1>2. ASSUME NEW a \in Payees
      PROVE  available'[a] + Worth(Amount, RequestsOf(a) \cap debits') =
                 Funds[a] + Worth(Amount, RequestsOf(a) \cap returns')
                          + Worth(Amount, RequestsOf(a) \cap credits')
  <2>1. PICK m \in Nat : m = IF a = AccountOf[r] THEN Amount[r] ELSE 0
    BY PayoutAssumption
  <2>2. /\ available'[a] = available[a] + m
        /\ available[a] \in Nat /\ Funds[a] \in Nat
    <3>1. available[a] \in Nat /\ Funds[a] \in Nat
      BY PayoutAssumption DEF PayoutInv, TypeOK
    <3>2. available \in [Payees -> Nat]
      BY DEF PayoutInv, TypeOK
    <3>3. available'[a] = IF a = AccountOf[r] THEN available[a] + Amount[r] ELSE available[a]
      BY <3>2
    <3> QED  BY <2>1, <3>1, <3>3
  <2>3. /\ Worth(Amount, RequestsOf(a) \cap returns) \in Nat
        /\ Worth(Amount, RequestsOf(a) \cap credits) \in Nat
        /\ Worth(Amount, RequestsOf(a) \cap debits) \in Nat
    BY CentsWithin DEF Books
  <2>4. CASE r \notin returns /\ returns' = returns \cup {r} /\ credits' = credits
    <3>1. Worth(Amount, RequestsOf(a) \cap returns') = Worth(Amount, RequestsOf(a) \cap returns) + m
      BY <2>1, <2>4, OneMoreRequest DEF Books
    <3>2. available[a] + Worth(Amount, RequestsOf(a) \cap debits) =
              Funds[a] + Worth(Amount, RequestsOf(a) \cap returns)
                       + Worth(Amount, RequestsOf(a) \cap credits)
      BY DEF Books
    <3> QED  BY <2>1, <2>2, <2>3, <2>4, <3>1, <3>2
  <2>5. CASE r \notin credits /\ credits' = credits \cup {r} /\ returns' = returns
    <3>1. Worth(Amount, RequestsOf(a) \cap credits') = Worth(Amount, RequestsOf(a) \cap credits) + m
      BY <2>1, <2>5, OneMoreRequest DEF Books
    <3>2. available[a] + Worth(Amount, RequestsOf(a) \cap debits) =
              Funds[a] + Worth(Amount, RequestsOf(a) \cap returns)
                       + Worth(Amount, RequestsOf(a) \cap credits)
      BY DEF Books
    <3>3. available'[a] + Worth(Amount, RequestsOf(a) \cap debits) =
              Funds[a] + Worth(Amount, RequestsOf(a) \cap returns)
                       + (Worth(Amount, RequestsOf(a) \cap credits) + m)
      BY <2>1, <2>2, <2>3, <3>2
    <3> QED  BY <2>5, <3>1, <3>3
  <2> QED  BY <2>4, <2>5
<1> QED  BY <1>1, <1>2 DEF Books, RequestsOf

\* Every step keeps the books.
LEMMA NextKeepsBooks ==
    ASSUME PayoutInv, Books, [Next]_vars
    PROVE  Books'
<1>1. CASE UNCHANGED ledger
  BY <1>1 DEF Books, ledger, RequestsOf
<1>2. ASSUME NEW p \in Procs, Debit(p) PROVE Books'
  <2>1. task[p] \in Requests
    BY <1>2 DEF Debit, PayoutInv, TypeOK
  <2>2. CASE UNCHANGED ledger
    BY <1>1, <1>2, <2>2 DEF Debit
  <2>3. CASE ~UNCHANGED ledger
    BY <1>2, <2>1, <2>3, DebitBooks DEF Debit, ledger
  <2> QED  BY <2>2, <2>3
<1>3. ASSUME NEW p \in Procs, ReturnCents(p) PROVE Books'
  <2>1. task[p] \in Requests
    BY <1>3 DEF ReturnCents, PayoutInv, TypeOK
  <2>2. CASE UNCHANGED ledger
    BY <1>1, <1>3, <2>2 DEF ReturnCents
  <2>3. CASE ~UNCHANGED ledger
    BY <1>3, <2>1, <2>3, CompensationBooks DEF ReturnCents, HasRow, SameId, ledger, history
  <2> QED  BY <2>2, <2>3
<1>4. ASSUME NEW r \in Requests, WebhookStep(r) PROVE Books'
  <2>1. CASE UNCHANGED ledger
    BY <1>1, <1>4, <2>1, WebhookFrame
  <2>2. CASE HandleFailedPayout(r) /\ r \notin credits /\ CreditBack(r)
    BY <2>2, CompensationBooks
    DEF HandleFailedPayout, EndNotice, CreditBack, history
  <2> QED  BY <1>4, <2>1, <2>2, WebhookFrame
<1>5. ASSUME NEW r \in Requests, SettleAtStripe(r) PROVE Books'
  BY <1>1, <1>5 DEF SettleAtStripe
<1>6. ASSUME NEW p \in Procs, CreatePayout(p) PROVE Books'
  BY <1>1, <1>6 DEF CreatePayout
<1>7. ASSUME NEW p \in Procs,
             \/ \E r \in Approvals : AskApproval(p, r) \/ Approve(p, r) \/ Reject(p, r)
             \/ \E r \in Direct : Submit(p, r)
             \/ CreateApproval(p) \/ RecordRejected(p) \/ RecordFailed(p) \/ RecordApproved(p)
             \/ CheckAvailable(p) \/ RetrieveAccount(p) \/ Respond(p) \/ Crash(p)
      PROVE  Books'
  <2>1. UNCHANGED ledger
    BY <1>7 DEF AskApproval, Approve, Reject, Submit, Call, CreateApproval, RecordRejected, RecordFailed,
                RecordApproved, Answer, CheckAvailable, RetrieveAccount, Respond, Crash
  <2> QED  BY <1>1, <2>1
<1>8. CASE UNCHANGED vars
  BY <1>1, <1>8 DEF vars
<1> QED  BY <1>2, <1>3, <1>4, <1>5, <1>6, <1>7, <1>8 DEF Next, Handle, WebhookStep

\* A regular request has cents on one side only.
LEMMA BooksCoverPayouts ==
    ASSUME PayoutInv, Announced, Books
    PROVE  PaidWithinFunds
<1> SUFFICES ASSUME NEW a \in Payees, RequestsOf(a) \cap irregular = {}
             PROVE  available[a] + Worth(Amount, RequestsOf(a) \cap Alive) <= Funds[a]
  BY DEF PaidWithinFunds
<1> DEFINE X == RequestsOf(a) \cap Alive
           R == RequestsOf(a) \cap returns
           C == RequestsOf(a) \cap credits
           D == RequestsOf(a) \cap debits
<1>1. \A r \in RequestsOf(a) : Backed(r)
  BY DEF PayoutInv, RegularRequests, RequestsOf, irregular
<1>2. /\ X \cap R = {} /\ (X \cup R) \cap C = {}
      /\ X \cup R \cup C \subseteq D
  BY <1>1 DEF Alive, Announced, RequestsOf, Backed
<1>3. IsFiniteSet(CentsOf(Amount, D))
  BY CentsWithin DEF Books
<1> HIDE DEF X, R, C, D
<1>4. /\ IsFiniteSet(CentsOf(Amount, X)) /\ IsFiniteSet(CentsOf(Amount, R))
      /\ IsFiniteSet(CentsOf(Amount, C)) /\ IsFiniteSet(CentsOf(Amount, X \cup R))
      /\ Worth(Amount, X) \in Nat /\ Worth(Amount, R) \in Nat /\ Worth(Amount, C) \in Nat
      /\ Worth(Amount, D) \in Nat
      /\ Worth(Amount, X \cup R \cup C) <= Worth(Amount, D)
  BY <1>2, <1>3, CentsWithin
<1>5. Worth(Amount, X \cup R) = Worth(Amount, X) + Worth(Amount, R)
  BY <1>2, <1>4, WorthOfUnion
<1>6. Worth(Amount, X \cup R \cup C) = Worth(Amount, X \cup R) + Worth(Amount, C)
  BY <1>2, <1>4, WorthOfUnion
<1>7. available[a] + Worth(Amount, D) = Funds[a] + Worth(Amount, R) + Worth(Amount, C)
  BY DEF Books, D, R, C
<1>8. available[a] \in Nat /\ Funds[a] \in Nat
  BY PayoutAssumption DEF PayoutInv, TypeOK
<1>9. available[a] + Worth(Amount, X) <= Funds[a]
  BY <1>4, <1>5, <1>6, <1>7, <1>8
<1> QED  BY <1>9 DEF X

\* An account's owner gets no more than the account held, for any number of
\* requests, handlers and faults, and any amounts.
THEOREM PayoutsStayWithinFunds == Spec => []PaidWithinFunds
<1>1. Init => Announced /\ Books
  <2> SUFFICES ASSUME Init PROVE Announced /\ Books
    OBVIOUS
  <2>1. CentsOf(Amount, {}) = {}
    BY DEF CentsOf
  <2>2. IsFiniteSet(CentsOf(Amount, {})) /\ Worth(Amount, {}) = 0
    BY <2>1, FS_EmptySet DEF Worth
  <2>3. \A a \in Payees : RequestsOf(a) \cap {} = {} /\ Funds[a] \in Nat
    BY PayoutAssumption
  <2> QED  BY <2>2, <2>3 DEF Init, Announced, Books
<1>2. PayoutInv /\ Announced /\ Books /\ [Next]_vars => Announced' /\ Books'
  BY AnnouncedStep, NextKeepsBooks
<1>3. PayoutInv /\ Announced /\ Books => PaidWithinFunds
  BY BooksCoverPayouts
<1> QED  BY <1>1, <1>2, <1>3, SpecPayoutInv, PTL DEF Spec
=============================================================================
