---------------------- MODULE DestructiveIntentsProofs ----------------------
(***************************************************************************)
(* Theorems about the destructive intents, for every set of intents,       *)
(* products and request handlers, and any number of calls, edits and       *)
(* faults.                                                                 *)
(***************************************************************************)
EXTENDS DestructiveIntents, TLAPS

----------------------------------------------------------------------------
(***************************************************************************)
(* Types.                                                                  *)
(***************************************************************************)
LEMMA Targets == \A i \in Intents : Target[i] \in Products
  BY IntentAssumption

LEMMA NoneIsNothing == None \notin Intents \cup States
  BY IntentAssumption DEF States

LEMMA InitTypeOK == Init => TypeOK
  BY IntentAssumption DEF Init, TypeOK, States, Phases, Marks

\* What every step of a handler has to go by.
LEMMA AtWork ==
    ASSUME TypeOK, NEW p \in Procs
    PROVE  /\ phase \in [Procs -> Phases] /\ work \in [Procs -> Intents \cup {None}]
           /\ found \in [Procs -> Marks \cup {None}] /\ kept \in [Procs -> States \cup {None}]
           /\ phase[p] = "idle" <=> work[p] = None
           /\ phase[p] # "idle" => work[p] \in Intents /\ Target[work[p]] \in Products
  BY Targets DEF TypeOK

LEMMA LeaveTypes ==
    ASSUME TypeOK, NEW p \in Procs, Leave(p)
    PROVE  /\ phase' \in [Procs -> Phases] /\ work' \in [Procs -> Intents \cup {None}]
           /\ found' \in [Procs -> Marks \cup {None}] /\ kept' \in [Procs -> States \cup {None}]
           /\ \A q \in Procs : phase'[q] = "idle" <=> work'[q] = None
           /\ work'[p] = None /\ phase'[p] = "idle"
           /\ \A q \in Procs \ {p} : /\ phase'[q] = phase[q] /\ work'[q] = work[q]
                                     /\ found'[q] = found[q] /\ kept'[q] = kept[q]
<1>1. "idle" \in Phases
  BY DEF Phases
<1> QED  BY <1>1 DEF TypeOK, Leave, Goto

LEMMA GotoTypes ==
    ASSUME TypeOK, NEW p \in Procs, NEW w \in Phases, Goto(p, w), w # "idle", phase[p] # "idle",
           work' = work
    PROVE  /\ phase' \in [Procs -> Phases]
           /\ \A q \in Procs : phase'[q] = "idle" <=> work'[q] = None
           /\ phase'[p] = w
           /\ \A q \in Procs \ {p} : phase'[q] = phase[q]
  BY DEF TypeOK, Goto

LEMMA MarkTypes ==
    ASSUME TypeOK, NEW i \in Intents, NEW s \in Marks, Mark(i, s)
    PROVE  /\ status' \in [Intents -> Marks \cup {"none"}]
           /\ status'[i] = s
           /\ \A j \in Intents \ {i} : status'[j] = status[j]
  BY DEF TypeOK, Mark

LEMMA WriteTypes ==
    ASSUME TypeOK, NEW i \in Intents \cup {None}, NEW o \in Products, NEW s \in States, Write(i, o, s)
    PROVE  /\ product' \in [Products -> States]
           /\ product'[o] = s
           /\ \A x \in Products \ {o} : product'[x] = product[x]
           /\ meddled' \subseteq Intents /\ meddled \subseteq meddled'
           /\ i \in meddled' => i \in meddled
           /\ \A j \in Intents \ {i} :
                /\ Target[j] = o
                /\ runs[j] > 0 \/ \E q \in Procs : work[q] = j /\ phase[q] = "apply"
                => j \in meddled'
  BY DEF TypeOK, Write, Others

LEMMA LoadTypes ==
    ASSUME TypeOK, NEW p \in Procs, NEW i \in Intents, NEW w \in Phases, w # "idle", Load(p, i, w)
    PROVE  /\ phase' \in [Procs -> Phases] /\ work' \in [Procs -> Intents \cup {None}]
           /\ found' \in [Procs -> Marks \cup {None}] /\ kept' \in [Procs -> States \cup {None}]
           /\ \A q \in Procs : phase'[q] = "idle" <=> work'[q] = None
           /\ phase'[p] = w /\ work'[p] = i /\ found'[p] = status[i] /\ kept'[p] = snapshot[i]
           /\ \A q \in Procs \ {p} : /\ phase'[q] = phase[q] /\ work'[q] = work[q]
                                     /\ found'[q] = found[q] /\ kept'[q] = kept[q]
           /\ calls' \in 0 .. MaxCalls
           /\ overlapped' \subseteq Intents
<1>1. i # None
  BY NoneIsNothing
<1>2. calls' \in 0 .. MaxCalls
  BY IntentAssumption DEF TypeOK, Load
<1>3. status[i] \in Marks /\ snapshot[i] \in States \cup {None}
  BY DEF TypeOK, Load
<1>4. overlapped' \subseteq Intents
  BY DEF TypeOK, Load
<1> QED  BY <1>1, <1>2, <1>3, <1>4 DEF TypeOK, Load, Goto

\* An executed intent has a snapshot, and who is to restore a product a state.
Snapped ==
    /\ \A i \in Intents : status[i] = "EXECUTED" => snapshot[i] # None
    /\ \A p \in Procs : \/ phase[p] \in {"apply", "done", "restore"}
                        \/ phase[p] = "judge" /\ found[p] = "EXECUTED"
                        => kept[p] # None

LEMMA TypesKept == TypeOK /\ Snapped /\ [Next]_vars => TypeOK'
<1> SUFFICES ASSUME TypeOK, Snapped, [Next]_vars PROVE TypeOK'
  OBVIOUS
<1> USE DEF rows, clock, procs, bounds, history
<1>1. ASSUME NEW i \in Intents, Create(i) \/ Lapse(i) \/ CloseWindow(i) PROVE TypeOK'
  <2>1. CASE Create(i)
    <3>1. status' \in [Intents -> Marks \cup {"none"}]
      BY <2>1, MarkTypes DEF Create, Marks
    <3> QED  BY <2>1, <3>1 DEF Create, TypeOK
  <2>2. CASE Lapse(i)
    BY <2>2 DEF Lapse, TypeOK
  <2>3. CASE CloseWindow(i)
    BY <2>3 DEF CloseWindow, TypeOK
  <2> QED  BY <1>1, <2>1, <2>2, <2>3
<1>2. ASSUME NEW i \in Intents, ExpireArrives(i) PROVE TypeOK'
  <2>1. status' \in [Intents -> Marks \cup {"none"}]
    BY <1>2, MarkTypes DEF ExpireArrives, Marks, TypeOK
  <2>2. expiring' \in [Intents -> Nat]
    BY <1>2 DEF ExpireArrives, TypeOK
  <2> QED  BY <1>2, <2>1, <2>2 DEF ExpireArrives, TypeOK
<1>3. ASSUME NEW o \in Products, NEW s \in Statuses \cup {"gone"}, Edit(o, s) PROVE TypeOK'
  <2>1. product' \in [Products -> States] /\ meddled' \subseteq Intents
    BY <1>3, WriteTypes DEF Edit, States
  <2>2. edits' \in 0 .. MaxEdits
    BY <1>3, IntentAssumption DEF Edit, TypeOK
  <2> QED  BY <1>3, <2>1, <2>2 DEF Edit, TypeOK
<1>4. ASSUME NEW p \in Procs, NEW i \in Intents, BeginConfirm(p, i) \/ BeginUndo(p, i) PROVE TypeOK'
  <2>1. PICK w \in {"check", "judge"} : Load(p, i, w)
    BY <1>4 DEF BeginConfirm, BeginUndo
  <2>2. w \in Phases /\ w # "idle"
    BY DEF Phases
  <2> QED  BY <2>1, <2>2, LoadTypes DEF Load, TypeOK
<1>5. ASSUME NEW p \in Procs, CheckConfirm(p) PROVE TypeOK'
  <2>1. expiring' \in [Intents -> Nat]
    BY <1>5, AtWork DEF CheckConfirm, TypeOK
  <2>2. CASE Goto(p, "confirm") /\ UNCHANGED <<work, found, kept>>
    <3>1. "confirm" \in Phases /\ phase[p] # "idle"
      BY <1>5 DEF Phases, CheckConfirm
    <3> QED  BY <1>5, <2>1, <2>2, <3>1, GotoTypes DEF CheckConfirm, TypeOK
  <2>3. CASE Leave(p)
    BY <1>5, <2>1, <2>3, LeaveTypes DEF CheckConfirm, TypeOK
  <2> QED  BY <1>5, <2>2, <2>3 DEF CheckConfirm
<1>6. ASSUME NEW p \in Procs, MarkConfirmed(p) \/ MarkExecuting(p) PROVE TypeOK'
  <2>1. PICK w \in {"confirmed", "read"}, s \in {"CONFIRMED", "EXECUTING"} :
            Goto(p, w) /\ Mark(work[p], s)
    BY <1>6 DEF MarkConfirmed, MarkExecuting
  <2>2. w \in Phases /\ s \in Marks /\ w # "idle" /\ phase[p] # "idle"
        /\ UNCHANGED <<snapshot, clock, expiring, product, work, found, kept, bounds, history>>
    BY <1>6 DEF Phases, Marks, MarkConfirmed, MarkExecuting
  <2> QED  BY <2>1, <2>2, AtWork, GotoTypes, MarkTypes DEF TypeOK
<1>7. ASSUME NEW p \in Procs, ReadProduct(p) PROVE TypeOK'
  <2>1. PICK w \in {"failed", "apply"} : Goto(p, w)
    BY <1>7 DEF ReadProduct
  <2>2. w \in Phases /\ w # "idle" /\ phase[p] # "idle"
        /\ UNCHANGED <<rows, clock, expiring, product, work, found, bounds, history>>
    BY <1>7 DEF Phases, ReadProduct
  <2>3. kept' \in [Procs -> States \cup {None}]
    BY <1>7, <2>2, AtWork DEF ReadProduct, TypeOK
  <2> QED  BY <2>1, <2>2, <2>3, GotoTypes DEF TypeOK
<1>8. ASSUME NEW p \in Procs, Apply(p) PROVE TypeOK'
  <2>1. /\ phase[p] # "idle" /\ work[p] \in Intents /\ Target[work[p]] \in Products
        /\ {"failed", "done"} \subseteq Phases
        /\ UNCHANGED <<rows, clock, expiring, work, found, kept, bounds, overlapped, faulted, restores>>
    BY <1>8, AtWork DEF Apply, Phases
  <2>2. CASE Goto(p, "failed") /\ UNCHANGED <<product, runs, before, meddled>>
    BY <2>1, <2>2, GotoTypes DEF TypeOK
  <2>3. CASE ~ (Goto(p, "failed") /\ UNCHANGED <<product, runs, before, meddled>>)
    <3>1. /\ Write(work[p], Target[work[p]], IF Kind[work[p]] = "archive" THEN "ARCHIVED" ELSE "gone")
          /\ runs' = [runs EXCEPT ![work[p]] = @ + 1]
          /\ before' = [before EXCEPT ![work[p]] = IF @ = None THEN product[Target[work[p]]] ELSE @]
          /\ Goto(p, "done")
      BY <1>8, <2>3 DEF Apply
    <3>2. product' \in [Products -> States] /\ meddled' \subseteq Intents
      BY <2>1, <3>1, WriteTypes DEF States
    <3>3. runs' \in [Intents -> Nat] /\ before' \in [Intents -> States \cup {None}]
      BY <2>1, <3>1 DEF TypeOK
    <3> QED  BY <2>1, <3>1, <3>2, <3>3, GotoTypes DEF TypeOK
  <2> QED  BY <2>2, <2>3
<1>9. ASSUME NEW p \in Procs, MarkExecuted(p) PROVE TypeOK'
  <2>1. status' \in [Intents -> Marks \cup {"none"}] /\ snapshot' \in [Intents -> States \cup {None}]
    BY <1>9, AtWork, MarkTypes DEF MarkExecuted, TypeOK, Marks
  <2> QED  BY <1>9, <2>1, LeaveTypes DEF MarkExecuted, TypeOK
<1>10. ASSUME NEW p \in Procs, MarkFailed(p) \/ MarkUndone(p) PROVE TypeOK'
  <2>1. status' \in [Intents -> Marks \cup {"none"}]
    BY <1>10, AtWork, MarkTypes DEF MarkFailed, MarkUndone, Marks
  <2> QED  BY <1>10, <2>1, LeaveTypes DEF MarkFailed, MarkUndone, TypeOK
<1>11. ASSUME NEW p \in Procs, Fail(p) PROVE TypeOK'
  <2>1. faults' \in 0 .. MaxFaults /\ faulted' \subseteq Intents
    BY <1>11, AtWork, IntentAssumption DEF Fail, TypeOK
  <2>2. "failed" \in Phases /\ phase[p] # "idle"
    BY <1>11 DEF Fail, Phases
  <2> QED  BY <1>11, <2>1, <2>2, GotoTypes DEF Fail, TypeOK
<1>12. ASSUME NEW p \in Procs, CheckUndo(p) PROVE TypeOK'
  <2>1. "restore" \in Phases /\ phase[p] # "idle"
    BY <1>12 DEF CheckUndo, Phases
  <2> QED  BY <1>12, <2>1, GotoTypes, LeaveTypes DEF CheckUndo, TypeOK
<1>13. ASSUME NEW p \in Procs, Restore(p) PROVE TypeOK'
  <2>1. /\ phase[p] = "restore" /\ work[p] \in Intents /\ Target[work[p]] \in Products
        /\ "restored" \in Phases
        /\ UNCHANGED <<rows, clock, expiring, bounds, runs, before, overlapped, faulted>>
    BY <1>13, AtWork DEF Restore, Phases
  <2>2. CASE Leave(p) /\ UNCHANGED <<product, meddled, restores>>
    BY <2>1, <2>2, LeaveTypes DEF TypeOK
  <2>3. CASE ~ (Leave(p) /\ UNCHANGED <<product, meddled, restores>>)
    <3>1. /\ Write(work[p], Target[work[p]], kept[p])
          /\ restores' = [restores EXCEPT ![work[p]] = @ + 1]
          /\ Goto(p, "restored") /\ UNCHANGED <<work, found, kept>>
      BY <1>13, <2>3 DEF Restore, Restored
    <3>2. kept[p] \in States
      BY <2>1, AtWork DEF Snapped
    <3>3. product' \in [Products -> States] /\ meddled' \subseteq Intents
      BY <2>1, <3>1, <3>2, WriteTypes
    <3>4. restores' \in [Intents -> Nat]
      BY <2>1, <3>1 DEF TypeOK
    <3> QED  BY <2>1, <3>1, <3>3, <3>4, GotoTypes DEF TypeOK
  <2> QED  BY <2>2, <2>3
<1>14. ASSUME NEW p \in Procs, Crash(p) PROVE TypeOK'
  <2>1. faults' \in 0 .. MaxFaults /\ faulted' \subseteq Intents
    BY <1>14, AtWork, IntentAssumption DEF Crash, TypeOK
  <2> QED  BY <1>14, <2>1, LeaveTypes DEF Crash, TypeOK
<1>15. CASE UNCHANGED vars
  BY <1>15 DEF vars, TypeOK
<1> QED
  BY <1>1, <1>2, <1>3, <1>4, <1>5, <1>6, <1>7, <1>8, <1>9, <1>10, <1>11, <1>12, <1>13, <1>14, <1>15
     DEF Next

LEMMA SnappedKept == TypeOK /\ Snapped /\ [Next]_vars => Snapped'
<1> SUFFICES ASSUME TypeOK, Snapped, [Next]_vars PROVE Snapped'
  OBVIOUS
<1> USE DEF rows, clock, procs, bounds, history
<1>1. ASSUME NEW i \in Intents, Create(i) \/ Lapse(i) \/ CloseWindow(i) \/ ExpireArrives(i) PROVE Snapped'
  <2>1. \A j \in Intents : status'[j] = "EXECUTED" => status[j] = "EXECUTED"
    BY <1>1 DEF Create, Lapse, CloseWindow, ExpireArrives, Mark, TypeOK
  <2> QED  BY <1>1, <2>1 DEF Create, Lapse, CloseWindow, ExpireArrives, Snapped
<1>2. ASSUME NEW o \in Products, NEW s \in Statuses \cup {"gone"}, Edit(o, s) PROVE Snapped'
  BY <1>2 DEF Edit, Snapped
<1>3. ASSUME NEW p \in Procs, NEW i \in Intents, BeginConfirm(p, i) \/ BeginUndo(p, i) PROVE Snapped'
  <2>1. PICK w \in {"check", "judge"} : Load(p, i, w)
    BY <1>3 DEF BeginConfirm, BeginUndo
  <2>2. w \in Phases /\ w # "idle"
    BY DEF Phases
  <2>3. UNCHANGED rows
    BY <2>1 DEF Load
  <2> QED  BY <2>1, <2>2, <2>3, LoadTypes DEF Snapped
<1>4. ASSUME NEW p \in Procs, UNCHANGED rows,
             \A q \in Procs \ {p} : phase'[q] = phase[q] /\ found'[q] = found[q] /\ kept'[q] = kept[q],
             \/ phase'[p] \notin {"apply", "done", "restore", "judge"}
             \/ phase'[p] # "judge" /\ kept'[p] # None
      PROVE  Snapped'
  BY <1>4 DEF Snapped
<1>5. ASSUME NEW p \in Procs, CheckConfirm(p) \/ CheckUndo(p) \/ Restore(p) \/ Crash(p) \/ Fail(p)
      PROVE  Snapped'
  <2>1. UNCHANGED rows /\ {"confirm", "restore", "restored", "failed"} \subseteq Phases /\ phase[p] # "idle"
    BY <1>5 DEF CheckConfirm, CheckUndo, Restore, Crash, Fail, Phases
  <2>2. CASE Leave(p)
    BY <1>4, <2>1, <2>2, LeaveTypes
  <2>3. CASE ~ Leave(p)
    <3>1. /\ UNCHANGED <<work, found, kept>>
          /\ \/ Goto(p, "confirm") \/ Goto(p, "restored") \/ Goto(p, "failed")
             \/ Goto(p, "restore") /\ phase[p] = "judge" /\ found[p] = "EXECUTED"
      BY <1>5, <2>3 DEF CheckConfirm, CheckUndo, Restore, Crash, Fail, Undoable
    <3>2. /\ \A q \in Procs \ {p} : phase'[q] = phase[q]
          /\ \/ phase'[p] \in {"confirm", "restored", "failed"}
             \/ phase'[p] = "restore" /\ kept[p] # None
      BY <2>1, <3>1, GotoTypes DEF Snapped
    <3> QED  BY <1>4, <2>1, <3>1, <3>2
  <2> QED  BY <2>2, <2>3
<1>6. ASSUME NEW p \in Procs, MarkConfirmed(p) \/ MarkExecuting(p) \/ MarkFailed(p) \/ MarkUndone(p)
      PROVE  Snapped'
  <2>1. phase[p] # "idle" /\ snapshot' = snapshot
    BY <1>6 DEF MarkConfirmed, MarkExecuting, MarkFailed, MarkUndone
  <2>2. PICK s \in {"CONFIRMED", "EXECUTING", "FAILED", "UNDONE"} : Mark(work[p], s)
    BY <1>6 DEF MarkConfirmed, MarkExecuting, MarkFailed, MarkUndone
  <2>3. s \in Marks /\ work[p] \in Intents
    BY <2>1, AtWork DEF Marks
  <2>4. \A i \in Intents : status'[i] = "EXECUTED" => status[i] = "EXECUTED"
    BY <2>2, <2>3, MarkTypes
  <2>5. CASE Leave(p)
    BY <2>1, <2>4, <2>5, LeaveTypes DEF Snapped
  <2>6. CASE ~ Leave(p)
    <3>1. (Goto(p, "confirmed") \/ Goto(p, "read")) /\ UNCHANGED <<work, found, kept>>
      BY <1>6, <2>6 DEF MarkConfirmed, MarkExecuting, MarkFailed, MarkUndone
    <3>2. {"confirmed", "read"} \subseteq Phases
      BY DEF Phases
    <3> QED  BY <2>1, <2>4, <3>1, <3>2, GotoTypes DEF Snapped
  <2> QED  BY <2>5, <2>6
<1>7. ASSUME NEW p \in Procs, ReadProduct(p) PROVE Snapped'
  <2>1. /\ UNCHANGED <<rows, work, found>> /\ phase[p] # "idle" /\ {"failed", "apply"} \subseteq Phases
        /\ Goto(p, "failed") \/ Goto(p, "apply")
        /\ kept' = [kept EXCEPT ![p] = product[Target[work[p]]]]
    BY <1>7 DEF ReadProduct, Phases
  <2>2. product[Target[work[p]]] # None
    BY <2>1, AtWork, NoneIsNothing DEF TypeOK
  <2>3. kept'[p] # None /\ \A q \in Procs \ {p} : kept'[q] = kept[q]
    BY <2>1, <2>2 DEF TypeOK
  <2> QED  BY <1>4, <2>1, <2>3, GotoTypes
<1>8. ASSUME NEW p \in Procs, Apply(p) PROVE Snapped'
  <2>1. /\ UNCHANGED <<rows, work, found, kept>> /\ phase[p] = "apply" /\ {"failed", "done"} \subseteq Phases
        /\ Goto(p, "failed") \/ Goto(p, "done")
    BY <1>8 DEF Apply, Phases
  <2>2. kept'[p] # None
    BY <2>1 DEF Snapped
  <2> QED  BY <1>4, <2>1, <2>2, GotoTypes
<1>9. ASSUME NEW p \in Procs, MarkExecuted(p) PROVE Snapped'
  <2>1. /\ phase[p] = "done" /\ kept[p] # None /\ work[p] \in Intents
        /\ Mark(work[p], "EXECUTED") /\ Leave(p) /\ snapshot' = [snapshot EXCEPT ![work[p]] = kept[p]]
    BY <1>9, AtWork DEF MarkExecuted, Snapped
  <2>2. \A i \in Intents : status'[i] = "EXECUTED" => snapshot'[i] # None
    BY <2>1, MarkTypes DEF Marks, TypeOK, Snapped
  <2> QED  BY <2>1, <2>2, LeaveTypes DEF Snapped
<1>10. CASE UNCHANGED vars
  BY <1>10 DEF vars, Snapped
<1> QED
  BY <1>1, <1>2, <1>3, <1>5, <1>6, <1>7, <1>8, <1>9, <1>10 DEF Next

LEMMA TypesHold == Spec => [](TypeOK /\ Snapped)
<1>1. Init => TypeOK /\ Snapped
  BY InitTypeOK DEF Init, Snapped
<1> QED  BY <1>1, TypesKept, SnappedKept, PTL DEF Spec

\* Types; a product is restored to a state it can have, also when calls overlap.
THEOREM IntentTypeOK == Spec => []TypeOK
  BY TypesHold, PTL

----------------------------------------------------------------------------
(***************************************************************************)
(* An intent of which no two calls overlapped.  The one call at work on it *)
(* knows what its row says, and no update to EXPIRED is on its way while   *)
(* the intent is being executed or after it was.                           *)
(***************************************************************************)
Alone == \A p, q \in Procs : work[p] = work[q] /\ work[p] \in Intents \ overlapped => p = q

LateOnly == \A i \in Intents : expiring[i] > 0 \/ status[i] = "EXPIRED" => i \in lapsed

Created == \A p \in Procs : phase[p] # "idle" => status[work[p]] # "none"

\* The row and the effect.
Recorded(i) ==
    /\ runs[i] \in {0, 1}
    /\ status[i] \in {"none", "PENDING"} => runs[i] = 0
    /\ runs[i] = 0 => restores[i] = 0 /\ before[i] = None
    /\ status[i] = "EXECUTED" =>
        /\ runs[i] = 1 /\ expiring[i] = 0
        /\ i \notin meddled => snapshot[i] = before[i]
    /\ status[i] = "UNDONE" =>
        /\ runs[i] = 1 /\ restores[i] > 0
        /\ i \notin meddled => product[Target[i]] = before[i]

\* As long as no call failed on its way, the row tells the effect.
Tells(i) ==
    /\ restores[i] <= 1
    /\ status[i] = "EXECUTED" /\ restores[i] > 0 =>
        \E p \in Procs : work[p] = i /\ phase[p] = "restored"
    /\ runs[i] = 1 => \/ status[i] \in {"EXECUTED", "UNDONE"} \/ restores[i] > 0
                      \/ \E p \in Procs : work[p] = i /\ phase[p] = "done"

\* A call that executes it, one that undoes it, and any call.
Executing(p, i) ==
    /\ status[i] = CASE phase[p] = "confirm" -> "PENDING"
                     [] phase[p] = "confirmed" -> "CONFIRMED"
                     [] OTHER -> "EXECUTING"
    /\ expiring[i] = 0
    /\ phase[p] # "failed" => runs[i] = IF phase[p] = "done" THEN 1 ELSE 0
    /\ i \notin faulted => restores[i] = 0 /\ (phase[p] = "failed" => runs[i] = 0)
    /\ i \notin meddled => /\ phase[p] = "apply" => kept[p] = product[Target[i]]
                           /\ phase[p] = "done" => kept[p] = before[i]

Undoing(p, i) ==
    /\ status[i] = "EXECUTED"
    /\ phase[p] = "restore" => kept[p] = snapshot[i]
    /\ phase[p] = "restored" =>
        /\ restores[i] > 0
        /\ i \notin meddled => product[Target[i]] = before[i]

Placed(p, i) ==
    /\ phase[p] \in {"check", "judge"} =>
        /\ found[p] = status[i] \/ (status[i] = "EXPIRED" /\ found[p] # "EXECUTED")
        /\ kept[p] = snapshot[i]
    /\ phase[p] \in {"confirm", "confirmed", "read", "apply", "done", "failed"} => Executing(p, i)
    /\ phase[p] \in {"restore", "restored"} => Undoing(p, i)

Good(i) == /\ Recorded(i)
           /\ i \notin faulted => Tells(i)
           /\ \A p \in Procs : work[p] = i => Placed(p, i)

IntentInv == /\ TypeOK /\ Snapped
             /\ Alone /\ LateOnly /\ Created
             /\ \A i \in Intents \ overlapped : Good(i)

\* What a step leaves alone of an intent that is not its own: all but the
\* product, which it may change when the intent has not read it, or is meddled
\* with from then on.
Keeps(j) ==
    /\ status'[j] = status[j] /\ snapshot'[j] = snapshot[j] /\ expiring'[j] = expiring[j]
    /\ runs'[j] = runs[j] /\ before'[j] = before[j] /\ restores'[j] = restores[j]
    /\ \/ product'[Target[j]] = product[Target[j]] \/ j \in meddled'
       \/ runs[j] = 0 /\ \A p \in Procs : ~ (work[p] = j /\ phase[p] = "apply")

Stays(p) == /\ phase'[p] = phase[p] /\ work'[p] = work[p]
            /\ found'[p] = found[p] /\ kept'[p] = kept[p]

LEMMA OthersStayGood ==
    ASSUME NEW j \in Intents, Good(j), Keeps(j),
           \A p \in Procs : Stays(p) \/ (work[p] # j /\ work'[p] # j),
           faulted \subseteq faulted', meddled \subseteq meddled'
    PROVE  Good(j)'
<1>1. Recorded(j)'
  BY DEF Good, Recorded, Keeps
<1>2. j \notin faulted' => Tells(j)'
  BY DEF Good, Tells, Keeps, Stays
<1>3. ASSUME NEW p \in Procs, work'[p] = j PROVE Placed(p, j)'
  <2>1. Stays(p) /\ Placed(p, j)
    BY <1>3 DEF Good, Stays
  <2>2. /\ phase[p] \in {"confirm", "confirmed", "read", "apply", "done", "failed"} => Executing(p, j)'
        /\ phase[p] \in {"restore", "restored"} => Undoing(p, j)'
    BY <1>3, <2>1 DEF Placed, Executing, Undoing, Keeps, Stays, Good, Recorded
  <2> QED  BY <2>1, <2>2 DEF Placed, Keeps, Stays
<1> QED  BY <1>1, <1>2, <1>3 DEF Good

\* The product of another intent changes.
LEMMA WriteKeeps ==
    ASSUME TypeOK, NEW i \in Intents \cup {None}, NEW o \in Products, NEW s \in States, Write(i, o, s)
    PROVE  \A j \in Intents \ {i} :
              \/ product'[Target[j]] = product[Target[j]] \/ j \in meddled'
              \/ runs[j] = 0 /\ \A p \in Procs : ~ (work[p] = j /\ phase[p] = "apply")
<1> SUFFICES ASSUME NEW j \in Intents \ {i}
             PROVE  \/ product'[Target[j]] = product[Target[j]] \/ j \in meddled'
                    \/ runs[j] = 0 /\ \A p \in Procs : ~ (work[p] = j /\ phase[p] = "apply")
  OBVIOUS
<1>1. CASE Target[j] = o
  <2>1. runs[j] > 0 \/ (\E q \in Procs : work[q] = j /\ phase[q] = "apply") => j \in meddled'
    BY <1>1, WriteTypes
  <2>2. runs[j] \in Nat
    BY DEF TypeOK
  <2> QED  BY <2>1, <2>2
<1>2. CASE Target[j] # o
  BY <1>2, WriteTypes, Targets
<1> QED  BY <1>1, <1>2

\* A step of the call at work on an intent.
LEMMA OwnStep ==
    ASSUME IntentInv, TypeOK', Snapped', NEW p \in Procs, phase[p] # "idle", NEW i \in Intents, work[p] = i,
           \A q \in Procs \ {p} : Stays(q), work'[p] \in {i, None},
           \A j \in Intents \ {i} : Keeps(j),
           faulted \subseteq faulted', meddled \subseteq meddled',
           overlapped' = overlapped, lapsed' = lapsed,
           status'[i] # "none",
           expiring'[i] > 0 \/ status'[i] = "EXPIRED" => i \in lapsed,
           i \notin overlapped =>
              Recorded(i)' /\ (i \notin faulted' => Tells(i)') /\ (work'[p] = i => Placed(p, i)')
    PROVE  IntentInv'
<1>1. /\ work \in [Procs -> Intents \cup {None}]
      /\ \A q \in Procs : phase'[q] # "idle" => work'[q] \in Intents
      /\ \A q \in Procs : phase[q] # "idle" <=> work[q] # None
      /\ None \notin Intents
  BY NoneIsNothing DEF IntentInv, TypeOK
<1>2. Alone'
  BY <1>1 DEF IntentInv, Alone, Stays
<1>3. LateOnly'
  BY DEF IntentInv, LateOnly, Keeps
<1>4. Created'
  BY <1>1 DEF IntentInv, Created, Keeps, Stays
<1>5. ASSUME NEW j \in Intents \ overlapped' PROVE Good(j)'
  <2>1. CASE j = i
    <3>1. \A q \in Procs \ {p} : work'[q] # i
      BY <1>5, <2>1 DEF IntentInv, Alone, Stays
    <3> QED  BY <1>5, <2>1, <3>1 DEF Good
  <2>2. CASE j # i
    <3>1. \A q \in Procs : Stays(q) \/ (work[q] # j /\ work'[q] # j)
      BY <1>1, <2>2
    <3> QED  BY <1>5, <2>2, <3>1, OthersStayGood DEF IntentInv
  <2> QED  BY <2>1, <2>2
<1> QED  BY <1>2, <1>3, <1>4, <1>5 DEF IntentInv

\* Time, creation and the updates to EXPIRED.
LEMMA RowStepKeepsIntents ==
    ASSUME IntentInv, TypeOK', Snapped', NEW i \in Intents,
           Create(i) \/ Lapse(i) \/ CloseWindow(i) \/ ExpireArrives(i)
    PROVE  IntentInv'
<1> USE DEF rows, clock, procs, bounds, history
<1>0. /\ UNCHANGED <<snapshot, product, procs, bounds, history>> /\ lapsed \subseteq lapsed'
      /\ \A j \in Intents \ {i} : status'[j] = status[j] /\ expiring'[j] = expiring[j]
      /\ TypeOK /\ Snapped
  BY DEF Create, Lapse, CloseWindow, ExpireArrives, Mark, IntentInv, TypeOK
<1>1. Alone'
  BY <1>0 DEF Alone, IntentInv
<1>2. LateOnly'
  BY <1>0 DEF LateOnly, IntentInv, Create, Lapse, CloseWindow, ExpireArrives, Mark, TypeOK
<1>3. Created'
  <2>1. \A j \in Intents : status[j] # "none" => status'[j] # "none"
    BY <1>0 DEF Create, Lapse, CloseWindow, ExpireArrives, Mark, TypeOK
  <2>2. \A p \in Procs : phase[p] # "idle" => work[p] \in Intents
    BY <1>0, AtWork
  <2> QED  BY <1>0, <2>1, <2>2 DEF Created, IntentInv
<1>4. \A p \in Procs : Stays(p)
  BY <1>0 DEF Stays
<1>5. \A j \in Intents \ {i} : Keeps(j)
  BY <1>0 DEF Keeps
<1>6. Lapse(i) \/ CloseWindow(i) => Keeps(i)
  BY DEF Lapse, CloseWindow, Keeps
<1>7. ASSUME i \notin overlapped, Create(i) PROVE Good(i)'
  <2>1. Good(i) /\ status[i] = "none" /\ status'[i] = "PENDING" /\ expiring' = expiring
    BY <1>0, <1>7 DEF Create, Mark, IntentInv, TypeOK
  <2>2. \A p \in Procs : work[p] # i
    BY <1>0, <2>1, AtWork, NoneIsNothing DEF IntentInv, Created
  <2> QED  BY <1>0, <2>1, <2>2 DEF Good, Recorded, Tells
<1>8. ASSUME i \notin overlapped, ExpireArrives(i) PROVE Good(i)'
  <2>1. /\ Good(i) /\ expiring[i] > 0 /\ expiring'[i] = expiring[i] - 1 /\ expiring[i] \in Nat
        /\ status'[i] = status[i] \/ status'[i] = "EXPIRED"
    BY <1>0, <1>8 DEF ExpireArrives, Mark, IntentInv, TypeOK
  <2>2. status[i] # "EXECUTED"
    BY <2>1 DEF Good, Recorded
  <2>3. ASSUME NEW p \in Procs, work[p] = i
        PROVE  /\ Placed(p, i)
               /\ phase[p] \notin {"confirm", "confirmed", "read", "apply", "done", "failed", "restore", "restored"}
    BY <2>1, <2>2, <2>3 DEF Good, Placed, Executing, Undoing
  <2>4. Recorded(i)'
    BY <1>0, <2>1, <2>2 DEF Good, Recorded
  <2>5. i \notin faulted' => Tells(i)'
    BY <1>0, <2>1, <2>2, <2>3 DEF Good, Tells, Recorded
  <2>6. \A p \in Procs : work'[p] = i => Placed(p, i)'
    BY <1>0, <2>1, <2>2, <2>3 DEF Placed
  <2> QED  BY <2>4, <2>5, <2>6 DEF Good
<1>9. ASSUME NEW j \in Intents \ overlapped' PROVE Good(j)'
  BY <1>0, <1>4, <1>5, <1>6, <1>7, <1>8, <1>9, OthersStayGood DEF IntentInv
<1> QED  BY <1>1, <1>2, <1>3, <1>9 DEF IntentInv

LEMMA EditKeepsIntents ==
    ASSUME IntentInv, TypeOK', Snapped', NEW o \in Products, NEW s \in Statuses \cup {"gone"}, Edit(o, s)
    PROVE  IntentInv'
<1>1. /\ UNCHANGED <<rows, clock, expiring, procs, runs, before, overlapped, faulted, restores>>
      /\ Write(None, o, s) /\ s \in States /\ TypeOK
  BY DEF Edit, States, IntentInv
<1>2. meddled \subseteq meddled'
  BY <1>1, WriteTypes
<1>3. \A j \in Intents : Keeps(j)
  BY <1>1, WriteKeeps, NoneIsNothing DEF Keeps, rows
<1>4. \A p \in Procs : Stays(p)
  BY <1>1 DEF Stays, procs
<1>5. \A j \in Intents \ overlapped' : Good(j)'
  BY <1>1, <1>2, <1>3, <1>4, OthersStayGood DEF IntentInv
<1> QED  BY <1>1, <1>5 DEF IntentInv, Alone, LateOnly, Created, rows, clock, procs

\* A call loads a row that no other call is at work on, or overlaps with it.
LEMMA LoadKeepsIntents ==
    ASSUME IntentInv, TypeOK', Snapped', NEW p \in Procs, NEW i \in Intents,
           BeginConfirm(p, i) \/ BeginUndo(p, i)
    PROVE  IntentInv'
<1>1. PICK w \in {"check", "judge"} : Load(p, i, w)
  BY DEF BeginConfirm, BeginUndo
<1>2. /\ w \in Phases /\ w # "idle" /\ TypeOK /\ work[p] = None /\ i # None
      /\ phase[p] = "idle" /\ status[i] # "none"
      /\ UNCHANGED <<rows, clock, expiring, product, edits, faults, runs, before, faulted, meddled, restores>>
      /\ overlapped' = overlapped \cup (IF \E q \in Procs : work[q] = i THEN {i} ELSE {})
  BY <1>1, AtWork, NoneIsNothing DEF Phases, IntentInv, Load
<1>3. /\ phase'[p] = w /\ work'[p] = i /\ found'[p] = status[i] /\ kept'[p] = snapshot[i]
      /\ \A q \in Procs \ {p} : Stays(q)
  BY <1>1, <1>2, LoadTypes DEF Stays
<1>4. Alone'
  BY <1>2, <1>3 DEF IntentInv, Alone, Stays
<1>5. LateOnly' /\ Created'
  BY <1>2, <1>3 DEF IntentInv, LateOnly, Created, Stays, rows, clock
<1>6. \A j \in Intents : Keeps(j)
  BY <1>2 DEF Keeps, rows
<1>7. ASSUME NEW j \in Intents \ overlapped', j # i PROVE Good(j)'
  <2>1. \A q \in Procs : Stays(q) \/ (work[q] # j /\ work'[q] # j)
    BY <1>2, <1>3, <1>7, NoneIsNothing
  <2> QED  BY <1>2, <1>6, <1>7, <2>1, OthersStayGood DEF IntentInv
<1>8. ASSUME i \notin overlapped' PROVE Good(i)'
  <2>1. Good(i) /\ \A q \in Procs : work[q] # i
    BY <1>2, <1>8 DEF IntentInv
  <2>2. \A q \in Procs : work'[q] = i => q = p
    BY <1>3, <2>1 DEF Stays
  <2>3. Placed(p, i)'
    BY <1>2, <1>3 DEF Placed, rows
  <2>4. Recorded(i)'
    BY <1>2, <2>1 DEF Good, Recorded, rows
  <2>5. i \notin faulted' => Tells(i)'
    BY <1>2, <2>1, <2>2 DEF Good, Tells, rows
  <2> QED  BY <2>2, <2>3, <2>4, <2>5 DEF Good
<1> QED  BY <1>4, <1>5, <1>7, <1>8 DEF IntentInv

\* What the call at work on an intent knows of it.
LEMMA OwnPlace ==
    ASSUME IntentInv, NEW p \in Procs, NEW i \in Intents \ overlapped, work[p] = i
    PROVE  /\ Recorded(i) /\ Placed(p, i)
           /\ i \notin faulted => Tells(i)
           /\ \A q \in Procs : work[q] = i => q = p
  BY DEF IntentInv, Good, Alone

\* A step that changes neither a row nor a product.
LEMMA MoveKeepsIntents ==
    ASSUME IntentInv, TypeOK', Snapped', NEW p \in Procs, NEW i \in Intents, work[p] = i,
           \A q \in Procs \ {p} : Stays(q), work'[p] \in {i, None},
           UNCHANGED <<rows, clock, expiring, product, runs, before, overlapped, meddled, restores>>,
           faulted' = faulted \/ faulted' = faulted \cup {i},
           i \notin overlapped \cup faulted' => phase[p] \notin {"done", "restored"},
           i \notin overlapped /\ work'[p] = i => Placed(p, i)'
    PROVE  IntentInv'
<1>1. /\ TypeOK /\ phase[p] # "idle" /\ status[i] # "none"
      /\ UNCHANGED <<status, snapshot, lapsed, expiring, product, runs, before, overlapped, meddled, restores>>
      /\ expiring[i] > 0 \/ status[i] = "EXPIRED" => i \in lapsed
  BY AtWork, NoneIsNothing DEF IntentInv, Created, LateOnly, rows, clock
<1>2. \A j \in Intents \ {i} : Keeps(j)
  BY <1>1 DEF Keeps
<1>3. ASSUME i \notin overlapped
      PROVE  Recorded(i)' /\ (i \notin faulted' => Tells(i)') /\ (work'[p] = i => Placed(p, i)')
  <2>1. /\ Recorded(i) /\ (i \notin faulted => Tells(i))
        /\ \A q \in Procs : work[q] = i => q = p
    BY <1>3, OwnPlace
  <2>2. Recorded(i)'
    BY <1>1, <2>1 DEF Recorded
  <2>3. i \notin faulted' => Tells(i)'
    BY <1>1, <1>3, <2>1 DEF Tells
  <2> QED  BY <1>3, <2>2, <2>3
<1>4. faulted \subseteq faulted' /\ meddled \subseteq meddled' /\ lapsed' = lapsed /\ overlapped' = overlapped
  BY <1>1
<1> QED  BY <1>1, <1>2, <1>3, <1>4, OwnStep

LEMMA CheckConfirmKeepsIntents ==
    ASSUME IntentInv, TypeOK', Snapped', NEW p \in Procs, NEW i \in Intents, work[p] = i,
           CheckConfirm(p)
    PROVE  IntentInv'
<1>0. /\ TypeOK /\ phase[p] = "check" /\ i \in Intents /\ "confirm" \in Phases
      /\ UNCHANGED <<rows, clock, product, bounds, history>>
  BY AtWork DEF CheckConfirm, IntentInv, Phases
<1>1. CASE i \notin lapsed /\ Confirmable(found[p]) /\ Goto(p, "confirm")
           /\ UNCHANGED <<work, found, kept, expiring>>
  <2>1. phase'[p] = "confirm" /\ \A q \in Procs \ {p} : Stays(q)
    BY <1>0, <1>1, GotoTypes DEF Stays
  <2>2. ASSUME i \notin overlapped PROVE Placed(p, i)'
    <3>1. Recorded(i) /\ Placed(p, i)
      BY <1>0, <2>2, OwnPlace
    <3>2. status[i] = "PENDING" /\ expiring[i] = 0
      BY <1>0, <1>1, <3>1 DEF Placed, Confirmable, IntentInv, LateOnly, TypeOK
    <3>3. runs[i] = 0 /\ restores[i] = 0
      BY <3>1, <3>2 DEF Recorded
    <3> QED  BY <1>0, <1>1, <2>1, <3>2, <3>3 DEF Placed, Executing, rows, history
  <2> QED  BY <1>0, <1>1, <2>1, <2>2, MoveKeepsIntents DEF history
<1>2. CASE i \in lapsed /\ ~ Answered(found[p]) /\ expiring' = [expiring EXCEPT ![i] = @ + 1] /\ Leave(p)
  <2>1. work'[p] = None /\ \A q \in Procs \ {p} : Stays(q)
    BY <1>0, <1>2, LeaveTypes DEF Stays
  <2>2. \A j \in Intents \ {i} : Keeps(j)
    BY <1>0, <1>2 DEF Keeps, rows, history, TypeOK
  <2>3. status'[i] # "none"
    BY <1>0 DEF IntentInv, Created, rows
  <2>4. ASSUME i \notin overlapped
        PROVE  Recorded(i)' /\ (i \notin faulted' => Tells(i)') /\ (work'[p] = i => Placed(p, i)')
    <3>1. /\ Recorded(i) /\ Placed(p, i) /\ (i \notin faulted => Tells(i))
          /\ \A q \in Procs : work[q] = i => q = p
      BY <1>0, <2>4, OwnPlace
    <3>2. status[i] # "EXECUTED"
      BY <1>0, <1>2, <3>1 DEF Placed, Answered
    <3>3. Recorded(i)'
      BY <1>0, <3>1, <3>2 DEF Recorded, rows, history
    <3>4. i \notin faulted' => Tells(i)'
      BY <1>0, <3>1 DEF Tells, rows, history
    <3> QED  BY <1>0, <2>1, <3>3, <3>4, NoneIsNothing
  <2>5. /\ work[p] = i /\ phase[p] # "idle" /\ overlapped' = overlapped /\ lapsed' = lapsed /\ i \in lapsed
        /\ faulted \subseteq faulted' /\ meddled \subseteq meddled'
    BY <1>0, <1>2 DEF history, clock
  <2> QED  BY <1>0, <2>1, <2>2, <2>3, <2>4, <2>5, OwnStep
<1>3. CASE Leave(p) /\ UNCHANGED expiring
  <2>1. work'[p] = None /\ \A q \in Procs \ {p} : Stays(q)
    BY <1>0, <1>3, LeaveTypes DEF Stays
  <2> QED  BY <1>0, <1>3, <2>1, NoneIsNothing, MoveKeepsIntents DEF history
<1> QED  BY <1>1, <1>2, <1>3 DEF CheckConfirm

\* Reading the product, judging an undo, failing and dying.
LEMMA PauseKeepsIntents ==
    ASSUME IntentInv, TypeOK', Snapped', NEW p \in Procs, NEW i \in Intents, work[p] = i,
           ReadProduct(p) \/ CheckUndo(p) \/ Fail(p) \/ Crash(p)
    PROVE  IntentInv'
<1>0. /\ TypeOK /\ phase[p] # "idle" /\ i \in Intents
      /\ {"failed", "apply", "restore"} \subseteq Phases
      /\ UNCHANGED <<rows, clock, expiring, product, runs, before, overlapped, meddled, restores>>
      /\ faulted' = faulted \/ faulted' = faulted \cup {i}
  BY AtWork DEF ReadProduct, CheckUndo, Fail, Crash, IntentInv, Phases, history
<1>1. CASE Leave(p) /\ (CheckUndo(p) \/ Crash(p))
  <2>1. work'[p] = None /\ \A q \in Procs \ {p} : Stays(q)
    BY <1>0, <1>1, LeaveTypes DEF Stays
  <2>2. i \notin overlapped \cup faulted' => phase[p] \notin {"done", "restored"}
    BY <1>1 DEF CheckUndo, Crash
  <2> QED  BY <1>0, <2>1, <2>2, NoneIsNothing, MoveKeepsIntents
<1>2. CASE ReadProduct(p)
  <2>1. /\ phase[p] = "read" /\ UNCHANGED <<work, found, faulted>>
        /\ Goto(p, IF product[Target[i]] = "gone" THEN "failed" ELSE "apply")
        /\ kept' = [kept EXCEPT ![p] = product[Target[i]]]
    BY <1>2 DEF ReadProduct, history
  <2>2. /\ phase'[p] = "failed" \/ phase'[p] = "apply"
        /\ kept'[p] = product[Target[i]] /\ \A q \in Procs \ {p} : Stays(q)
    BY <1>0, <2>1, GotoTypes DEF Stays, TypeOK
  <2>3. ASSUME i \notin overlapped PROVE Placed(p, i)'
    <3>1. Recorded(i) /\ Executing(p, i)
      BY <1>0, <2>1, <2>3, OwnPlace DEF Placed
    <3> QED  BY <1>0, <2>1, <2>2, <3>1 DEF Placed, Executing, Recorded, rows
  <2> QED  BY <1>0, <2>1, <2>2, <2>3, MoveKeepsIntents
<1>3. CASE CheckUndo(p) /\ ~ Leave(p)
  <2>1. /\ phase[p] = "judge" /\ Undoable(i, found[p]) /\ Goto(p, "restore")
        /\ UNCHANGED <<work, found, kept, faulted>>
    BY <1>3 DEF CheckUndo, history
  <2>2. phase'[p] = "restore" /\ \A q \in Procs \ {p} : Stays(q)
    BY <1>0, <2>1, GotoTypes DEF Stays
  <2>3. ASSUME i \notin overlapped PROVE Placed(p, i)'
    <3>1. Placed(p, i)
      BY <1>0, <2>1, <2>3, OwnPlace
    <3> QED  BY <1>0, <2>1, <2>2, <3>1 DEF Placed, Undoing, Undoable, rows
  <2> QED  BY <1>0, <2>1, <2>2, <2>3, MoveKeepsIntents
<1>4. CASE Fail(p)
  <2>1. /\ phase[p] \in {"read", "apply", "done"} /\ faulted' = faulted \cup {i}
        /\ Goto(p, "failed") /\ UNCHANGED <<work, found, kept>>
    BY <1>4 DEF Fail
  <2>2. phase'[p] = "failed" /\ \A q \in Procs \ {p} : Stays(q)
    BY <1>0, <2>1, GotoTypes DEF Stays
  <2>3. ASSUME i \notin overlapped PROVE Placed(p, i)'
    <3>1. Executing(p, i)
      BY <1>0, <2>1, <2>3, OwnPlace DEF Placed
    <3> QED  BY <1>0, <2>1, <2>2, <3>1 DEF Placed, Executing, rows
  <2> QED  BY <1>0, <2>1, <2>2, <2>3, MoveKeepsIntents
<1> QED  BY <1>1, <1>2, <1>3, <1>4 DEF Crash

\* The updates of the row.
LEMMA MarkKeepsIntents ==
    ASSUME IntentInv, TypeOK', Snapped', NEW p \in Procs, NEW i \in Intents, work[p] = i,
           MarkConfirmed(p) \/ MarkExecuting(p) \/ MarkExecuted(p) \/ MarkFailed(p) \/ MarkUndone(p)
    PROVE  IntentInv'
<1>0. /\ TypeOK /\ phase[p] # "idle" /\ {"confirmed", "read"} \subseteq Phases
      /\ UNCHANGED <<lapsed, expiring, product, runs, before, overlapped, faulted, meddled, restores>>
  BY DEF IntentInv, Phases, MarkConfirmed, MarkExecuting, MarkExecuted, MarkFailed, MarkUndone,
     clock, history
<1>1. PICK s \in Marks \ {"PENDING", "EXPIRED"} : Mark(i, s)
  BY DEF Marks, MarkConfirmed, MarkExecuting, MarkExecuted, MarkFailed, MarkUndone
<1>2. status'[i] = s /\ \A j \in Intents \ {i} : status'[j] = status[j]
  BY <1>0, <1>1, MarkTypes
<1>3. \A j \in Intents \ {i} : snapshot'[j] = snapshot[j]
  BY <1>0 DEF MarkConfirmed, MarkExecuting, MarkExecuted, MarkFailed, MarkUndone, TypeOK
<1>4. \A j \in Intents \ {i} : Keeps(j)
  BY <1>0, <1>2, <1>3 DEF Keeps
<1>5. /\ Leave(p) => work'[p] = None /\ \A q \in Procs \ {p} : Stays(q)
      /\ \A w \in {"confirmed", "read"} :
            Goto(p, w) /\ UNCHANGED <<work, found, kept>> =>
               work'[p] = i /\ phase'[p] = w /\ \A q \in Procs \ {p} : Stays(q)
  BY <1>0, LeaveTypes, GotoTypes DEF Stays
<1>6. (\A q \in Procs \ {p} : Stays(q)) /\ work'[p] \in {i, None}
  BY <1>5 DEF MarkConfirmed, MarkExecuting, MarkExecuted, MarkFailed, MarkUndone
<1>7. ASSUME i \notin overlapped
      PROVE  Recorded(i)' /\ (i \notin faulted' => Tells(i)') /\ (work'[p] = i => Placed(p, i)')
  <2>0. /\ Recorded(i) /\ Placed(p, i) /\ (i \notin faulted => Tells(i))
        /\ \A q \in Procs : work[q] = i => q = p
    BY <1>7, OwnPlace
  <2>1. i # None
    BY NoneIsNothing
  <2>2. CASE MarkConfirmed(p)
    <3>1. /\ phase[p] = "confirm" /\ Executing(p, i) /\ phase'[p] = "confirmed" /\ work'[p] = i
          /\ status'[i] = "CONFIRMED" /\ snapshot' = snapshot
      BY <1>0, <1>2, <1>5, <2>0, <2>2 DEF MarkConfirmed, Mark, Placed, TypeOK
    <3>2. runs[i] = 0 /\ expiring[i] = 0 /\ (i \notin faulted => restores[i] = 0)
      BY <3>1 DEF Executing
    <3> QED  BY <1>0, <2>0, <3>1, <3>2 DEF Recorded, Tells, Placed, Executing
  <2>3. CASE MarkExecuting(p)
    <3>1. /\ phase[p] = "confirmed" /\ Executing(p, i) /\ phase'[p] = "read" /\ work'[p] = i
          /\ status'[i] = "EXECUTING" /\ snapshot' = snapshot
      BY <1>0, <1>2, <1>5, <2>0, <2>3 DEF MarkExecuting, Mark, Placed, TypeOK
    <3>2. runs[i] = 0 /\ expiring[i] = 0 /\ (i \notin faulted => restores[i] = 0)
      BY <3>1 DEF Executing
    <3> QED  BY <1>0, <2>0, <3>1, <3>2 DEF Recorded, Tells, Placed, Executing
  <2>4. CASE MarkExecuted(p)
    <3>1. /\ phase[p] = "done" /\ Executing(p, i) /\ work'[p] = None
          /\ status'[i] = "EXECUTED" /\ snapshot'[i] = kept[p]
      BY <1>0, <1>5, <2>0, <2>4 DEF MarkExecuted, Mark, Placed, TypeOK
    <3>2. /\ runs[i] = 1 /\ expiring[i] = 0 /\ (i \notin faulted => restores[i] = 0)
          /\ i \notin meddled => kept[p] = before[i]
      BY <3>1 DEF Executing
    <3> QED  BY <1>0, <2>0, <2>1, <3>1, <3>2 DEF Recorded, Tells
  <2>5. CASE MarkFailed(p)
    <3>1. /\ phase[p] = "failed" /\ Executing(p, i) /\ work'[p] = None
          /\ status'[i] = "FAILED"
      BY <1>0, <1>5, <2>0, <2>5 DEF MarkFailed, Mark, Placed, TypeOK
    <3>2. i \notin faulted => runs[i] = 0 /\ restores[i] = 0
      BY <3>1 DEF Executing
    <3> QED  BY <1>0, <2>0, <2>1, <3>1, <3>2 DEF Recorded, Tells
  <2>6. CASE MarkUndone(p)
    <3>1. /\ phase[p] = "restored" /\ Undoing(p, i) /\ work'[p] = None
          /\ status'[i] = "UNDONE"
      BY <1>0, <1>5, <2>0, <2>6 DEF MarkUndone, Mark, Placed, TypeOK
    <3>2. /\ restores[i] > 0 /\ runs[i] = 1
          /\ i \notin meddled => product[Target[i]] = before[i]
      BY <2>0, <3>1 DEF Undoing, Recorded
    <3> QED  BY <1>0, <2>0, <2>1, <3>1, <3>2 DEF Recorded, Tells
  <2> QED  BY <2>2, <2>3, <2>4, <2>5, <2>6
<1>8. status'[i] # "none" /\ (expiring'[i] > 0 \/ status'[i] = "EXPIRED" => i \in lapsed)
  BY <1>0, <1>2 DEF IntentInv, LateOnly, Marks
<1> QED  BY <1>0, <1>4, <1>6, <1>7, <1>8, OwnStep

\* Archiving or deleting the product.
LEMMA ApplyKeepsIntents ==
    ASSUME IntentInv, TypeOK', Snapped', NEW p \in Procs, NEW i \in Intents, work[p] = i, Apply(p)
    PROVE  IntentInv'
<1> DEFINE o == Target[i]
<1>0. /\ TypeOK /\ phase[p] = "apply" /\ {"failed", "done"} \subseteq Phases /\ o \in Products
      /\ UNCHANGED <<status, snapshot, lapsed, closed, expiring, work, found, kept, overlapped,
                     faulted, restores>>
      /\ status[i] # "none" /\ (expiring[i] > 0 \/ status[i] = "EXPIRED" => i \in lapsed)
  BY Targets DEF IntentInv, Phases, Apply, rows, clock, Created, LateOnly
<1>1. CASE Goto(p, "failed") /\ UNCHANGED <<product, runs, before, meddled>>
  <2>1. phase'[p] = "failed" /\ \A q \in Procs \ {p} : Stays(q)
    BY <1>0, <1>1, GotoTypes DEF Stays
  <2>2. ASSUME i \notin overlapped PROVE Placed(p, i)'
    <3>1. Executing(p, i)
      BY <1>0, <2>2, OwnPlace DEF Placed
    <3> QED  BY <1>0, <1>1, <2>1, <3>1 DEF Placed, Executing
  <2> QED  BY <1>0, <1>1, <2>1, <2>2, MoveKeepsIntents DEF rows, clock
<1>2. CASE ~ (Goto(p, "failed") /\ UNCHANGED <<product, runs, before, meddled>>)
  <2>1. PICK s \in States :
            /\ Write(i, o, s)
            /\ runs' = [runs EXCEPT ![i] = @ + 1]
            /\ before' = [before EXCEPT ![i] = IF @ = None THEN product[o] ELSE @]
            /\ Goto(p, "done")
    BY <1>2 DEF Apply, States
  <2>2. phase'[p] = "done" /\ \A q \in Procs \ {p} : Stays(q)
    BY <1>0, <2>1, GotoTypes DEF Stays
  <2>3. meddled \subseteq meddled' /\ (i \in meddled' => i \in meddled)
    BY <1>0, <2>1, WriteTypes
  <2>4. \A j \in Intents \ {i} : runs'[j] = runs[j] /\ before'[j] = before[j]
    BY <1>0, <2>1 DEF TypeOK
  <2>5. \A j \in Intents \ {i} : Keeps(j)
    BY <1>0, <2>1, <2>4, WriteKeeps DEF Keeps
  <2>6. ASSUME i \notin overlapped
        PROVE  Recorded(i)' /\ (i \notin faulted' => Tells(i)') /\ (work'[p] = i => Placed(p, i)')
    <3>1. Recorded(i) /\ Executing(p, i) /\ (i \notin faulted => Tells(i))
      BY <1>0, <2>6, OwnPlace DEF Placed
    <3>2. /\ runs[i] = 0 /\ expiring[i] = 0 /\ status[i] = "EXECUTING" /\ before[i] = None
          /\ restores[i] = 0 /\ (i \notin meddled => kept[p] = product[o])
      BY <1>0, <3>1 DEF Recorded, Executing
    <3>3. runs'[i] = 1 /\ before'[i] = product[o]
      BY <1>0, <2>1, <3>2 DEF TypeOK
    <3>4. Recorded(i)'
      BY <1>0, <3>2, <3>3 DEF Recorded
    <3>5. Tells(i)'
      BY <1>0, <2>2, <3>2 DEF Tells
    <3>6. Placed(p, i)'
      BY <1>0, <2>2, <2>3, <3>2, <3>3 DEF Placed, Executing
    <3> QED  BY <3>4, <3>5, <3>6
  <2> QED  BY <1>0, <2>2, <2>3, <2>5, <2>6, OwnStep
<1> QED  BY <1>1, <1>2

\* Restoring it.
LEMMA RestoreKeepsIntents ==
    ASSUME IntentInv, TypeOK', Snapped', NEW p \in Procs, NEW i \in Intents, work[p] = i, Restore(p)
    PROVE  IntentInv'
<1> DEFINE o == Target[i]
<1>0. /\ TypeOK /\ phase[p] = "restore" /\ "restored" \in Phases /\ o \in Products
      /\ UNCHANGED <<status, snapshot, lapsed, closed, expiring, runs, before, overlapped, faulted>>
      /\ status[i] # "none" /\ (expiring[i] > 0 \/ status[i] = "EXPIRED" => i \in lapsed)
      /\ kept[p] \in States
  BY Targets, AtWork DEF IntentInv, Phases, Restore, rows, clock, Created, LateOnly, Snapped
<1>1. CASE Leave(p) /\ UNCHANGED <<product, meddled, restores>>
  <2>1. work'[p] = None /\ \A q \in Procs \ {p} : Stays(q)
    BY <1>0, <1>1, LeaveTypes DEF Stays
  <2> QED  BY <1>0, <1>1, <2>1, NoneIsNothing, MoveKeepsIntents DEF rows, clock
<1>2. CASE ~ (Leave(p) /\ UNCHANGED <<product, meddled, restores>>)
  <2>1. /\ Write(i, o, kept[p])
        /\ restores' = [restores EXCEPT ![i] = @ + 1]
        /\ Goto(p, "restored") /\ UNCHANGED <<work, found, kept>>
    BY <1>2 DEF Restore, Restored
  <2>2. phase'[p] = "restored" /\ \A q \in Procs \ {p} : Stays(q)
    BY <1>0, <2>1, GotoTypes DEF Stays
  <2>3. /\ meddled \subseteq meddled' /\ (i \in meddled' => i \in meddled) /\ product'[o] = kept[p]
    BY <1>0, <2>1, WriteTypes
  <2>4. \A j \in Intents \ {i} : restores'[j] = restores[j]
    BY <1>0, <2>1 DEF TypeOK
  <2>5. \A j \in Intents \ {i} : Keeps(j)
    BY <1>0, <2>1, <2>4, WriteKeeps DEF Keeps
  <2>6. restores'[i] = restores[i] + 1 /\ restores[i] \in Nat
    BY <2>1, <1>0 DEF TypeOK
  <2>7. ASSUME i \notin overlapped
        PROVE  Recorded(i)' /\ (i \notin faulted' => Tells(i)') /\ (work'[p] = i => Placed(p, i)')
    <3>1. /\ Recorded(i) /\ Undoing(p, i) /\ (i \notin faulted => Tells(i))
          /\ \A q \in Procs : work[q] = i => q = p
      BY <1>0, <2>7, OwnPlace DEF Placed
    <3>2. /\ status[i] = "EXECUTED" /\ runs[i] = 1 /\ expiring[i] = 0
          /\ i \notin meddled => kept[p] = before[i] /\ snapshot[i] = before[i]
      BY <1>0, <3>1 DEF Undoing, Recorded
    <3>3. i \notin faulted => restores[i] = 0
      BY <1>0, <2>6, <3>1, <3>2 DEF Tells
    <3>4. Recorded(i)'
      BY <1>0, <2>3, <3>2 DEF Recorded
    <3>5. i \notin faulted' => Tells(i)'
      BY <1>0, <2>1, <2>2, <2>6, <3>2, <3>3 DEF Tells
    <3>6. Placed(p, i)'
      BY <1>0, <2>2, <2>3, <2>6, <3>2 DEF Placed, Undoing
    <3> QED  BY <3>4, <3>5, <3>6
  <2>8. work'[p] = i
    BY <2>1
  <2> QED  BY <1>0, <2>2, <2>3, <2>5, <2>7, <2>8, OwnStep
<1> QED  BY <1>1, <1>2

LEMMA InitIntents == Init => IntentInv
<1> SUFFICES ASSUME Init PROVE IntentInv
  OBVIOUS
<1>1. TypeOK /\ Snapped
  BY InitTypeOK DEF Init, Snapped
<1>2. /\ \A p \in Procs : phase[p] = "idle" /\ work[p] = None
      /\ \A i \in Intents : /\ status[i] = "none" /\ expiring[i] = 0 /\ runs[i] = 0
                            /\ restores[i] = 0 /\ before[i] = None
  BY DEF Init
<1> QED  BY <1>1, <1>2, NoneIsNothing DEF IntentInv, Alone, LateOnly, Created, Good, Recorded, Tells, Placed

LEMMA IntentsKept == IntentInv /\ [Next]_vars => IntentInv'
<1> SUFFICES ASSUME IntentInv, [Next]_vars PROVE IntentInv'
  OBVIOUS
<1>0. TypeOK' /\ Snapped'
  BY TypesKept, SnappedKept DEF IntentInv
<1>1. ASSUME NEW i \in Intents, Create(i) \/ Lapse(i) \/ CloseWindow(i) \/ ExpireArrives(i)
      PROVE  IntentInv'
  BY <1>0, <1>1, RowStepKeepsIntents
<1>2. ASSUME NEW o \in Products, NEW s \in Statuses \cup {"gone"}, Edit(o, s) PROVE IntentInv'
  BY <1>0, <1>2, EditKeepsIntents
<1>3. ASSUME NEW p \in Procs, NEW i \in Intents, BeginConfirm(p, i) \/ BeginUndo(p, i) PROVE IntentInv'
  BY <1>0, <1>3, LoadKeepsIntents
<1>4. ASSUME NEW p \in Procs,
             \/ CheckConfirm(p) \/ MarkConfirmed(p) \/ MarkExecuting(p)
             \/ ReadProduct(p) \/ Apply(p) \/ MarkExecuted(p) \/ MarkFailed(p) \/ Fail(p)
             \/ CheckUndo(p) \/ Restore(p) \/ MarkUndone(p) \/ Crash(p)
      PROVE  IntentInv'
  <2>1. phase[p] # "idle"
    BY <1>4 DEF CheckConfirm, MarkConfirmed, MarkExecuting, ReadProduct, Apply, MarkExecuted,
       MarkFailed, Fail, CheckUndo, Restore, MarkUndone, Crash
  <2>2. PICK i \in Intents : work[p] = i
    BY <2>1, AtWork DEF IntentInv
  <2> QED
    BY <1>0, <1>4, <2>2, CheckConfirmKeepsIntents, PauseKeepsIntents, MarkKeepsIntents,
       ApplyKeepsIntents, RestoreKeepsIntents
<1>5. CASE UNCHANGED vars
  <2>1. UNCHANGED <<status, snapshot, lapsed, closed, expiring, product, phase, work, found, kept,
                    runs, before, overlapped, faulted, meddled, restores>>
    BY <1>5 DEF vars, rows, clock, procs, history
  <2>2. (\A j \in Intents : Keeps(j)) /\ \A p \in Procs : Stays(p)
    BY <2>1 DEF Keeps, Stays
  <2>3. \A j \in Intents \ overlapped' : Good(j)'
    BY <2>1, <2>2, OthersStayGood DEF IntentInv
  <2> QED  BY <1>0, <2>1, <2>3 DEF IntentInv, Alone, LateOnly, Created
<1> QED  BY <1>1, <1>2, <1>3, <1>4, <1>5 DEF Next

LEMMA IntentsHold == Spec => []IntentInv
  BY InitIntents, IntentsKept, PTL DEF Spec

\* However often an intent is retried, and whatever fails, lapses or dies on the
\* way, it is executed once unless two calls for it overlapped, and undone once
\* unless one failed.
THEOREM IntentEffectsOnce == Spec => []EffectsHappenOnce
<1>1. IntentInv => EffectsHappenOnce
  <2> SUFFICES ASSUME IntentInv, NEW i \in Intents \ overlapped
               PROVE  ~ (runs[i] > 1) /\ (restores[i] > 1 => i \in faulted)
    BY DEF EffectsHappenOnce
  <2>1. Recorded(i) /\ (i \notin faulted => Tells(i)) /\ restores[i] \in Nat
    BY DEF IntentInv, Good, TypeOK
  <2> QED  BY <2>1 DEF Recorded, Tells
<1> QED  BY IntentsHold, <1>1, PTL

\* An intent at rest says whether its product was changed, also when an update to
\* EXPIRED that nobody awaits comes at any time.
THEOREM IntentStatusTells == Spec => []StatusTellsTheEffect
<1>1. IntentInv => StatusTellsTheEffect
  <2> SUFFICES ASSUME IntentInv, NEW i \in Intents, Resting(i), i \notin overlapped \cup faulted
               PROVE  runs[i] = 1 <=> status[i] \in {"EXECUTED", "UNDONE"} \/ restores[i] > 0
    BY DEF StatusTellsTheEffect
  <2>1. Recorded(i) /\ Tells(i) /\ runs[i] \in Nat /\ restores[i] \in Nat
    BY DEF IntentInv, Good, TypeOK
  <2> QED  BY <2>1 DEF Recorded, Tells, Resting
<1> QED  BY IntentsHold, <1>1, PTL

\* The snapshot an undo goes by is the product as the intent found it.
THEOREM IntentUndoRestores == Spec => []UndoRestores
<1>1. IntentInv => UndoRestores
  BY DEF IntentInv, Good, Recorded, UndoRestores
<1> QED  BY IntentsHold, <1>1, PTL
=============================================================================
