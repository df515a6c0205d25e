------------------------- MODULE DestructiveIntents -------------------------
(***************************************************************************)
(* What an administrator may destroy: a product is archived or deleted in  *)
(* two steps, an intent that is created and then confirmed with its        *)
(* challenge before it expires; an archived product can be restored for a  *)
(* day.                                                                    *)
(*                                                                         *)
(* A call loads the intent's row, judges what it loaded, and then updates  *)
(* the row by its id alone, one statement at a time and outside any        *)
(* transaction, so every await is a point where other calls run and where  *)
(* the server may die.  An intent found expired is marked so by an update  *)
(* nobody awaits.                                                          *)
(***************************************************************************)
EXTENDS Integers

CONSTANTS
    Intents,
    Target,         \* the product an intent is about
    Kind,           \* "archive" or "delete"
    Products,
    Statuses,       \* what moderation makes of a product: APPROVED, PAUSED, ...
    Procs,          \* request handlers
    MaxCalls,       \* bound: confirmations and undos asked for
    MaxEdits,       \* bound: changes of products by others
    MaxFaults,      \* bound: statements that fail, servers that die
    None

ASSUME IntentAssumption ==
    /\ Target \in [Intents -> Products]
    /\ Kind \in [Intents -> {"archive", "delete"}]
    /\ {"ARCHIVED", "gone"} \cap Statuses = {}
    /\ None \notin Intents \cup Statuses \cup {"ARCHIVED", "gone"}
    /\ {MaxCalls, MaxEdits, MaxFaults} \subseteq Nat

VARIABLES
    status,         \* of an intent's row, "none" before it is created
    snapshot,       \* previousActive and previousStatus in its resultSnapshot
    lapsed,         \* intents whose expiresAt has passed
    closed,         \* intents whose undoExpiresAt has passed
    expiring,       \* updates to EXPIRED on their way
    product,        \* state of a product, "gone" when deleted
    phase,          \* the await each process has reached
    work,           \* the intent its call is about
    found,          \* status it loaded
    kept,           \* previous state it carries
    calls, edits, faults,
    runs,           \* history: times an intent changed its product
    before,         \* history: state of the product when it first did
    overlapped,     \* history: intents two calls were in progress for
    faulted,        \* history: intents a call failed for on its way
    meddled,        \* history: intents whose product others changed since it was read
    restores        \* history: times an undo changed the product back

rows == <<status, snapshot>>
clock == <<lapsed, closed>>
procs == <<phase, work, found, kept>>
bounds == <<calls, edits, faults>>
history == <<runs, before, overlapped, faulted, meddled, restores>>
vars == <<rows, clock, expiring, product, procs, bounds, history>>

Init ==
    /\ status = [i \in Intents |-> "none"]
    /\ snapshot = [i \in Intents |-> None]
    /\ lapsed = {} /\ closed = {}
    /\ expiring = [i \in Intents |-> 0]
    /\ product \in [Products -> Statuses]
    /\ phase = [p \in Procs |-> "idle"]
    /\ work = [p \in Procs |-> None]
    /\ found = [p \in Procs |-> None]
    /\ kept = [p \in Procs |-> None]
    /\ calls = 0 /\ edits = 0 /\ faults = 0
    /\ runs = [i \in Intents |-> 0]
    /\ before = [i \in Intents |-> None]
    /\ overlapped = {} /\ faulted = {} /\ meddled = {}
    /\ restores = [i \in Intents |-> 0]

----------------------------------------------------------------------------
Goto(p, where) == phase' = [phase EXCEPT ![p] = where]

Leave(p) ==
    /\ Goto(p, "idle")
    /\ work' = [work EXCEPT ![p] = None]
    /\ found' = [found EXCEPT ![p] = None]
    /\ kept' = [kept EXCEPT ![p] = None]

\* The row is updated by its id, whatever its status is by now.
Mark(i, s) == status' = [status EXCEPT ![i] = s]

\* loadIntent: what the call will judge by.
Load(p, i, where) ==
    /\ phase[p] = "idle" /\ calls < MaxCalls /\ status[i] # "none"
    /\ calls' = calls + 1
    /\ Goto(p, where)
    /\ work' = [work EXCEPT ![p] = i]
    /\ found' = [found EXCEPT ![p] = status[i]]
    /\ kept' = [kept EXCEPT ![p] = snapshot[i]]
    /\ overlapped' = overlapped \cup (IF \E q \in Procs : work[q] = i THEN {i} ELSE {})
    /\ UNCHANGED <<rows, clock, expiring, product, edits, faults, runs, before, faulted, meddled, restores>>

\* Intents of a product that have read it, other than the one that writes it.
Others(i, o) ==
    {j \in Intents \ {i} : /\ Target[j] = o
                           /\ runs[j] > 0 \/ \E p \in Procs : work[p] = j /\ phase[p] = "apply"}

\* A product takes a new state.
Write(i, o, s) ==
    /\ product' = [product EXCEPT ![o] = s]
    /\ meddled' = meddled \cup Others(i, o)

(***************************************************************************)
(* create, and time                                                        *)
(***************************************************************************)
Create(i) ==
    /\ status[i] = "none"
    /\ Mark(i, "PENDING")
    /\ UNCHANGED <<snapshot, clock, expiring, product, procs, bounds, history>>

Lapse(i) ==
    /\ status[i] # "none" /\ i \notin lapsed
    /\ lapsed' = lapsed \cup {i}
    /\ UNCHANGED <<rows, closed, expiring, product, procs, bounds, history>>

CloseWindow(i) ==
    /\ snapshot[i] # None /\ i \notin closed
    /\ closed' = closed \cup {i}
    /\ UNCHANGED <<rows, lapsed, expiring, product, procs, bounds, history>>

\* The update to EXPIRED arrives, or fails with a warning.
ExpireArrives(i) ==
    /\ expiring[i] > 0
    /\ expiring' = [expiring EXCEPT ![i] = @ - 1]
    /\ Mark(i, "EXPIRED") \/ UNCHANGED status
    /\ UNCHANGED <<snapshot, clock, product, procs, bounds, history>>

\* Moderation, or the seller, changes or deletes a product.
Edit(o, s) ==
    /\ edits < MaxEdits /\ product[o] # "gone" /\ s # product[o]
    /\ edits' = edits + 1
    /\ Write(None, o, s)
    /\ UNCHANGED <<rows, clock, expiring, procs, calls, faults, runs, before, overlapped, faulted, restores>>

(***************************************************************************)
(* confirm                                                                 *)
(***************************************************************************)
BeginConfirm(p, i) == Load(p, i, "check")

\* Variant: an intent that was confirmed and never finished may be confirmed again.
ConfirmableAgain(s) == s \in {"PENDING", "CONFIRMED", "EXECUTING"}

Confirmable(s) == s = "PENDING"

\* Variant: only failures are answered again.
AnsweredFailures(s) == s \in {"FAILED", "EXPIRED"}

\* A call that finds a result is answered with it; an expired intent is refused.
Answered(s) == s \in {"EXECUTED", "FAILED", "EXPIRED"}

\* A call that comes late is refused and marks the row.
CheckConfirm(p) ==
    /\ phase[p] = "check"
    /\ LET i == work[p]
           live == ~Answered(found[p])
       IN  \/ /\ live /\ i \notin lapsed /\ Confirmable(found[p])
              /\ Goto(p, "confirm")
              /\ UNCHANGED <<work, found, kept, expiring>>
           \/ /\ live /\ i \in lapsed
              /\ expiring' = [expiring EXCEPT ![i] = @ + 1]
              /\ Leave(p)
           \/ /\ ~live \/ (i \notin lapsed /\ ~Confirmable(found[p]))
              /\ Leave(p)
              /\ UNCHANGED expiring
    /\ UNCHANGED <<rows, clock, product, bounds, history>>

MarkConfirmed(p) ==
    /\ phase[p] = "confirm"
    /\ Mark(work[p], "CONFIRMED")
    /\ Goto(p, "confirmed")
    /\ UNCHANGED <<snapshot, clock, expiring, product, work, found, kept, bounds, history>>

MarkExecuting(p) ==
    /\ phase[p] = "confirmed"
    /\ Mark(work[p], "EXECUTING")
    /\ Goto(p, "read")
    /\ UNCHANGED <<snapshot, clock, expiring, product, work, found, kept, bounds, history>>

\* The handler reads the product, for the snapshot.
ReadProduct(p) ==
    /\ phase[p] = "read"
    /\ LET state == product[Target[work[p]]]
       IN  /\ Goto(p, IF state = "gone" THEN "failed" ELSE "apply")
           /\ kept' = [kept EXCEPT ![p] = state]
    /\ UNCHANGED <<rows, clock, expiring, product, work, found, bounds, history>>

\* Updating or deleting a product that is gone throws.
Apply(p) ==
    /\ phase[p] = "apply"
    /\ LET i == work[p]
           o == Target[i]
       IN  \/ /\ product[o] = "gone"
              /\ Goto(p, "failed")
              /\ UNCHANGED <<product, runs, before, meddled>>
           \/ /\ product[o] # "gone"
              /\ Write(i, o, IF Kind[i] = "archive" THEN "ARCHIVED" ELSE "gone")
              /\ runs' = [runs EXCEPT ![i] = @ + 1]
              /\ before' = [before EXCEPT ![i] = IF @ = None THEN product[o] ELSE @]
              /\ Goto(p, "done")
    /\ UNCHANGED <<rows, clock, expiring, work, found, kept, bounds, overlapped, faulted, restores>>

\* The result is kept, with a token to undo it if the kind is reversible.
MarkExecuted(p) ==
    /\ phase[p] = "done"
    /\ Mark(work[p], "EXECUTED")
    /\ snapshot' = [snapshot EXCEPT ![work[p]] = kept[p]]
    /\ closed' = closed \ {work[p]}
    /\ Leave(p)
    /\ UNCHANGED <<lapsed, expiring, product, bounds, history>>

MarkFailed(p) ==
    /\ phase[p] = "failed"
    /\ Mark(work[p], "FAILED")
    /\ Leave(p)
    /\ UNCHANGED <<snapshot, clock, expiring, product, bounds, history>>

\* A statement fails inside the try: the intent becomes FAILED, even when it
\* was the update to EXECUTED that failed.
Fail(p) ==
    /\ faults < MaxFaults /\ phase[p] \in {"read", "apply", "done"}
    /\ faults' = faults + 1
    /\ faulted' = faulted \cup {work[p]}
    /\ Goto(p, "failed")
    /\ UNCHANGED <<rows, clock, expiring, product, work, found, kept, calls, edits, runs, before, overlapped, meddled, restores>>

(***************************************************************************)
(* undo                                                                    *)
(***************************************************************************)
BeginUndo(p, i) == Load(p, i, "judge")

Undoable(i, s) == s = "EXECUTED" /\ Kind[i] = "archive" /\ i \notin closed

CheckUndo(p) ==
    /\ phase[p] = "judge"
    /\ \/ /\ Undoable(work[p], found[p])
          /\ Goto(p, "restore")
          /\ UNCHANGED <<work, found, kept>>
       \/ /\ ~Undoable(work[p], found[p])
          /\ Leave(p)
    /\ UNCHANGED <<rows, clock, expiring, product, bounds, history>>

\* Variant: the product is approved again, whatever it was.
RestoredApproved(s) == CHOOSE t \in Statuses : TRUE

\* The previous pair, as the snapshot has it.
Restored(s) == s

Restore(p) ==
    /\ phase[p] = "restore"
    /\ LET o == Target[work[p]]
       IN  \/ /\ product[o] = "gone"
              /\ Leave(p)
              /\ UNCHANGED <<product, meddled, restores>>
           \/ /\ product[o] # "gone"
              /\ Write(work[p], o, Restored(kept[p]))
              /\ restores' = [restores EXCEPT ![work[p]] = @ + 1]
              /\ Goto(p, "restored")
              /\ UNCHANGED <<work, found, kept>>
    /\ UNCHANGED <<rows, clock, expiring, bounds, runs, before, overlapped, faulted>>

MarkUndone(p) ==
    /\ phase[p] = "restored"
    /\ Mark(work[p], "UNDONE")
    /\ Leave(p)
    /\ UNCHANGED <<snapshot, clock, expiring, product, bounds, history>>

\* The call ends on its way: another statement fails, or the server dies.
Crash(p) ==
    /\ faults < MaxFaults /\ phase[p] # "idle"
    /\ faults' = faults + 1
    /\ faulted' = faulted \cup {work[p]}
    /\ Leave(p)
    /\ UNCHANGED <<rows, clock, expiring, product, calls, edits, runs, before, overlapped, meddled, restores>>

----------------------------------------------------------------------------
Next ==
    \/ \E i \in Intents : Create(i) \/ Lapse(i) \/ CloseWindow(i) \/ ExpireArrives(i)
    \/ \E o \in Products, s \in Statuses \cup {"gone"} : Edit(o, s)
    \/ \E p \in Procs :
        \/ \E i \in Intents : BeginConfirm(p, i) \/ BeginUndo(p, i)
        \/ CheckConfirm(p) \/ MarkConfirmed(p) \/ MarkExecuting(p)
        \/ ReadProduct(p) \/ Apply(p) \/ MarkExecuted(p) \/ MarkFailed(p) \/ Fail(p)
        \/ CheckUndo(p) \/ Restore(p) \/ MarkUndone(p)
        \/ Crash(p)

Spec == Init /\ [][Next]_vars

----------------------------------------------------------------------------
Marks == {"PENDING", "CONFIRMED", "EXECUTING", "EXECUTED", "FAILED", "EXPIRED", "UNDONE"}

States == Statuses \cup {"ARCHIVED", "gone"}

Phases == {"idle", "check", "confirm", "confirmed", "read", "apply", "done", "failed",
           "judge", "restore", "restored"}

\* The types of the variables.
TypeOK ==
    /\ status \in [Intents -> Marks \cup {"none"}]
    /\ snapshot \in [Intents -> States \cup {None}]
    /\ lapsed \subseteq Intents /\ closed \subseteq Intents
    /\ expiring \in [Intents -> Nat]
    /\ product \in [Products -> States]
    /\ \A p \in Procs : phase[p] = "idle" <=> work[p] = None
    /\ phase \in [Procs -> Phases]
    /\ work \in [Procs -> Intents \cup {None}]
    /\ found \in [Procs -> Marks \cup {None}]
    /\ kept \in [Procs -> States \cup {None}]
    /\ calls \in 0 .. MaxCalls /\ edits \in 0 .. MaxEdits /\ faults \in 0 .. MaxFaults
    /\ runs \in [Intents -> Nat] /\ restores \in [Intents -> Nat]
    /\ before \in [Intents -> States \cup {None}]
    /\ overlapped \cup faulted \cup meddled \subseteq Intents

Resting(i) == \A p \in Procs : work[p] # i

\* An intent changes its product twice only when two calls for it overlapped: a
\* retry after a failure or a crash, at whatever point, does not repeat it
\* (I-ADMIN-D4).  An undo changes it back twice only after an overlap or a call
\* that failed on its way.
EffectsHappenOnce ==
    \A i \in Intents :
        /\ runs[i] > 1 => i \in overlapped
        /\ restores[i] > 1 => i \in overlapped \cup faulted

\* When no call for an intent is in progress its status tells whether it
\* changed its product, unless two calls overlapped or one failed on its way:
\* the update to EXPIRED that nobody awaits never hides an execution of calls
\* that came one after the other (I-ADMIN-D2).  It does hide an undo, when the
\* intent is confirmed once more.
StatusTellsTheEffect ==
    \A i \in Intents :
        Resting(i) /\ i \notin overlapped \cup faulted =>
            (runs[i] = 1 <=> status[i] \in {"EXECUTED", "UNDONE"} \/ restores[i] > 0)

\* An undone product is as it was when it was archived, if nobody else changed
\* it since it was read, although undos may have been interrupted and repeated.
UndoRestores ==
    \A i \in Intents :
        status[i] = "UNDONE" /\ i \notin overlapped \cup meddled =>
            product[Target[i]] = before[i]
=============================================================================
