----------------------- MODULE InboundMessagesProofs -----------------------
(***************************************************************************)
(* Theorems about the inbound messages of a contact, for every set of      *)
(* messages, any number of deliveries and handlers, and any number of      *)
(* failures and crashes.                                                   *)
(***************************************************************************)
EXTENDS InboundMessages, TLAPS

USE InboundAssumption DEF Replying, Awaiting

----------------------------------------------------------------------------
(***************************************************************************)
(* What a step does to the handlers.                                       *)
(***************************************************************************)
\* A handler that goes on keeps everything but its phase.
LEMMA GotoEffect ==
    ASSUME handler \in [Procs -> Call], NEW p \in Procs, NEW ph \in Phases, Goto(p, ph)
    PROVE  /\ handler' \in [Procs -> Call]
           /\ At(p, ph)'
           /\ Msg(p)' = Msg(p)
           /\ handler'[p].live = handler[p].live
           /\ handler'[p].cut = handler[p].cut
           /\ handler'[p].batch = handler[p].batch
           /\ handler'[p].late = handler[p].late
           /\ \A q \in Procs \ {p} : handler'[q] = handler[q]
  BY DEF Goto, Call, At, Msg

\* One that returns, or dies, forgets everything.
LEMMA IdleEffect ==
    ASSUME handler \in [Procs -> Call], NEW p \in Procs,
           handler' = [handler EXCEPT ![p] = Idle]
    PROVE  /\ handler' \in [Procs -> Call]
           /\ handler'[p] = Idle
           /\ \A q \in Procs \ {p} : handler'[q] = handler[q]
  BY DEF Idle, Call, Phases

\* One that reads the last reply's time, or the rows after it.
LEMMA CutEffect ==
    ASSUME handler \in [Procs -> Call], NEW p \in Procs, NEW c \in SUBSET Messages,
           handler' = [handler EXCEPT ![p].phase = "batch", ![p].cut = c]
    PROVE  /\ handler' \in [Procs -> Call]
           /\ At(p, "batch")'
           /\ Msg(p)' = Msg(p)
           /\ handler'[p].live = handler[p].live
           /\ handler'[p].cut = c
           /\ handler'[p].batch = handler[p].batch
           /\ handler'[p].late = handler[p].late
           /\ \A q \in Procs \ {p} : handler'[q] = handler[q]
<1> DEFINE new == [handler[p] EXCEPT !.phase = "batch", !.cut = c]
<1>1. "batch" \in Phases
  BY DEF Phases
<1>2. /\ new \in Call /\ new.phase = "batch" /\ new.msg = handler[p].msg
      /\ new.live = handler[p].live /\ new.cut = c /\ new.batch = handler[p].batch
      /\ new.late = handler[p].late
  BY <1>1 DEF Call
<1>3. handler' = [handler EXCEPT ![p] = new]
  OBVIOUS
<1> HIDE DEF new
<1> QED  BY <1>2, <1>3 DEF At, Msg

LEMMA BatchEffect ==
    ASSUME handler \in [Procs -> Call], NEW p \in Procs, NEW b \in SUBSET Messages,
           handler' = [handler EXCEPT ![p].phase = "answer", ![p].batch = b]
    PROVE  /\ handler' \in [Procs -> Call]
           /\ At(p, "answer")'
           /\ Msg(p)' = Msg(p)
           /\ handler'[p].live = handler[p].live
           /\ handler'[p].batch = b
           /\ handler'[p].cut = handler[p].cut
           /\ handler'[p].late = handler[p].late
           /\ \A q \in Procs \ {p} : handler'[q] = handler[q]
<1> DEFINE new == [handler[p] EXCEPT !.phase = "answer", !.batch = b]
<1>1. "answer" \in Phases
  BY DEF Phases
<1>2. /\ new \in Call /\ new.phase = "answer" /\ new.msg = handler[p].msg
      /\ new.live = handler[p].live /\ new.batch = b /\ new.cut = handler[p].cut
      /\ new.late = handler[p].late
  BY <1>1 DEF Call
<1>3. handler' = [handler EXCEPT ![p] = new]
  OBVIOUS
<1> HIDE DEF new
<1> QED  BY <1>2, <1>3 DEF At, Msg

\* What a reply collects is part of what is pending, or the handler's message.
LEMMA CollectEffect ==
    ASSUME NEW p \in Procs, Collect(p), saved \subseteq Messages, Msg(p) \in saved
    PROVE  \E b \in SUBSET saved :
              /\ handler' = [handler EXCEPT ![p].phase = "answer", ![p].batch = b]
              /\ b = {Msg(p)} \/ b \subseteq saved \ handler[p].cut
              /\ (saved \ handler[p].cut) \ b \subseteq excused'
              /\ excused \subseteq excused' /\ excused' \subseteq excused \cup saved
<1>1. PICK some \in Oldest(Pending(p)) :
          /\ handler' = [handler EXCEPT ![p].phase = "answer",
                                        ![p].batch = IF some = {} THEN {Msg(p)} ELSE some]
          /\ excused' = excused \cup (Pending(p) \ some)
  BY DEF Collect
<1>2. some \subseteq saved \ handler[p].cut
  BY DEF Oldest, Pending
<1> DEFINE b == IF some = {} THEN {Msg(p)} ELSE some
<1>3. b \in SUBSET saved /\ (b = {Msg(p)} \/ b \subseteq saved \ handler[p].cut)
  BY <1>2
<1>4. (saved \ handler[p].cut) \ b \subseteq excused'
  BY <1>1 DEF Pending
<1>5. excused \subseteq excused' /\ excused' \subseteq excused \cup saved
  BY <1>1 DEF Pending
<1> HIDE DEF b
<1> QED  BY <1>1, <1>3, <1>4, <1>5 DEF b

\* The reply lock goes: whoever is at work on its reply is late from then on.
LEMMA OverdueEffect ==
    ASSUME handler \in [Procs -> Call], NEW q \in Procs
    PROVE  /\ Overdue(q) \in Call
           /\ Overdue(q).phase = handler[q].phase
           /\ Overdue(q).msg = handler[q].msg
           /\ Overdue(q).live = handler[q].live
           /\ Overdue(q).cut = handler[q].cut
           /\ Overdue(q).batch = handler[q].batch
           /\ Overdue(q).late = (handler[q].late \/ handler[q].phase \in Replying \cup Awaiting)
  BY DEF Overdue, Call

----------------------------------------------------------------------------
(***************************************************************************)
(* Types, and the unique index: a message has a row when a handler is past *)
(* storing it, and only one handler ever is.                               *)
(***************************************************************************)
Stored == Awaiting \cup Replying

OneHandlerStores ==
    /\ \A p \in Procs : handler[p].phase \in Stored \cup {"remember"} => Msg(p) \in saved
    /\ \A p, q \in Procs : /\ handler[p].phase \in Stored /\ handler[q].phase \in Stored
                           /\ Msg(p) = Msg(q)
                           => p = q

RowInv == TypeOK /\ OneHandlerStores

LEMMA InitRows == Init => RowInv
<1> SUFFICES ASSUME Init PROVE RowInv
  OBVIOUS
<1>1. Idle \in Call
  BY DEF Idle, Call, Phases
<1>2. handler \in [Procs -> Call] /\ \A p \in Procs : handler[p] = Idle
  BY <1>1 DEF Init
<1>3. OneHandlerStores
  BY <1>2 DEF OneHandlerStores, Stored, Idle
<1>4. \A p \in Procs : /\ Msg(p) \in IF At(p, "idle") THEN {None} ELSE written
                       /\ handler[p].cut \subseteq older /\ handler[p].batch \subseteq saved
  BY <1>2 DEF Idle, Msg, At
<1>5. /\ faults \in 0 .. MaxFaults
      /\ heard \in [Messages -> Nat] /\ answered \in [Messages -> Nat]
      /\ calls \in [Messages -> Nat]
  BY DEF Init
<1>6. cache \in [Messages -> {"none", "processing", "id"}]
  BY DEF Init
<1>7. /\ older \subseteq written /\ written \subseteq Messages /\ saved \subseteq written
      /\ acked \cup excused \cup imported \cup failed \cup lapsed \subseteq written
      /\ inlineLock \in BOOLEAN /\ replyLock \in BOOLEAN
  BY DEF Init
<1>8. TypeOK
  BY <1>2, <1>4, <1>5, <1>6, <1>7 DEF TypeOK, Msg, At
<1> QED  BY <1>3, <1>8 DEF RowInv

\* The steps that only move a handler on.
LEMMA GotoKeepsRows ==
    ASSUME RowInv, NEW p \in Procs, NEW ph \in Phases, Goto(p, ph), ~ At(p, "idle"), ph # "idle",
           ph \in Stored => handler[p].phase \in Stored \/ Msg(p) \notin saved,
           ph \in Stored \cup {"remember"} => Msg(p) \in saved',
           written' = written, older' = older, saved \subseteq saved'
    PROVE  /\ OneHandlerStores'
           /\ handler' \in [Procs -> Call]
           /\ \A q \in Procs : /\ Msg(q)' \in IF At(q, "idle")' THEN {None} ELSE written'
                               /\ handler'[q].cut \subseteq older' /\ handler'[q].batch \subseteq saved'
<1>1. handler \in [Procs -> Call]
  BY DEF RowInv, TypeOK
<1>2. /\ handler' \in [Procs -> Call]
      /\ At(p, ph)' /\ Msg(p)' = Msg(p)
      /\ handler'[p].cut = handler[p].cut /\ handler'[p].batch = handler[p].batch
      /\ \A q \in Procs \ {p} : handler'[q] = handler[q]
  BY <1>1, GotoEffect
<1>3. OneHandlerStores'
  BY <1>2 DEF RowInv, OneHandlerStores, Stored, At, Msg
<1> QED  BY <1>2, <1>3 DEF RowInv, TypeOK, At, Msg

\* The steps that end a call.
LEMMA IdleKeepsRows ==
    ASSUME RowInv, NEW p \in Procs, handler' = [handler EXCEPT ![p] = Idle],
           written' = written, older \subseteq older', saved' = saved
    PROVE  /\ OneHandlerStores'
           /\ handler' \in [Procs -> Call]
           /\ \A q \in Procs : /\ Msg(q)' \in IF At(q, "idle")' THEN {None} ELSE written'
                               /\ handler'[q].cut \subseteq older' /\ handler'[q].batch \subseteq saved'
<1>1. handler \in [Procs -> Call]
  BY DEF RowInv, TypeOK
<1>2. /\ handler' \in [Procs -> Call]
      /\ handler'[p] = Idle
      /\ \A q \in Procs \ {p} : handler'[q] = handler[q]
  BY <1>1, IdleEffect
<1>3. OneHandlerStores'
  BY <1>2 DEF RowInv, OneHandlerStores, Stored, Idle, Msg
<1> QED  BY <1>2, <1>3 DEF RowInv, TypeOK, At, Msg, Idle

\* Every step of a handler keeps the types and the index.
LEMMA StepKeepsRows ==
    ASSUME RowInv, NEW p \in Procs, Step(p)
    PROVE  RowInv'
<1> DEFINE Rest == /\ OneHandlerStores'
                   /\ handler' \in [Procs -> Call]
                   /\ \A q \in Procs :
                        /\ Msg(q)' \in IF At(q, "idle")' THEN {None} ELSE written'
                        /\ handler'[q].cut \subseteq older' /\ handler'[q].batch \subseteq saved'
<1>0. /\ handler \in [Procs -> Call]
      /\ handler[p].phase # "idle" => Msg(p) \in written
  BY DEF RowInv, TypeOK, At
<1>1. CASE LookUp(p)
  <2>1. Rest
    BY <1>0, <1>1, GotoKeepsRows, IdleKeepsRows DEF LookUp, Finish, Unchanged, Phases, Stored, At, RowInv, OneHandlerStores, TypeOK
  <2> QED  BY <1>0, <1>1, <2>1 DEF LookUp, Finish, Unchanged, causes, RowInv, TypeOK, At
<1>2. CASE Poll(p)
  <2>1. Rest
    BY <1>0, <1>2, GotoKeepsRows, IdleKeepsRows DEF Poll, Finish, Unchanged, Phases, Stored, At, RowInv, OneHandlerStores, TypeOK
  <2> QED  BY <1>0, <1>2, <2>1 DEF Poll, Finish, Unchanged, causes, RowInv, TypeOK, At
<1>3. CASE FindRow(p)
  <2>1. Rest
    BY <1>0, <1>3, GotoKeepsRows DEF FindRow, Unchanged, Phases, Stored, At, RowInv, OneHandlerStores, TypeOK
  <2> QED  BY <1>0, <1>3, <2>1 DEF FindRow, Unchanged, causes, RowInv, TypeOK, At
<1>4. CASE RememberRow(p)
  <2>1. Rest
    BY <1>0, <1>4, IdleKeepsRows DEF RememberRow, Finish, Unchanged, Phases, Stored, At, RowInv, OneHandlerStores, TypeOK
  <2> QED  BY <1>0, <1>4, <2>1 DEF RememberRow, Finish, Unchanged, causes, RowInv, TypeOK, At
<1>5. CASE Claim(p)
  <2>1. Rest
    BY <1>0, <1>5, GotoKeepsRows, IdleKeepsRows DEF Claim, Finish, Unchanged, Phases, Stored, At, RowInv, OneHandlerStores, TypeOK
  <2> QED  BY <1>0, <1>5, <2>1 DEF Claim, Finish, Unchanged, causes, RowInv, TypeOK, At
<1>6. CASE Save(p)
  <2>1. Rest
    BY <1>0, <1>6, GotoKeepsRows DEF Save, Phases, Stored, At, RowInv, OneHandlerStores, TypeOK
  <2> QED  BY <1>0, <1>6, <2>1 DEF Save, RowInv, TypeOK, At
<1>7. CASE CacheId(p)
  <2>1. Rest
    BY <1>0, <1>7, GotoKeepsRows DEF CacheId, Unchanged, Phases, Stored, At, RowInv, OneHandlerStores, TypeOK
  <2> QED  BY <1>0, <1>7, <2>1 DEF CacheId, Unchanged, causes, RowInv, TypeOK, At
<1>8. CASE PushReply(p)
  <2>1. Rest
    BY <1>0, <1>8, GotoKeepsRows DEF PushReply, Phases, Stored, At, RowInv, OneHandlerStores, TypeOK
  <2> QED  BY <1>0, <1>8, <2>1 DEF PushReply, causes, RowInv, TypeOK, At
<1>9. CASE WakeFlow(p)
  <2>1. Rest
    BY <1>0, <1>9, GotoKeepsRows DEF WakeFlow, Unchanged, Phases, Stored, At, RowInv, OneHandlerStores, TypeOK
  <2> QED  BY <1>0, <1>9, <2>1 DEF WakeFlow, Unchanged, causes, RowInv, TypeOK, At
<1>10. CASE ChooseReply(p)
  <2>1. Rest
    BY <1>0, <1>10, GotoKeepsRows, IdleKeepsRows DEF ChooseReply, Finish, Phases, Stored, At, RowInv, OneHandlerStores, TypeOK
  <2> QED  BY <1>0, <1>10, <2>1 DEF ChooseReply, Finish, RowInv, TypeOK, At
<1>11. CASE LockInline(p)
  <2>1. Rest
    BY <1>0, <1>11, GotoKeepsRows, IdleKeepsRows DEF LockInline, TurnAway, Finish, Phases, Stored, At, RowInv, OneHandlerStores, TypeOK
  <2> QED  BY <1>0, <1>11, <2>1 DEF LockInline, TurnAway, Finish, RowInv, TypeOK, At
<1>12. CASE LockReply(p)
  <2>1. Rest
    BY <1>0, <1>12, GotoKeepsRows, IdleKeepsRows DEF LockReply, TurnAway, Finish, Phases, Stored, At, RowInv, OneHandlerStores, TypeOK
  <2> QED  BY <1>0, <1>12, <2>1 DEF LockReply, TurnAway, Finish, RowInv, TypeOK, At
<1>13. CASE ReadLastReply(p)
  <2>2. handler' = [handler EXCEPT ![p].phase = "batch", ![p].cut = older]
    BY <1>13 DEF ReadLastReply
  <2>3. /\ handler' \in [Procs -> Call]
        /\ handler'[p].phase = "batch" /\ handler'[p].msg = handler[p].msg
        /\ handler'[p].cut = older /\ handler'[p].batch = handler[p].batch
        /\ \A q \in Procs \ {p} : handler'[q] = handler[q]
    <3>1. older \in SUBSET Messages
      BY DEF RowInv, TypeOK
    <3> QED  BY <1>0, <2>2, <3>1, CutEffect DEF At, Msg
  <2>4. OneHandlerStores'
    BY <1>0, <1>13, <2>3 DEF ReadLastReply, Unchanged, At, Call, RowInv, OneHandlerStores, Stored, Msg
  <2>1. Rest
    BY <1>0, <1>13, <2>3, <2>4 DEF ReadLastReply, Unchanged, At, Call, RowInv, TypeOK, Msg
  <2> QED  BY <1>0, <1>13, <2>1 DEF ReadLastReply, Unchanged, causes, RowInv, TypeOK, At
<1>14. CASE Collect(p)
  <2>0. saved \subseteq Messages /\ Msg(p) \in saved
    BY <1>14 DEF Collect, RowInv, TypeOK, OneHandlerStores, Stored, At
  <2>1. PICK b \in SUBSET saved :
            handler' = [handler EXCEPT ![p].phase = "answer", ![p].batch = b]
    BY <1>14, <2>0, CollectEffect
  <2>2. /\ handler' \in [Procs -> Call]
        /\ handler'[p].phase = "answer" /\ handler'[p].msg = handler[p].msg
        /\ handler'[p].cut = handler[p].cut /\ handler'[p].batch = b
        /\ \A q \in Procs \ {p} : handler'[q] = handler[q]
    <3>1. b \in SUBSET Messages
      BY DEF RowInv, TypeOK
    <3> QED  BY <1>0, <2>1, <3>1, BatchEffect DEF At, Msg
  <2>3. handler[p].phase = "batch" /\ UNCHANGED <<written, older, saved>>
    BY <1>14 DEF Collect, At
  <2>6. excused' \subseteq excused \cup saved
    BY <1>14, <2>0, CollectEffect
  <2>5. OneHandlerStores'
    <3>1. \A q \in Procs : /\ handler'[q].msg = handler[q].msg
                           /\ handler'[q].phase \in Stored => handler[q].phase \in Stored
                           /\ handler'[q].phase = "remember" => handler[q].phase = "remember"
      BY <2>2, <2>3 DEF Stored
    <3> QED  BY <2>3, <3>1 DEF RowInv, OneHandlerStores, Msg
  <2>4. Rest
    BY <2>1, <2>2, <2>3, <2>5 DEF At, RowInv, TypeOK, Msg
  <2>7. /\ UNCHANGED <<written, older, cache, saved, heard, inlineLock, replyLock, calls, acked,
                        faults, answered, imported, failed, lapsed>>
    BY <1>14 DEF Collect
  <2> QED  BY <1>0, <2>4, <2>6, <2>7 DEF RowInv, TypeOK
<1>15. CASE Answer(p)
  <2>1. Rest
    BY <1>0, <1>15, GotoKeepsRows DEF Answer, Phases, Stored, At, RowInv, OneHandlerStores, TypeOK
  <2> QED  BY <1>0, <1>15, <2>1 DEF Answer, RowInv, TypeOK, At
<1>16. CASE PersistReply(p)
  <2>1. Rest
    BY <1>0, <1>16, IdleKeepsRows DEF PersistReply, Finish, Phases, Stored, At, RowInv, OneHandlerStores, TypeOK
  <2> QED  BY <1>0, <1>16, <2>1 DEF PersistReply, Finish, RowInv, TypeOK, At
<1>17. CASE Release(p)
  <2>1. /\ handler' \in [Procs -> Call]
        /\ handler'[p] = Idle
        /\ \A q \in Procs \ {p} : handler'[q] = Overdue(q)
    <3>1. Idle \in Call
      BY DEF Idle, Call, Phases
    <3> QED  BY <1>0, <1>17, <3>1, OverdueEffect DEF Release
  <2>2. \A q \in Procs \ {p} : /\ handler'[q].phase = handler[q].phase
                                /\ handler'[q].msg = handler[q].msg
                                /\ handler'[q].cut = handler[q].cut
                                /\ handler'[q].batch = handler[q].batch
    BY <1>0, <2>1, OverdueEffect
  <2>3. UNCHANGED <<written, older, cache, saved, heard, inlineLock, calls, faults, answered,
                    excused, imported, failed>>
    BY <1>17 DEF Release
  <2>4. OneHandlerStores'
    BY <2>1, <2>2, <2>3 DEF RowInv, OneHandlerStores, Stored, Idle, Msg
  <2>5. Rest
    BY <2>1, <2>2, <2>3, <2>4 DEF RowInv, TypeOK, Idle, Msg, At
  <2>6. lapsed' \subseteq written /\ acked' \subseteq written /\ replyLock' = FALSE
    <3>1. JustAnswered \subseteq saved
      BY DEF JustAnswered, RowInv, TypeOK
    <3> QED  BY <1>0, <1>17, <3>1 DEF Release, RowInv, TypeOK, At
  <2> QED  BY <2>3, <2>5, <2>6 DEF RowInv, TypeOK
<1>18. CASE Throw(p)
  <2>1. Rest
    BY <1>0, <1>18, GotoKeepsRows, IdleKeepsRows DEF Throw, Fail, Finish, Phases, Stored, At, RowInv, OneHandlerStores, TypeOK
  <2> QED  BY <1>0, <1>18, <2>1 DEF Throw, Fail, Finish, RowInv, TypeOK, At
<1>19. CASE Swallow(p)
  <2>1. Rest
    BY <1>0, <1>19, GotoKeepsRows, IdleKeepsRows DEF Swallow, Fail, Finish, Phases, Stored, At, RowInv, OneHandlerStores, TypeOK
  <2> QED  BY <1>0, <1>19, <2>1 DEF Swallow, Fail, Finish, RowInv, TypeOK, At
<1>20. CASE Crash(p)
  <2>1. Rest
    BY <1>0, <1>20, IdleKeepsRows DEF Crash, Fail, Phases, Stored, At, RowInv, OneHandlerStores, TypeOK
  <2> QED  BY <1>0, <1>20, <2>1 DEF Crash, Fail, RowInv, TypeOK, At
<1> QED
  BY <1>1, <1>2, <1>3, <1>4, <1>5, <1>6, <1>7, <1>8, <1>9, <1>10, <1>11, <1>12, <1>13, <1>14, <1>15, <1>16, <1>17, <1>18, <1>19, <1>20 DEF Step

\* So do the contact, the deliveries and the clock.
LEMMA WorldKeepsRows ==
    ASSUME RowInv,
           \/ \E m \in Messages : Write(m) \/ Expire(m)
           \/ \E p \in Procs, m \in Messages, live \in BOOLEAN : Deliver(p, m, live)
           \/ SpeakOtherwise \/ LockExpires
           \/ UNCHANGED vars
    PROVE  RowInv'
<1>0. handler \in [Procs -> Call]
  BY DEF RowInv, TypeOK
<1>1. ASSUME NEW m \in Messages, Write(m) PROVE RowInv'
  BY <1>1 DEF Write, RowInv, TypeOK, OneHandlerStores, Msg, At
<1>2. ASSUME NEW m \in Messages, Expire(m) PROVE RowInv'
  BY <1>2 DEF Expire, Unchanged, causes, RowInv, TypeOK, OneHandlerStores, Msg, At
<1>3. ASSUME NEW p \in Procs, NEW m \in Messages, NEW live \in BOOLEAN, Deliver(p, m, live)
      PROVE  RowInv'
  <2> DEFINE new == [Idle EXCEPT !.phase = "lookup", !.msg = m, !.live = live]
  <2>1. new \in Call
    BY DEF Idle, Call, Phases
  <2>2. new.phase = "lookup" /\ new.msg = m /\ new.cut = {} /\ new.batch = {}
    BY DEF Idle
  <2>3. handler' = [handler EXCEPT ![p] = new]
    BY <1>3 DEF Deliver
  <2> HIDE DEF new
  <2>4. /\ handler' \in [Procs -> Call]
        /\ handler'[p] = new
        /\ \A q \in Procs \ {p} : handler'[q] = handler[q]
    BY <1>0, <2>1, <2>3
  <2>5. OneHandlerStores'
    BY <1>3, <2>2, <2>4 DEF Deliver, RowInv, OneHandlerStores, Stored, Msg
  <2>6. calls' \in [Messages -> Nat]
    <3>1. calls \in [Messages -> Nat] /\ calls' = [calls EXCEPT ![m] = @ + 1]
      BY <1>3 DEF Deliver, RowInv, TypeOK
    <3> QED  BY <3>1
  <2>7. \A q \in Procs : /\ Msg(q)' \in IF At(q, "idle")' THEN {None} ELSE written'
                         /\ handler'[q].cut \subseteq older' /\ handler'[q].batch \subseteq saved'
    <3>1. m \in written /\ UNCHANGED <<written, older, saved>>
      BY <1>3 DEF Deliver
    <3> QED  BY <3>1, <2>2, <2>4 DEF RowInv, TypeOK, Msg, At
  <2>8. UNCHANGED <<written, older, cache, saved, heard, inlineLock, replyLock, acked,
                    faults, answered, excused, imported, failed, lapsed>>
    BY <1>3 DEF Deliver, causes
  <2> QED  BY <2>4, <2>5, <2>6, <2>7, <2>8 DEF RowInv, TypeOK
<1>4. CASE LockExpires
  <2>1. CASE UNCHANGED <<handler, lapsed>>
    BY <1>4, <2>1 DEF LockExpires, RowInv, TypeOK, OneHandlerStores, Msg, At
  <2>2. CASE handler' = [q \in Procs |-> Overdue(q)]
    <3>1. /\ handler' \in [Procs -> Call]
          /\ \A q \in Procs : /\ handler'[q].phase = handler[q].phase
                               /\ handler'[q].msg = handler[q].msg
                               /\ handler'[q].cut = handler[q].cut
                               /\ handler'[q].batch = handler[q].batch
      BY <1>0, <2>2, OverdueEffect
    <3>2. JustAnswered \subseteq saved
      BY DEF JustAnswered, RowInv, TypeOK
    <3>3. OneHandlerStores'
      BY <1>4, <3>1 DEF LockExpires, RowInv, OneHandlerStores, Msg
    <3> QED  BY <1>4, <3>1, <3>2, <3>3 DEF LockExpires, RowInv, TypeOK, Msg, At
  <2> QED  BY <1>4, <2>1, <2>2 DEF LockExpires
<1>5. CASE SpeakOtherwise
  BY <1>5 DEF SpeakOtherwise, RowInv, TypeOK, OneHandlerStores, Msg, At
<1>6. CASE UNCHANGED vars
  BY <1>6 DEF vars, causes, RowInv, TypeOK, OneHandlerStores, Msg, At
<1> QED  BY <1>1, <1>2, <1>3, <1>4, <1>5, <1>6

LEMMA RowsHold == Spec => []RowInv
<1>1. RowInv /\ [Next]_vars => RowInv'
  BY StepKeepsRows, WorldKeepsRows DEF Next
<1> QED  BY InitRows, <1>1, PTL DEF Spec

\* Types; what a reply has collected has a row, and what is not after the last
\* reply was written before it, for any number of handlers.
THEOREM InboundTypeOK == Spec => []TypeOK
  BY RowsHold, PTL DEF RowInv

----------------------------------------------------------------------------
(***************************************************************************)
(* What the flow hears.  A stored message is either still being told by    *)
(* the one handler that stored it or has been told; a claim belongs to a   *)
(* message that is stored, failed on or about to be stored.                *)
(***************************************************************************)
Telling(p) == handler[p].phase \in {"cacheId", "push"}

ToldOnce ==
    /\ \A m \in Messages : heard[m] <= 1 /\ (m \notin saved => heard[m] = 0)
    /\ \A p \in Procs :
        /\ Telling(p) => heard[Msg(p)] = 0
        /\ At(p, "push") => handler[p].live
        /\ At(p, "cacheId") /\ ~ handler[p].live => Msg(p) \in imported
    /\ \A m \in saved : \/ heard[m] = 1 \/ m \in failed \cup imported
                        \/ \E p \in Procs : Telling(p) /\ Msg(p) = m

ClaimsAreServed ==
    \A m \in Messages :
        /\ cache[m] = "id" => m \in saved
        /\ cache[m] = "processing" \/ m \in acked =>
            m \in saved \cup failed \/ \E p \in Procs : At(p, "save") /\ Msg(p) = m

HearInv == RowInv /\ ToldOnce /\ ClaimsAreServed

\* A handler the step leaves where it is, and one that is not about to tell the
\* flow, nor to store a message, unless it fails on it.
Same(q) == /\ handler'[q].phase = handler[q].phase
           /\ handler'[q].msg = handler[q].msg
           /\ handler'[q].live = handler[q].live

Quiet(q) == /\ handler'[q].phase \notin {"save", "cacheId", "push"}
            /\ At(q, "save") => Msg(q) \in saved \cup failed'
            /\ Telling(q) => Msg(q) \in failed'

\* Steps that neither store nor tell.
LEMMA QuietKeepsTold ==
    ASSUME HearInv, RowInv',
           \A q \in Procs : Same(q) \/ Quiet(q),
           UNCHANGED <<heard, saved, imported>>, failed \subseteq failed',
           \A m \in Messages : cache'[m] = cache[m] \/ cache'[m] = "none" \/ m \in saved,
           \A m \in acked' : m \in acked \cup saved \cup failed' \/ cache[m] = "processing"
    PROVE  HearInv'
<1>1. /\ saved \subseteq Messages /\ heard \in [Messages -> Nat]
      /\ \A q \in Procs : ~ At(q, "idle") => Msg(q) \in Messages
  BY DEF HearInv, RowInv, TypeOK
<1>2. ToldOnce'
  <2>1. \A m \in Messages : heard'[m] <= 1 /\ (m \notin saved' => heard'[m] = 0)
    BY DEF HearInv, ToldOnce
  <2>2. ASSUME NEW p \in Procs
        PROVE  /\ Telling(p)' => heard'[Msg(p)'] = 0
               /\ At(p, "push")' => handler'[p].live
               /\ At(p, "cacheId")' /\ ~ handler'[p].live => Msg(p)' \in imported'
    <3>1. CASE Quiet(p)
      BY <3>1 DEF Quiet, Telling, At
    <3>2. CASE Same(p)
      BY <3>2 DEF Same, Telling, At, Msg, HearInv, ToldOnce
    <3> QED  BY <3>1, <3>2
  <2>3. ASSUME NEW m \in saved'
        PROVE  \/ heard'[m] = 1 \/ m \in failed' \cup imported'
               \/ \E p \in Procs : Telling(p)' /\ Msg(p)' = m
    <3>1. CASE \E p \in Procs : Telling(p) /\ Msg(p) = m
      BY <3>1 DEF Same, Quiet, Telling, At, Msg
    <3> QED  BY <3>1 DEF HearInv, ToldOnce
  <2> QED  BY <2>1, <2>2, <2>3 DEF ToldOnce
<1>3. ClaimsAreServed'
  <2> SUFFICES ASSUME NEW m \in Messages
               PROVE  /\ cache'[m] = "id" => m \in saved'
                      /\ cache'[m] = "processing" \/ m \in acked' =>
                           m \in saved' \cup failed' \/ \E p \in Procs : At(p, "save")' /\ Msg(p)' = m
    BY DEF ClaimsAreServed
  <2>1. cache'[m] = "id" => m \in saved'
    BY DEF HearInv, ClaimsAreServed
  <2>2. CASE \E p \in Procs : At(p, "save") /\ Msg(p) = m
    BY <2>1, <2>2 DEF Same, Quiet, At, Msg
  <2>3. CASE ~ \E p \in Procs : At(p, "save") /\ Msg(p) = m
    BY <2>1, <2>3 DEF HearInv, ClaimsAreServed
  <2> QED  BY <2>2, <2>3
<1> QED  BY <1>2, <1>3 DEF HearInv

LEMMA InitHears == Init => HearInv
<1> SUFFICES ASSUME Init PROVE HearInv
  OBVIOUS
<1>1. /\ \A p \in Procs : handler[p] = Idle
      /\ \A m \in Messages : heard[m] = 0 /\ cache[m] = "none"
      /\ saved = {} /\ acked = {}
  BY DEF Init
<1>2. ToldOnce
  BY <1>1 DEF ToldOnce, Telling, At, Idle
<1>3. ClaimsAreServed
  BY <1>1 DEF ClaimsAreServed
<1> QED  BY <1>2, <1>3, InitRows DEF HearInv

\* Only the steps from the claim to the push are not quiet.
LEMMA StepKeepsTold ==
    ASSUME HearInv, RowInv', NEW p \in Procs, Step(p)
    PROVE  HearInv'
<1> DEFINE Others == \A q \in Procs \ {p} : handler'[q] = handler[q]
<1>0. /\ handler \in [Procs -> Call] /\ RowInv
      /\ saved \subseteq Messages /\ heard \in [Messages -> Nat]
      /\ ~ At(p, "idle") /\ Msg(p) \in Messages
      /\ handler[p].phase \in Stored \cup {"remember"} => Msg(p) \in saved
  <2>1. ~ At(p, "idle")
    BY DEF Step, LookUp, Poll, FindRow, RememberRow, Claim, Save, CacheId, PushReply, WakeFlow,
           ChooseReply, LockInline, LockReply, ReadLastReply, Collect, Answer, PersistReply,
           Release, Throw, Swallow, Crash, Fail, At
  <2> QED  BY <2>1 DEF HearInv, RowInv, TypeOK, OneHandlerStores
<1>1. \A ph \in Phases : Goto(p, ph) => /\ Others /\ At(p, ph)' /\ Msg(p)' = Msg(p)
                                        /\ handler'[p].live = handler[p].live
  BY <1>0, GotoEffect
<1>2. handler' = [handler EXCEPT ![p] = Idle] => Others /\ At(p, "idle")'
  BY <1>0, IdleEffect DEF Idle, At
<1>3. ASSUME Others PROVE \A q \in Procs \ {p} : Same(q)
  <2> TAKE q \in Procs \ {p}
  <2> QED  BY <1>3 DEF Same
<1>4. handler[p].phase \in Stored \cup {"remember"} \/ cache[Msg(p)] # "none" =>
        \/ Msg(p) \in saved \cup failed \/ cache[Msg(p)] = "processing"
  BY <1>0 DEF HearInv, ClaimsAreServed, RowInv, TypeOK
<1> DEFINE SamePlaces ==
        /\ UNCHANGED <<heard, saved, imported>> /\ failed \subseteq failed'
        /\ \A m \in Messages : cache'[m] = cache[m] \/ cache'[m] = "none" \/ m \in saved
        /\ acked' \in {acked, acked \cup {Msg(p)}}
<1>5. ASSUME SamePlaces, Others, Quiet(p),
             \/ acked' = acked \/ cache[Msg(p)] # "none" \/ Msg(p) \in failed'
             \/ handler[p].phase \in Stored \cup {"remember"}
      PROVE  HearInv'
  <2>1. \A q \in Procs : Same(q) \/ Quiet(q)
    BY <1>3, <1>5
  <2>2. \A m \in acked' : m \in acked \cup saved \cup failed' \/ cache[m] = "processing"
    BY <1>4, <1>5
  <2> QED  BY <1>5, <2>1, <2>2, QuietKeepsTold
<1>6. CASE LookUp(p)
  <2>1. SamePlaces /\ Others /\ Quiet(p)
    BY <1>0, <1>1, <1>2, <1>6 DEF LookUp, Finish, Unchanged, causes, Quiet, At, Telling, Phases
  <2> QED  BY <1>5, <1>6, <2>1 DEF LookUp
<1>7. CASE Poll(p)
  <2>1. SamePlaces /\ Others /\ Quiet(p)
    BY <1>0, <1>1, <1>2, <1>7 DEF Poll, Finish, Unchanged, causes, Quiet, At, Telling, Phases
  <2> QED  BY <1>5, <1>7, <2>1 DEF Poll
<1>8. CASE FindRow(p)
  <2>1. SamePlaces /\ Others /\ Quiet(p)
    BY <1>0, <1>1, <1>8 DEF FindRow, Unchanged, causes, Quiet, At, Telling, Phases
  <2> QED  BY <1>5, <1>8, <2>1 DEF FindRow
<1>9. CASE RememberRow(p)
  <2>1. SamePlaces /\ Others /\ Quiet(p)
    BY <1>0, <1>2, <1>9 DEF RememberRow, Finish, Unchanged, causes, Quiet, At, Telling, HearInv, RowInv, TypeOK
  <2> QED  BY <1>5, <1>9, <2>1 DEF RememberRow, At
<1>10. CASE Claim(p)
  <2>1. CASE cache[Msg(p)] = "none"
    <3>1. /\ Others /\ At(p, "save")' /\ Msg(p)' = Msg(p)
          /\ cache' = [cache EXCEPT ![Msg(p)] = "processing"] /\ acked' = acked
          /\ UNCHANGED <<heard, saved, imported, failed>> /\ At(p, "claim")
      BY <1>1, <1>10, <2>1 DEF Claim, Unchanged, causes, Phases
    <3>2. ToldOnce'
      BY <3>1 DEF HearInv, ToldOnce, Telling, At, Msg
    <3>3. ClaimsAreServed'
      BY <1>0, <3>1 DEF HearInv, RowInv, TypeOK, ClaimsAreServed, At, Msg
    <3> QED  BY <3>2, <3>3 DEF HearInv
  <2>2. CASE cache[Msg(p)] # "none"
    <3>1. SamePlaces /\ Others /\ Quiet(p)
      BY <1>0, <1>2, <1>10, <2>2 DEF Claim, Finish, Unchanged, causes, Quiet, At, Telling
    <3> QED  BY <1>5, <2>2, <3>1
  <2> QED  BY <2>1, <2>2
<1>11. CASE Save(p)
  <2>1. CASE Msg(p) \in saved
    <3>1. SamePlaces /\ Others /\ Quiet(p) /\ acked' = acked
      BY <1>0, <1>1, <1>11, <2>1 DEF Save, Quiet, At, Telling, Phases
    <3> QED  BY <1>5, <3>1
  <2>2. CASE Msg(p) \notin saved
    <3>1. /\ Others /\ At(p, "cacheId")' /\ Msg(p)' = Msg(p) /\ handler'[p].live = handler[p].live
          /\ saved' = saved \cup {Msg(p)}
          /\ imported' = IF handler[p].live THEN imported ELSE imported \cup {Msg(p)}
          /\ UNCHANGED <<heard, cache, acked, failed>> /\ At(p, "save")
      BY <1>1, <1>11, <2>2 DEF Save, Phases
    <3>2. ToldOnce'
      BY <1>0, <2>2, <3>1 DEF HearInv, ToldOnce, Telling, At, Msg
    <3>3. ClaimsAreServed'
      BY <3>1 DEF HearInv, ClaimsAreServed, At, Msg
    <3> QED  BY <3>2, <3>3 DEF HearInv
  <2> QED  BY <2>1, <2>2
<1>12. CASE CacheId(p)
  <2>1. /\ Others /\ Msg(p)' = Msg(p) /\ handler'[p].live = handler[p].live
        /\ handler'[p].phase = IF handler[p].live THEN "push" ELSE "autopilot"
        /\ cache' = [cache EXCEPT ![Msg(p)] = "id"]
        /\ UNCHANGED <<heard, saved, imported, acked, failed>> /\ At(p, "cacheId")
    BY <1>1, <1>12 DEF CacheId, Unchanged, causes, Phases, At
  <2>2. ToldOnce'
    BY <2>1 DEF HearInv, ToldOnce, Telling, At, Msg
  <2>3. ClaimsAreServed'
    BY <1>0, <2>1 DEF HearInv, RowInv, TypeOK, ClaimsAreServed, At, Msg, Stored
  <2> QED  BY <2>2, <2>3 DEF HearInv
<1>13. CASE PushReply(p)
  <2>1. /\ Others /\ Msg(p)' = Msg(p) /\ At(p, "wake")'
        /\ heard' = [heard EXCEPT ![Msg(p)] = @ + 1]
        /\ UNCHANGED <<cache, saved, imported, acked, failed>> /\ At(p, "push")
    BY <1>1, <1>13 DEF PushReply, causes, Phases
  <2>2. Msg(p) \in saved /\ heard[Msg(p)] = 0 /\ heard'[Msg(p)] = 1
    BY <1>0, <2>1 DEF HearInv, ToldOnce, Telling, At, Stored
  <2>3. \A q \in Procs \ {p} : Telling(q) => Msg(q) # Msg(p)
    BY <1>0, <2>1 DEF RowInv, OneHandlerStores, Telling, At, Stored
  <2>4. \A m \in Messages \ {Msg(p)} : heard'[m] = heard[m]
    BY <1>0, <2>1
  <2>5. ToldOnce'
    BY <1>0, <2>1, <2>2, <2>3, <2>4 DEF HearInv, ToldOnce, Telling, At, Msg, Stored
  <2>6. ClaimsAreServed'
    BY <2>1 DEF HearInv, ClaimsAreServed, At, Msg
  <2> QED  BY <2>5, <2>6 DEF HearInv
<1>14. CASE WakeFlow(p)
  <2>1. SamePlaces /\ Others /\ Quiet(p)
    BY <1>0, <1>1, <1>14 DEF WakeFlow, Unchanged, causes, Quiet, At, Telling, Phases
  <2> QED  BY <1>5, <1>14, <2>1 DEF WakeFlow
<1>15. CASE ChooseReply(p)
  <2>1. SamePlaces /\ Others /\ Quiet(p) /\ handler[p].phase \in Stored
    BY <1>0, <1>1, <1>2, <1>15 DEF ChooseReply, Finish, Quiet, At, Telling, Phases, Stored
  <2> QED  BY <1>5, <2>1
<1>16. CASE LockInline(p)
  <2>1. SamePlaces /\ Others /\ Quiet(p) /\ handler[p].phase \in Stored
    BY <1>0, <1>1, <1>2, <1>16 DEF LockInline, TurnAway, Finish, Quiet, At, Telling, Phases, Stored
  <2> QED  BY <1>5, <2>1
<1>17. CASE LockReply(p)
  <2>1. SamePlaces /\ Others /\ Quiet(p) /\ handler[p].phase \in Stored
    BY <1>0, <1>1, <1>2, <1>17 DEF LockReply, TurnAway, Finish, Quiet, At, Telling, Phases, Stored
  <2> QED  BY <1>5, <2>1
<1>18. CASE ReadLastReply(p)
  <2>1. older \in SUBSET Messages
    BY <1>0 DEF RowInv, TypeOK
  <2>2. Others /\ At(p, "batch")'
    BY <1>0, <1>18, <2>1, CutEffect DEF ReadLastReply
  <2>3. SamePlaces /\ Others /\ Quiet(p) /\ acked' = acked
    BY <1>18, <2>2 DEF ReadLastReply, Unchanged, causes, Quiet, At, Telling
  <2> QED  BY <1>5, <2>3
<1>19. CASE Collect(p)
  <2>0. Msg(p) \in saved
    BY <1>0, <1>19 DEF Collect, At, Stored
  <2>1. PICK b \in SUBSET Messages : handler' = [handler EXCEPT ![p].phase = "answer", ![p].batch = b]
    BY <1>0, <1>19, <2>0, CollectEffect
  <2>2. Others /\ At(p, "answer")'
    BY <1>0, <2>1, BatchEffect
  <2>3. SamePlaces /\ Others /\ Quiet(p) /\ acked' = acked
    BY <1>19, <2>2 DEF Collect, Quiet, At, Telling
  <2> QED  BY <1>5, <2>3
<1>20. CASE Answer(p)
  <2>1. SamePlaces /\ Others /\ Quiet(p) /\ acked' = acked
    BY <1>0, <1>1, <1>20 DEF Answer, Quiet, At, Telling, Phases
  <2> QED  BY <1>5, <2>1
<1>21. CASE PersistReply(p)
  <2>1. SamePlaces /\ Others /\ Quiet(p) /\ handler[p].phase \in Stored
    BY <1>0, <1>2, <1>21 DEF PersistReply, Finish, Quiet, At, Telling, Stored
  <2> QED  BY <1>5, <2>1
<1>22. CASE Release(p)
  <2>1. /\ handler'[p].phase = "idle"
        /\ \A q \in Procs \ {p} : handler'[q] = Overdue(q)
    BY <1>22 DEF Release, Idle
  <2>2. \A q \in Procs : Same(q) \/ Quiet(q)
    BY <1>0, <1>22, <2>1, OverdueEffect DEF Release, Same, Quiet, At, Telling
  <2>3. SamePlaces /\ handler[p].phase \in Stored
    BY <1>22 DEF Release, At, Stored
  <2>4. \A m \in acked' : m \in acked \cup saved
    BY <1>0, <2>3
  <2> QED  BY <2>2, <2>3, <2>4, QuietKeepsTold
<1>23. CASE Fail(p) /\ (Throw(p) \/ Swallow(p) \/ Crash(p))
  <2>1. SamePlaces /\ Msg(p) \in failed'
    BY <1>0, <1>23 DEF Throw, Swallow, Crash, Fail, Finish
  <2>2. Others /\ handler'[p].phase \in {"idle", "release", "wake"}
    BY <1>0, <1>1, <1>2, <1>23 DEF Throw, Swallow, Crash, Fail, Finish, Phases, At
  <2>3. Quiet(p)
    BY <2>1, <2>2 DEF Quiet
  <2> QED  BY <1>5, <2>1, <2>2, <2>3
<1> QED
  BY <1>6, <1>7, <1>8, <1>9, <1>10, <1>11, <1>12, <1>13, <1>14, <1>15, <1>16, <1>17, <1>18, <1>19,
     <1>20, <1>21, <1>22, <1>23 DEF Step, Throw, Swallow, Crash

LEMMA WorldKeepsTold ==
    ASSUME HearInv, RowInv',
           \/ \E m \in Messages : Write(m) \/ Expire(m)
           \/ \E p \in Procs, m \in Messages, live \in BOOLEAN : Deliver(p, m, live)
           \/ SpeakOtherwise \/ LockExpires
           \/ UNCHANGED vars
    PROVE  HearInv'
<1>1. /\ handler \in [Procs -> Call]
      /\ cache \in [Messages -> {"none", "processing", "id"}]
  BY DEF HearInv, RowInv, TypeOK
<1>2. ASSUME NEW m \in Messages, Write(m) PROVE HearInv'
  BY <1>2, QuietKeepsTold DEF Write, Same
<1>3. ASSUME NEW m \in Messages, Expire(m) PROVE HearInv'
  <2>1. /\ UNCHANGED <<heard, saved, imported, failed, acked, handler>>
        /\ \A n \in Messages : cache'[n] = cache[n] \/ cache'[n] = "none"
    BY <1>1, <1>3 DEF Expire, Unchanged, causes
  <2> QED  BY <2>1, QuietKeepsTold DEF Same
<1>4. ASSUME NEW p \in Procs, NEW m \in Messages, NEW live \in BOOLEAN, Deliver(p, m, live)
      PROVE  HearInv'
  <2>1. /\ \A q \in Procs \ {p} : handler'[q] = handler[q]
        /\ handler'[p].phase = "lookup" /\ At(p, "idle")
        /\ UNCHANGED <<heard, saved, imported, failed, acked, cache>>
    BY <1>1, <1>4 DEF Deliver, Idle, causes
  <2>2. \A q \in Procs : Same(q) \/ Quiet(q)
    BY <2>1 DEF Same, Quiet, At, Telling
  <2> QED  BY <2>1, <2>2, QuietKeepsTold
<1>5. CASE LockExpires
  <2>1. \A q \in Procs : Same(q)
    BY <1>1, <1>5, OverdueEffect DEF LockExpires, Same
  <2>2. UNCHANGED <<heard, saved, imported, failed, acked, cache>>
    BY <1>5 DEF LockExpires
  <2> QED  BY <2>1, <2>2, QuietKeepsTold
<1>6. CASE SpeakOtherwise
  BY <1>6, QuietKeepsTold DEF SpeakOtherwise, Same
<1>7. CASE UNCHANGED vars
  BY <1>7, QuietKeepsTold DEF vars, causes, Same
<1> QED  BY <1>2, <1>3, <1>4, <1>5, <1>6, <1>7

LEMMA HearsHold == Spec => []HearInv
<1>1. HearInv /\ [Next]_vars => HearInv'
  <2> SUFFICES ASSUME HearInv, [Next]_vars PROVE HearInv'
    OBVIOUS
  <2>1. RowInv'
    BY StepKeepsRows, WorldKeepsRows DEF Next, HearInv
  <2> QED  BY <2>1, StepKeepsTold, WorldKeepsTold DEF Next
<1> QED  BY InitHears, <1>1, PTL DEF Spec

\* However many handlers a message has, and whatever expires or dies under them,
\* the flow engine hears it once, or the catch-up stored it or a handler failed on it.
THEOREM InboundHearsOnce == Spec => []FlowHearsOnce
<1>1. HearInv => FlowHearsOnce
  BY DEF HearInv, RowInv, TypeOK, ToldOnce, ClaimsAreServed, FlowHearsOnce, Busy, Telling
<1> QED  BY HearsHold, <1>1, PTL

----------------------------------------------------------------------------
(***************************************************************************)
(* Who is answered.  As long as the reply lock has not gone since a        *)
(* handler stored its message, the handler that is replying is the only    *)
(* one; and what has been answered is not after the last reply, or is in   *)
(* the reply whose row is being stored.                                    *)
(***************************************************************************)
Clean(m) == m \notin lapsed \cup failed

InTime(p) == handler[p].phase \in Replying /\ ~ handler[p].late

LockHeld ==
    /\ \A p \in Procs : InTime(p) => replyLock
    /\ \A p, q \in Procs : InTime(p) /\ InTime(q) => p = q
    /\ \A p \in Procs : handler[p].late => handler[p].phase \in Stored

InReply(m) == \E q \in Procs : InTime(q) /\ At(q, "persist") /\ m \in handler[q].batch

AnsweredAreOlder ==
    \A m \in Messages : answered[m] > 0 =>
        /\ m \in saved
        /\ Clean(m) => answered[m] = 1 /\ (m \in older \/ InReply(m))

\* What a handler that is in time is about to answer has not been answered.
FreshCall(p) ==
    /\ handler[p].phase \in Awaiting /\ Clean(Msg(p)) /\ answered[Msg(p)] > 0 => replyLock
    /\ handler[p].phase \in {"cut", "batch"} /\ Clean(Msg(p)) => answered[Msg(p)] = 0
    /\ At(p, "batch") => \A m \in saved \ handler[p].cut : Clean(m) => answered[m] = 0
    /\ At(p, "answer") => \A m \in handler[p].batch : Clean(m) => answered[m] = 0

Fresh == \A p \in Procs : ~ handler[p].late => FreshCall(p)

TwiceInv == RowInv /\ LockHeld /\ AnsweredAreOlder /\ Fresh

\* A handler whose reply the step does not move, and one that is not replying
\* after it, nor has answered anything that is not older by then.
SameReply(q) == /\ handler'[q].phase = handler[q].phase
                /\ handler'[q].msg = handler[q].msg
                /\ handler'[q].cut = handler[q].cut
                /\ handler'[q].batch = handler[q].batch
                /\ handler'[q].late = handler[q].late

Aside(q) == /\ handler'[q].late = FALSE \/ handler'[q].phase \in Stored
            /\ handler'[q].phase \in Replying =>
                 /\ handler'[q].phase = "release" /\ handler[q].phase \in Replying
                 /\ handler'[q].late = handler[q].late
            /\ handler'[q].phase \in Awaiting =>
                 /\ handler[q].phase \in Awaiting \/ Msg(q) \notin saved
                 /\ handler'[q].msg = handler[q].msg
                 /\ handler'[q].late = handler[q].late
            /\ At(q, "persist") => handler[q].batch \subseteq older' \cup failed'

\* Steps that answer nothing and take or lose no lock.
LEMMA AsideKeepsTwice ==
    ASSUME TwiceInv, RowInv',
           \A q \in Procs : SameReply(q) \/ Aside(q),
           answered' = answered, saved \subseteq saved', older \subseteq older',
           lapsed \subseteq lapsed', failed \subseteq failed', replyLock => replyLock'
    PROVE  TwiceInv'
<1>1. /\ answered \in [Messages -> Nat] /\ saved \subseteq Messages /\ saved' \subseteq Messages
      /\ \A q \in Procs : handler[q].batch \subseteq saved /\ handler'[q].batch \subseteq saved'
      /\ \A q \in Procs : handler[q].phase # "idle" => Msg(q) \in Messages
      /\ \A q \in Procs : handler[q].late \in BOOLEAN /\ handler'[q].late \in BOOLEAN
  BY DEF TwiceInv, RowInv, TypeOK, Call, At
<1>2. \A m : Clean(m)' => Clean(m)
  BY DEF Clean
<1>3. \A q \in Procs : InTime(q)' => InTime(q)
  BY DEF InTime, SameReply, Aside
<1>4. \A m \in Messages : Clean(m)' /\ InReply(m) => InReply(m)' \/ m \in older'
  BY DEF InReply, InTime, At, SameReply, Aside, Clean
<1>5. LockHeld'
  BY <1>3 DEF TwiceInv, LockHeld, SameReply, Aside
<1>6. AnsweredAreOlder'
  BY <1>2, <1>4 DEF TwiceInv, AnsweredAreOlder
<1>7. \A m \in Messages : m \notin saved => answered[m] = 0
  BY <1>1 DEF TwiceInv, AnsweredAreOlder
<1>8. ASSUME NEW q \in Procs, ~ handler'[q].late PROVE FreshCall(q)'
  <2>1. CASE SameReply(q)
    <3>1. FreshCall(q) /\ Msg(q)' = Msg(q)
      BY <1>8, <2>1 DEF TwiceInv, Fresh, SameReply, Msg
    <3> QED  BY <1>1, <1>2, <1>7, <2>1, <3>1 DEF FreshCall, SameReply, At
  <2>2. CASE Aside(q)
    <3>1. /\ handler'[q].phase \in Replying => handler'[q].phase = "release"
          /\ handler'[q].phase \in Awaiting =>
               /\ Msg(q)' = Msg(q) /\ ~ handler[q].late
               /\ handler[q].phase \in Awaiting \/ Msg(q) \notin saved
      BY <1>8, <2>2 DEF Aside, Msg
    <3>2. Msg(q) \in Messages /\ Msg(q) \notin saved => answered[Msg(q)] = 0
      BY <1>7
    <3>3. ~ handler[q].late => FreshCall(q)
      BY DEF TwiceInv, Fresh
    <3>4. handler'[q].phase \in Awaiting => Msg(q)' \in Messages
      BY DEF RowInv, TypeOK, At
    <3> QED  BY <1>2, <3>1, <3>2, <3>3, <3>4 DEF FreshCall, At
  <2> QED  BY <2>1, <2>2
<1> QED  BY <1>5, <1>6, <1>8 DEF TwiceInv, Fresh

\* The reply lock goes: whoever had stored its message is late, and what has
\* just been answered is answered late.
LEMMA ExpiryKeepsTwice ==
    ASSUME TwiceInv, RowInv',
           \A q \in Procs : handler'[q] = Overdue(q) \/ handler'[q] = Idle,
           \A q \in Procs : handler'[q] = Idle => ~ At(q, "persist"),
           answered' = answered, saved' = saved, older' = older, failed' = failed,
           lapsed' = lapsed \cup JustAnswered
    PROVE  TwiceInv'
<1>1. handler \in [Procs -> Call]
  BY DEF TwiceInv, RowInv, TypeOK
<1>2. \A q \in Procs : handler'[q].phase \in Stored <=> handler'[q].late
  <2> SUFFICES ASSUME NEW q \in Procs PROVE handler'[q].phase \in Stored <=> handler'[q].late
    OBVIOUS
  <2>1. CASE handler'[q] = Idle
    BY <2>1 DEF Idle, Stored
  <2>2. CASE handler'[q] = Overdue(q)
    <3>1. /\ Overdue(q).phase = handler[q].phase
          /\ Overdue(q).late = (handler[q].late \/ handler[q].phase \in Stored)
      BY <1>1, OverdueEffect DEF Stored
    <3>2. handler[q].late => handler[q].phase \in Stored
      BY DEF TwiceInv, LockHeld
    <3> QED  BY <2>2, <3>1, <3>2
  <2> QED  BY <2>1, <2>2
<1>3. LockHeld'
  BY <1>2 DEF LockHeld, InTime, Stored
<1>4. Fresh'
  BY <1>2 DEF Fresh, FreshCall, Stored, At
<1>5. \A m : InReply(m) => ~ Clean(m)'
  BY DEF InReply, JustAnswered, Clean
<1>6. AnsweredAreOlder'
  BY <1>5 DEF TwiceInv, AnsweredAreOlder, Clean
<1> QED  BY <1>3, <1>4, <1>6 DEF TwiceInv

LEMMA InitTwice == Init => TwiceInv
<1> SUFFICES ASSUME Init PROVE TwiceInv
  OBVIOUS
<1>1. /\ \A p \in Procs : handler[p] = Idle
      /\ \A m \in Messages : answered[m] = 0
  BY DEF Init
<1>2. LockHeld
  BY <1>1 DEF LockHeld, InTime, Idle
<1>3. Fresh
  BY <1>1 DEF Fresh, FreshCall, At, Idle
<1>4. AnsweredAreOlder
  BY <1>1 DEF AnsweredAreOlder
<1> QED  BY <1>2, <1>3, <1>4, InitRows DEF TwiceInv

LEMMA StepKeepsTwice ==
    ASSUME TwiceInv, RowInv', NEW p \in Procs, Step(p)
    PROVE  TwiceInv'
<1> DEFINE Others == \A q \in Procs \ {p} : handler'[q] = handler[q]
           Grow == /\ answered' = answered /\ saved \subseteq saved' /\ older \subseteq older'
                   /\ lapsed \subseteq lapsed' /\ failed \subseteq failed'
                   /\ (replyLock => replyLock')
<1>0. /\ handler \in [Procs -> Call] /\ RowInv
      /\ saved \subseteq Messages /\ answered \in [Messages -> Nat]
      /\ older \subseteq written /\ saved \subseteq written
      /\ ~ At(p, "idle") /\ Msg(p) \in Messages
      /\ handler[p].phase \in Stored \cup {"remember"} => Msg(p) \in saved
      /\ handler[p].batch \subseteq saved
      /\ handler[p].late \in BOOLEAN
      /\ handler[p].late => handler[p].phase \in Stored
  <2>1. ~ At(p, "idle")
    BY DEF Step, LookUp, Poll, FindRow, RememberRow, Claim, Save, CacheId, PushReply, WakeFlow,
           ChooseReply, LockInline, LockReply, ReadLastReply, Collect, Answer, PersistReply,
           Release, Throw, Swallow, Crash, Fail, At
  <2> QED  BY <2>1 DEF TwiceInv, RowInv, TypeOK, OneHandlerStores, LockHeld, Call
<1>1. \A ph \in Phases : Goto(p, ph) => /\ Others /\ handler'[p].phase = ph
                                        /\ handler'[p].msg = handler[p].msg
                                        /\ handler'[p].cut = handler[p].cut
                                        /\ handler'[p].batch = handler[p].batch
                                        /\ handler'[p].late = handler[p].late
  BY <1>0, GotoEffect DEF At, Msg
<1>2. handler' = [handler EXCEPT ![p] = Idle] =>
          Others /\ handler'[p].phase = "idle" /\ handler'[p].late = FALSE
  BY <1>0, IdleEffect DEF Idle
<1>3. ASSUME Others PROVE \A q \in Procs \ {p} : SameReply(q)
  <2> TAKE q \in Procs \ {p}
  <2> QED  BY <1>3 DEF SameReply
<1>4. ASSUME Grow, Others, Aside(p) PROVE TwiceInv'
  <2>1. \A q \in Procs : SameReply(q) \/ Aside(q)
    BY <1>3, <1>4
  <2> QED  BY <1>4, <2>1, AsideKeepsTwice
<1>5. CASE LookUp(p) \/ Poll(p) \/ FindRow(p) \/ RememberRow(p) \/ Claim(p)
  <2>1. Grow /\ Others /\ handler'[p].phase \notin Stored /\ ~ handler'[p].late /\ ~ At(p, "persist")
    BY <1>0, <1>1, <1>2, <1>5 DEF LookUp, Poll, FindRow, RememberRow, Claim, Finish, Unchanged,
       causes, Phases, At, Stored
  <2>2. Aside(p)
    BY <1>0, <2>1 DEF Aside, Stored
  <2> QED  BY <1>4, <2>1, <2>2
<1>6. CASE Save(p)
  <2>1. /\ Grow /\ Others /\ At(p, "save") /\ ~ handler[p].late
        /\ handler'[p].msg = handler[p].msg /\ handler'[p].late = handler[p].late
        /\ \/ handler'[p].phase = "remember"
           \/ handler'[p].phase = "cacheId" /\ Msg(p) \notin saved
    BY <1>0, <1>1, <1>6 DEF Save, Phases, At, Stored
  <2>2. Aside(p)
    BY <1>0, <2>1 DEF Aside, At
  <2> QED  BY <1>4, <2>1, <2>2
<1>7. CASE CacheId(p) \/ PushReply(p) \/ WakeFlow(p) \/ ChooseReply(p) \/ LockInline(p)
           \/ (LockReply(p) /\ replyLock)
  <2>1. /\ Grow /\ Others /\ handler[p].phase \in Awaiting
        /\ \/ handler'[p].phase = "idle" /\ ~ handler'[p].late
           \/ /\ handler'[p].phase \in Awaiting
              /\ handler'[p].msg = handler[p].msg /\ handler'[p].late = handler[p].late
    BY <1>0, <1>1, <1>2, <1>7 DEF CacheId, PushReply, WakeFlow, ChooseReply, LockInline, LockReply,
       TurnAway, Finish, Unchanged, causes, Phases, At
  <2>2. Aside(p)
    BY <1>0, <2>1 DEF Aside, At, Stored
  <2> QED  BY <1>4, <2>1, <2>2
<1>8. CASE LockReply(p) /\ ~ replyLock
  <2>1. /\ Others /\ handler[p].phase = "reserve" /\ handler'[p].phase = "cut"
        /\ Msg(p)' = Msg(p) /\ handler'[p].late = handler[p].late /\ replyLock'
        /\ UNCHANGED <<answered, saved, older, lapsed, failed>>
    BY <1>1, <1>8 DEF LockReply, Phases, At, Msg
  <2>2. \A q \in Procs : ~ InTime(q)
    BY <1>8 DEF TwiceInv, LockHeld
  <2>3. \A q \in Procs : InTime(q)' => q = p
    BY <2>1, <2>2 DEF InTime
  <2>4. LockHeld'
    BY <2>1, <2>3 DEF TwiceInv, LockHeld, Stored
  <2>5. AnsweredAreOlder'
    BY <2>1, <2>2 DEF TwiceInv, AnsweredAreOlder, InReply, Clean
  <2>6. ~ handler[p].late /\ Clean(Msg(p)) => answered[Msg(p)] = 0
    BY <1>0, <1>8, <2>1 DEF TwiceInv, Fresh, FreshCall
  <2>7. FreshCall(p)' \/ handler'[p].late
    BY <2>1, <2>6 DEF FreshCall, At, Clean
  <2>8. \A q \in Procs \ {p} : ~ handler'[q].late => FreshCall(q)'
    BY <2>1 DEF TwiceInv, Fresh, FreshCall, At, Msg, Clean
  <2> QED  BY <2>4, <2>5, <2>7, <2>8 DEF TwiceInv, Fresh
<1>9. CASE ReadLastReply(p)
  <2>1. older \in SUBSET Messages
    BY <1>0 DEF RowInv, TypeOK
  <2>2. /\ Others /\ handler[p].phase = "cut" /\ handler'[p].phase = "batch"
        /\ Msg(p)' = Msg(p) /\ handler'[p].cut = older /\ handler'[p].late = handler[p].late
        /\ UNCHANGED <<answered, saved, older, lapsed, failed, replyLock>>
    BY <1>0, <1>9, <2>1, CutEffect DEF ReadLastReply, Unchanged, causes, At
  <2>3. \A q \in Procs : InTime(q)' = InTime(q)
    BY <2>2 DEF InTime
  <2>4. LockHeld'
    BY <2>2, <2>3 DEF TwiceInv, LockHeld, Stored
  <2>5. \A m : InReply(m)' = InReply(m)
    BY <2>2 DEF InReply, InTime, At
  <2>6. AnsweredAreOlder'
    BY <2>2, <2>5 DEF TwiceInv, AnsweredAreOlder, Clean
  <2>7. ASSUME ~ handler[p].late PROVE FreshCall(p)'
    <3>1. InTime(p) /\ FreshCall(p)
      BY <2>2, <2>7 DEF InTime, TwiceInv, Fresh
    <3>2. \A m \in Messages : ~ InReply(m)
      BY <2>2, <3>1 DEF InReply, At, TwiceInv, LockHeld
    <3>3. \A m \in saved \ older : Clean(m) => answered[m] = 0
      BY <1>0, <3>2 DEF TwiceInv, AnsweredAreOlder
    <3> QED  BY <2>2, <3>1, <3>3 DEF FreshCall, At, Clean
  <2>8. \A q \in Procs \ {p} : ~ handler'[q].late => FreshCall(q)'
    BY <2>2 DEF TwiceInv, Fresh, FreshCall, At, Msg, Clean
  <2> QED  BY <2>2, <2>4, <2>6, <2>7, <2>8 DEF TwiceInv, Fresh
<1>10. CASE Collect(p)
  <2>1. PICK b \in SUBSET saved :
            /\ handler' = [handler EXCEPT ![p].phase = "answer", ![p].batch = b]
            /\ b = {Msg(p)} \/ b \subseteq saved \ handler[p].cut
    <3>1. Msg(p) \in saved
      BY <1>0, <1>10 DEF Collect, At, Stored
    <3> QED  BY <1>0, <1>10, <3>1, CollectEffect
  <2>2. /\ Others /\ handler[p].phase = "batch" /\ handler'[p].phase = "answer"
        /\ handler'[p].batch = b /\ handler'[p].late = handler[p].late
        /\ UNCHANGED <<answered, saved, older, lapsed, failed, replyLock>>
    <3>1. b \in SUBSET Messages
      BY <1>0
    <3> QED  BY <1>0, <1>10, <2>1, <3>1, BatchEffect DEF Collect, At
  <2>3. \A q \in Procs : InTime(q)' = InTime(q)
    BY <2>2 DEF InTime
  <2>4. LockHeld'
    BY <2>2, <2>3 DEF TwiceInv, LockHeld, Stored
  <2>5. \A m : InReply(m)' = InReply(m)
    BY <2>2 DEF InReply, InTime, At
  <2>6. AnsweredAreOlder'
    BY <2>2, <2>5 DEF TwiceInv, AnsweredAreOlder, Clean
  <2>7. ~ handler[p].late => FreshCall(p)'
    BY <2>1, <2>2 DEF TwiceInv, Fresh, FreshCall, At, Clean
  <2>8. \A q \in Procs \ {p} : ~ handler'[q].late => FreshCall(q)'
    BY <2>2 DEF TwiceInv, Fresh, FreshCall, At, Msg, Clean
  <2> QED  BY <2>2, <2>4, <2>6, <2>7, <2>8 DEF TwiceInv, Fresh
<1>11. CASE Answer(p)
  <2>1. /\ Others /\ handler[p].phase = "answer" /\ handler'[p].phase = "persist"
        /\ handler'[p].batch = handler[p].batch /\ handler'[p].late = handler[p].late
        /\ UNCHANGED <<saved, older, failed, replyLock>>
        /\ \A m \in Messages : answered'[m] = IF m \in handler[p].batch THEN answered[m] + 1 ELSE answered[m]
        /\ lapsed' = IF handler[p].late THEN lapsed \cup handler[p].batch ELSE lapsed
    BY <1>0, <1>1, <1>11 DEF Answer, Phases, At
  <2>2. \A q \in Procs : InTime(q)' = InTime(q)
    BY <2>1 DEF InTime
  <2>3. LockHeld'
    BY <2>1, <2>2 DEF TwiceInv, LockHeld, Stored
  <2>4. \A m : Clean(m)' => Clean(m) /\ (handler[p].late => m \notin handler[p].batch)
    BY <2>1 DEF Clean
  <2>5. \A m \in Messages : InReply(m) => InReply(m)'
    BY <2>1, <2>2 DEF InReply, At
  <2>6. ~ handler[p].late => \A m \in handler[p].batch : InReply(m)' /\ (Clean(m) => answered[m] = 0)
    BY <1>0, <2>1 DEF InReply, InTime, At, TwiceInv, Fresh, FreshCall
  <2>7. AnsweredAreOlder'
    <3> SUFFICES ASSUME NEW m \in Messages, answered'[m] > 0
                 PROVE  /\ m \in saved'
                        /\ Clean(m)' => answered'[m] = 1 /\ (m \in older' \/ InReply(m)')
      BY DEF AnsweredAreOlder
    <3>1. CASE m \in handler[p].batch
      BY <1>0, <2>1, <2>4, <2>6, <3>1
    <3>2. CASE m \notin handler[p].batch
      BY <2>1, <2>4, <2>5, <3>2 DEF TwiceInv, AnsweredAreOlder
    <3> QED  BY <3>1, <3>2
  <2>8. ASSUME NEW q \in Procs \ {p}, ~ handler'[q].late PROVE FreshCall(q)'
    <3>1. /\ handler'[q] = handler[q] /\ FreshCall(q) /\ Msg(q)' = Msg(q)
          /\ handler[q].batch \subseteq saved
          /\ handler[q].phase # "idle" => Msg(q) \in Messages
      BY <2>1, <2>8 DEF TwiceInv, Fresh, Msg, RowInv, TypeOK, At
    <3>2. CASE handler[p].late
      <4>1. \A m \in Messages : Clean(m)' => Clean(m) /\ answered'[m] = answered[m]
        BY <2>1, <2>4, <3>2
      <4> QED  BY <1>0, <2>1, <3>1, <4>1 DEF FreshCall, At
    <3>3. CASE ~ handler[p].late
      <4>1. InTime(p) /\ ~ InTime(q) /\ replyLock
        BY <2>1, <2>8, <3>3 DEF InTime, TwiceInv, LockHeld
      <4> QED  BY <2>1, <2>8, <3>1, <4>1 DEF FreshCall, InTime, At
    <3> QED  BY <3>2, <3>3
  <2>9. FreshCall(p)'
    BY <2>1 DEF FreshCall, At
  <2> QED  BY <2>3, <2>7, <2>8, <2>9 DEF TwiceInv, Fresh
<1>12. CASE PersistReply(p)
  <2>1. Grow /\ Others /\ handler'[p].phase = "idle" /\ ~ handler'[p].late
        /\ handler[p].batch \subseteq older'
    BY <1>0, <1>2, <1>12 DEF PersistReply, Finish
  <2>2. Aside(p)
    BY <2>1 DEF Aside
  <2> QED  BY <1>4, <2>1, <2>2
<1>13. CASE Release(p)
  <2>1. /\ \A q \in Procs : handler'[q] = IF q = p THEN Idle ELSE Overdue(q)
        /\ lapsed' = lapsed \cup JustAnswered
        /\ UNCHANGED <<answered, saved, older, failed>>
    BY <1>13 DEF Release
  <2>2. \A q \in Procs : handler'[q] = Idle => ~ At(q, "persist")
    BY <1>0, <1>13, <2>1, OverdueEffect DEF Release, At, Idle
  <2> QED  BY <2>1, <2>2, ExpiryKeepsTwice
<1>14. CASE Fail(p) /\ (Throw(p) \/ Swallow(p) \/ Crash(p))
  <2>1. /\ Grow /\ (handler[p].phase \in Replying => saved \subseteq failed')
    BY <1>14 DEF Throw, Swallow, Crash, Fail
  <2>2. /\ Others
        /\ \/ handler'[p].phase = "idle" /\ ~ handler'[p].late
           \/ handler'[p].phase = "release" /\ handler[p].phase \in Replying /\ handler'[p].late = handler[p].late
           \/ /\ handler'[p].phase = "wake" /\ handler[p].phase = "push"
              /\ handler'[p].msg = handler[p].msg /\ handler'[p].late = handler[p].late
    BY <1>0, <1>1, <1>2, <1>14 DEF Throw, Swallow, Crash, Fail, Finish, Phases, At
  <2>3. Aside(p)
    BY <1>0, <2>1, <2>2 DEF Aside, At, Stored
  <2> QED  BY <1>4, <2>1, <2>2, <2>3
<1> QED
  BY <1>5, <1>6, <1>7, <1>8, <1>9, <1>10, <1>11, <1>12, <1>13, <1>14
     DEF Step, Throw, Swallow, Crash

LEMMA WorldKeepsTwice ==
    ASSUME TwiceInv, RowInv',
           \/ \E m \in Messages : Write(m) \/ Expire(m)
           \/ \E p \in Procs, m \in Messages, live \in BOOLEAN : Deliver(p, m, live)
           \/ SpeakOtherwise \/ LockExpires
           \/ UNCHANGED vars
    PROVE  TwiceInv'
<1>1. handler \in [Procs -> Call]
  BY DEF TwiceInv, RowInv, TypeOK
<1>2. ASSUME NEW m \in Messages, Write(m) PROVE TwiceInv'
  BY <1>2, AsideKeepsTwice DEF Write, SameReply
<1>3. ASSUME NEW m \in Messages, Expire(m) PROVE TwiceInv'
  BY <1>3, AsideKeepsTwice DEF Expire, Unchanged, causes, SameReply
<1>4. ASSUME NEW p \in Procs, NEW m \in Messages, NEW live \in BOOLEAN, Deliver(p, m, live)
      PROVE  TwiceInv'
  <2>1. /\ \A q \in Procs \ {p} : handler'[q] = handler[q]
        /\ handler'[p].phase = "lookup" /\ handler'[p].late = FALSE /\ At(p, "idle")
        /\ UNCHANGED <<answered, saved, older, lapsed, failed, replyLock>>
    BY <1>1, <1>4 DEF Deliver, Idle, causes
  <2>2. \A q \in Procs : SameReply(q) \/ Aside(q)
    BY <2>1 DEF SameReply, Aside, At
  <2> QED  BY <2>1, <2>2, AsideKeepsTwice
<1>5. CASE LockExpires
  <2>1. CASE UNCHANGED <<replyLock, handler, lapsed>>
    BY <1>5, <2>1, AsideKeepsTwice DEF LockExpires, SameReply
  <2>2. CASE handler' = [p \in Procs |-> Overdue(p)] /\ lapsed' = lapsed \cup JustAnswered
    <3>1. \A q \in Procs : handler'[q] = Idle => ~ At(q, "persist")
      BY <1>1, <2>2, OverdueEffect DEF At, Idle
    <3> QED  BY <1>5, <2>2, <3>1, ExpiryKeepsTwice DEF LockExpires
  <2> QED  BY <1>5, <2>1, <2>2 DEF LockExpires
<1>6. CASE SpeakOtherwise
  <2>1. older \subseteq older'
    BY <1>6 DEF SpeakOtherwise, TwiceInv, RowInv, TypeOK
  <2> QED  BY <1>6, <2>1, AsideKeepsTwice DEF SpeakOtherwise, SameReply
<1>7. CASE UNCHANGED vars
  BY <1>7, AsideKeepsTwice DEF vars, causes, SameReply
<1> QED  BY <1>2, <1>3, <1>4, <1>5, <1>6, <1>7

LEMMA TwiceHolds == Spec => []TwiceInv
<1>1. TwiceInv /\ [Next]_vars => TwiceInv'
  <2> SUFFICES ASSUME TwiceInv, [Next]_vars PROVE TwiceInv'
    OBVIOUS
  <2>1. RowInv'
    BY StepKeepsRows, WorldKeepsRows DEF Next, TwiceInv
  <2> QED  BY <2>1, StepKeepsTwice, WorldKeepsTwice DEF Next
<1> QED  BY InitTwice, <1>1, PTL DEF Spec

\* However many handlers collect and answer at the same time, nothing is answered
\* twice unless the reply lock went under a handler, or one failed.
THEOREM InboundAnsweredTwice == Spec => []AnsweredTwiceByExpiry
<1>1. TwiceInv => AnsweredTwiceByExpiry
  BY DEF TwiceInv, RowInv, TypeOK, AnsweredAreOlder, Clean, AnsweredTwiceByExpiry
<1> QED  BY TwiceHolds, <1>1, PTL

----------------------------------------------------------------------------
(***************************************************************************)
(* Who waits for a reply.  A stored message without a reply, and without a *)
(* cause to stay so, is after the last reply and in every batch, and a     *)
(* handler is on its way that will collect it.                             *)
(***************************************************************************)
Owed(m) == m \in saved /\ answered[m] = 0 /\ m \notin excused \cup failed

Serving(p, m) == \/ handler[p].phase \in Awaiting /\ Msg(p) = m
                 \/ handler[p].phase \in {"cut", "batch", "answer"}

OwedAreServed ==
    /\ older \subseteq saved \cup excused
    /\ \A m \in Messages : answered[m] > 0 => m \in saved
    /\ \A m \in Messages : Owed(m) =>
        /\ m \notin older
        /\ \A q \in Procs : At(q, "answer") => m \in handler[q].batch
        /\ \A q \in Procs : ~ At(q, "persist")
        /\ \E p \in Procs : Serving(p, m)

OwedInv == RowInv /\ OwedAreServed

\* A handler that collects and answers nothing in the step, and leaves its
\* message to one that serves it.
Passes(q) == /\ At(q, "persist")' => At(q, "persist")
             /\ At(q, "answer")' => At(q, "answer") /\ handler'[q].batch = handler[q].batch
             /\ \A m \in Messages : Owed(m) /\ Serving(q, m) =>
                   ~ Owed(m)' \/ \E r \in Procs : Serving(r, m)'

\* Steps that store, collect and answer nothing.
LEMMA PassingKeepsOwed ==
    ASSUME OwedInv, RowInv', \A q \in Procs : Passes(q),
           saved' = saved, answered' = answered, older' \subseteq older \cup excused',
           excused \subseteq excused', failed \subseteq failed'
    PROVE  OwedInv'
<1>1. \A m \in Messages : Owed(m)' => Owed(m)
  BY DEF Owed
<1>2. older' \subseteq saved' \cup excused'
  BY DEF OwedInv, OwedAreServed
<1>3. ASSUME NEW m \in Messages, Owed(m)'
      PROVE  /\ m \notin older'
             /\ \A q \in Procs : At(q, "answer")' => m \in handler'[q].batch
             /\ \A q \in Procs : ~ At(q, "persist")'
             /\ \E p \in Procs : Serving(p, m)'
  <2>1. /\ Owed(m) /\ m \notin older /\ m \notin excused'
        /\ \A q \in Procs : At(q, "answer") => m \in handler[q].batch
        /\ \A q \in Procs : ~ At(q, "persist")
    BY <1>1, <1>3 DEF OwedInv, OwedAreServed, Owed
  <2>2. PICK p \in Procs : Serving(p, m)
    BY <2>1 DEF OwedInv, OwedAreServed
  <2> QED  BY <1>3, <2>1, <2>2 DEF Passes
<1> QED  BY <1>2, <1>3 DEF OwedInv, OwedAreServed

LEMMA StepKeepsOwed ==
    ASSUME OwedInv, RowInv', NEW p \in Procs, Step(p)
    PROVE  OwedInv'
<1> DEFINE Others == \A q \in Procs \ {p} : handler'[q] = handler[q]
           Grow == /\ UNCHANGED <<answered, saved, older>>
                   /\ excused \subseteq excused' /\ failed \subseteq failed'
<1>0. /\ handler \in [Procs -> Call] /\ RowInv
      /\ saved \subseteq Messages /\ answered \in [Messages -> Nat]
      /\ ~ At(p, "idle") /\ Msg(p) \in Messages
      /\ handler[p].phase \in Stored \cup {"remember"} => Msg(p) \in saved
  <2>1. ~ At(p, "idle")
    BY DEF Step, LookUp, Poll, FindRow, RememberRow, Claim, Save, CacheId, PushReply, WakeFlow,
           ChooseReply, LockInline, LockReply, ReadLastReply, Collect, Answer, PersistReply,
           Release, Throw, Swallow, Crash, Fail, At
  <2> QED  BY <2>1 DEF OwedInv, RowInv, TypeOK, OneHandlerStores
<1>1. \A ph \in Phases : Goto(p, ph) => /\ Others /\ handler'[p].phase = ph
                                        /\ handler'[p].msg = handler[p].msg
                                        /\ handler'[p].batch = handler[p].batch
  BY <1>0, GotoEffect DEF At, Msg
<1>2. handler' = [handler EXCEPT ![p] = Idle] => Others /\ handler'[p].phase = "idle"
  BY <1>0, IdleEffect DEF Idle
<1>3. ASSUME Others PROVE \A q \in Procs \ {p} : Passes(q)
  <2> TAKE q \in Procs \ {p}
  <2> QED  BY <1>3 DEF Passes, Serving, At, Msg
<1>4. ASSUME Grow, Others, Passes(p) PROVE OwedInv'
  <2>1. \A q \in Procs : Passes(q)
    BY <1>3, <1>4
  <2> QED  BY <1>4, <2>1, PassingKeepsOwed
<1>5. CASE LookUp(p) \/ Poll(p) \/ FindRow(p) \/ RememberRow(p) \/ Claim(p)
  <2>1. Grow /\ Others /\ handler[p].phase \notin Stored /\ handler'[p].phase \notin Stored
    BY <1>0, <1>1, <1>2, <1>5 DEF LookUp, Poll, FindRow, RememberRow, Claim, Finish, Unchanged,
       causes, Phases, At, Stored
  <2>2. Passes(p)
    BY <2>1 DEF Passes, Serving, At, Stored
  <2> QED  BY <1>4, <2>1, <2>2
<1>6. CASE Save(p) /\ Msg(p) \in saved
  <2>1. Grow /\ Others /\ At(p, "save") /\ handler'[p].phase = "remember"
    BY <1>0, <1>1, <1>6 DEF Save, Phases, At
  <2>2. Passes(p)
    BY <2>1 DEF Passes, Serving, At
  <2> QED  BY <1>4, <2>1, <2>2
<1>7. CASE Save(p) /\ Msg(p) \notin saved
  <2>1. /\ Others /\ At(p, "save") /\ handler'[p].phase = "cacheId" /\ Msg(p)' = Msg(p)
        /\ saved' = saved \cup {Msg(p)}
        /\ excused' = IF \E q \in Procs : At(q, "answer") \/ At(q, "persist")
                      THEN excused \cup {Msg(p)} ELSE excused
        /\ UNCHANGED <<answered, older, failed>>
    BY <1>1, <1>7 DEF Save, Phases, At, Msg
  <2>2. ASSUME NEW m \in Messages, Owed(m)'
        PROVE  /\ m \notin older'
               /\ \A q \in Procs : At(q, "answer")' => m \in handler'[q].batch
               /\ \A q \in Procs : ~ At(q, "persist")'
               /\ \E q \in Procs : Serving(q, m)'
    <3>1. CASE m = Msg(p)
      BY <1>7, <2>1, <2>2, <3>1 DEF OwedInv, OwedAreServed, Owed, Serving, At, Msg
    <3>2. CASE m # Msg(p)
      <4>1. Owed(m)
        BY <2>1, <2>2, <3>2 DEF Owed
      <4>2. PICK q \in Procs : Serving(q, m)
        BY <4>1 DEF OwedInv, OwedAreServed
      <4>3. Serving(q, m)'
        BY <2>1, <4>2, <3>2 DEF Serving, At, Msg
      <4> QED  BY <2>1, <4>1, <4>3 DEF OwedInv, OwedAreServed, At
    <3> QED  BY <3>1, <3>2
  <2>3. /\ older' \subseteq saved' \cup excused'
        /\ \A m \in Messages : answered'[m] > 0 => m \in saved'
    BY <2>1 DEF OwedInv, OwedAreServed
  <2> QED  BY <2>2, <2>3 DEF OwedInv, OwedAreServed
<1>8. CASE CacheId(p) \/ PushReply(p) \/ WakeFlow(p) \/ ChooseReply(p)
  <2>1. /\ Grow /\ Others /\ handler[p].phase \in Awaiting
        /\ \/ handler'[p].phase = "idle" /\ Msg(p) \in excused'
           \/ handler'[p].phase \in Awaiting /\ handler'[p].msg = handler[p].msg
    BY <1>0, <1>1, <1>2, <1>8 DEF CacheId, PushReply, WakeFlow, ChooseReply, Finish, Unchanged,
       causes, Phases, At
  <2>2. Passes(p)
    BY <2>1 DEF Passes, Serving, At, Msg, Owed
  <2> QED  BY <1>4, <2>1, <2>2
<1>9. CASE LockInline(p) \/ LockReply(p)
  <2>1. /\ Grow /\ Others /\ handler[p].phase \in Awaiting
        /\ \/ /\ handler'[p].phase = "idle"
              /\ Msg(p) \in excused' \/ \E q \in Procs : At(q, "cut") \/ At(q, "batch")
           \/ handler'[p].phase = "reserve" /\ handler'[p].msg = handler[p].msg
           \/ handler'[p].phase = "cut"
    BY <1>0, <1>1, <1>2, <1>9 DEF LockInline, LockReply, TurnAway, Finish, Phases, At
  <2>2. \A q \in Procs : At(q, "cut") \/ At(q, "batch") => \A m : Serving(q, m)'
    BY <2>1 DEF Serving, At
  <2>3. Passes(p)
    BY <2>1, <2>2 DEF Passes, Serving, At, Msg, Owed
  <2> QED  BY <1>4, <2>1, <2>3
<1>10. CASE ReadLastReply(p)
  <2>1. older \in SUBSET Messages
    BY <1>0 DEF RowInv, TypeOK
  <2>2. Others /\ handler[p].phase = "cut" /\ handler'[p].phase = "batch"
    BY <1>0, <1>10, <2>1, CutEffect DEF ReadLastReply, At
  <2>3. Passes(p)
    BY <2>2 DEF Passes, Serving, At
  <2>4. Grow
    BY <1>10 DEF ReadLastReply, Unchanged, causes
  <2> QED  BY <1>4, <2>2, <2>3, <2>4
<1>11. CASE Collect(p)
  <2>1. PICK b \in SUBSET saved :
            /\ handler' = [handler EXCEPT ![p].phase = "answer", ![p].batch = b]
            /\ (saved \ handler[p].cut) \ b \subseteq excused' /\ excused \subseteq excused'
    <3>1. Msg(p) \in saved
      BY <1>0, <1>11 DEF Collect, At, Stored
    <3> QED  BY <1>0, <1>11, <3>1, CollectEffect
  <2>2. /\ Others /\ handler[p].phase = "batch" /\ handler'[p].phase = "answer"
        /\ handler'[p].batch = b
    <3>1. b \in SUBSET Messages
      BY <1>0
    <3> QED  BY <1>0, <1>11, <2>1, <3>1, BatchEffect DEF Collect, At
  <2>3. UNCHANGED <<answered, saved, older, failed>>
    BY <1>11 DEF Collect
  <2>4. ASSUME NEW m \in Messages, Owed(m)'
        PROVE  /\ m \notin older'
               /\ \A q \in Procs : At(q, "answer")' => m \in handler'[q].batch
               /\ \A q \in Procs : ~ At(q, "persist")'
               /\ \E q \in Procs : Serving(q, m)'
    <3>1. Owed(m) /\ m \in saved /\ m \notin excused'
      BY <2>1, <2>3, <2>4 DEF Owed
    <3>2. /\ m \notin older
          /\ \A q \in Procs : At(q, "answer") => m \in handler[q].batch
          /\ \A q \in Procs : ~ At(q, "persist")
      BY <3>1 DEF OwedInv, OwedAreServed
    <3>3. m \in b
      BY <1>0, <2>1, <3>1, <3>2 DEF RowInv, TypeOK
    <3>4. Serving(p, m)'
      BY <2>2 DEF Serving
    <3> QED  BY <2>2, <2>3, <3>2, <3>3, <3>4 DEF At
  <2> QED  BY <2>1, <2>3, <2>4 DEF OwedInv, OwedAreServed
<1>12. CASE Answer(p)
  <2>1. /\ At(p, "answer") /\ UNCHANGED <<saved, older, excused, failed>>
        /\ \A m \in Messages : answered'[m] = IF m \in handler[p].batch THEN answered[m] + 1 ELSE answered[m]
    BY <1>12 DEF Answer
  <2>2. \A m \in Messages : ~ Owed(m)'
    BY <1>0, <2>1 DEF OwedInv, OwedAreServed, Owed
  <2>3. \A m \in Messages : answered'[m] > 0 => m \in saved
    <3>1. handler[p].batch \subseteq saved
      BY <1>0 DEF RowInv, TypeOK
    <3> QED  BY <1>0, <2>1, <3>1 DEF OwedInv, OwedAreServed
  <2> QED  BY <2>1, <2>2, <2>3 DEF OwedInv, OwedAreServed
<1>13. CASE PersistReply(p)
  <2>1. /\ At(p, "persist") /\ UNCHANGED <<saved, answered, failed>>
        /\ older' = written /\ excused' = excused \cup (written \ saved)
    BY <1>13 DEF PersistReply
  <2>2. \A m \in Messages : ~ Owed(m)'
    BY <2>1 DEF OwedInv, OwedAreServed, Owed
  <2> QED  BY <2>1, <2>2 DEF OwedInv, OwedAreServed
<1>14. CASE Release(p)
  <2>1. /\ \A q \in Procs : handler'[q] = IF q = p THEN Idle ELSE Overdue(q)
        /\ At(p, "release") /\ Grow
    BY <1>14 DEF Release
  <2>2. Passes(p)
    BY <2>1 DEF Passes, Serving, At, Idle
  <2>3. ASSUME NEW q \in Procs \ {p} PROVE Passes(q)
    <3>1. /\ handler'[q].phase = handler[q].phase /\ handler'[q].msg = handler[q].msg
          /\ handler'[q].batch = handler[q].batch
      BY <1>0, <2>1, OverdueEffect
    <3> QED  BY <3>1 DEF Passes, Serving, At, Msg
  <2> QED  BY <2>1, <2>2, <2>3, PassingKeepsOwed
<1>15. CASE Fail(p) /\ (Throw(p) \/ Swallow(p) \/ Crash(p))
  <2>1. /\ Grow /\ Msg(p) \in failed' /\ (handler[p].phase \in Replying => saved \subseteq failed')
    BY <1>15 DEF Throw, Swallow, Crash, Fail
  <2>2. /\ Others /\ handler'[p].phase \in {"idle", "release", "wake"}
    BY <1>0, <1>1, <1>2, <1>15 DEF Throw, Swallow, Crash, Fail, Finish, Phases, At
  <2>3. Passes(p)
    BY <2>1, <2>2 DEF Passes, Serving, At, Owed
  <2> QED  BY <1>4, <2>1, <2>2, <2>3
<1> QED
  BY <1>5, <1>6, <1>7, <1>8, <1>9, <1>10, <1>11, <1>12, <1>13, <1>14, <1>15
     DEF Step, Throw, Swallow, Crash

LEMMA WorldKeepsOwed ==
    ASSUME OwedInv, RowInv',
           \/ \E m \in Messages : Write(m) \/ Expire(m)
           \/ \E p \in Procs, m \in Messages, live \in BOOLEAN : Deliver(p, m, live)
           \/ SpeakOtherwise \/ LockExpires
           \/ UNCHANGED vars
    PROVE  OwedInv'
<1>1. handler \in [Procs -> Call]
  BY DEF OwedInv, RowInv, TypeOK
<1>2. ASSUME \A q \in Procs : /\ handler'[q].phase = handler[q].phase
                              /\ handler'[q].msg = handler[q].msg
                              /\ handler'[q].batch = handler[q].batch
      PROVE  \A q \in Procs : Passes(q)
  BY <1>2 DEF Passes, Serving, At, Msg
<1>3. ASSUME NEW m \in Messages, Write(m) PROVE OwedInv'
  <2>1. /\ UNCHANGED <<handler, saved, answered, failed>>
        /\ excused \subseteq excused' /\ older' \subseteq older \cup excused'
    BY <1>3 DEF Write
  <2> QED  BY <1>2, <2>1, PassingKeepsOwed
<1>4. ASSUME NEW m \in Messages, Expire(m) PROVE OwedInv'
  BY <1>2, <1>4, PassingKeepsOwed DEF Expire, Unchanged, causes
<1>5. ASSUME NEW p \in Procs, NEW m \in Messages, NEW live \in BOOLEAN, Deliver(p, m, live)
      PROVE  OwedInv'
  <2>1. /\ \A q \in Procs \ {p} : handler'[q] = handler[q]
        /\ handler'[p].phase = "lookup" /\ handler[p].phase = "idle"
        /\ UNCHANGED <<answered, saved, older, excused, failed>>
    BY <1>1, <1>5 DEF Deliver, Idle, causes, At
  <2>2. \A q \in Procs : Passes(q)
    BY <2>1 DEF Passes, Serving, At, Msg
  <2> QED  BY <2>1, <2>2, PassingKeepsOwed
<1>6. CASE LockExpires
  <2>1. \A q \in Procs : /\ handler'[q].phase = handler[q].phase
                          /\ handler'[q].msg = handler[q].msg
                          /\ handler'[q].batch = handler[q].batch
    BY <1>1, <1>6, OverdueEffect DEF LockExpires
  <2>2. UNCHANGED <<answered, saved, older, excused, failed>>
    BY <1>6 DEF LockExpires
  <2> QED  BY <1>2, <2>1, <2>2, PassingKeepsOwed
<1>7. CASE SpeakOtherwise
  <2>1. /\ UNCHANGED <<saved, answered, failed, handler>> /\ older' = written
        /\ excused' = excused \cup {m \in written : answered[m] = 0}
    BY <1>7 DEF SpeakOtherwise
  <2>2. \A m \in Messages : ~ Owed(m)'
    BY <2>1 DEF OwedInv, RowInv, TypeOK, Owed
  <2>3. older' \subseteq saved' \cup excused'
    <3> SUFFICES ASSUME NEW m \in written, m \notin saved PROVE answered[m] = 0
      BY <2>1
    <3> QED  BY DEF OwedInv, RowInv, TypeOK, OwedAreServed
  <2> QED  BY <2>1, <2>2, <2>3 DEF OwedInv, OwedAreServed
<1>8. CASE UNCHANGED vars
  BY <1>2, <1>8, PassingKeepsOwed DEF vars, causes
<1> QED  BY <1>3, <1>4, <1>5, <1>6, <1>7, <1>8

LEMMA InitOwed == Init => OwedInv
<1> SUFFICES ASSUME Init PROVE OwedInv
  OBVIOUS
<1>1. older = {} /\ saved = {} /\ \A m \in Messages : answered[m] = 0
  BY DEF Init
<1> QED  BY <1>1, InitRows DEF OwedInv, OwedAreServed, Owed

LEMMA OwedHolds == Spec => []OwedInv
<1>1. OwedInv /\ [Next]_vars => OwedInv'
  <2> SUFFICES ASSUME OwedInv, [Next]_vars PROVE OwedInv'
    OBVIOUS
  <2>1. RowInv'
    BY StepKeepsRows, WorldKeepsRows DEF Next, OwedInv
  <2> QED  BY <2>1, StepKeepsOwed, WorldKeepsOwed DEF Next
<1> QED  BY InitOwed, <1>1, PTL DEF Spec

\* However the handlers of the contact's messages turn each other away, none is
\* left without a reply but for the causes that were recorded.
THEOREM InboundNobodyForgotten == Spec => []NobodyIsForgotten
<1>1. OwedInv => NobodyIsForgotten
  <2> SUFFICES ASSUME OwedInv, \A p \in Procs : handler[p].phase \notin Replying,
                      NEW m \in saved, ~ Busy(m), m \notin excused \cup failed
               PROVE  answered[m] > 0
    BY DEF NobodyIsForgotten
  <2>1. m \in Messages /\ answered[m] \in Nat
    BY DEF OwedInv, RowInv, TypeOK
  <2>2. \A p \in Procs : ~ Serving(p, m)
    BY DEF Serving, Busy
  <2>3. ~ Owed(m)
    BY <2>1, <2>2 DEF OwedInv, OwedAreServed
  <2> QED  BY <2>1, <2>3 DEF Owed
<1> QED  BY OwedHolds, <1>1, PTL
=============================================================================
