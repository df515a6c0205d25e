-------------------------- MODULE InboundMessages --------------------------
(***************************************************************************)
(* Messages of one contact on their way in: the provider's webhook and the *)
(* catch-up import hand each message to the inbound processor, which keeps *)
(* duplicates out, stores the message, tells the flow engine and lets the  *)
(* autopilot answer what has been collected meanwhile.                     *)
(*                                                                         *)
(* A handler is one call of InboundProcessorService.process.  Every Redis  *)
(* command and every database statement that another handler can see is a  *)
(* step of its own.  The autopilot is on, no human has the conversation,   *)
(* and all that the contact writes is text.                                *)
(***************************************************************************)
EXTENDS Naturals, FiniteSets

CONSTANTS
    Messages,       \* messages the contact may write
    Turn,           \* their order in time; equal for those of one second
    Limit,          \* the most rows a reply collects (50)
    Procs,          \* handlers that may run at the same time
    MaxDeliveries,  \* bound on the deliveries of each message
    MaxFaults,      \* bound on failures and crashes
    None

ASSUME InboundAssumption ==
    /\ Turn \in [Messages -> Nat] /\ Limit \in Nat \ {0}
    /\ MaxDeliveries \in [Messages -> Nat] /\ MaxFaults \in Nat
    /\ None \notin Messages

VARIABLES
    written,        \* messages the contact has sent
    older,          \* those whose createdAt is not after the last outbound row
    cache,          \* key inbound:dedupe of a message: "none", "processing" or "id"
    saved,          \* messages with a row
    heard,          \* how often a message was pushed to the flow engine's list
    inlineLock,     \* key autopilot:inline of the contact
    replyLock,      \* key autopilot:reply of the contact
    handler,        \* a handler's phase, message, mode, messages it will not collect
                    \* and batch; late is history: the reply lock went since it stored its row
    calls,          \* deliveries so far
    acked,          \* messages the webhook has answered 200
    faults,         \* failures and crashes so far
    answered,       \* history: how many replies went to a message
    excused,        \* history: messages with a cause to stay without a reply
    imported,       \* history: messages whose row the catch-up stored
    failed,         \* history: messages a handler failed or died on
    lapsed          \* history: messages answered by a handler that was late

causes == <<excused, imported, failed, lapsed>>
vars == <<written, older, cache, saved, heard, inlineLock, replyLock, handler,
          calls, acked, faults, answered, causes>>

Idle == [phase |-> "idle", msg |-> None, live |-> FALSE, cut |-> {}, batch |-> {},
         late |-> FALSE]

Init ==
    /\ written = {} /\ older = {} /\ saved = {}
    /\ cache = [m \in Messages |-> "none"]
    /\ heard = [m \in Messages |-> 0]
    /\ inlineLock = FALSE /\ replyLock = FALSE
    /\ handler = [p \in Procs |-> Idle]
    /\ calls = [m \in Messages |-> 0]
    /\ acked = {} /\ faults = 0
    /\ answered = [m \in Messages |-> 0]
    /\ excused = {} /\ imported = {} /\ failed = {} /\ lapsed = {}

Phases == {"idle", "lookup", "poll", "find", "remember", "claim", "save", "cacheId", "push",
           "wake", "autopilot", "inline", "reserve", "cut", "batch", "answer", "persist", "release"}

At(p, phase) == handler[p].phase = phase
Goto(p, phase) == handler' = [handler EXCEPT ![p].phase = phase]
Msg(p) == handler[p].msg

\* The handler returns, and the webhook answers 200, whatever became of it.
Finish(p) ==
    /\ handler' = [handler EXCEPT ![p] = Idle]
    /\ acked' = IF handler[p].live THEN acked \cup {Msg(p)} ELSE acked

-----------------------------------------------------------------------------
(* Arrival.                                                                *)

\* The message carries the provider's time in whole seconds: one written within
\* the second of the last outbound row looks older than that row.
Write(m) ==
    /\ m \notin written /\ \A n \in Messages : Turn[n] < Turn[m] => n \in written
    /\ written' = written \cup {m}
    /\ \/ UNCHANGED <<older, excused>>
       \/ older # {} /\ older' = older \cup {m} /\ excused' = excused \cup {m}
    /\ UNCHANGED <<cache, saved, heard, inlineLock, replyLock, handler, calls, acked,
                   faults, answered, imported, failed, lapsed>>

\* A person, a campaign or a flow sends the contact a message: the batches read
\* what comes after its row, so what waits for a reply by now is cut off by it.
SpeakOtherwise ==
    /\ older # written
    /\ older' = written
    /\ excused' = excused \cup {m \in written : answered[m] = 0}
    /\ UNCHANGED <<written, cache, saved, heard, inlineLock, replyLock, handler, calls, acked,
                   faults, answered, imported, failed, lapsed>>

Deliver(p, m, live) ==
    /\ At(p, "idle") /\ m \in written /\ calls[m] < MaxDeliveries[m]
    /\ calls' = [calls EXCEPT ![m] = @ + 1]
    /\ handler' = [handler EXCEPT ![p] = [Idle EXCEPT !.phase = "lookup", !.msg = m, !.live = live]]
    /\ UNCHANGED <<written, older, cache, saved, heard, inlineLock, replyLock, acked,
                   faults, answered, causes>>

-----------------------------------------------------------------------------
(* checkDuplicate: the cached id, three looks at a claim somebody else     *)
(* holds, the row, and the claim.                                          *)

Unchanged == UNCHANGED <<written, older, saved, heard, inlineLock, replyLock, calls,
                         faults, answered, causes>>

LookUp(p) ==
    /\ At(p, "lookup")
    /\ \/ cache[Msg(p)] = "id" /\ Finish(p)
       \/ cache[Msg(p)] = "processing" /\ Goto(p, "poll") /\ acked' = acked
       \/ cache[Msg(p)] = "none" /\ Goto(p, "find") /\ acked' = acked
    /\ Unchanged /\ UNCHANGED cache

\* Any of the three looks may find the id, and after the last the call goes on.
Poll(p) ==
    /\ At(p, "poll")
    /\ \/ cache[Msg(p)] = "id" /\ Finish(p)
       \/ cache[Msg(p)] # "id" /\ Goto(p, "find") /\ acked' = acked
    /\ Unchanged /\ UNCHANGED cache

FindRow(p) ==
    /\ At(p, "find")
    /\ Goto(p, IF Msg(p) \in saved THEN "remember" ELSE "claim")
    /\ Unchanged /\ UNCHANGED <<cache, acked>>

\* The row exists: its id is cached and the call ends as a duplicate.
RememberRow(p) ==
    /\ At(p, "remember")
    /\ cache' = [cache EXCEPT ![Msg(p)] = "id"]
    /\ Finish(p)
    /\ Unchanged

\* Whoever does not get the claim ends as a duplicate of the one who has it.
Claim(p) ==
    /\ At(p, "claim")
    /\ IF cache[Msg(p)] = "none"
       THEN /\ cache' = [cache EXCEPT ![Msg(p)] = "processing"]
            /\ Goto(p, "save") /\ acked' = acked
       ELSE /\ cache' = cache /\ Finish(p)
    /\ Unchanged

-----------------------------------------------------------------------------
(* The row, and the flow engine.                                           *)

\* Variant: without the unique index both handlers store the message.
SaveAgain(p) ==
    /\ At(p, "save")
    /\ saved' = saved \cup {Msg(p)}
    /\ Goto(p, "cacheId")
    /\ UNCHANGED <<written, older, cache, heard, inlineLock, replyLock, calls, acked,
                   faults, answered, causes>>

\* saveMessageByPhone: the unique index lets one handler store the row, and
\* sends the others to read it.  A row stored while a reply is being sent comes
\* too late for it: a cause to stay unanswered.
Save(p) ==
    /\ At(p, "save")
    /\ IF Msg(p) \in saved
       THEN Goto(p, "remember") /\ UNCHANGED <<saved, imported>>
       ELSE /\ saved' = saved \cup {Msg(p)}
            /\ imported' = IF handler[p].live THEN imported ELSE imported \cup {Msg(p)}
            /\ Goto(p, "cacheId")
    /\ excused' = IF \E q \in Procs : At(q, "answer") \/ At(q, "persist")
                  THEN excused \cup {Msg(p)} ELSE excused
    /\ UNCHANGED <<written, older, cache, heard, inlineLock, replyLock, calls, acked,
                   faults, answered, failed, lapsed>>

CacheId(p) ==
    /\ At(p, "cacheId")
    /\ cache' = [cache EXCEPT ![Msg(p)] = "id"]
    /\ Goto(p, IF handler[p].live THEN "push" ELSE "autopilot")
    /\ Unchanged /\ UNCHANGED acked

\* deliverToFlowContext: the list, then the job that wakes the flow engine.
PushReply(p) ==
    /\ At(p, "push")
    /\ heard' = [heard EXCEPT ![Msg(p)] = @ + 1]
    /\ Goto(p, "wake")
    /\ UNCHANGED <<written, older, cache, saved, inlineLock, replyLock, calls, acked,
                   faults, answered, causes>>

WakeFlow(p) ==
    /\ At(p, "wake")
    /\ Goto(p, "autopilot")
    /\ Unchanged /\ UNCHANGED <<cache, acked>>

-----------------------------------------------------------------------------
(* The autopilot.  A live message is answered in the call; one of the      *)
(* catch-up is given to the worker, or answered in the call without one.   *)

\* The phases of a handler that holds, or has held, the reply lock.
Replying == {"cut", "batch", "answer", "persist", "release"}

\* Those of one that has stored its message and has no lock yet.
Awaiting == {"cacheId", "push", "wake", "autopilot", "inline", "reserve"}

ChooseReply(p) ==
    /\ At(p, "autopilot")
    /\ \/ Goto(p, "inline") /\ UNCHANGED <<acked, excused>>
       \/ ~ handler[p].live /\ Finish(p) /\ excused' = excused \cup {Msg(p)}
    /\ UNCHANGED <<written, older, cache, saved, heard, inlineLock, replyLock, calls,
                   faults, answered, imported, failed, lapsed>>

\* A handler that finds a lock taken leaves its message to the one who has it,
\* which is a cause to stay unanswered unless that one is still to collect.
TurnAway(p) ==
    /\ Finish(p)
    /\ excused' = IF \E q \in Procs : At(q, "cut") \/ At(q, "batch")
                  THEN excused ELSE excused \cup {Msg(p)}

LockInline(p) ==
    /\ At(p, "inline")
    /\ IF inlineLock THEN TurnAway(p) ELSE Goto(p, "reserve") /\ UNCHANGED <<acked, excused>>
    /\ inlineLock' = TRUE
    /\ UNCHANGED <<written, older, cache, saved, heard, replyLock, calls, faults, answered,
                   imported, failed, lapsed>>

LockReply(p) ==
    /\ At(p, "reserve")
    /\ IF replyLock THEN TurnAway(p) ELSE Goto(p, "cut") /\ UNCHANGED <<acked, excused>>
    /\ replyLock' = TRUE
    /\ UNCHANGED <<written, older, cache, saved, heard, inlineLock, calls, faults, answered,
                   imported, failed, lapsed>>

\* Variant: the reply is built from all the contact's rows.
ReadNoReply(p) ==
    /\ At(p, "cut")
    /\ Goto(p, "batch")
    /\ Unchanged /\ UNCHANGED <<cache, acked>>

\* buildPendingInboundBatch reads the last outbound row's time, then rows after it.
ReadLastReply(p) ==
    /\ At(p, "cut")
    /\ handler' = [handler EXCEPT ![p].phase = "batch", ![p].cut = older]
    /\ Unchanged /\ UNCHANGED <<cache, acked>>

Pending(p) == saved \ handler[p].cut

\* The first rows in the order of time, no more than the limit.
Oldest(rows) ==
    {some \in SUBSET rows :
        /\ Cardinality(some) = IF Cardinality(rows) <= Limit THEN Cardinality(rows) ELSE Limit
        /\ \A m \in some, n \in rows \ some : Turn[m] <= Turn[n]}

\* Variant: the reply is to the handler's message only.
CollectOwn(p) ==
    /\ At(p, "batch")
    /\ handler' = [handler EXCEPT ![p].phase = "answer", ![p].batch = {Msg(p)}]
    /\ Unchanged /\ UNCHANGED <<cache, acked>>

\* Without any such row the batch is the handler's own message.  What a full
\* batch leaves out is cut off by the row of the reply.
Collect(p) ==
    /\ At(p, "batch")
    /\ \E some \in Oldest(Pending(p)) :
        /\ handler' = [handler EXCEPT ![p].phase = "answer",
                                      ![p].batch = IF some = {} THEN {Msg(p)} ELSE some]
        /\ excused' = excused \cup (Pending(p) \ some)
    /\ UNCHANGED <<written, older, cache, saved, heard, inlineLock, replyLock, calls, acked,
                   faults, answered, imported, failed, lapsed>>

\* The agent's reply, or the canned one when it fails, goes to the provider.
Answer(p) ==
    /\ At(p, "answer")
    /\ answered' = [m \in Messages |->
                       IF m \in handler[p].batch THEN answered[m] + 1 ELSE answered[m]]
    /\ lapsed' = IF handler[p].late THEN lapsed \cup handler[p].batch ELSE lapsed
    /\ Goto(p, "persist")
    /\ UNCHANGED <<written, older, cache, saved, heard, inlineLock, replyLock, calls, acked,
                   faults, excused, imported, failed>>

\* The reply's row is later than every message written by now, also than those
\* it does not answer.  The lock is kept until it expires.
PersistReply(p) ==
    /\ At(p, "persist")
    /\ older' = written
    /\ excused' = excused \cup (written \ saved)
    /\ Finish(p)
    /\ UNCHANGED <<written, cache, saved, heard, inlineLock, replyLock, calls, faults,
                   answered, imported, failed, lapsed>>

\* The reply lock goes: whoever has stored its message is slower than the lock,
\* or loses it to one who is.
Overdue(p) == [handler[p] EXCEPT !.late = @ \/ handler[p].phase \in Replying \cup Awaiting]
JustAnswered == UNION {handler[p].batch : p \in {q \in Procs : At(q, "persist")}}

\* releaseSharedReplyLock deletes the key, whoever holds it by now.
Release(p) ==
    /\ At(p, "release")
    /\ replyLock' = FALSE
    /\ handler' = [q \in Procs |-> IF q = p THEN Idle ELSE Overdue(q)]
    /\ lapsed' = lapsed \cup JustAnswered
    /\ acked' = IF handler[p].live THEN acked \cup {Msg(p)} ELSE acked
    /\ UNCHANGED <<written, older, cache, saved, heard, inlineLock, calls, faults, answered,
                   excused, imported, failed>>

-----------------------------------------------------------------------------
(* Expiry and faults.                                                      *)

Busy(m) == \E p \in Procs : Msg(p) = m

\* A claim or a cached id lasts 300 seconds, the locks 5 and 45.
Expire(m) ==
    /\ cache[m] # "none"
    /\ cache' = [cache EXCEPT ![m] = "none"]
    /\ Unchanged /\ UNCHANGED <<handler, acked>>

LockExpires ==
    /\ \/ /\ inlineLock /\ inlineLock' = FALSE
          /\ UNCHANGED <<replyLock, handler, lapsed>>
       \/ /\ replyLock /\ replyLock' = FALSE
          /\ handler' = [p \in Procs |-> Overdue(p)] /\ lapsed' = lapsed \cup JustAnswered
          /\ UNCHANGED inlineLock
    /\ UNCHANGED <<written, older, cache, saved, heard, calls, acked, faults, answered,
                   excused, imported, failed>>

\* A handler fails on its message, and a reply on all it might have collected.
Fail(p) ==
    /\ ~ At(p, "idle") /\ faults < MaxFaults
    /\ faults' = faults + 1
    /\ failed' = failed \cup {Msg(p)} \cup (IF handler[p].phase \in Replying THEN saved ELSE {})
    /\ UNCHANGED <<written, older, cache, saved, calls, answered, excused, imported, lapsed>>

\* An await throws: the sending of the reply is guarded by a finally that
\* releases the lock, a failed push is caught, everything else ends the call.
Throw(p) ==
    /\ Fail(p) /\ ~ At(p, "push")
    /\ IF At(p, "answer") \/ At(p, "persist")
       THEN Goto(p, "release") /\ UNCHANGED acked
       ELSE Finish(p)
    /\ UNCHANGED <<heard, inlineLock, replyLock>>

\* The push to the list fails, which is only logged; or the provider refuses the
\* reply, which is only logged too, and the lock is kept.
Swallow(p) ==
    /\ Fail(p)
    /\ \/ At(p, "push") /\ Goto(p, "wake") /\ UNCHANGED acked
       \/ At(p, "answer") /\ Finish(p)
    /\ UNCHANGED <<heard, inlineLock, replyLock>>

Crash(p) ==
    /\ Fail(p)
    /\ handler' = [handler EXCEPT ![p] = Idle]
    /\ UNCHANGED <<heard, inlineLock, replyLock, acked>>

Step(p) ==
    \/ LookUp(p) \/ Poll(p) \/ FindRow(p) \/ RememberRow(p) \/ Claim(p)
    \/ Save(p) \/ CacheId(p) \/ PushReply(p) \/ WakeFlow(p)
    \/ ChooseReply(p) \/ LockInline(p) \/ LockReply(p)
    \/ ReadLastReply(p) \/ Collect(p) \/ Answer(p) \/ PersistReply(p) \/ Release(p)
    \/ Throw(p) \/ Swallow(p) \/ Crash(p)

Next ==
    \/ \E m \in Messages : Write(m) \/ Expire(m)
    \/ \E p \in Procs, m \in Messages, live \in BOOLEAN : Deliver(p, m, live)
    \/ \E p \in Procs : Step(p)
    \/ SpeakOtherwise \/ LockExpires

Spec == Init /\ [][Next]_vars

-----------------------------------------------------------------------------
\* What a handler is doing.
Call == [phase : Phases, msg : Messages \cup {None}, live : BOOLEAN,
         cut : SUBSET Messages, batch : SUBSET Messages, late : BOOLEAN]

\* The variables keep their types; a reply answers stored messages only.
TypeOK ==
    /\ older \subseteq written /\ written \subseteq Messages /\ saved \subseteq written
    /\ cache \in [Messages -> {"none", "processing", "id"}]
    /\ heard \in [Messages -> Nat] /\ answered \in [Messages -> Nat]
    /\ inlineLock \in BOOLEAN /\ replyLock \in BOOLEAN
    /\ calls \in [Messages -> Nat] /\ faults \in 0 .. MaxFaults
    /\ acked \cup excused \cup imported \cup failed \cup lapsed \subseteq written
    /\ handler \in [Procs -> Call]
    /\ \A p \in Procs :
        /\ Msg(p) \in IF At(p, "idle") THEN {None} ELSE written
        /\ handler[p].cut \subseteq older /\ handler[p].batch \subseteq saved

\* A message that is stored or has been answered 200 is heard by the flow engine
\* exactly once, unless a handler failed on it or the catch-up stored it first:
\* duplicates, late handlers and expired claims alone neither lose nor repeat one,
\* since the handler that stores the row is the one that tells the flow.
FlowHearsOnce ==
    \A m \in Messages :
        /\ heard[m] <= 1
        /\ m \in saved \cup acked /\ ~ Busy(m) => heard[m] = 1 \/ m \in failed \cup imported

\* A handler that finds a lock taken leaves its message to the reply in progress.
\* When no reply is in progress every stored message has been in one, but for
\* those stored, or turned away, when the reply was already on its way, written
\* but not stored before a reply's row, left out of a full batch, cut off by what
\* somebody else sent the contact, left to the worker, or met by a failure.
NobodyIsForgotten ==
    (\A p \in Procs : handler[p].phase \notin Replying) =>
        \A m \in saved : ~ Busy(m) => answered[m] > 0 \/ m \in excused \cup failed

\* A message is in two replies only if the reply lock went between the storing of
\* a handler's message and its reply, or a handler failed: the lock and the time
\* of the last reply's row keep all other replies apart, whoever reads in between.
AnsweredTwiceByExpiry ==
    \A m \in Messages : answered[m] > 1 => m \in lapsed \cup failed
=============================================================================
