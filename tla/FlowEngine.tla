----------------------------- MODULE FlowEngine -----------------------------
(***************************************************************************)
(* The flow engine of the worker, for one contact of one workspace: flows  *)
(* that stop at a question and are resumed by a reply or by a timeout.     *)
(*                                                                         *)
(* Three loops share the execution's context in Redis, each reading it and *)
(* writing all of it back later: the flow-jobs worker (run-flow and        *)
(* resume-flow), the flow-engine worker that executes the nodes, and the   *)
(* monitor of timeouts.  Every Redis command and every database statement  *)
(* another loop can see is a step of its own.                              *)
(***************************************************************************)
EXTENDS Integers, Sequences

CONSTANTS
    Nodes,          \* nodes of the flow
    Start,          \* its start node
    Kind,           \* "act", "wait" (waitNode, wait_response) or "reply" (waitForReply)
    Then, Else,     \* edges of a node (next or yes; next or no), "END" at the end
    OnError,        \* fallback of a node that fails, or None
    Execs,          \* executions started for the contact
    Messages,       \* replies the contact may send
    MaxFaults,      \* bound on failures, crashes and retries asked for by a user
    None

Kinds == {"act", "wait", "reply"}

\* What the context holds: the position in the flow and the two variables the
\* nodes look at, last_user_message and timeout_triggered.
States == [exec : Execs, node : Nodes, msg : Messages \cup {None}, late : BOOLEAN]

RunJob(x) == [kind |-> "run", exec |-> x]
ResumeJob(m) == [kind |-> "resume", msg |-> m]
Jobs == [kind : {"run"}, exec : Execs] \cup [kind : {"resume"}, msg : Messages]

ASSUME FlowAssumption ==
    /\ Start \in Nodes
    /\ Kind \in [Nodes -> Kinds]
    /\ Then \in [Nodes -> Nodes \cup {"END"}]
    /\ Else \in [Nodes -> Nodes \cup {"END"}]
    /\ OnError \in [Nodes -> Nodes \cup {None}]
    /\ MaxFaults \in Nat
    /\ {"END", "WAIT", None} \cap Nodes = {}
    /\ None \notin Messages \cup States \cup Jobs \cup {"END", "WAIT"}

VARIABLES
    row,            \* flowExecution rows
    ctx,            \* the contact's context, or None
    timer,          \* the contact's member of the timeouts: "none", "armed" or "due"
    inbox,          \* list reply:<user>
    pushed,         \* messages appended to the list
    queued,         \* messages whose resume-flow job was added
    flowJobs,       \* queue flow-jobs: how many of each job
    wakeups,        \* jobs in queue flow-engine
    worker,         \* of flow-jobs: its phase, job and copy of the context
    runner,         \* of flow-engine: its phase, copy and the node's result
    monitor,        \* of timeouts: its phase and copy
    faults,         \* failures, crashes and retries
    done,           \* history: nodes of kind "act" executed, per execution
    twice,          \* history: those executed more than once
    disturbed,      \* history: executions met by a fault, a retry or a stale write
    lost            \* history: faults after which nobody resumes a flow

messages == <<pushed, queued>>
history == <<done, twice>>
vars == <<row, ctx, timer, inbox, messages, flowJobs, wakeups, worker, runner, monitor,
          faults, history, disturbed, lost>>

Idle == [phase |-> "idle", job |-> None, state |-> None]
Resting == [phase |-> "idle", state |-> None, next |-> None]
Watching == [phase |-> "idle", state |-> None]

Init ==
    /\ row = [x \in Execs |-> [status |-> "none", node |-> None, msg |-> None, late |-> FALSE]]
    /\ ctx = None /\ timer = "none" /\ inbox = <<>>
    /\ pushed = {} /\ queued = {}
    /\ flowJobs = [j \in Jobs |-> 0] /\ wakeups = 0
    /\ worker = Idle /\ runner = Resting /\ monitor = Watching
    /\ faults = 0
    /\ done = {} /\ twice = {} /\ disturbed = {} /\ lost = {}

----------------------------------------------------------------------------
Added(j) == [flowJobs EXCEPT ![j] = @ + 1]

(***************************************************************************)
(* The backend: executions are created and retried, messages arrive.       *)
(***************************************************************************)
CreateExecution(x) ==
    /\ row[x].status = "none"
    /\ row' = [row EXCEPT ![x].status = "PENDING"]
    /\ flowJobs' = Added(RunJob(x))
    /\ UNCHANGED <<ctx, timer, inbox, messages, wakeups, worker, runner, monitor,
                   faults, history, disturbed, lost>>

\* Only the status is reset; the node and the variables of the row are kept.
RetryExecution(x) ==
    /\ row[x].status # "none"
    /\ faults < MaxFaults
    /\ faults' = faults + 1
    /\ row' = [row EXCEPT ![x].status = "PENDING"]
    /\ flowJobs' = Added(RunJob(x))
    /\ disturbed' = disturbed \cup {x}
    /\ UNCHANGED <<ctx, timer, inbox, messages, wakeups, worker, runner, monitor,
                   history, lost>>

\* The message goes to the list first, then a job tells the worker.
PushReply(m) ==
    /\ m \in Messages \ pushed
    /\ pushed' = pushed \cup {m}
    /\ inbox' = Append(inbox, m)
    /\ UNCHANGED <<row, ctx, timer, queued, flowJobs, wakeups, worker, runner, monitor,
                   faults, history, disturbed, lost>>

\* An error of the push is logged; the job is added all the same.
PushFails(m) ==
    /\ m \in Messages \ pushed
    /\ faults < MaxFaults
    /\ faults' = faults + 1
    /\ pushed' = pushed \cup {m}
    /\ UNCHANGED <<row, ctx, timer, inbox, queued, flowJobs, wakeups, worker, runner, monitor,
                   history, disturbed, lost>>

QueueResume(m) ==
    /\ m \in pushed \ queued
    /\ queued' = queued \cup {m}
    /\ flowJobs' = Added(ResumeJob(m))
    /\ UNCHANGED <<row, ctx, timer, inbox, pushed, wakeups, worker, runner, monitor,
                   faults, history, disturbed, lost>>

----------------------------------------------------------------------------
(***************************************************************************)
(* Writes of the context.  A write is stale when the position it carries   *)
(* is no longer the context's, or the context is another execution's.      *)
(***************************************************************************)
Position(s) == <<s.exec, s.node>>

Owners(s) == IF s = None THEN {} ELSE {s.exec}

\* The executions a write of s disturbs.
Overwritten(s) ==
    IF ctx # None /\ ctx.exec = s.exec /\ ctx.node = s.node
    THEN {} ELSE Owners(ctx) \cup {s.exec}

(***************************************************************************)
(* The flow-jobs worker: run-flow.                                         *)
(***************************************************************************)
TakeJob(j) ==
    /\ worker.phase = "idle"
    /\ flowJobs[j] > 0
    /\ flowJobs' = [flowJobs EXCEPT ![j] = @ - 1]
    /\ worker' = [phase |-> IF j.kind = "run" THEN "check" ELSE "load",
                  job |-> j, state |-> None]
    /\ UNCHANGED <<row, ctx, timer, inbox, messages, wakeups, runner, monitor,
                   faults, history, disturbed, lost>>

\* An execution that ended is not run again.
CheckExecution ==
    /\ worker.phase = "check"
    /\ worker' = IF row[worker.job.exec].status \in {"COMPLETED", "FAILED"}
                 THEN Idle ELSE [worker EXCEPT !.phase = "adopt"]
    /\ UNCHANGED <<row, ctx, timer, inbox, messages, flowJobs, wakeups, runner, monitor,
                   faults, history, disturbed, lost>>

\* The node and variables of the row, or the start node.
Adopted(x) ==
    [exec |-> x, node |-> IF row[x].node = None THEN Start ELSE row[x].node,
     msg |-> row[x].msg, late |-> row[x].late]

AdoptExecution ==
    /\ worker.phase = "adopt"
    /\ worker' = [worker EXCEPT !.phase = "running", !.state = Adopted(worker.job.exec)]
    /\ UNCHANGED <<row, ctx, timer, inbox, messages, flowJobs, wakeups, runner, monitor,
                   faults, history, disturbed, lost>>

\* The flow cannot be loaded, or the plan's limits forbid the run: the job ends
\* without an error and the execution stays as it is.
DropStart ==
    /\ worker.phase = "adopt"
    /\ faults < MaxFaults
    /\ faults' = faults + 1
    /\ lost' = lost \cup {"start"}
    /\ worker' = Idle
    /\ UNCHANGED <<row, ctx, timer, inbox, messages, flowJobs, wakeups, runner, monitor,
                   history, disturbed>>

RowOf(s, status) == [status |-> status, node |-> s.node, msg |-> s.msg, late |-> s.late]

MarkRunning ==
    /\ worker.phase = "running"
    /\ row' = [row EXCEPT ![worker.job.exec] = RowOf(worker.state, "RUNNING")]
    /\ worker' = [worker EXCEPT !.phase = "begin"]
    /\ UNCHANGED <<ctx, timer, inbox, messages, flowJobs, wakeups, runner, monitor,
                   faults, history, disturbed, lost>>

\* The context becomes this execution's, whatever it held.
BeginContext ==
    /\ worker.phase = "begin"
    /\ ctx' = worker.state
    /\ disturbed' = disturbed \cup (IF ctx = None THEN {} ELSE Overwritten(worker.state))
    /\ worker' = [worker EXCEPT !.phase = "wake"]
    /\ UNCHANGED <<row, timer, inbox, messages, flowJobs, wakeups, runner, monitor,
                   faults, history, lost>>

WakeRunner ==
    /\ worker.phase = "wake"
    /\ wakeups' = wakeups + 1
    /\ worker' = Idle
    /\ UNCHANGED <<row, ctx, timer, inbox, messages, flowJobs, runner, monitor,
                   faults, history, disturbed, lost>>

(***************************************************************************)
(* resume-flow: onUserResponse.                                            *)
(***************************************************************************)

\* Without a context there is nothing to resume and the job ends.
LoadForReply ==
    /\ worker.phase = "load"
    /\ worker' = IF ctx = None THEN Idle
                 ELSE [worker EXCEPT !.phase = "unarm",
                                     !.state = [ctx EXCEPT !.msg = worker.job.msg]]
    /\ UNCHANGED <<row, ctx, timer, inbox, messages, flowJobs, wakeups, runner, monitor,
                   faults, history, disturbed, lost>>

RemoveTimer ==
    /\ worker.phase = "unarm"
    /\ timer' = "none"
    /\ worker' = [worker EXCEPT !.phase = "answer"]
    /\ UNCHANGED <<row, ctx, inbox, messages, flowJobs, wakeups, runner, monitor,
                   faults, history, disturbed, lost>>

\* Variant: the reply waits for the run that is already under way.
StoreReplyUnlessRunning ==
    /\ worker.phase = "answer"
    /\ ctx' = worker.state
    /\ disturbed' = disturbed \cup Overwritten(worker.state)
    /\ worker' = IF runner.phase = "idle" THEN [worker EXCEPT !.phase = "wake"] ELSE Idle
    /\ UNCHANGED <<row, timer, inbox, messages, flowJobs, wakeups, runner, monitor,
                   faults, history, lost>>

StoreReply ==
    /\ worker.phase = "answer"
    /\ ctx' = worker.state
    /\ disturbed' = disturbed \cup Overwritten(worker.state)
    /\ worker' = [worker EXCEPT !.phase = "wake"]
    /\ UNCHANGED <<row, timer, inbox, messages, flowJobs, wakeups, runner, monitor,
                   faults, history, lost>>

----------------------------------------------------------------------------
(***************************************************************************)
(* The flow-engine worker: run.                                            *)
(***************************************************************************)
LoadContext ==
    /\ runner.phase = "idle"
    /\ wakeups > 0
    /\ wakeups' = wakeups - 1
    /\ runner' = IF ctx = None THEN Resting
                 ELSE [phase |-> "node", state |-> ctx, next |-> None]
    /\ UNCHANGED <<row, ctx, timer, inbox, messages, flowJobs, worker, monitor,
                   faults, history, disturbed, lost>>

\* loadFlow answers null when the database fails, and run returns.
LoseFlow ==
    /\ runner.phase = "idle"
    /\ wakeups > 0
    /\ ctx # None
    /\ faults < MaxFaults
    /\ faults' = faults + 1
    /\ wakeups' = wakeups - 1
    /\ lost' = lost \cup {"load"}
    /\ UNCHANGED <<row, ctx, timer, inbox, messages, flowJobs, worker, runner, monitor,
                   history, disturbed>>

At == runner.state.node

\* The log entry at the start of a node also stores the node and variables.
LogNode(s) == row' = [row EXCEPT ![s.exec] = RowOf(s, @.status)]

\* The node's result is known: to the statements that record it.
Result(s, r) == [phase |-> "mark", state |-> s, next |-> r]

\* A message is sent, a condition evaluated, a variable saved.
Act ==
    /\ runner.phase = "node"
    /\ Kind[At] = "act"
    /\ LogNode(runner.state)
    /\ \E r \in {Then[At], Else[At]} : runner' = Result(runner.state, r)
    /\ done' = done \cup {Position(runner.state)}
    /\ twice' = twice \cup (done \cap {Position(runner.state)})
    /\ UNCHANGED <<ctx, timer, inbox, messages, flowJobs, wakeups, worker, monitor,
                   faults, disturbed, lost>>

\* The edges a reply may lead to: waitNode looks for keywords in it.
Answered(n) == IF Kind[n] = "wait" THEN {Then[n], Else[n]} ELSE {Then[n]}

\* The message is dropped from memory, not from the list it was pushed to.
ConsumeReply ==
    /\ runner.phase = "node"
    /\ Kind[At] # "act"
    /\ runner.state.msg # None
    /\ LogNode(runner.state)
    /\ \E r \in Answered(At) : runner' = Result([runner.state EXCEPT !.msg = None], r)
    /\ UNCHANGED <<ctx, timer, inbox, messages, flowJobs, wakeups, worker, monitor,
                   faults, history, disturbed, lost>>

PopReply ==
    /\ runner.phase = "node"
    /\ Kind[At] # "act"
    /\ runner.state.msg = None
    /\ inbox # <<>>
    /\ inbox' = Tail(inbox)
    /\ LogNode(runner.state)
    /\ \E r \in Answered(At) : runner' = Result(runner.state, r)
    /\ UNCHANGED <<ctx, timer, messages, flowJobs, wakeups, worker, monitor,
                   faults, history, disturbed, lost>>

\* Variant: every question looks at replies only.
NothingReadButWait(s) == [phase |-> "arm", state |-> s, next |-> None]

\* Nothing to read: waitForReply takes its timeout edge when the timeout was
\* triggered; otherwise the node arms the timer.  waitNode and wait_response
\* do not look at the timeout.
NothingRead(s) ==
    IF Kind[s.node] = "reply" /\ s.late
    THEN Result([s EXCEPT !.late = FALSE], Else[s.node])
    ELSE [phase |-> "arm", state |-> s, next |-> None]

FindNoReply ==
    /\ runner.phase = "node"
    /\ Kind[At] # "act"
    /\ runner.state.msg = None
    /\ inbox = <<>>
    /\ LogNode(runner.state)
    /\ runner' = NothingRead(runner.state)
    /\ UNCHANGED <<ctx, timer, inbox, messages, flowJobs, wakeups, worker, monitor,
                   faults, history, disturbed, lost>>

\* An error of lpop is logged and counts as an empty list.
PopFails ==
    /\ runner.phase = "node"
    /\ Kind[At] # "act"
    /\ runner.state.msg = None
    /\ faults < MaxFaults
    /\ faults' = faults + 1
    /\ lost' = lost \cup {"pop"}
    /\ LogNode(runner.state)
    /\ runner' = NothingRead(runner.state)
    /\ UNCHANGED <<ctx, timer, inbox, messages, flowJobs, wakeups, worker, monitor,
                   history, disturbed>>

\* Variant: the wait is recorded without its timeout.
ParkUntimed ==
    /\ runner.phase = "arm"
    /\ runner' = Result(runner.state, "WAIT")
    /\ UNCHANGED <<row, ctx, timer, inbox, messages, flowJobs, wakeups, worker, monitor,
                   faults, history, disturbed, lost>>

ArmTimer ==
    /\ runner.phase = "arm"
    /\ timer' = "armed"
    /\ runner' = Result(runner.state, "WAIT")
    /\ UNCHANGED <<row, ctx, inbox, messages, flowJobs, wakeups, worker, monitor,
                   faults, history, disturbed, lost>>

StatusOf(r) == IF r = "WAIT" THEN "WAITING_INPUT" ELSE IF r = "END" THEN "COMPLETED" ELSE "RUNNING"

\* The state after the node: moved on, unless the flow waits or ends here.
Moved(s, r) == IF r \in Nodes THEN [s EXCEPT !.node = r] ELSE s

MarkStatus ==
    /\ runner.phase = "mark"
    /\ LET s == Moved(runner.state, runner.next) IN
        /\ row' = [row EXCEPT ![s.exec] = RowOf(s, StatusOf(runner.next))]
        /\ runner' = [runner EXCEPT !.phase = "save", !.state = s]
    /\ UNCHANGED <<ctx, timer, inbox, messages, flowJobs, wakeups, worker, monitor,
                   faults, history, disturbed, lost>>

\* The executions whose context the runner replaces or deletes.
Replaced(s) == IF ctx = None \/ ctx.exec = s.exec THEN {} ELSE {ctx.exec, s.exec}

\* Variant: the context of a flow that ended is kept.
KeepContextAtEnd ==
    /\ runner.phase = "save"
    /\ ctx' = runner.state
    /\ runner' = IF runner.next \in Nodes
                 THEN [phase |-> "node", state |-> runner.state, next |-> None]
                 ELSE Resting
    /\ disturbed' = disturbed \cup Replaced(runner.state)
    /\ UNCHANGED <<row, timer, inbox, messages, flowJobs, wakeups, worker, monitor,
                   faults, history, lost>>

\* The context is stored, or deleted at the end; after a node that leads to
\* another the run goes on with that one.
SaveContext ==
    /\ runner.phase = "save"
    /\ ctx' = IF runner.next = "END" THEN None ELSE runner.state
    /\ runner' = IF runner.next \in Nodes
                 THEN [phase |-> "node", state |-> runner.state, next |-> None]
                 ELSE Resting
    /\ disturbed' = disturbed \cup Replaced(runner.state)
    /\ UNCHANGED <<row, timer, inbox, messages, flowJobs, wakeups, worker, monitor,
                   faults, history, lost>>

\* A node failed for the third time, or its status cannot be written: to its
\* fallback, or the execution fails and its context stays as it is.  The row is
\* left at the node or, when it was the status of a move, at the node moved to.
NodeFails ==
    /\ runner.phase \in {"node", "arm", "mark"}
    /\ faults < MaxFaults
    /\ faults' = faults + 1
    /\ disturbed' = disturbed \cup {runner.state.exec}
    /\ IF OnError[At] # None
       THEN /\ runner' = [phase |-> "node", next |-> None,
                          state |-> [runner.state EXCEPT !.node = OnError[At]]]
            /\ UNCHANGED row
       ELSE /\ runner' = Resting
            /\ \E s \in {runner.state, Moved(runner.state, runner.next)} :
                    row' = [row EXCEPT ![s.exec] = RowOf(s, "FAILED")]
    /\ UNCHANGED <<ctx, timer, inbox, messages, flowJobs, wakeups, worker, monitor,
                   history, lost>>

----------------------------------------------------------------------------
(***************************************************************************)
(* The monitor: checkTimeouts.                                             *)
(***************************************************************************)

Calm == runner = Resting /\ monitor = Watching /\ wakeups = 0

\* The timeouts of waitForReply are hours and do not elapse in the moment a run
\* takes to stop there; that of wait_response is zero by default and due at once.
TimeoutElapses ==
    /\ timer = "armed"
    /\ ctx # None /\ Kind[ctx.node] = "reply" => Calm
    /\ timer' = "due"
    /\ UNCHANGED <<row, ctx, inbox, messages, flowJobs, wakeups, worker, runner, monitor,
                   faults, history, disturbed, lost>>

FindExpired ==
    /\ monitor.phase = "idle"
    /\ timer = "due"
    /\ monitor' = [phase |-> "remove", state |-> None]
    /\ UNCHANGED <<row, ctx, timer, inbox, messages, flowJobs, wakeups, worker, runner,
                   faults, history, disturbed, lost>>

\* The member is removed, by now perhaps a later wait's.
RemoveExpired ==
    /\ monitor.phase = "remove"
    /\ timer' = "none"
    /\ monitor' = [phase |-> "load", state |-> None]
    /\ UNCHANGED <<row, ctx, inbox, messages, flowJobs, wakeups, worker, runner,
                   faults, history, disturbed, lost>>

LoadExpired ==
    /\ monitor.phase = "load"
    /\ monitor' = IF ctx = None THEN Watching
                  ELSE [phase |-> "set", state |-> [ctx EXCEPT !.late = TRUE]]
    /\ UNCHANGED <<row, ctx, timer, inbox, messages, flowJobs, wakeups, worker, runner,
                   faults, history, disturbed, lost>>

TriggerTimeout ==
    /\ monitor.phase = "set"
    /\ ctx' = monitor.state
    /\ disturbed' = disturbed \cup Overwritten(monitor.state)
    /\ monitor' = [monitor EXCEPT !.phase = "wake"]
    /\ UNCHANGED <<row, timer, inbox, messages, flowJobs, wakeups, worker, runner,
                   faults, history, lost>>

WakeExpired ==
    /\ monitor.phase = "wake"
    /\ wakeups' = wakeups + 1
    /\ monitor' = Watching
    /\ UNCHANGED <<row, ctx, timer, inbox, messages, flowJobs, worker, runner,
                   faults, history, disturbed, lost>>

----------------------------------------------------------------------------
\* What a crash may leave undone: the monitor's work after it removed a timeout,
\* and the wake-up of a context whose job is skipped when it is run again.
Unresumed ==
    (IF monitor.phase \in {"idle", "remove"} THEN {} ELSE {"timeout"})
    \cup (IF worker.phase = "wake" /\ worker.job.kind = "run" THEN {"start"} ELSE {})

\* The worker's process dies.  Its two active jobs are stalled and will be run
\* again; what the monitor was doing is forgotten.
Crash ==
    /\ faults < MaxFaults
    /\ faults' = faults + 1
    /\ flowJobs' = IF worker.phase = "idle" THEN flowJobs ELSE Added(worker.job)
    /\ wakeups' = IF runner.phase = "idle" THEN wakeups ELSE wakeups + 1
    /\ lost' = lost \cup Unresumed
    /\ disturbed' = disturbed \cup Owners(runner.state) \cup Owners(worker.state)
    /\ worker' = Idle /\ runner' = Resting /\ monitor' = Watching
    /\ UNCHANGED <<row, ctx, timer, inbox, messages, history>>

Work ==
    \/ \E j \in Jobs : TakeJob(j)
    \/ CheckExecution \/ AdoptExecution \/ MarkRunning \/ BeginContext
    \/ LoadForReply \/ RemoveTimer \/ StoreReply \/ WakeRunner

Run ==
    \/ LoadContext \/ Act \/ ConsumeReply \/ PopReply \/ FindNoReply \/ ArmTimer
    \/ MarkStatus \/ SaveContext

Monitor ==
    FindExpired \/ RemoveExpired \/ LoadExpired \/ TriggerTimeout \/ WakeExpired

Fault == DropStart \/ LoseFlow \/ PopFails \/ NodeFails \/ Crash

Next ==
    \/ \E x \in Execs : CreateExecution(x) \/ RetryExecution(x)
    \/ \E m \in Messages : PushReply(m) \/ PushFails(m) \/ QueueResume(m)
    \/ Work \/ Run \/ Monitor \/ TimeoutElapses \/ Fault

\* The two workers go on while they have jobs, the monitor looks every five
\* seconds, and time passes.
Fairness ==
    /\ WF_vars(Work) /\ WF_vars(Run) /\ WF_vars(Monitor) /\ WF_vars(TimeoutElapses)

Spec == Init /\ [][Next]_vars /\ Fairness

----------------------------------------------------------------------------
Statuses == {"none", "PENDING", "RUNNING", "WAITING_INPUT", "COMPLETED", "FAILED"}
Rows == [status : Statuses, node : Nodes \cup {None}, msg : Messages \cup {None}, late : BOOLEAN]

\* The types of the variables; an idle loop holds no copy of the context, and
\* a runner that arms the timer holds no message.
TypeOK ==
    /\ row \in [Execs -> Rows]
    /\ ctx \in States \cup {None}
    /\ timer \in {"none", "armed", "due"}
    /\ inbox \in Seq(Messages)
    /\ queued \subseteq pushed /\ pushed \subseteq Messages
    /\ flowJobs \in [Jobs -> Nat]
    /\ wakeups \in Nat
    /\ worker \in [phase : {"idle", "check", "adopt", "running", "begin", "load", "unarm",
                            "answer", "wake"},
                   job : Jobs \cup {None}, state : States \cup {None}]
    /\ runner \in [phase : {"idle", "node", "arm", "mark", "save"},
                   state : States \cup {None}, next : Nodes \cup {None, "WAIT", "END"}]
    /\ monitor \in [phase : {"idle", "remove", "load", "set", "wake"}, state : States \cup {None}]
    /\ faults \in 0..MaxFaults
    /\ twice \subseteq done /\ done \subseteq Execs \X Nodes
    /\ disturbed \subseteq Execs
    /\ lost \subseteq {"load", "pop", "timeout", "start"}
    /\ worker.phase = "idle" <=> worker.job = None
    /\ runner.phase = "idle" <=> runner.state = None
    /\ runner.phase = "arm" => runner.state.msg = None

\* Nobody is at work for the contact and nothing waits in a queue.
Quiet ==
    /\ \A j \in Jobs : flowJobs[j] = 0
    /\ wakeups = 0 /\ pushed = queued
    /\ worker = Idle /\ runner = Resting /\ monitor = Watching

Parked == ctx # None /\ Kind[ctx.node] # "act"

\* When everything is at rest, an execution in the context has failed or waits
\* for input at a question with its timeout armed, however replies, timeouts
\* and runs overwrote each other's copies: a flow is left hanging only by a
\* database failure at loadFlow or by the death of the monitor after it
\* removed the timeout.
NoFlowHangs ==
    Quiet /\ ctx # None /\ lost = {} =>
        \/ row[ctx.exec].status = "FAILED"
        \/ Parked /\ row[ctx.exec].status = "WAITING_INPUT" /\ timer # "none"

\* At rest no flow stands at a question while a reply waits in the list: a
\* reply stored in the context may be overwritten, and is found in the list.
RepliesAreHeard ==
    Quiet /\ Parked /\ lost = {} =>
        row[ctx.exec].status = "FAILED" \/ inbox = <<>>

\* A node is executed again for an execution only after a crash, a failed
\* node, a retry, or a write of the context that was stale.
RepeatsHaveCauses == \A p \in twice : p[1] \in disturbed

Waiting(x, n) ==
    ctx # None /\ ctx.exec = x /\ ctx.node = n /\ row[x].status = "WAITING_INPUT"

\* A flow that waits for a reply goes on: answered, or by its timeout edge.
WaitsEnd ==
    \A x \in Execs, n \in Nodes :
        Kind[n] = "reply" => (Waiting(x, n) ~> ~ Waiting(x, n) \/ lost # {})
=============================================================================
