-------------------------- MODULE FlowEngineProofs --------------------------
(***************************************************************************)
(* Theorems about the flow engine, for every flow, any number of           *)
(* executions, messages and faults.                                        *)
(***************************************************************************)
EXTENDS FlowEngine, TLAPS

\* What the phases of the three loops say about their jobs and copies.
Shaped ==
    /\ worker.phase \in {"check", "adopt", "running", "begin"} =>
            worker.job \in Jobs /\ worker.job.kind = "run"
    /\ worker.phase \in {"load", "unarm", "answer"} =>
            worker.job \in Jobs /\ worker.job.kind = "resume"
    /\ worker.phase \in {"running", "begin", "unarm", "answer", "wake"} <=> worker.state # None
    /\ worker.state # None /\ worker.job.kind = "run" => worker.state.exec = worker.job.exec
    /\ monitor.phase \in {"set", "wake"} <=> monitor.state # None
    /\ runner.phase \in {"mark", "save"} <=> runner.next # None

Shape == TypeOK /\ Shaped

USE FlowAssumption

LEMMA JobTypes ==
    ASSUME NEW j \in Jobs
    PROVE  /\ j.kind \in {"run", "resume"}
           /\ j.kind = "run" => j.exec \in Execs
           /\ j.kind = "resume" => j.msg \in Messages
           /\ j # None
  BY DEF Jobs

LEMMA StateTypes ==
    ASSUME NEW s \in States
    PROVE  /\ s.exec \in Execs /\ s.node \in Nodes
           /\ s.msg \in Messages \cup {None} /\ s.late \in BOOLEAN
           /\ s # None
           /\ \A m \in Messages \cup {None} : [s EXCEPT !.msg = m] \in States
           /\ \A l \in BOOLEAN : [s EXCEPT !.late = l] \in States
           /\ \A n \in Nodes : [s EXCEPT !.node = n] \in States
  BY DEF States

LEMMA RowTypes ==
    ASSUME NEW st \in Statuses
    PROVE  /\ \A s \in States : RowOf(s, st) \in Rows
           /\ \A r \in Rows : [r EXCEPT !.status = st] \in Rows
  BY DEF Rows, States, RowOf

LEMMA AddedTypes ==
    ASSUME flowJobs \in [Jobs -> Nat], NEW j \in Jobs
    PROVE  Added(j) \in [Jobs -> Nat]
  BY DEF Added

LEMMA InitShape == Init => Shape
  BY DEF Init, Shape, TypeOK, Shaped, Idle, Resting, Watching, Statuses, Jobs, Rows

LEMMA BackendShape ==
    ASSUME Shape,
           \/ \E x \in Execs : CreateExecution(x) \/ RetryExecution(x)
           \/ \E m \in Messages : PushReply(m) \/ PushFails(m) \/ QueueResume(m)
    PROVE  Shape'
<1> USE DEF Shape, TypeOK, Shaped
<1>1. ASSUME NEW x \in Execs, CreateExecution(x) PROVE Shape'
  <2>1. RunJob(x) \in Jobs /\ "PENDING" \in Statuses
    BY DEF RunJob, Jobs, Statuses
  <2>2. row' \in [Execs -> Rows] /\ flowJobs' \in [Jobs -> Nat]
    BY <1>1, <2>1, RowTypes, AddedTypes DEF CreateExecution
  <2> QED  BY <1>1, <2>2 DEF CreateExecution, messages, history
<1>2. ASSUME NEW x \in Execs, RetryExecution(x) PROVE Shape'
  <2>1. RunJob(x) \in Jobs /\ "PENDING" \in Statuses
    BY DEF RunJob, Jobs, Statuses
  <2>2. row' \in [Execs -> Rows] /\ flowJobs' \in [Jobs -> Nat]
    BY <1>2, <2>1, RowTypes, AddedTypes DEF RetryExecution
  <2> QED  BY <1>2, <2>2 DEF RetryExecution, messages, history
<1>3. ASSUME NEW m \in Messages, PushReply(m) PROVE Shape'
  BY <1>3 DEF PushReply, history
<1>5. ASSUME NEW m \in Messages, PushFails(m) PROVE Shape'
  BY <1>5 DEF PushFails, history
<1>4. ASSUME NEW m \in Messages, QueueResume(m) PROVE Shape'
  <2>1. ResumeJob(m) \in Jobs
    BY DEF ResumeJob, Jobs
  <2> QED  BY <1>4, <2>1, AddedTypes DEF QueueResume, history
<1> QED  BY <1>1, <1>2, <1>3, <1>4, <1>5

LEMMA WorkShape ==
    ASSUME Shape, Work \/ DropStart
    PROVE  Shape'
<1> USE JobTypes, StateTypes DEF Shape, TypeOK, Shaped, messages, history, Idle
<1>1. ASSUME NEW j \in Jobs, TakeJob(j) PROVE Shape'
  BY <1>1 DEF TakeJob
<1>2. CASE CheckExecution
  BY <1>2 DEF CheckExecution
<1>3. CASE AdoptExecution
  <2>1. Adopted(worker.job.exec) \in States /\ Adopted(worker.job.exec).exec = worker.job.exec
    BY <1>3 DEF AdoptExecution, Adopted, States, Rows
  <2>2. TypeOK'
    BY <1>3, <2>1, ZenonT(40) DEF AdoptExecution
  <2> QED  BY <1>3, <2>1, <2>2 DEF AdoptExecution
<1>4. CASE MarkRunning
  <2>1. row' \in [Execs -> Rows]
    BY <1>4, RowTypes DEF MarkRunning, Statuses
  <2>2. TypeOK'
    BY <1>4, <2>1, SMTT(20) DEF MarkRunning
  <2> QED  BY <1>4, <2>2 DEF MarkRunning
<1>5. CASE BeginContext
  <2>1. disturbed' \subseteq Execs
    BY <1>5 DEF BeginContext, Overwritten, Owners
  <2> QED  BY <1>5, <2>1 DEF BeginContext
<1>6. CASE WakeRunner
  BY <1>6 DEF WakeRunner
<1>7. CASE LoadForReply
  <2>1. CASE ctx = None
    BY <1>7, <2>1 DEF LoadForReply
  <2>2. CASE ctx # None
    <3>1. [ctx EXCEPT !.msg = worker.job.msg] \in States
      BY <1>7, <2>2 DEF LoadForReply
    <3>2. TypeOK'
      BY <1>7, <2>2, <3>1, ZenonT(40) DEF LoadForReply
    <3> QED  BY <1>7, <2>2, <3>1, <3>2 DEF LoadForReply
  <2> QED  BY <2>1, <2>2
<1>8. CASE RemoveTimer
  BY <1>8 DEF RemoveTimer
<1>9. CASE StoreReply
  <2>1. disturbed' \subseteq Execs
    BY <1>9 DEF StoreReply, Overwritten, Owners
  <2> QED  BY <1>9, <2>1, ZenonT(40) DEF StoreReply
<1>10. CASE DropStart
  BY <1>10 DEF DropStart
<1> QED  BY <1>1, <1>2, <1>3, <1>4, <1>5, <1>6, <1>7, <1>8, <1>9, <1>10 DEF Work

LEMMA NothingReadTypes ==
    ASSUME NEW s \in States
    PROVE  /\ NothingRead(s) \in [phase : {"arm", "mark"}, state : States,
                                  next : Nodes \cup {None, "WAIT", "END"}]
           /\ NothingRead(s).phase = "arm" => NothingRead(s).state = s
           /\ NothingRead(s).phase = "mark" <=> NothingRead(s).next # None
           /\ NothingRead(s).state.exec = s.exec /\ NothingRead(s).state.node = s.node
           /\ NothingRead(s).next # "WAIT"
           /\ NothingRead(s).phase = "mark" => NothingRead(s).next = Else[s.node]
<1>1. Else[s.node] \in Nodes \cup {"END"} /\ Else[s.node] \notin {None, "WAIT"}
  BY StateTypes
<1>2. CASE Kind[s.node] = "reply" /\ s.late
  <2> DEFINE t == [s EXCEPT !.late = FALSE]
  <2>1. t \in States /\ t.exec = s.exec /\ t.node = s.node
    BY DEF States
  <2>2. NothingRead(s) = [phase |-> "mark", state |-> t, next |-> Else[s.node]]
    BY <1>2 DEF NothingRead, Result
  <2> HIDE DEF t
  <2> QED  BY <1>1, <2>1, <2>2
<1>3. CASE ~ (Kind[s.node] = "reply" /\ s.late)
  BY <1>3, StateTypes DEF NothingRead
<1> QED  BY <1>2, <1>3

LEMMA RunShape ==
    ASSUME Shape, Run \/ LoseFlow \/ PopFails \/ NodeFails
    PROVE  Shape'
<1> USE StateTypes DEF Shape, TypeOK, Shaped, messages, history, Resting, At, Result
<1>12. ASSUME NEW s \in States, LogNode(s) PROVE row' \in [Execs -> Rows]
  BY <1>12 DEF LogNode, Rows, RowOf, States
<1>1. CASE LoadContext
  BY <1>1 DEF LoadContext
<1>2. CASE LoseFlow
  BY <1>2 DEF LoseFlow
<1>3. CASE Act
  <2>1. row' \in [Execs -> Rows]
    BY <1>3, <1>12 DEF Act
  <2> QED  BY <1>3, <2>1 DEF Act, Position
<1>4. CASE ConsumeReply
  <2>1. row' \in [Execs -> Rows]
    BY <1>4, <1>12 DEF ConsumeReply
  <2> QED  BY <1>4, <2>1 DEF ConsumeReply, Answered
<1>5. CASE PopReply
  <2>1. row' \in [Execs -> Rows]
    BY <1>5, <1>12 DEF PopReply
  <2> QED  BY <1>5, <2>1 DEF PopReply, Answered
<1>6. CASE FindNoReply
  <2>1. row' \in [Execs -> Rows]
    BY <1>6, <1>12 DEF FindNoReply
  <2> QED  BY <1>6, <2>1, NothingReadTypes DEF FindNoReply
<1>7. CASE PopFails
  <2>1. row' \in [Execs -> Rows]
    BY <1>7, <1>12 DEF PopFails
  <2> QED  BY <1>7, <2>1, NothingReadTypes DEF PopFails
<1>8. CASE ArmTimer
  BY <1>8 DEF ArmTimer
<1>9. CASE MarkStatus
  <2>1. Moved(runner.state, runner.next) \in States
    BY <1>9 DEF MarkStatus, Moved
  <2>2. row' \in [Execs -> Rows]
    BY <1>9, <2>1, RowTypes DEF MarkStatus, StatusOf, Statuses
  <2>3. TypeOK'
    BY <1>9, <2>1, <2>2, ZenonT(40) DEF MarkStatus
  <2> QED  BY <1>9, <2>1, <2>3 DEF MarkStatus
<1>10. CASE SaveContext
  BY <1>10 DEF SaveContext, Replaced
<1>11. CASE NodeFails
  <2>1. runner.state \in States
    BY <1>11 DEF NodeFails
  <2>2. CASE OnError[At] = None
    <3>1. PICK s \in {runner.state, Moved(runner.state, runner.next)} :
              row' = [row EXCEPT ![s.exec] = RowOf(s, "FAILED")]
      BY <1>11, <2>2 DEF NodeFails
    <3>2. s \in States
      BY <2>1 DEF Moved
    <3>3. row' \in [Execs -> Rows]
      BY <3>1, <3>2, RowTypes DEF Statuses
    <3>4. runner' = Resting
      BY <1>11, <2>2 DEF NodeFails
    <3>5. UNCHANGED <<ctx, timer, inbox, messages, flowJobs, wakeups, worker, monitor,
                      history, lost>>
          /\ faults' \in 0 .. MaxFaults /\ disturbed' \subseteq Execs
      BY <1>11, <2>1 DEF NodeFails
    <3> QED  BY <3>3, <3>4, <3>5
  <2>3. CASE OnError[At] # None
    <3>1. [runner.state EXCEPT !.node = OnError[At]] \in States
      BY <2>1, <2>3
    <3>2. UNCHANGED <<row, ctx, timer, inbox, messages, flowJobs, wakeups, worker, monitor,
                      history, lost>>
          /\ faults' \in 0 .. MaxFaults /\ disturbed' \subseteq Execs
      BY <1>11, <2>1, <2>3 DEF NodeFails
    <3>3. runner' = [phase |-> "node", next |-> None,
                     state |-> [runner.state EXCEPT !.node = OnError[At]]]
      BY <1>11, <2>3 DEF NodeFails
    <3> QED  BY <3>1, <3>2, <3>3
  <2> QED  BY <2>2, <2>3
<1> QED  BY <1>1, <1>2, <1>3, <1>4, <1>5, <1>6, <1>7, <1>8, <1>9, <1>10, <1>11 DEF Run

LEMMA MonitorShape ==
    ASSUME Shape, Monitor \/ TimeoutElapses \/ Crash
    PROVE  Shape'
<1> USE JobTypes, StateTypes DEF Shape, TypeOK, Shaped, messages, history, Watching
<1>1. CASE FindExpired
  BY <1>1 DEF FindExpired
<1>2. CASE RemoveExpired
  BY <1>2 DEF RemoveExpired
<1>3. CASE LoadExpired
  <2>1. CASE ctx = None
    BY <1>3, <2>1 DEF LoadExpired
  <2>2. CASE ctx # None
    <3>1. [ctx EXCEPT !.late = TRUE] \in States
      BY <2>2
    <3> QED  BY <1>3, <2>2, <3>1, ZenonT(40) DEF LoadExpired
  <2> QED  BY <2>1, <2>2
<1>4. CASE TriggerTimeout
  <2>1. disturbed' \subseteq Execs
    BY <1>4 DEF TriggerTimeout, Overwritten, Owners
  <2> QED  BY <1>4, <2>1, SMTT(20) DEF TriggerTimeout
<1>5. CASE WakeExpired
  BY <1>5 DEF WakeExpired
<1>6. CASE TimeoutElapses
  BY <1>6 DEF TimeoutElapses
<1>7. CASE Crash
  <2>1. flowJobs' \in [Jobs -> Nat]
    BY <1>7, AddedTypes DEF Crash
  <2>2. disturbed' \subseteq Execs
    BY <1>7 DEF Crash, Owners
  <2> QED  BY <1>7, <2>1, <2>2 DEF Crash, Unresumed, Idle, Resting
<1> QED  BY <1>1, <1>2, <1>3, <1>4, <1>5, <1>6, <1>7 DEF Monitor

LEMMA ShapeInvariant == Spec => []Shape
<1>1. Shape /\ UNCHANGED vars => Shape'
  BY DEF Shape, TypeOK, Shaped, vars, messages, history, Idle
<1>2. Shape /\ [Next]_vars => Shape'
  BY <1>1, BackendShape, WorkShape, RunShape, MonitorShape DEF Next, Fault
<1> QED  BY <1>2, InitShape, PTL DEF Spec

\* The variables of the flow engine keep their types.
THEOREM FlowTypeOK == Spec => []TypeOK
<1>1. Shape => TypeOK
  BY DEF Shape
<1> QED  BY <1>1, ShapeInvariant, PTL

----------------------------------------------------------------------------
(***************************************************************************)
(* Repeated nodes.  The flow goes forward: there is a rank that every edge *)
(* raises.  The executed nodes of an undisturbed execution then lie before *)
(* the position from which it will go on, which is the runner's while the  *)
(* runner has it and the context's otherwise.                              *)
(***************************************************************************)
Forward(rank) ==
    \A n \in Nodes : \A t \in {Then[n], Else[n]} : t \in Nodes => rank[n] < rank[t]

Behind(rank, x, n) == \A p \in done : p[1] = x => rank[p[2]] < rank[n]

RunnerHas(x) == runner.state # None /\ runner.state.exec = x

OnRun(x) == worker.phase \in {"check", "adopt", "running", "begin"} /\ worker.job.exec = x

\* Nobody but the worker's run-flow job knows the execution.
Unstarted(x) ==
    /\ \A p \in done : p[1] # x
    /\ ctx # None => ctx.exec # x
    /\ ~ RunnerHas(x)
    /\ monitor.state # None => monitor.state.exec # x
    /\ worker.phase \in {"unarm", "answer"} => worker.state.exec # x

\* An execution is started once.
StartedOnce(x) ==
    /\ flowJobs[RunJob(x)] <= 1
    /\ row[x].status = "none" => flowJobs[RunJob(x)] = 0 /\ ~ OnRun(x) /\ Unstarted(x)
    /\ flowJobs[RunJob(x)] = 1 => ~ OnRun(x) /\ Unstarted(x)
    /\ OnRun(x) => Unstarted(x)

Ordered(rank, x) ==
    /\ ctx # None /\ ctx.exec = x /\ ~ RunnerHas(x) => Behind(rank, x, ctx.node)
    /\ RunnerHas(x) =>
        /\ runner.phase \in {"node", "arm"} => Behind(rank, x, runner.state.node)
        /\ runner.phase = "mark" /\ runner.next \in Nodes => Behind(rank, x, runner.next)
        /\ runner.phase = "mark" /\ runner.next = "WAIT" => Behind(rank, x, runner.state.node)
        /\ runner.phase = "save" /\ runner.next # "END" => Behind(rank, x, runner.state.node)

InOrder(rank) ==
    /\ RepeatsHaveCauses
    /\ \A x \in Execs \ disturbed : StartedOnce(x) /\ Ordered(rank, x)

LEMMA RunJobs ==
    /\ \A x \in Execs : RunJob(x) \in Jobs /\ RunJob(x).kind = "run" /\ RunJob(x).exec = x
    /\ \A j \in Jobs, x \in Execs : j.kind = "run" /\ j.exec = x => j = RunJob(x)
    /\ \A m \in Messages : ResumeJob(m) \in Jobs /\ ResumeJob(m).kind = "resume"
<1>1. \A j \in Jobs, x \in Execs : j.kind = "run" /\ j.exec = x => j = RunJob(x)
  <2> SUFFICES ASSUME NEW j \in Jobs, NEW x \in Execs, j.kind = "run", j.exec = x
               PROVE  j = RunJob(x)
    OBVIOUS
  <2>1. j \in [kind : {"run"}, exec : Execs]
    BY DEF Jobs
  <2> QED  BY <2>1 DEF RunJob
<1> QED  BY <1>1 DEF RunJob, ResumeJob, Jobs

\* The backend starts an execution whose row is new, and disturbs one it retries.
LEMMA BackendInOrder ==
    ASSUME NEW rank \in [Nodes -> Nat], Shape, InOrder(rank),
           \/ \E x \in Execs : CreateExecution(x) \/ RetryExecution(x)
           \/ \E m \in Messages : PushReply(m) \/ PushFails(m) \/ QueueResume(m)
    PROVE  InOrder(rank)'
<1> USE RunJobs DEF InOrder, RepeatsHaveCauses, StartedOnce, Ordered, Behind, Unstarted, RunnerHas,
        OnRun, history
<1>0. flowJobs \in [Jobs -> Nat] /\ row \in [Execs -> Rows]
  BY DEF Shape, TypeOK
<1>1. ASSUME NEW x \in Execs, CreateExecution(x) PROVE InOrder(rank)'
  BY <1>0, <1>1 DEF CreateExecution, Added, Rows
<1>2. ASSUME NEW x \in Execs, RetryExecution(x) PROVE InOrder(rank)'
  BY <1>0, <1>2 DEF RetryExecution, Added, Rows
<1>3. ASSUME NEW m \in Messages, PushReply(m) PROVE InOrder(rank)'
  BY <1>3 DEF PushReply
<1>5. ASSUME NEW m \in Messages, PushFails(m) PROVE InOrder(rank)'
  BY <1>5 DEF PushFails
<1>4. ASSUME NEW m \in Messages, QueueResume(m) PROVE InOrder(rank)'
  BY <1>0, <1>4 DEF QueueResume, Added
<1> QED  BY <1>1, <1>2, <1>3, <1>4, <1>5

\* The flow-jobs worker starts what nobody else knows; a resume-flow job either
\* keeps the position of the context or is stale.
LEMMA WorkInOrder ==
    ASSUME NEW rank \in [Nodes -> Nat], Shape, InOrder(rank), Work \/ DropStart
    PROVE  InOrder(rank)'
<1> USE RunJobs DEF InOrder, RepeatsHaveCauses, StartedOnce, Ordered, Behind, Unstarted, RunnerHas,
        OnRun, history
<1>0. /\ flowJobs \in [Jobs -> Nat] /\ row \in [Execs -> Rows]
      /\ ctx \in States \cup {None} /\ worker.state \in States \cup {None}
      /\ Shaped
  BY DEF Shape, TypeOK
<1>1. ASSUME NEW j \in Jobs, TakeJob(j) PROVE InOrder(rank)'
  BY <1>0, <1>1, JobTypes DEF TakeJob, Shaped
<1>2. CASE CheckExecution
  BY <1>0, <1>2 DEF CheckExecution, Idle, Shaped
<1>3. CASE AdoptExecution
  BY <1>0, <1>3 DEF AdoptExecution, Shaped
<1>4. CASE MarkRunning
  BY <1>0, <1>4 DEF MarkRunning, Shaped, RowOf
<1>5. CASE BeginContext
  BY <1>0, <1>5, StateTypes DEF BeginContext, Overwritten, Owners, Shaped
<1>6. CASE WakeRunner
  BY <1>0, <1>6 DEF WakeRunner, Idle, Shaped
<1>7. CASE LoadForReply
  BY <1>0, <1>7, StateTypes DEF LoadForReply, Idle, Shaped, States
<1>8. CASE RemoveTimer
  BY <1>0, <1>8 DEF RemoveTimer, Shaped
<1>9. CASE StoreReply
  <2> SUFFICES ASSUME NEW x \in Execs \ disturbed'
               PROVE  StartedOnce(x)' /\ Ordered(rank, x)'
    BY <1>9 DEF StoreReply
  <2>1. x \in Execs \ disturbed /\ StartedOnce(x) /\ Ordered(rank, x)
    BY <1>9 DEF StoreReply
  <2>2. worker.state \in States /\ ctx' = worker.state
    BY <1>0, <1>9 DEF StoreReply, Shaped
  <2>3. CASE ctx # None /\ ctx.exec = ctx'.exec /\ ctx.node = ctx'.node
    BY <1>0, <1>9, <2>1, <2>2, <2>3 DEF StoreReply, Shaped
  <2>4. CASE (ctx = None \/ ctx.exec # x) /\ worker.state.exec # x
    BY <1>0, <1>9, <2>1, <2>2, <2>4 DEF StoreReply, Shaped
  <2>5. ~ (ctx # None /\ ctx.exec = ctx'.exec /\ ctx.node = ctx'.node) =>
            (ctx = None \/ ctx.exec # x) /\ worker.state.exec # x
    BY <1>0, <1>9, <2>2 DEF StoreReply, Overwritten, Owners
  <2> QED  BY <2>3, <2>4, <2>5
<1>10. CASE DropStart
  BY <1>0, <1>10 DEF DropStart, Idle, Shaped
<1> QED  BY <1>1, <1>2, <1>3, <1>4, <1>5, <1>6, <1>7, <1>8, <1>9, <1>10 DEF Work

\* A question that is answered, times out or is to be waited for.
LEMMA QuestionInOrder ==
    ASSUME NEW rank \in [Nodes -> Nat], Forward(rank), Shape, InOrder(rank),
           runner.phase = "node",
           runner'.state \in States, runner'.state.exec = runner.state.exec,
           runner'.state.node = runner.state.node,
           \/ runner'.phase = "mark" /\ runner'.next \in {Then[At], Else[At]}
           \/ runner'.phase = "arm",
           LogNode(runner.state),
           UNCHANGED <<ctx, flowJobs, worker, monitor, done, twice, disturbed>>
    PROVE  InOrder(rank)'
<1> USE RunJobs, StateTypes DEF InOrder, RepeatsHaveCauses, StartedOnce, Unstarted, RunnerHas, OnRun, At
<1>1. runner.state \in States /\ runner.state.node \in Nodes /\ done \subseteq Execs \X Nodes
  BY DEF Shape, TypeOK
<1>2. \A x \in Execs : row'[x].status = row[x].status
  BY <1>1 DEF LogNode, RowOf, Shape, TypeOK
<1>3. \A x \in Execs \ disturbed : StartedOnce(x)'
  BY <1>1, <1>2
<1>4. \A x \in Execs \ disturbed : Ordered(rank, x)'
  <2> SUFFICES ASSUME NEW x \in Execs \ disturbed PROVE Ordered(rank, x)'
    OBVIOUS
  <2>1. CASE runner.state.exec # x
    BY <1>1, <2>1 DEF Ordered, Behind
  <2>2. CASE runner.state.exec = x
    <3>1. Behind(rank, x, runner.state.node)
      BY <1>1, <2>2 DEF Ordered
    <3>2. \A t \in {Then[At], Else[At]} : t \in Nodes => Behind(rank, x, t)
      BY <1>1, <3>1 DEF Behind, Forward
    <3>3. \A n : Behind(rank, x, n)' <=> Behind(rank, x, n)
      BY DEF Behind
    <3>4. Then[At] # "WAIT" /\ Else[At] # "WAIT"
      BY <1>1
    <3> QED  BY <1>1, <2>2, <3>1, <3>2, <3>3, <3>4 DEF Ordered
  <2> QED  BY <2>1, <2>2
<1> QED  BY <1>3, <1>4

\* The runner executes a node that lies behind nothing, and moves on along an edge.
LEMMA RunInOrder ==
    ASSUME NEW rank \in [Nodes -> Nat], Forward(rank), Shape, InOrder(rank),
           Run \/ LoseFlow \/ PopFails \/ NodeFails
    PROVE  InOrder(rank)'
<1> USE RunJobs, StateTypes DEF InOrder, RepeatsHaveCauses, StartedOnce, Ordered, Behind, Unstarted, RunnerHas,
        OnRun, history, At, Result, Resting
<1>0. /\ row \in [Execs -> Rows] /\ done \subseteq Execs \X Nodes
      /\ ctx \in States \cup {None} /\ runner.state \in States \cup {None}
      /\ Shaped
      /\ runner.phase = "idle" <=> runner.state = None
  BY DEF Shape, TypeOK
<1>12. ASSUME NEW s \in States, LogNode(s) PROVE \A x \in Execs : row'[x].status = row[x].status
  BY <1>0, <1>12 DEF LogNode, RowOf
<1>1. CASE LoadContext
  BY <1>0, <1>1 DEF LoadContext
<1>2. CASE LoseFlow
  BY <1>0, <1>2 DEF LoseFlow
<1>3. CASE Act
  BY <1>0, <1>3, <1>12 DEF Act, Position, Forward
<1>4. CASE ConsumeReply
  <2>1. PICK r \in Answered(At) : runner' = Result([runner.state EXCEPT !.msg = None], r)
    BY <1>4 DEF ConsumeReply
  <2>2. [runner.state EXCEPT !.msg = None].exec = runner.state.exec
        /\ [runner.state EXCEPT !.msg = None].node = runner.state.node
    BY <1>0, <1>4 DEF ConsumeReply, States
  <2> QED  BY <1>0, <1>4, <2>1, <2>2, QuestionInOrder DEF ConsumeReply, Answered
<1>5. CASE PopReply
  <2>1. PICK r \in Answered(At) : runner' = Result(runner.state, r)
    BY <1>5 DEF PopReply
  <2> QED  BY <1>0, <1>5, <2>1, QuestionInOrder DEF PopReply, Answered
<1>6. CASE FindNoReply
  BY <1>0, <1>6, NothingReadTypes, QuestionInOrder, ZenonT(40) DEF FindNoReply
<1>7. CASE PopFails
  BY <1>0, <1>7, NothingReadTypes, QuestionInOrder DEF PopFails
<1>8. CASE ArmTimer
  BY <1>0, <1>8 DEF ArmTimer
<1>9. CASE MarkStatus
  <2>1. /\ runner.state \in States /\ runner' = [runner EXCEPT !.phase = "save", !.state =
                                                      Moved(runner.state, runner.next)]
        /\ runner \in [phase : {"idle", "node", "arm", "mark", "save"},
                       state : States \cup {None}, next : Nodes \cup {None, "WAIT", "END"}]
    BY <1>0, <1>9 DEF MarkStatus, Shape, TypeOK
  <2>2. /\ runner'.state \in States /\ runner'.state.exec = runner.state.exec
        /\ runner'.phase = "save" /\ runner'.next = runner.next
        /\ runner.next \in Nodes => runner'.state.node = runner.next
        /\ runner.next \notin Nodes => runner'.state.node = runner.state.node
    BY <2>1 DEF Moved, States
  <2>3. \A x \in Execs : row'[x].status = "none" => row[x].status = "none"
    BY <1>0, <1>9 DEF MarkStatus, StatusOf, RowOf
  <2>4. runner.next \in Nodes \cup {"WAIT", "END"}
    BY <1>0, <1>9, <2>1 DEF MarkStatus, Shaped
  <2> QED  BY <1>0, <1>9, <2>1, <2>2, <2>3, <2>4 DEF MarkStatus
<1>10. CASE SaveContext
  BY <1>0, <1>10 DEF SaveContext, Replaced
<1>11. CASE NodeFails
  <2>1. \A x \in Execs : row'[x].status = "none" => row[x].status = "none"
    BY <1>0, <1>11 DEF NodeFails, RowOf, Moved
  <2>2. runner' = Resting \/ (runner'.state # None /\ runner'.state.exec = runner.state.exec)
    BY <1>0, <1>11 DEF NodeFails, States
  <2> QED  BY <1>0, <1>11, <2>1, <2>2 DEF NodeFails
<1> QED  BY <1>1, <1>2, <1>3, <1>4, <1>5, <1>6, <1>7, <1>8, <1>9, <1>10, <1>11 DEF Run

\* The monitor keeps the position of the context or is stale; a crash disturbs the
\* executions whose copies it forgets.
LEMMA MonitorInOrder ==
    ASSUME NEW rank \in [Nodes -> Nat], Shape, InOrder(rank),
           Monitor \/ TimeoutElapses \/ Crash
    PROVE  InOrder(rank)'
<1> USE RunJobs, StateTypes DEF InOrder, RepeatsHaveCauses, StartedOnce, Ordered, Behind, Unstarted, RunnerHas,
        OnRun, history
<1>0. /\ flowJobs \in [Jobs -> Nat]
      /\ ctx \in States \cup {None} /\ monitor.state \in States \cup {None}
      /\ runner.state \in States \cup {None} /\ worker.state \in States \cup {None}
      /\ worker.job \in Jobs \cup {None}
      /\ worker.phase = "idle" <=> worker.job = None
      /\ Shaped
  BY DEF Shape, TypeOK
<1>1. CASE FindExpired
  BY <1>0, <1>1 DEF FindExpired
<1>2. CASE RemoveExpired
  BY <1>0, <1>2 DEF RemoveExpired
<1>3. CASE LoadExpired
  BY <1>0, <1>3 DEF LoadExpired, Watching, States
<1>4. CASE TriggerTimeout
  <2> SUFFICES ASSUME NEW x \in Execs \ disturbed'
               PROVE  StartedOnce(x)' /\ Ordered(rank, x)'
    BY <1>4 DEF TriggerTimeout
  <2>1. x \in Execs \ disturbed /\ StartedOnce(x) /\ Ordered(rank, x)
    BY <1>4 DEF TriggerTimeout
  <2>2. monitor.state \in States /\ ctx' = monitor.state
    BY <1>0, <1>4 DEF TriggerTimeout, Shaped
  <2>3. CASE ctx # None /\ ctx.exec = ctx'.exec /\ ctx.node = ctx'.node
    BY <1>0, <1>4, <2>1, <2>2, <2>3 DEF TriggerTimeout, Shaped
  <2>4. CASE (ctx = None \/ ctx.exec # x) /\ monitor.state.exec # x
    BY <1>0, <1>4, <2>1, <2>2, <2>4 DEF TriggerTimeout, Shaped
  <2>5. ~ (ctx # None /\ ctx.exec = ctx'.exec /\ ctx.node = ctx'.node) =>
            (ctx = None \/ ctx.exec # x) /\ monitor.state.exec # x
    BY <1>0, <1>4, <2>2 DEF TriggerTimeout, Overwritten, Owners
  <2> QED  BY <2>3, <2>4, <2>5
<1>5. CASE WakeExpired
  BY <1>0, <1>5 DEF WakeExpired, Watching
<1>6. CASE TimeoutElapses
  BY <1>0, <1>6 DEF TimeoutElapses
<1>7. CASE Crash
  <2> SUFFICES ASSUME NEW x \in Execs \ disturbed'
               PROVE  StartedOnce(x)' /\ Ordered(rank, x)'
    BY <1>7 DEF Crash
  <2>1. x \in Execs \ disturbed /\ StartedOnce(x) /\ Ordered(rank, x)
    BY <1>7 DEF Crash
  <2>2. ~ RunnerHas(x) /\ (worker.state # None => worker.state.exec # x)
    BY <1>0, <1>7 DEF Crash, Owners
  <2>3. worker' = Idle /\ runner' = Resting /\ monitor' = Watching
        /\ UNCHANGED <<row, ctx, done, twice>>
    BY <1>7 DEF Crash
  <2>4. Ordered(rank, x)'
    BY <2>1, <2>2, <2>3 DEF Idle, Resting, Watching
  <2>5. OnRun(x) \/ flowJobs'[RunJob(x)] = flowJobs[RunJob(x)]
    <3>1. CASE worker.phase = "idle" \/ worker.job # RunJob(x)
      BY <1>0, <1>7, <3>1 DEF Crash, Added
    <3>2. CASE worker.phase # "idle" /\ worker.job = RunJob(x)
      <4>1. worker.job.kind = "run" /\ worker.job.exec = x
        BY <3>2
      <4>2. worker.phase \in {"check", "adopt", "running", "begin"}
        BY <1>0, <2>2, <3>2, <4>1 DEF Shaped, Shape, TypeOK
      <4> QED  BY <4>1, <4>2
    <3> QED  BY <3>1, <3>2
  <2>6. flowJobs'[RunJob(x)] \in {flowJobs[RunJob(x)], flowJobs[RunJob(x)] + 1}
    BY <1>0, <1>7 DEF Crash, Added
  <2>7. StartedOnce(x)'
    BY <1>0, <2>1, <2>2, <2>3, <2>5, <2>6 DEF Idle, Resting, Watching
  <2> QED  BY <2>4, <2>7
<1> QED  BY <1>1, <1>2, <1>3, <1>4, <1>5, <1>6, <1>7 DEF Monitor

\* In a flow whose edges go forward, a node is executed again for an execution only
\* after a crash, a failed node, a retry, or a write of the context that was stale.
THEOREM FlowRepeats ==
    ASSUME NEW rank \in [Nodes -> Nat], Forward(rank)
    PROVE  Spec => []RepeatsHaveCauses
<1>1. Init => InOrder(rank)
  BY RunJobs, InitShape DEF Init, InOrder, RepeatsHaveCauses, StartedOnce, Ordered, Behind, Unstarted,
     RunnerHas, OnRun, Idle, Resting, Watching
<1>2. Shape /\ InOrder(rank) /\ UNCHANGED vars => InOrder(rank)'
  BY DEF InOrder, RepeatsHaveCauses, StartedOnce, Ordered, Behind, Unstarted, RunnerHas, OnRun, vars,
     messages, history
<1>3. Shape /\ InOrder(rank) /\ [Next]_vars => InOrder(rank)'
  BY <1>2, BackendInOrder, WorkInOrder, RunInOrder, MonitorInOrder DEF Next, Fault
<1>4. InOrder(rank) => RepeatsHaveCauses
  BY DEF InOrder
<1> QED  BY <1>1, <1>3, <1>4, ShapeInvariant, PTL DEF Spec
----------------------------------------------------------------------------
(***************************************************************************)
(* Hanging flows.  While somebody will wake the runner again nothing need  *)
(* hold; a runner that stops otherwise holds the context's execution, and  *)
(* has found the list empty, armed the timer and marked the wait; at rest  *)
(* the context then says so.                                               *)
(***************************************************************************)
Restarting(x) == flowJobs[RunJob(x)] > 0 \/ OnRun(x)

Rewake ==
    \/ wakeups > 0
    \/ \E m \in Messages : flowJobs[ResumeJob(m)] > 0
    \/ worker.phase \in {"load", "unarm", "answer", "wake"}
    \/ monitor.phase \in {"load", "set", "wake"}

\* The execution has failed, or a run-flow job of it will take it up.
Excused(x) == row[x].status = "FAILED" \/ (Restarting(x) /\ row[x].status # "COMPLETED")

Stopping == runner.phase = "arm" \/ (runner.phase \in {"mark", "save"} /\ runner.next = "WAIT")

Unread == inbox = <<>> \/ pushed # queued

Undisturbed == lost = {} /\ ~ Rewake

RunnerKeeps ==
    /\ runner.phase # "idle" => ctx # None
    /\ Stopping => Kind[At] # "act"
    /\ Undisturbed /\ runner.phase # "idle" => ctx.exec = runner.state.exec
    /\ Undisturbed /\ Stopping =>
        /\ Unread
        /\ runner.phase # "arm" => timer # "none"
        /\ runner.phase = "save" => \/ Excused(runner.state.exec)
                                   \/ row[runner.state.exec].status = "WAITING_INPUT"

RestKeeps ==
    Undisturbed /\ runner.phase = "idle" /\ ctx # None =>
        \/ Excused(ctx.exec)
        \/ Parked /\ row[ctx.exec].status = "WAITING_INPUT" /\ timer # "none" /\ Unread

Kept == RunnerKeeps /\ RestKeeps
LEMMA ResumeJobs ==
    /\ \A m \in Messages : ResumeJob(m) \in Jobs
    /\ \A m \in Messages, x \in Execs : ResumeJob(m) # RunJob(x)
    /\ \A j \in Jobs : j.kind = "resume" => j.msg \in Messages /\ j = ResumeJob(j.msg)
    /\ \A j \in Jobs : j.kind = "run" => j.exec \in Execs /\ j = RunJob(j.exec)
<1>1. ASSUME NEW j \in Jobs, j.kind = "resume"
      PROVE  j.msg \in Messages /\ j = ResumeJob(j.msg)
  <2>1. j \in [kind : {"resume"}, msg : Messages]
    BY <1>1 DEF Jobs
  <2> QED  BY <2>1 DEF ResumeJob
<1>2. ASSUME NEW j \in Jobs, j.kind = "run"
      PROVE  j.exec \in Execs /\ j = RunJob(j.exec)
  BY <1>2, RunJobs, JobTypes
<1>3. \A m \in Messages, x \in Execs : ResumeJob(m) # RunJob(x)
  <2> SUFFICES ASSUME NEW m \in Messages, NEW x \in Execs PROVE ResumeJob(m) # RunJob(x)
    OBVIOUS
  <2>1. ResumeJob(m).kind = "resume" /\ RunJob(x).kind = "run"
    BY DEF ResumeJob, RunJob
  <2> QED  BY <2>1
<1> QED  BY <1>1, <1>2, <1>3, RunJobs

\* The parts of the types the proofs below use.
LEMMA Parts ==
    ASSUME Shape
    PROVE  /\ row \in [Execs -> Rows] /\ flowJobs \in [Jobs -> Nat] /\ wakeups \in Nat
           /\ ctx \in States \cup {None}
           /\ queued \subseteq pushed
           /\ worker.job \in Jobs \cup {None}
           /\ worker.phase = "idle" <=> worker.job = None
           /\ runner.state \in States \cup {None}
           /\ runner.next \in Nodes \cup {None, "WAIT", "END"}
           /\ runner.phase = "idle" <=> runner.state = None
           /\ runner.phase \in {"mark", "save"} <=> runner.next # None
           /\ runner.phase \in {"idle", "node", "arm", "mark", "save"}
           /\ ctx # None => ctx.exec \in Execs /\ ctx.node \in Nodes
           /\ runner.state # None => runner.state.exec \in Execs /\ runner.state.node \in Nodes
  BY StateTypes DEF Shape, TypeOK, Shaped

\* New executions, retries and messages add jobs.
LEMMA BackendKept ==
    ASSUME Shape, Kept,
           \/ \E x \in Execs : CreateExecution(x) \/ RetryExecution(x)
           \/ \E m \in Messages : PushReply(m) \/ PushFails(m) \/ QueueResume(m)
    PROVE  Kept'
<1>1. ASSUME NEW x \in Execs, CreateExecution(x) \/ RetryExecution(x)
      PROVE  Kept'
  <2>1. /\ UNCHANGED <<ctx, timer, inbox, pushed, queued, wakeups, worker, runner, monitor, lost>>
        /\ row' = [row EXCEPT ![x].status = "PENDING"]
        /\ flowJobs' = [flowJobs EXCEPT ![RunJob(x)] = @ + 1]
    BY <1>1 DEF CreateExecution, RetryExecution, messages, Added
  <2>2. Undisturbed' => Undisturbed
    BY <2>1, ResumeJobs, RunJobs, Parts DEF Undisturbed, Rewake
  <2>3. \A y \in Execs : Restarting(y) => Restarting(y)'
    BY <2>1, RunJobs, Parts DEF Restarting, OnRun
  <2>4. Restarting(x)' /\ row'[x].status = "PENDING"
        /\ \A y \in Execs \ {x} : row'[y] = row[y]
    BY <2>1, RunJobs, Parts DEF Restarting, Rows
  <2>5. \A y \in Execs : (Excused(y) => Excused(y)') /\ (y # x => row'[y] = row[y])
                         /\ (y = x => Excused(y)')
    BY <2>3, <2>4 DEF Excused
  <2> QED
    BY <2>1, <2>2, <2>5, Parts DEF Kept, RunnerKeeps, RestKeeps, Stopping, Unread, Parked, At
<1>2. ASSUME NEW m \in Messages, PushReply(m) \/ PushFails(m)
      PROVE  Kept'
  <2>1. /\ UNCHANGED <<row, flowJobs, ctx, timer, wakeups, worker, runner, monitor, lost>>
        /\ Unread'
    BY <1>2, Parts DEF PushReply, PushFails, Unread
  <2>2. /\ Undisturbed' <=> Undisturbed
        /\ \A y \in Execs : Excused(y)' <=> Excused(y)
    BY <2>1 DEF Undisturbed, Rewake, Excused, Restarting, OnRun
  <2> QED  BY <2>1, <2>2, Parts DEF Kept, RunnerKeeps, RestKeeps, Stopping, Parked, At
<1>3. ASSUME NEW m \in Messages, QueueResume(m)
      PROVE  Kept'
  <2>1. UNCHANGED <<ctx, runner>> /\ Rewake'
    BY <1>3, ResumeJobs, Parts DEF QueueResume, Added, Rewake
  <2> QED  BY <2>1 DEF Kept, RunnerKeeps, RestKeeps, Stopping, Undisturbed, At
<1> QED  BY <1>1, <1>2, <1>3
\* Steps that leave the runner alone and wake it later, or give it up.
LEMMA KeptAwake ==
    ASSUME Kept, UNCHANGED runner, ctx' # None \/ UNCHANGED ctx, Rewake' \/ lost' # {}
    PROVE  Kept'
  BY DEF Kept, RunnerKeeps, RestKeeps, Stopping, Undisturbed, At

\* Steps that only change what is known of executions.
LEMMA KeptSame ==
    ASSUME Shape, Kept, UNCHANGED <<ctx, timer, inbox, pushed, queued, runner>>,
           Undisturbed' => Undisturbed,
           \A y \in Execs : Excused(y) => Excused(y)',
           \A y \in Execs : row'[y].status = row[y].status \/ Excused(y)'
    PROVE  Kept'
  BY Parts DEF Kept, RunnerKeeps, RestKeeps, Stopping, Unread, Parked, At

\* The flow-jobs worker takes an execution up or ends as the runner's waker.
LEMMA WorkKept ==
    ASSUME Shape, Kept, Work \/ DropStart
    PROVE  Kept'
<1>1. ASSUME NEW j \in Jobs, TakeJob(j)
      PROVE  Kept'
  <2>1. /\ UNCHANGED <<row, ctx, timer, inbox, pushed, queued, wakeups, runner, monitor, lost>>
        /\ worker.phase = "idle" /\ flowJobs[j] > 0
        /\ flowJobs' = [flowJobs EXCEPT ![j] = @ - 1]
        /\ worker'.job = j
        /\ worker'.phase = IF j.kind = "run" THEN "check" ELSE "load"
    BY <1>1 DEF TakeJob, messages
  <2>2. CASE j.kind = "run"
    <3>1. Undisturbed' => Undisturbed
      BY <2>1, <2>2, ResumeJobs, Parts DEF Undisturbed, Rewake
    <3>2. \A y \in Execs : Restarting(y) => Restarting(y)'
      <4> SUFFICES ASSUME NEW y \in Execs, Restarting(y) PROVE Restarting(y)'
        OBVIOUS
      <4>1. CASE j = RunJob(y)
        BY <2>1, <2>2, <4>1, RunJobs DEF Restarting, OnRun
      <4>2. CASE j # RunJob(y)
        BY <2>1, <4>2, RunJobs, Parts DEF Restarting, OnRun
      <4> QED  BY <4>1, <4>2
    <3> QED  BY <2>1, <3>1, <3>2, KeptSame DEF Excused
  <2>3. CASE j.kind # "run"
    BY <2>1, <2>3, KeptAwake DEF Rewake
  <2> QED  BY <2>2, <2>3
<1>2. CASE CheckExecution
  <2>1. /\ UNCHANGED <<row, flowJobs, ctx, timer, inbox, pushed, queued, wakeups, runner, monitor, lost>>
        /\ worker.phase = "check" /\ worker.job \in Jobs
        /\ \/ worker'.phase = "adopt" /\ worker'.job = worker.job
           \/ /\ row[worker.job.exec].status \in {"COMPLETED", "FAILED"}
              /\ worker'.phase = "idle"
    BY <1>2 DEF CheckExecution, messages, Idle, Shape, TypeOK, Shaped
  <2>2. Undisturbed' => Undisturbed
    BY <2>1 DEF Undisturbed, Rewake
  <2>3. \A y \in Execs : Excused(y) => Excused(y)'
    BY <2>1 DEF Excused, Restarting, OnRun
  <2> QED  BY <2>1, <2>2, <2>3, KeptSame
<1>3. CASE AdoptExecution
  <2>1. /\ UNCHANGED <<row, flowJobs, ctx, timer, inbox, pushed, queued, wakeups, runner, monitor, lost>>
        /\ worker.phase = "adopt" /\ worker'.phase = "running" /\ worker'.job = worker.job
    BY <1>3 DEF AdoptExecution, messages, Shape, TypeOK
  <2>2. (Undisturbed' => Undisturbed) /\ \A y \in Execs : Excused(y) => Excused(y)'
    BY <2>1 DEF Undisturbed, Rewake, Excused, Restarting, OnRun
  <2> QED  BY <2>1, <2>2, KeptSame
<1>4. CASE MarkRunning
  <2>1. /\ UNCHANGED <<flowJobs, ctx, timer, inbox, pushed, queued, wakeups, runner, monitor, lost>>
        /\ worker.phase = "running" /\ worker'.phase = "begin" /\ worker'.job = worker.job
        /\ row' = [row EXCEPT ![worker.job.exec] = RowOf(worker.state, "RUNNING")]
    BY <1>4 DEF MarkRunning, messages, Shape, TypeOK
  <2>2. Undisturbed' => Undisturbed
    BY <2>1 DEF Undisturbed, Rewake
  <2>3. \A y \in Execs : /\ Excused(y) => Excused(y)'
                         /\ row'[y].status = row[y].status \/ Excused(y)'
    BY <2>1, Parts DEF Excused, Restarting, OnRun, RowOf
  <2> QED  BY <2>1, <2>2, <2>3, KeptSame
<1>5. CASE BeginContext \/ StoreReply
  <2>1. UNCHANGED runner /\ ctx' # None /\ worker'.phase = "wake"
    BY <1>5 DEF BeginContext, StoreReply, Shape, TypeOK, Shaped
  <2> QED  BY <2>1, KeptAwake DEF Rewake
<1>6. CASE WakeRunner
  <2>1. UNCHANGED <<runner, ctx>> /\ wakeups' > 0
    BY <1>6, Parts DEF WakeRunner
  <2> QED  BY <2>1, KeptAwake DEF Rewake
<1>7. CASE LoadForReply
  <2>1. CASE ctx = None
    BY <1>7, <2>1 DEF LoadForReply, Kept, RunnerKeeps, RestKeeps, Stopping
  <2>2. CASE ctx # None
    <3>1. UNCHANGED <<runner, ctx>> /\ worker'.phase = "unarm"
      BY <1>7, <2>2 DEF LoadForReply, Shape, TypeOK
    <3> QED  BY <3>1, KeptAwake DEF Rewake
  <2> QED  BY <2>1, <2>2
<1>8. CASE RemoveTimer
  <2>1. UNCHANGED <<runner, ctx>> /\ worker'.phase = "answer"
    BY <1>8 DEF RemoveTimer, Shape, TypeOK
  <2> QED  BY <2>1, KeptAwake DEF Rewake
<1>9. CASE DropStart
  <2>1. UNCHANGED <<runner, ctx>> /\ lost' # {}
    BY <1>9 DEF DropStart
  <2> QED  BY <2>1, KeptAwake
<1> QED  BY <1>1, <1>2, <1>3, <1>4, <1>5, <1>6, <1>7, <1>8, <1>9 DEF Work
\* The runner stops at a question only after it has found the list empty,
\* armed the timer and marked the execution as waiting.
LEMMA RunKept ==
    ASSUME Shape, Shape', Kept, Run \/ LoseFlow \/ PopFails \/ NodeFails
    PROVE  Kept'
<1>0. /\ runner.state # None => runner.state \in States
      /\ \A n \in Nodes : {Then[n], Else[n]} \subseteq Nodes \cup {"END"} /\ "WAIT" \notin {Then[n], Else[n]}
  BY Parts
\* Statements that end in a phase from which the runner goes on.
<1>1. ASSUME UNCHANGED <<ctx, timer, inbox, pushed, queued, flowJobs, wakeups, worker, monitor, lost>>,
             runner.phase # "idle", runner'.phase # "idle",
             runner'.state.exec = runner.state.exec, ~ Stopping'
      PROVE  Kept'
  <2>1. Undisturbed' => Undisturbed
    BY <1>1 DEF Undisturbed, Rewake
  <2> QED  BY <1>1, <2>1 DEF Kept, RunnerKeeps, RestKeeps
<1>2. CASE LoadContext
  <2>1. CASE ctx = None
    BY <1>2, <2>1 DEF LoadContext, Resting, Kept, RunnerKeeps, RestKeeps, Stopping
  <2>2. CASE ctx # None
    BY <1>2, <2>2 DEF LoadContext, Kept, RunnerKeeps, RestKeeps, Stopping
  <2> QED  BY <2>1, <2>2
<1>3. CASE LoseFlow
  <2>1. UNCHANGED <<runner, ctx>> /\ lost' # {}
    BY <1>3 DEF LoseFlow
  <2> QED  BY <2>1, KeptAwake
<1>4. CASE Act \/ ConsumeReply \/ PopReply
  <2>1. /\ runner.phase = "node" /\ runner'.phase = "mark"
        /\ runner'.state.exec = runner.state.exec /\ runner'.next # "WAIT"
        /\ UNCHANGED <<ctx, timer, pushed, queued, flowJobs, wakeups, worker, monitor, lost>>
    BY <1>0, <1>4, Parts
    DEF Act, ConsumeReply, PopReply, Result, Answered, messages, At, States
  <2>2. Undisturbed' => Undisturbed
    BY <2>1 DEF Undisturbed, Rewake
  <2> QED  BY <2>1, <2>2 DEF Kept, RunnerKeeps, RestKeeps, Stopping
<1>5. CASE FindNoReply
  <2>1. /\ runner.phase = "node" /\ Kind[At] # "act" /\ runner.state \in States
        /\ inbox = <<>> /\ runner' = NothingRead(runner.state)
        /\ UNCHANGED <<ctx, timer, inbox, pushed, queued, flowJobs, wakeups, worker, monitor, lost>>
    BY <1>0, <1>5, Parts DEF FindNoReply, messages
  <2>2. /\ runner'.phase \in {"arm", "mark"} /\ runner'.next # "WAIT"
        /\ runner'.state.exec = runner.state.exec /\ runner'.state.node = runner.state.node
    BY <2>1, NothingReadTypes
  <2>3. Undisturbed' => Undisturbed
    BY <2>1 DEF Undisturbed, Rewake
  <2> QED  BY <2>1, <2>2, <2>3 DEF Kept, RunnerKeeps, RestKeeps, Stopping, Unread, At
<1>6. CASE PopFails
  <2>1. /\ runner.phase = "node" /\ Kind[At] # "act" /\ runner.state \in States
        /\ runner' = NothingRead(runner.state) /\ UNCHANGED ctx /\ lost' # {}
    BY <1>0, <1>6, Parts DEF PopFails
  <2>2. /\ runner'.phase \in {"arm", "mark"} /\ runner'.next # "WAIT"
        /\ runner'.state.node = runner.state.node
    BY <2>1, NothingReadTypes
  <2> QED  BY <2>1, <2>2 DEF Kept, RunnerKeeps, RestKeeps, Stopping, Undisturbed, At
<1>7. CASE ArmTimer
  <2>1. /\ runner.phase = "arm" /\ runner'.phase = "mark" /\ runner'.state = runner.state
        /\ timer' = "armed"
        /\ UNCHANGED <<row, ctx, inbox, pushed, queued, flowJobs, wakeups, worker, monitor, lost>>
    BY <1>7 DEF ArmTimer, Result, messages
  <2>2. Undisturbed' => Undisturbed
    BY <2>1 DEF Undisturbed, Rewake
  <2> QED  BY <2>1, <2>2 DEF Kept, RunnerKeeps, RestKeeps, Stopping, Unread, At
<1>8. CASE MarkStatus
  <2>1. /\ runner.phase = "mark" /\ runner'.phase = "save" /\ runner'.next = runner.next
        /\ runner'.state = Moved(runner.state, runner.next) /\ runner.state \in States
        /\ row' = [row EXCEPT ![runner'.state.exec] = RowOf(runner'.state, StatusOf(runner.next))]
        /\ UNCHANGED <<ctx, timer, inbox, pushed, queued, flowJobs, wakeups, worker, monitor, lost>>
    BY <1>0, <1>8, Parts DEF MarkStatus, messages, Shape, TypeOK
  <2>2. runner'.state.exec = runner.state.exec
    BY <2>1 DEF Moved, States
  <2>3. CASE runner.next = "WAIT"
    <3>1. runner'.state = runner.state
      BY <2>1, <2>3 DEF Moved
    <3>2. row'[runner.state.exec].status = "WAITING_INPUT"
      BY <2>1, <2>3, <3>1, Parts DEF StatusOf, RowOf
    <3>3. Undisturbed' => Undisturbed
      BY <2>1 DEF Undisturbed, Rewake
    <3> QED  BY <2>1, <2>3, <3>1, <3>2, <3>3 DEF Kept, RunnerKeeps, RestKeeps, Stopping, Unread, At
  <2>4. CASE runner.next # "WAIT"
    BY <1>1, <2>1, <2>2, <2>4 DEF Stopping
  <2> QED  BY <2>3, <2>4
<1>9. CASE SaveContext
  <2>1. CASE runner.next = "END"
    <3>1. ctx' = None /\ runner' = Resting
      BY <1>9, <2>1 DEF SaveContext
    <3> QED  BY <3>1 DEF Kept, RunnerKeeps, RestKeeps, Stopping, Resting
  <2>2. CASE runner.next \in Nodes
    <3>1. ctx' = runner.state /\ ctx' # None /\ runner'.phase = "node" /\ runner'.state = runner.state
      BY <1>9, <2>2, Parts DEF SaveContext
    <3> QED  BY <3>1 DEF Kept, RunnerKeeps, RestKeeps, Stopping
  <2>3. CASE runner.next = "WAIT"
    <3>1. /\ runner.phase = "save" /\ ctx' = runner.state /\ runner' = Resting
          /\ UNCHANGED <<row, timer, inbox, pushed, queued, flowJobs, wakeups, worker, monitor, lost>>
      BY <1>9, <2>3 DEF SaveContext, messages
    <3>2. PICK x \in Execs : x = runner.state.exec /\ ctx'.exec = x
      BY <3>1, Parts
    <3>3. /\ Undisturbed' => Undisturbed
          /\ Excused(x) => Excused(x)'
      BY <3>1 DEF Undisturbed, Rewake, Excused, Restarting, OnRun
    <3>4. Undisturbed' =>
            \/ Excused(x)
            \/ /\ Kind[runner.state.node] # "act" /\ timer # "none" /\ Unread
               /\ row[x].status = "WAITING_INPUT"
      BY <2>3, <3>1, <3>2, <3>3 DEF Kept, RunnerKeeps, Stopping, At
    <3>5. Undisturbed' =>
            \/ Excused(ctx.exec)'
            \/ Kind[ctx'.node] # "act" /\ row'[ctx'.exec].status = "WAITING_INPUT" /\ timer' # "none" /\ Unread'
      BY <3>1, <3>2, <3>3, <3>4 DEF Unread
    <3> QED  BY <3>1, <3>5 DEF Kept, RunnerKeeps, RestKeeps, Stopping, Parked, Resting
  <2> QED  BY <1>9, <2>1, <2>2, <2>3, Parts DEF SaveContext
<1>10. CASE NodeFails
  <2>1. /\ runner.phase \in {"node", "arm", "mark"} /\ runner.state \in States
        /\ UNCHANGED <<ctx, timer, inbox, pushed, queued, flowJobs, wakeups, worker, monitor, lost>>
    BY <1>0, <1>10, Parts DEF NodeFails, messages
  <2>2. CASE OnError[At] # None
    <3>1. runner'.phase = "node" /\ runner'.state.exec = runner.state.exec
      BY <1>10, <2>1, <2>2 DEF NodeFails, States
    <3> QED  BY <1>1, <2>1, <3>1 DEF Stopping
  <2>3. CASE OnError[At] = None
    <3>1. runner' = Resting /\ row'[runner.state.exec].status = "FAILED"
      BY <1>10, <2>1, <2>3, Parts, StateTypes DEF NodeFails, Moved, RowOf
    <3>2. Undisturbed' => Undisturbed
      BY <2>1 DEF Undisturbed, Rewake
    <3>3. Undisturbed' => Excused(ctx.exec)'
      BY <2>1, <3>1, <3>2 DEF Kept, RunnerKeeps, Excused
    <3> QED  BY <2>1, <3>1, <3>3 DEF Kept, RunnerKeeps, RestKeeps, Stopping, Resting
  <2> QED  BY <2>2, <2>3
<1> QED  BY <1>2, <1>3, <1>4, <1>5, <1>6, <1>7, <1>8, <1>9, <1>10 DEF Run
\* The monitor wakes the runner after it removed a timeout, and a crash leaves
\* its jobs to be run again, unless the monitor was at work.
LEMMA MonitorKept ==
    ASSUME Shape, Shape', Kept, Monitor \/ TimeoutElapses \/ Crash
    PROVE  Kept'
<1>1. CASE FindExpired
  <2>1. /\ UNCHANGED <<row, flowJobs, ctx, timer, inbox, pushed, queued, wakeups, worker, runner, lost>>
        /\ monitor.phase = "idle"
    BY <1>1 DEF FindExpired, messages
  <2>2. (Undisturbed' => Undisturbed) /\ \A y \in Execs : Excused(y) => Excused(y)'
    BY <2>1 DEF Undisturbed, Rewake, Excused, Restarting, OnRun
  <2> QED  BY <2>1, <2>2, KeptSame
<1>2. CASE RemoveExpired
  <2>1. UNCHANGED <<runner, ctx>> /\ monitor'.phase = "load"
    BY <1>2 DEF RemoveExpired
  <2> QED  BY <2>1, KeptAwake DEF Rewake
<1>3. CASE LoadExpired
  <2>1. CASE ctx = None
    BY <1>3, <2>1 DEF LoadExpired, Kept, RunnerKeeps, RestKeeps, Stopping
  <2>2. CASE ctx # None
    <3>1. UNCHANGED <<runner, ctx>> /\ monitor'.phase = "set"
      BY <1>3, <2>2 DEF LoadExpired
    <3> QED  BY <3>1, KeptAwake DEF Rewake
  <2> QED  BY <2>1, <2>2
<1>4. CASE TriggerTimeout
  <2>1. UNCHANGED runner /\ ctx' # None /\ monitor'.phase = "wake"
    BY <1>4 DEF TriggerTimeout, Shape, TypeOK, Shaped
  <2> QED  BY <2>1, KeptAwake DEF Rewake
<1>5. CASE WakeExpired
  <2>1. UNCHANGED <<runner, ctx>> /\ wakeups' > 0
    BY <1>5, Parts DEF WakeExpired
  <2> QED  BY <2>1, KeptAwake DEF Rewake
<1>6. CASE TimeoutElapses
  <2>1. /\ UNCHANGED <<row, flowJobs, ctx, inbox, pushed, queued, wakeups, worker, runner, monitor, lost>>
        /\ timer' = "due"
    BY <1>6 DEF TimeoutElapses, messages
  <2>2. /\ Undisturbed' <=> Undisturbed
        /\ \A y \in Execs : Excused(y)' <=> Excused(y)
    BY <2>1 DEF Undisturbed, Rewake, Excused, Restarting, OnRun
  <2> QED  BY <2>1, <2>2, Parts DEF Kept, RunnerKeeps, RestKeeps, Stopping, Unread, Parked, At
<1>7. CASE Crash
  <2>1. /\ UNCHANGED <<row, ctx, timer, inbox, pushed, queued>>
        /\ runner'.phase = "idle" /\ worker'.phase = "idle"
        /\ lost \subseteq lost'
    BY <1>7 DEF Crash, messages, Idle, Resting
  <2>2. CASE runner.phase # "idle"
    <3>1. wakeups' > 0
      BY <1>7, <2>2, Parts DEF Crash
    <3> QED  BY <2>1, <3>1 DEF Kept, RunnerKeeps, RestKeeps, Stopping, Undisturbed, Rewake
  <2>3. CASE runner.phase = "idle" /\ Undisturbed'
    <3>1. monitor.phase \notin {"load", "set", "wake"}
      BY <1>7, <2>3 DEF Crash, Unresumed, Undisturbed
    <3>2. worker.phase = "wake" => worker.job.kind # "run"
      BY <1>7, <2>3 DEF Crash, Unresumed, Undisturbed
    <3>3. flowJobs' = IF worker.phase = "idle" THEN flowJobs ELSE [flowJobs EXCEPT ![worker.job] = @ + 1]
      BY <1>7 DEF Crash, Added
    <3>4. \A m \in Messages : ~ flowJobs'[ResumeJob(m)] > 0
      BY <2>3 DEF Undisturbed, Rewake
    <3>5. worker.phase \notin {"load", "unarm", "answer", "wake"}
      <4> SUFFICES ASSUME worker.phase \in {"load", "unarm", "answer", "wake"}
                   PROVE  FALSE
        OBVIOUS
      <4>1. worker.job \in Jobs /\ worker.job.kind = "resume"
        BY <3>2, JobTypes DEF Shape, TypeOK, Shaped
      <4>2. worker.job.msg \in Messages /\ worker.job = ResumeJob(worker.job.msg)
        BY <4>1, ResumeJobs
      <4>3. flowJobs'[worker.job] > 0
        BY <3>3, <4>1, Parts
      <4> QED  BY <3>4, <4>2, <4>3
    <3>6. \A j \in Jobs : flowJobs[j] > 0 => flowJobs'[j] > 0
      BY <3>3, Parts
    <3>7. Undisturbed
      <4>1. wakeups = 0
        BY <1>7, <2>3, Parts DEF Crash, Undisturbed, Rewake
      <4>2. \A m \in Messages : ~ flowJobs[ResumeJob(m)] > 0
        BY <3>4, <3>6, ResumeJobs
      <4>3. lost = {}
        BY <2>1, <2>3 DEF Undisturbed
      <4> QED  BY <3>1, <3>5, <4>1, <4>2, <4>3 DEF Undisturbed, Rewake
    <3>8. \A y \in Execs : Restarting(y) => Restarting(y)'
      <4> SUFFICES ASSUME NEW y \in Execs, Restarting(y) PROVE flowJobs'[RunJob(y)] > 0
        BY DEF Restarting
      <4>1. CASE flowJobs[RunJob(y)] > 0
        BY <3>6, <4>1, RunJobs
      <4>2. CASE OnRun(y)
        <5>1. worker.job \in Jobs /\ worker.job = RunJob(y) /\ worker.phase # "idle"
          BY <4>2, ResumeJobs DEF OnRun, Shape, TypeOK, Shaped
        <5> QED  BY <3>3, <5>1, Parts
      <4> QED  BY <4>1, <4>2 DEF Restarting
    <3>9. \A y \in Execs : Excused(y) => Excused(y)'
      BY <2>1, <3>8 DEF Excused
    <3>10. ctx # None => Excused(ctx.exec)' \/ (Parked /\ row[ctx.exec].status = "WAITING_INPUT" /\ timer # "none" /\ Unread)
      <4> SUFFICES ASSUME NEW x \in Execs, ctx # None, ctx.exec = x
                   PROVE  Excused(x)' \/ (Parked /\ row[x].status = "WAITING_INPUT" /\ timer # "none" /\ Unread)
        BY <2>1, Parts
      <4> QED  BY <2>3, <3>7, <3>9 DEF Kept, RestKeeps
    <3> QED  BY <2>1, <3>10 DEF Kept, RunnerKeeps, RestKeeps, Stopping, Unread, Parked
  <2>4. CASE runner.phase = "idle" /\ ~ Undisturbed'
    BY <2>1, <2>4 DEF Kept, RunnerKeeps, RestKeeps, Stopping
  <2> QED  BY <2>2, <2>3, <2>4
<1> QED  BY <1>1, <1>2, <1>3, <1>4, <1>5, <1>6, <1>7 DEF Monitor

LEMMA KeptInvariant == Spec => []Kept
<1>1. Init => Kept
  BY DEF Init, Kept, RunnerKeeps, RestKeeps, Stopping, Resting
<1>2. ASSUME Shape, Kept, UNCHANGED vars
      PROVE  Kept'
  <2>1. (Undisturbed' => Undisturbed) /\ \A y \in Execs : Excused(y) => Excused(y)'
    BY <1>2 DEF Undisturbed, Rewake, Excused, Restarting, OnRun, vars
  <2> QED  BY <1>2, <2>1, KeptSame DEF vars, messages
<1>3. Shape /\ Shape' /\ Kept /\ [Next]_vars => Kept'
  BY <1>2, BackendKept, WorkKept, RunKept, MonitorKept DEF Next, Fault
<1> QED  BY <1>1, <1>3, ShapeInvariant, PTL DEF Spec

\* At rest nobody will wake the runner or take an execution up.
LEMMA QuietAtRest ==
    ASSUME Shape, Quiet
    PROVE  ~ Rewake /\ runner.phase = "idle" /\ \A x \in Execs : ~ Restarting(x)
  BY RunJobs DEF Quiet, Rewake, Restarting, OnRun, Idle, Resting, Watching

\* At rest, and unless a flow could not be loaded or the monitor died at work,
\* the execution in the context has failed or waits at a question with its
\* timeout armed: three loops write whole copies of the context, and yet none
\* leaves a flow that nobody will resume.
THEOREM FlowsGoOn == Spec => []NoFlowHangs
<1>1. Shape /\ Kept => NoFlowHangs
  BY QuietAtRest, Parts DEF Kept, RestKeeps, NoFlowHangs, Undisturbed, Excused
<1> QED  BY <1>1, ShapeInvariant, KeptInvariant, PTL

\* At rest, and unless the list could not be read, no flow stands at a question
\* while a reply waits in the list.
THEOREM FlowsHearReplies == Spec => []RepliesAreHeard
<1>1. ASSUME Shape, Kept, Quiet, Parked, lost = {}
      PROVE  row[ctx.exec].status = "FAILED" \/ inbox = <<>>
  <2>1. ctx # None /\ ctx.exec \in Execs /\ pushed = queued
    BY <1>1, Parts DEF Parked, Quiet
  <2> QED
    BY <1>1, <2>1, QuietAtRest DEF Kept, RestKeeps, Undisturbed, Excused, Unread
<1>2. Shape /\ Kept => RepliesAreHeard
  BY <1>1 DEF RepliesAreHeard
<1> QED  BY <1>2, ShapeInvariant, KeptInvariant, PTL
=============================================================================
