------------------------- MODULE RunExecutionProofs -------------------------
(***************************************************************************)
(* Whatever the processes of a run do, in any interleaving and with any    *)
(* crashes, they do what RunEngine allows: for every graph, every number   *)
(* of workers and requests, every lease and every bound.                   *)
(***************************************************************************)
EXTENDS RunExecution, TaskQueueProofs, FiniteSetTheorems

\* The run as RunEngine sees it, with what is proved of it there.
Rows == INSTANCE RunEngineProofs WITH
    graph <- Graph, Graphs <- {Graph}, task <- Outstanding(TheRun) # {}

-----------------------------------------------------------------------------
(* The scheduler of that module is the scheduler of this one *)

\* The decisions of a tick and the guards of applying them.
LEMMA SameScheduler ==
    /\ \A g, r, s, o : Rows!Tick(g, r, s, o) = Tick(g, r, s, o)
    /\ \A d : Rows!Quiet(d) = Quiet(d) /\ Rows!ClosesTask(d) = ClosesTask(d)
    /\ \A r, s, d : Rows!Applicable(r, s, d) = Applicable(r, s, d)
    /\ \A s, d : Rows!AfterStart(s, d) = AfterStart(s, d)
    /\ \A r, d : Rows!AfterTickRun(r, d) = AfterTickRun(r, d)
    /\ Rows!NodeTransitions = NodeTransitions
BY DEF Rows!Tick, Tick, Rows!Ready, Ready, Rows!Conclusion, Conclusion, Rows!Stranded, Stranded,
   Rows!Prunable, Prunable, Rows!UpstreamSatisfied, UpstreamSatisfied, Rows!UpstreamDead,
   UpstreamDead, Rows!Incoming, Incoming, Rows!IsLive, IsLive, Rows!IsDead, IsDead,
   Rows!NodeTerminal, NodeTerminal, Rows!NodeStatus, NodeStatus, Rows!NodeTransitions,
   NodeTransitions, Rows!NoStatus, NoStatus, Rows!Quiet, Quiet, Rows!ClosesTask, ClosesTask,
   Rows!Settled, Settled, Rows!RunTerminal, RunTerminal, Rows!RunStatus, RunStatus,
   Rows!RunTransitions, RunTransitions, Rows!Applicable, Applicable, Rows!AfterStart, AfterStart,
   Rows!AfterSkip, AfterSkip, Rows!AfterRecover, AfterRecover, Rows!AfterTickRun, AfterTickRun

\* What a run is assumed to execute is what RunEngine assumes of a graph.
LEMMA SameAssumptions == Rows!GraphsAssumption /\ Rows!MaxAttemptAssumption
<1>1. Rows!MaxAttemptAssumption
  BY ExecutionAssumption DEF Rows!MaxAttemptAssumption
<1>2. Rows!GraphsAssumption
  BY ExecutionAssumption DEF Rows!GraphsAssumption, Rows!IsGraph, IsGraph, Rows!IsAcyclic,
     IsAcyclic, Rows!SupportedFanIn, SupportedFanIn
<1> QED
  BY <1>1, <1>2

\* What the engine's invariant says of the rows, in this module's words.
LEMMA EngineFacts ==
    ASSUME Rows!IInv
    PROVE  /\ run \in RunStatus /\ st \in [Graph.nodes -> NodeStatus]
           /\ out \in [Graph.nodes -> SUBSET Handles] /\ att \in [Graph.nodes -> 1 .. MaxAttempt]
           /\ Stranded(Graph, st) \subseteq Ready(Graph, st, out)
           /\ \A n \in Graph.nodes : st[n] = "RUNNING" => run = "RUNNING"
           /\ Settled(run) => Outstanding(TheRun) = {}
           /\ Quiet(Tick(Graph, run, st, out)) => Settled(run)
<1>1. Rows!TypeOK /\ Rows!ExecutedIsSatisfied /\ Rows!RunStatusAgrees /\ Rows!SettledHoldsNoTask
  BY DEF Rows!IInv
<1>2. /\ run \in RunStatus /\ st \in [Graph.nodes -> NodeStatus]
      /\ out \in [Graph.nodes -> SUBSET Handles] /\ att \in [Graph.nodes -> 1 .. MaxAttempt]
  BY <1>1 DEF Rows!TypeOK, Rows!RunStatus, RunStatus, Rows!NodeStatus, NodeStatus
<1>3. Stranded(Graph, st) \subseteq Ready(Graph, st, out)
  BY <1>1 DEF Rows!ExecutedIsSatisfied, Stranded, Ready, Rows!UpstreamSatisfied, UpstreamSatisfied,
     Rows!Incoming, Incoming, Rows!IsLive, IsLive, Rows!IsDead, IsDead
<1>4. \A n \in Graph.nodes : st[n] = "RUNNING" => run = "RUNNING"
  BY <1>1 DEF Rows!RunStatusAgrees
<1>5. Rows!Settled(run) = Settled(run)
  BY DEF Rows!Settled, Settled, Rows!RunTerminal, RunTerminal, Rows!RunStatus, RunStatus,
     Rows!RunTransitions, RunTransitions
<1>6. Settled(run) => Outstanding(TheRun) = {}
  BY <1>1, <1>5 DEF Rows!SettledHoldsNoTask
<1>7. Quiet(Tick(Graph, run, st, out)) => Settled(run)
  <2>1. Rows!IsGraph(Graph) /\ Rows!IsAcyclic(Graph)
    BY SameAssumptions DEF Rows!GraphsAssumption
  <2>2. run \in Rows!RunStatus /\ Rows!Typed(Graph, st)
    BY <1>1 DEF Rows!TypeOK, Rows!Typed
  <2> QED
    BY <1>5, <2>1, <2>2, Rows!QuietIsSettled, SameAssumptions, SameScheduler
<1> QED
  BY <1>2, <1>3, <1>4, <1>6, <1>7

-----------------------------------------------------------------------------
(* The queue, as the processes of the run use it *)

\* Only the run's tasks are ever outstanding.
RowsOfRuns == \A t \in TaskIds : IsOutstanding(t) => tasks[t].run \in Runs

\* Every step is a step of the queue, or leaves the queue alone.
LEMMA StepsOfQueue == [Next]_vars => [QueueNext]_queueVars
<1> SUFFICES ASSUME [Next]_vars PROVE QueueNext \/ UNCHANGED queueVars
  OBVIOUS
<1> USE DEF queueVars
<1>1. CASE UNCHANGED vars
  BY <1>1 DEF vars
<1>2. ASSUME NEW p \in Procs, Step(p)  PROVE QueueNext \/ UNCHANGED queueVars
  <2>1. CASE BeginTick(p) \/ Invoke(p) \/ BeginSettle(p)
    BY <2>1 DEF BeginTick, Invoke, BeginSettle
  <2>2. CASE CommitTick(p)
    BY <2>2, ExecutionAssumption DEF CommitTick, Raise, QueueNext, FinishOutstanding
  <2>3. CASE CommitSettle(p)
    BY <2>3 DEF CommitSettle, Raise
  <2> QED
    BY <1>2, <2>1, <2>2, <2>3 DEF Step
<1>3. ASSUME NEW c \in Resumers, BeginResume(c) \/ CommitResume(c)
      PROVE  QueueNext \/ UNCHANGED queueVars
  <2>1. 0 \in 0 .. MaxDelay
    BY QueueAssumption
  <2> QED
    BY <1>3, <2>1, ExecutionAssumption DEF BeginResume, CommitResume, Raise, QueueNext, Enqueue
<1>4. ASSUME NEW c \in Advancers, RequestAdvance(c)  PROVE UNCHANGED queueVars
  BY <1>4 DEF RequestAdvance
<1>5. ASSUME NEW c \in Callers, Respond(c) \/ CrashCaller(c)  PROVE UNCHANGED queueVars
  BY <1>5 DEF Respond, CrashCaller
<1>6. ASSUME NEW w \in Workers, \/ LockTask(w) \/ ClaimTask(w) \/ Beat(w)
                                \/ ReleaseTask(w) \/ AbandonTask(w) \/ CrashWorker(w)
      PROVE  QueueNext
  BY <1>6 DEF LockTask, ClaimTask, Beat, ReleaseTask, AbandonTask, CrashWorker, QueueNext
<1>7. Elapse => QueueNext
  BY DEF Elapse, QueueNext
<1> QED
  BY <1>1, <1>2, <1>3, <1>4, <1>5, <1>6, <1>7 DEF Next

\* A process that goes on working goes on with its task, and a row that is done is
\* not used again while a process still refers to it.
KeepsTask(w) ==
    Working(w) /\ Working(w)' =>
        /\ held'[w].task = held[w].task
        /\ tasks[held[w].task] = DoneRow => tasks'[held[w].task] = DoneRow

\* Beside the queue's own invariant, a step keeps rows in the run's name and rows
\* that are done as they are.
LEMMA QueueKeeps ==
    ASSUME QInv, RowsOfRuns, [QueueNext]_queueVars
    PROVE  QInv' /\ RowsOfRuns' /\ \A w \in Workers : KeepsTask(w)
<1>0. QInv'
  BY NextQInv
<1>1. /\ tasks \in [TaskIds -> Row] /\ held \in [Workers -> Holding]
      /\ \A w \in Workers : Working(w) => held[w].task \in TaskIds
      /\ \A w \in Workers : held[w].phase = "claiming" =>
            held[w].task \in TaskIds /\ IsOutstanding(held[w].task)
  BY DEF QInv, QueueTypeOK, ClaimsAreSound
<1>2. DoneRow.status = "DONE" /\ \A t \in TaskIds : tasks[t] = DoneRow => ~ IsOutstanding(t)
  BY DoneRowFacts DEF IsOutstanding
<1> DEFINE Keeps == RowsOfRuns' /\ \A w \in Workers : KeepsTask(w)
<1>3. CASE UNCHANGED queueVars
  BY <1>0, <1>3 DEF queueVars, RowsOfRuns, KeepsTask, Working, IsOutstanding
<1>4. ASSUME NEW w \in Workers, UNCHANGED tasks,
             \A v \in Workers \ {w} : held'[v] = held[v],
             ~ Working(w)' \/ held'[w].task = held[w].task
      PROVE  Keeps
  BY <1>4 DEF RowsOfRuns, KeepsTask, Working, IsOutstanding
<1>5. ASSUME NEW w \in Workers, NEW t \in TaskIds, IsOutstanding(t),
             \A u \in TaskIds \ {t} : tasks'[u] = tasks[u],
             tasks'[t].run = tasks[t].run \/ tasks'[t] = DoneRow,
             \A v \in Workers \ {w} : held'[v] = held[v],
             ~ Working(w)' \/ held'[w].task = held[w].task
      PROVE  Keeps
  <2>1. RowsOfRuns'
    BY <1>2, <1>5 DEF RowsOfRuns, IsOutstanding
  <2>2. ASSUME NEW v \in Workers  PROVE KeepsTask(v)
    BY <1>1, <1>2, <1>5 DEF KeepsTask, Working
  <2> QED
    BY <2>1, <2>2
<1>6. ASSUME NEW w \in Workers, NEW t \in TaskIds, Lock(w, t)  PROVE Keeps
  <2>1. UNCHANGED tasks /\ held' = [held EXCEPT ![w] = Holds("claiming", t, TTL)]
    BY <1>6 DEF Lock
  <2>2. (\A v \in Workers \ {w} : held'[v] = held[v]) /\ ~ Working(w)'
    BY <1>1, <2>1 DEF Holds, Working
  <2> QED
    BY <1>4, <2>1, <2>2
<1>7. ASSUME NEW w \in Workers, Claim(w)  PROVE Keeps
  <2>1. /\ held[w].task \in TaskIds /\ IsOutstanding(held[w].task)
        /\ tasks' = [tasks EXCEPT ![held[w].task] =
                       [tasks[held[w].task] EXCEPT !.status = "LEASED", !.owner = w,
                                                   !.left = held[w].left]]
        /\ held' = [held EXCEPT ![w] = [held[w] EXCEPT !.phase = "working"]]
    BY <1>1, <1>7 DEF Claim
  <2>2. /\ \A u \in TaskIds \ {held[w].task} : tasks'[u] = tasks[u]
        /\ tasks'[held[w].task].run = tasks[held[w].task].run
        /\ \A v \in Workers \ {w} : held'[v] = held[v]
        /\ held'[w].task = held[w].task
    BY <1>1, <2>1 DEF Row, Holding
  <2> QED
    BY <1>5, <2>1, <2>2
<1>8. ASSUME NEW w \in Workers, Heartbeat(w)  PROVE Keeps
  <2>1. held[w].task \in TaskIds
    BY <1>1, <1>8 DEF Heartbeat, Working
  <2>2. /\ \A v \in Workers \ {w} : held'[v] = held[v]
        /\ held'[w].task = held[w].task
    BY <1>1, <1>8 DEF Heartbeat, Holding
  <2>3. CASE UNCHANGED tasks
    BY <1>4, <2>2, <2>3
  <2>4. CASE /\ Owns(w, held[w].task)
             /\ tasks' = [tasks EXCEPT ![held[w].task] = [tasks[held[w].task] EXCEPT !.left = TTL]]
    <3>1. /\ IsOutstanding(held[w].task)
          /\ \A u \in TaskIds \ {held[w].task} : tasks'[u] = tasks[u]
          /\ tasks'[held[w].task].run = tasks[held[w].task].run
      BY <1>1, <2>1, <2>4 DEF Row, Owns, IsOutstanding
    <3> QED
      BY <1>5, <2>1, <2>2, <3>1
  <2> QED
    BY <1>8, <2>3, <2>4 DEF Heartbeat
<1>9. ASSUME NEW w \in Workers, held' = [held EXCEPT ![w] = Idle] \/ held' = [held EXCEPT ![w] = Dead]
      PROVE  (\A v \in Workers \ {w} : held'[v] = held[v]) /\ ~ Working(w)'
  BY <1>1, <1>9, IdleFacts DEF Working
<1>10. ASSUME NEW w \in Workers, Release(w)  PROVE Keeps
  <2>1. held[w].task \in TaskIds
    BY <1>1, <1>10 DEF Release
  <2>2. CASE UNCHANGED tasks
    BY <1>4, <1>9, <1>10, <2>2 DEF Release
  <2>3. CASE Owns(w, held[w].task) /\ tasks' = [tasks EXCEPT ![held[w].task] = DoneRow]
    <3>1. /\ IsOutstanding(held[w].task) /\ tasks'[held[w].task] = DoneRow
          /\ \A u \in TaskIds \ {held[w].task} : tasks'[u] = tasks[u]
      BY <1>1, <2>1, <2>3 DEF Owns, IsOutstanding
    <3> QED
      BY <1>5, <1>9, <1>10, <2>1, <3>1 DEF Release
  <2> QED
    BY <1>10, <2>2, <2>3 DEF Release
<1>11. ASSUME NEW w \in Workers, Abandon(w) \/ Crash(w)  PROVE Keeps
  BY <1>4, <1>9, <1>11 DEF Abandon, Crash
<1>12. ASSUME NEW w \in Workers, NEW delay \in 0 .. MaxDelay, Requeue(w, delay)  PROVE Keeps
  <2>1. held[w].task \in TaskIds
    BY <1>1, <1>12 DEF Requeue
  <2>2. CASE UNCHANGED tasks
    BY <1>4, <1>9, <1>12, <2>2 DEF Requeue
  <2>3. CASE /\ Owns(w, held[w].task)
             /\ tasks' = [tasks EXCEPT ![held[w].task] = QueuedRow(tasks[held[w].task].run, delay)]
    <3>1. /\ IsOutstanding(held[w].task) /\ tasks'[held[w].task].run = tasks[held[w].task].run
          /\ \A u \in TaskIds \ {held[w].task} : tasks'[u] = tasks[u]
      BY <1>1, <2>1, <2>3 DEF Owns, IsOutstanding, QueuedRow
    <3> QED
      BY <1>5, <1>9, <1>12, <2>1, <3>1 DEF Requeue
  <2> QED
    BY <1>12, <2>2, <2>3 DEF Requeue
<1>13. CASE PassTime
  <2>1. ASSUME NEW t \in TaskIds
        PROVE  /\ tasks'[t].status = tasks[t].status /\ tasks'[t].run = tasks[t].run
               /\ tasks[t] = DoneRow => tasks'[t] = DoneRow
    BY <1>1, <1>2, <1>13 DEF PassTime, Row
  <2>2. \A w \in Workers : held'[w].phase = held[w].phase /\ held'[w].task = held[w].task
    BY <1>1, <1>13 DEF PassTime, Holding
  <2>3. RowsOfRuns'
    BY <2>1 DEF RowsOfRuns, IsOutstanding
  <2>4. ASSUME NEW w \in Workers, Working(w)
        PROVE  /\ held'[w].task = held[w].task
               /\ tasks[held[w].task] = DoneRow => tasks'[held[w].task] = DoneRow
    BY <1>1, <2>1, <2>2, <2>4
  <2> QED
    BY <1>0, <2>3, <2>4 DEF KeepsTask
<1>14. ASSUME NEW r \in Runs, NEW delay \in 0 .. MaxDelay, Enqueue(r, delay)  PROVE Keeps
  <2>1. CASE UNCHANGED tasks
    BY <1>14, <2>1 DEF Enqueue, RowsOfRuns, KeepsTask, Working, IsOutstanding
  <2>2. ASSUME NEW t \in TaskIds, \A w \in Workers : ~ Refers(w, t),
               tasks' = [tasks EXCEPT ![t] = QueuedRow(r, delay)]
        PROVE  Keeps
    <3>1. tasks'[t].run = r /\ \A u \in TaskIds \ {t} : tasks'[u] = tasks[u]
      BY <1>1, <2>2 DEF QueuedRow
    <3>2. RowsOfRuns'
      BY <3>1 DEF RowsOfRuns, IsOutstanding
    <3>3. ASSUME NEW w \in Workers  PROVE KeepsTask(w)
      BY <1>1, <1>14, <2>2, <3>1 DEF Enqueue, KeepsTask, Working, Refers
    <3> QED
      BY <3>2, <3>3
  <2> QED
    BY <1>14, <2>1, <2>2 DEF Enqueue, Insert
<1>15. ASSUME NEW r \in Runs, FinishOutstanding(r)  PROVE Keeps
  <2>1. held' = held /\ \A t \in TaskIds : tasks'[t] = tasks[t] \/ tasks'[t] = DoneRow
    BY <1>15 DEF FinishOutstanding, Finish
  <2> QED
    BY <1>1, <1>2, <2>1 DEF RowsOfRuns, KeepsTask, Working, IsOutstanding
<1> QED
  BY <1>0, <1>3, <1>6, <1>7, <1>8, <1>10, <1>11, <1>12, <1>13, <1>14, <1>15 DEF QueueNext

-----------------------------------------------------------------------------
(* The inductive invariant *)

\* The snapshots a unit of work may hold, and the decisions worth applying: every
\* tick that is not quiet appends to the event log.
Snapshots ==
    [run : RunStatus, st : [Graph.nodes -> NodeStatus], out : [Graph.nodes -> SUBSET Handles],
     att : [Graph.nodes -> 1 .. MaxAttempt], seq : Nat]

DecidesSomething(s) ==
    LET d == Tick(Graph, s.run, s.st, s.out) IN
    ~Quiet(d) /\ Appends(s.run, d) /\ \A n \in d.recover : s.att[n] < MaxAttempt

\* An open unit of work holds a snapshot of the past. Unless another has been
\* committed since, which the event log tells, it is the present.
SnapshotIsSound(p) ==
    /\ snap[p] \in Snapshots
    /\ snap[p].seq <= seq
    /\ ~Collides(p) => snap[p] = Snapshot

Phases == {"off", "read", "apply", "resume", "invoke", "settle", "write", "returned", "raised"}

\* Where process p is, and what it holds there.
ProcessIsSound(p) ==
    /\ DOMAIN todo[p] \subseteq Graph.nodes
    /\ pc[p] \in {"settle", "write"} => \A n \in DOMAIN todo[p] : todo[p][n] \in Results
    /\ pc[p] \in {"apply", "resume", "write"} => SnapshotIsSound(p)
    /\ pc[p] = "apply" => DecidesSomething(snap[p])
    /\ pc[p] = "resume" =>
          \E n \in Graph.nodes :
              DOMAIN todo[p] = {n} /\ snap[p].st[n] = "WAITING" /\ snap[p].run = "SUSPENDED"

\* A worker whose advance returned has nothing left to release.
ReturnedIsDone ==
    \A w \in Workers : pc[w] = "returned" /\ Working(w) => tasks[held[w].task] = DoneRow

LocalTyped ==
    /\ pc \in [Procs -> Phases] /\ cycles \in [Procs -> 0 .. Limit]
    /\ DOMAIN snap = Procs /\ DOMAIN todo = Procs

XInv ==
    /\ QInv /\ RowsOfRuns /\ Rows!IInv
    /\ seq \in Nat
    /\ LocalTyped
    /\ \A p \in Procs : ProcessIsSound(p)
    /\ ReturnedIsDone

\* The rows a snapshot is taken of.
record == <<run, st, out, att, seq>>

\* A process that does not move keeps what it has: either nothing was committed,
\* or its snapshot is now a stale one.
LEMMA OthersKeep ==
    ASSUME NEW p, ProcessIsSound(p), seq \in Nat, UNCHANGED record \/ seq' = seq + 1,
           pc'[p] = pc[p], snap'[p] = snap[p], todo'[p] = todo[p]
    PROVE  ProcessIsSound(p)'
<1>1. SnapshotIsSound(p) => SnapshotIsSound(p)'
  <2>1. CASE UNCHANGED record
    BY <2>1 DEF record, SnapshotIsSound, Collides, Snapshot
  <2>2. CASE seq' = seq + 1
    BY <2>2 DEF SnapshotIsSound, Collides, Snapshots
  <2> QED
    BY <2>1, <2>2
<1> QED
  BY <1>1 DEF ProcessIsSound

\* A tick of current rows that is not quiet starts, skips or concludes something,
\* and each of these is an event: what it recovers it also starts.
LEMMA BusyTickAppends ==
    ASSUME Rows!IInv, NEW d, d = Tick(Graph, run, st, out), ~Quiet(d)
    PROVE  Appends(run, d)
<1>1. d.recover \subseteq d.start
  BY EngineFacts DEF Tick
<1>2. CASE d.skip \cup d.start # {}
  BY <1>2 DEF Appends
<1>3. CASE d.skip \cup d.start = {}
  <2>1. d.status # NoStatus
    BY <1>1, <1>3 DEF Quiet
  <2>2. Ready(Graph, st, out) = {} /\ Stranded(Graph, st) = {}
    BY <1>1, <1>3 DEF Tick
  <2>3. d.status # "RUNNING"
    BY <2>1, <2>2 DEF Tick, Conclusion, Stranded, NoStatus
  <2> QED
    BY <2>1, <2>3 DEF Appends, RunEventWritten
<1> QED
  BY <1>2, <1>3

\* The task queue in the words of RunEngine: whether the run has a task.
LEMMA QueueEffects ==
    ASSUME QInv
    PROVE  /\ Finish(TheRun) => Outstanding(TheRun)' = {}
           /\ Insert(TheRun, 0) => Outstanding(TheRun)' # {}
           /\ \A w \in Workers :
                (\E t \in TaskIds : Lock(w, t)) \/ Claim(w) \/ Heartbeat(w) \/ Abandon(w) \/ Crash(w) =>
                    Outstanding(TheRun)' = Outstanding(TheRun)
           /\ PassTime => Outstanding(TheRun)' = Outstanding(TheRun)
<1>1. /\ tasks \in [TaskIds -> Row] /\ held \in [Workers -> Holding]
      /\ \A w \in Workers : Working(w) => held[w].task \in TaskIds
      /\ \A w \in Workers : held[w].phase = "claiming" =>
            held[w].task \in TaskIds /\ IsOutstanding(held[w].task)
  BY DEF QInv, QueueTypeOK, ClaimsAreSound
<1>2. ASSUME Finish(TheRun)  PROVE Outstanding(TheRun)' = {}
  BY <1>2, DoneRowFacts DEF Finish, Outstanding, IsOutstanding
<1>3. ASSUME Insert(TheRun, 0)  PROVE Outstanding(TheRun)' # {}
  <2>1. CASE UNCHANGED tasks /\ Outstanding(TheRun) # {}
    BY <2>1 DEF Outstanding, IsOutstanding
  <2>2. ASSUME NEW t \in TaskIds, tasks' = [tasks EXCEPT ![t] = QueuedRow(TheRun, 0)]
        PROVE  Outstanding(TheRun)' # {}
    <3>1. tasks'[t].status = "QUEUED" /\ tasks'[t].run = TheRun
      BY <1>1, <2>2 DEF QueuedRow
    <3>2. t \in Outstanding(TheRun)'
      BY <3>1 DEF Outstanding, IsOutstanding
    <3> QED
      BY <3>2
  <2> QED
    BY <1>3, <2>1, <2>2 DEF Insert
<1>4. ASSUME \A t \in TaskIds : /\ tasks'[t].run = tasks[t].run
                                /\ IsOutstanding(t) <=> IsOutstanding(t)'
      PROVE  Outstanding(TheRun)' = Outstanding(TheRun)
  BY <1>4 DEF Outstanding
<1>5. ASSUME UNCHANGED tasks  PROVE Outstanding(TheRun)' = Outstanding(TheRun)
  BY <1>4, <1>5 DEF IsOutstanding
<1>6. ASSUME NEW w \in Workers, Claim(w)  PROVE Outstanding(TheRun)' = Outstanding(TheRun)
  <2>1. /\ held[w].task \in TaskIds /\ IsOutstanding(held[w].task)
        /\ tasks' = [tasks EXCEPT ![held[w].task] =
                       [tasks[held[w].task] EXCEPT !.status = "LEASED", !.owner = w,
                                                   !.left = held[w].left]]
    BY <1>1, <1>6 DEF Claim
  <2>2. /\ \A t \in TaskIds \ {held[w].task} : tasks'[t] = tasks[t]
        /\ tasks'[held[w].task].run = tasks[held[w].task].run
        /\ tasks'[held[w].task].status = "LEASED"
    BY <1>1, <2>1 DEF Row
  <2> QED
    BY <1>4, <2>1, <2>2 DEF IsOutstanding
<1>7. ASSUME NEW w \in Workers, Heartbeat(w)  PROVE Outstanding(TheRun)' = Outstanding(TheRun)
  <2>1. held[w].task \in TaskIds
    BY <1>1, <1>7 DEF Heartbeat, Working
  <2>2. CASE tasks' = [tasks EXCEPT ![held[w].task] = [tasks[held[w].task] EXCEPT !.left = TTL]]
    <3>1. \A t \in TaskIds : tasks'[t].run = tasks[t].run /\ tasks'[t].status = tasks[t].status
      BY <1>1, <2>1, <2>2 DEF Row
    <3> QED
      BY <1>4, <3>1 DEF IsOutstanding
  <2> QED
    BY <1>5, <1>7, <2>2 DEF Heartbeat
<1>8. ASSUME PassTime  PROVE Outstanding(TheRun)' = Outstanding(TheRun)
  <2>1. \A t \in TaskIds : tasks'[t].run = tasks[t].run /\ tasks'[t].status = tasks[t].status
    BY <1>1, <1>8 DEF PassTime, Row
  <2> QED
    BY <1>4, <2>1 DEF IsOutstanding
<1> QED
  BY <1>2, <1>3, <1>5, <1>6, <1>7, <1>8 DEF Lock, Abandon, Crash

-----------------------------------------------------------------------------
(* Each action of a process, as a transaction of RunEngine and for itself *)

\* Process p moves and no other does; the event log grows unless nothing is
\* written; an advance returns only from a run without a task.
Moves(p) ==
    /\ LocalTyped'
    /\ ProcessIsSound(p)'
    /\ \A q \in Procs \ {p} : pc'[q] = pc[q] /\ snap'[q] = snap[q] /\ todo'[q] = todo[q]
    /\ UNCHANGED record \/ seq' = seq + 1
    /\ pc'[p] = "returned" => pc[p] = "returned" \/ Outstanding(TheRun) = {}

LEMMA RaiseStep ==
    ASSUME XInv, NEW p \in Procs, Raise(p)
    PROVE  Moves(p) /\ UNCHANGED Rows!vars
<1>1. /\ pc' = [pc EXCEPT ![p] = "raised"] /\ todo' = [todo EXCEPT ![p] = Empty]
      /\ snap' = [snap EXCEPT ![p] = NoSnap] /\ UNCHANGED <<tasks, rows, cycles>>
  BY DEF Raise
<1>2. LocalTyped' /\ pc'[p] = "raised" /\ todo'[p] = Empty
  BY <1>1 DEF XInv, LocalTyped, Phases
<1>3. ProcessIsSound(p)'
  BY <1>2 DEF ProcessIsSound, Empty
<1> QED
  BY <1>1, <1>2, <1>3 DEF Moves, XInv, LocalTyped, rows, record, Rows!vars, Outstanding, IsOutstanding

LEMMA ForgetStep ==
    ASSUME XInv, NEW p \in Procs, Forget(p)
    PROVE  Moves(p) /\ UNCHANGED <<run, st, out, att>>
<1>1. /\ pc' = [pc EXCEPT ![p] = "off"] /\ todo' = [todo EXCEPT ![p] = Empty]
      /\ snap' = [snap EXCEPT ![p] = NoSnap] /\ cycles' = [cycles EXCEPT ![p] = 0]
      /\ UNCHANGED rows
  BY DEF Forget
<1>2. 0 \in 0 .. Limit
  BY ExecutionAssumption, FS_CardinalityType DEF Limit
<1>3. LocalTyped' /\ pc'[p] = "off" /\ todo'[p] = Empty
  BY <1>1, <1>2 DEF XInv, LocalTyped, Phases
<1>4. ProcessIsSound(p)'
  BY <1>3 DEF ProcessIsSound, Empty
<1> QED
  BY <1>1, <1>3, <1>4 DEF Moves, XInv, LocalTyped, rows, record

LEMMA BeginTickStep ==
    ASSUME XInv, NEW p \in Procs, BeginTick(p)
    PROVE  Moves(p) /\ UNCHANGED Rows!vars
<1> DEFINE d == Tick(Graph, run, st, out)
<1>1. /\ pc[p] = "read" /\ UNCHANGED <<tasks, held, rows, todo, calls>>
      /\ LocalTyped /\ Limit \in Nat /\ DOMAIN todo[p] \subseteq Graph.nodes
  BY ExecutionAssumption, FS_CardinalityType DEF BeginTick, XInv, ProcessIsSound, Limit
<1>2. UNCHANGED Rows!vars /\ UNCHANGED record
  BY <1>1 DEF rows, record, Rows!vars, Outstanding, IsOutstanding
<1>3. CASE Quiet(d) /\ pc' = [pc EXCEPT ![p] = "returned"] /\ UNCHANGED <<snap, cycles>>
  <2>1. LocalTyped' /\ pc'[p] = "returned" /\ ProcessIsSound(p)'
    BY <1>1, <1>3 DEF LocalTyped, Phases, ProcessIsSound
  <2>2. Outstanding(TheRun) = {}
    BY <1>3, EngineFacts DEF XInv
  <2> QED
    BY <1>1, <1>2, <1>3, <2>1, <2>2 DEF Moves, LocalTyped
<1>4. CASE pc' = [pc EXCEPT ![p] = "raised"] /\ UNCHANGED <<snap, cycles>>
  <2>1. LocalTyped' /\ pc'[p] = "raised" /\ ProcessIsSound(p)'
    BY <1>1, <1>4 DEF LocalTyped, Phases, ProcessIsSound
  <2> QED
    BY <1>1, <1>2, <1>4, <2>1 DEF Moves, LocalTyped
<1>5. CASE /\ ~Quiet(d) /\ cycles[p] < Limit /\ \A n \in d.recover : att[n] < MaxAttempt
           /\ pc' = [pc EXCEPT ![p] = "apply"] /\ snap' = [snap EXCEPT ![p] = Snapshot]
           /\ cycles' = [cycles EXCEPT ![p] = @ + 1]
  <2>1. LocalTyped' /\ pc'[p] = "apply" /\ snap'[p] = Snapshot
    BY <1>1, <1>5 DEF LocalTyped, Phases
  <2>2. Snapshot \in Snapshots /\ Appends(run, d)
    BY <1>5, EngineFacts, BusyTickAppends DEF XInv, Snapshot, Snapshots
  <2>3. Snapshot' = Snapshot /\ seq' = seq /\ seq \in Nat
    BY <1>2 DEF record, Snapshot, XInv
  <2>4. SnapshotIsSound(p)'
    BY <2>1, <2>2, <2>3 DEF SnapshotIsSound, Snapshot, Collides
  <2>5. DecidesSomething(snap'[p])
    BY <1>5, <2>1, <2>2 DEF DecidesSomething, Snapshot
  <2>6. ProcessIsSound(p)'
    BY <1>1, <2>1, <2>4, <2>5 DEF ProcessIsSound
  <2> QED
    BY <1>1, <1>2, <1>5, <2>1, <2>6 DEF Moves, LocalTyped
<1> QED
  BY <1>3, <1>4, <1>5 DEF BeginTick

\* A unit of work that commits what its tick decided has decided it on the rows as
\* they are.
LEMMA TickIsCurrent ==
    ASSUME XInv, NEW p \in Procs, CommitTick(p), ~ Raise(p),
           NEW d, d = Tick(Graph, run, st, out)
    PROVE  /\ Applicable(run, st, d) /\ ~Quiet(d) /\ \A n \in d.recover : att[n] < MaxAttempt
           /\ st' = AfterStart(st, d)
           /\ att' = [n \in Graph.nodes |-> IF n \in d.recover THEN att[n] + 1 ELSE att[n]]
           /\ run' = AfterTickRun(run, d)
           /\ IF ClosesTask(d) THEN Finish(TheRun) ELSE UNCHANGED tasks
           /\ seq' = seq + 1
           /\ pc' = [pc EXCEPT ![p] = IF d.start = {} THEN "read" ELSE "invoke"]
           /\ snap' = [snap EXCEPT ![p] = NoSnap]
           /\ todo' = [todo EXCEPT ![p] =
                         [n \in d.start |-> [attempt |-> att'[n], resumed |-> FALSE]]]
           /\ UNCHANGED <<out, token, issued, cycles, held, calls>>
<1> DEFINE s == snap[p]
           ds == Tick(Graph, s.run, s.st, s.out)
           written == ds.recover \cup ds.skip \cup ds.start
           newAtt == [n \in Graph.nodes |-> IF n \in ds.recover THEN s.att[n] + 1 ELSE att[n]]
<1>1. /\ pc[p] = "apply" /\ SnapshotIsSound(p) /\ DecidesSomething(s)
  BY DEF CommitTick, XInv, ProcessIsSound
<1>2. /\ Applicable(s.run, s.st, ds)
      /\ Appends(s.run, ds) => ~Collides(p)
      /\ st' = [n \in Graph.nodes |-> IF n \in written THEN AfterStart(s.st, ds)[n] ELSE st[n]]
      /\ att' = newAtt
      /\ run' = AfterTickRun(run, ds)
      /\ IF ClosesTask(ds) THEN Finish(TheRun) ELSE UNCHANGED tasks
      /\ seq' = IF Appends(s.run, ds) THEN seq + 1 ELSE seq
      /\ pc' = [pc EXCEPT ![p] = IF ds.start = {} THEN "read" ELSE "invoke"]
      /\ snap' = [snap EXCEPT ![p] = NoSnap]
      /\ todo' = [todo EXCEPT ![p] =
                    [n \in ds.start |-> [attempt |-> newAtt[n], resumed |-> FALSE]]]
      /\ UNCHANGED <<out, token, issued, cycles, held, calls>>
  BY DEF CommitTick
<1>3. Appends(s.run, ds) /\ s = Snapshot
  BY <1>1, <1>2 DEF DecidesSomething, SnapshotIsSound
<1>4. s.run = run /\ s.st = st /\ s.out = out /\ s.att = att /\ ds = d
  BY <1>3 DEF Snapshot
<1>5. st \in [Graph.nodes -> NodeStatus]
  BY EngineFacts DEF XInv
<1>6. ~Quiet(d) /\ \A n \in d.recover : att[n] < MaxAttempt
  BY <1>1, <1>4 DEF DecidesSomething
<1>7. st' = AfterStart(st, d)
  BY <1>2, <1>4, <1>5 DEF AfterStart, AfterSkip, AfterRecover
<1> HIDE DEF ds, written
<1> QED
  BY <1>2, <1>3, <1>4, <1>6, <1>7

\* Raising is what becomes of every unit of work that cannot be committed; what
\* is committed is one Advance on the current rows.
LEMMA CommitTickStep ==
    ASSUME XInv, NEW p \in Procs, CommitTick(p)
    PROVE  Moves(p) /\ (Rows!Advance \/ UNCHANGED Rows!vars)
<1>1. CASE Raise(p)
  BY <1>1, RaiseStep
<1>2. CASE ~ Raise(p)
  <2> DEFINE d == Tick(Graph, run, st, out)
  <2>1. /\ Applicable(run, st, d) /\ ~Quiet(d) /\ \A n \in d.recover : att[n] < MaxAttempt
        /\ st' = AfterStart(st, d)
        /\ att' = [n \in Graph.nodes |-> IF n \in d.recover THEN att[n] + 1 ELSE att[n]]
        /\ run' = AfterTickRun(run, d)
        /\ IF ClosesTask(d) THEN Finish(TheRun) ELSE UNCHANGED tasks
        /\ seq' = seq + 1
        /\ pc' = [pc EXCEPT ![p] = IF d.start = {} THEN "read" ELSE "invoke"]
        /\ snap' = [snap EXCEPT ![p] = NoSnap]
        /\ todo' = [todo EXCEPT ![p] = [n \in d.start |-> [attempt |-> att'[n], resumed |-> FALSE]]]
        /\ UNCHANGED <<out, cycles>>
    BY <1>2, TickIsCurrent
  <2>2. (Outstanding(TheRun)' # {}) = (Outstanding(TheRun) # {} /\ ~ClosesTask(d))
    BY <2>1, QueueEffects DEF XInv, Outstanding, IsOutstanding
  <2>3. Rows!Advance
    BY <2>1, <2>2, SameScheduler DEF Rows!Advance
  <2>4. d.start \subseteq Graph.nodes
    BY DEF Tick, Ready
  <2> HIDE DEF d
  <2>5. LocalTyped' /\ pc'[p] \in {"read", "invoke"} /\ DOMAIN todo'[p] = d.start
    BY <2>1 DEF XInv, LocalTyped, Phases
  <2>6. ProcessIsSound(p)'
    BY <2>4, <2>5 DEF ProcessIsSound
  <2> QED
    BY <2>1, <2>3, <2>5, <2>6 DEF Moves, XInv, LocalTyped
<1> QED
  BY <1>1, <1>2

LEMMA InvokeStep ==
    ASSUME XInv, NEW p \in Procs, Invoke(p)
    PROVE  Moves(p) /\ UNCHANGED Rows!vars
<1>1. PICK results \in [DOMAIN todo[p] -> Results] :
        todo' = [todo EXCEPT ![p] = results] /\ pc' = [pc EXCEPT ![p] = Onward(results)]
  BY DEF Invoke
<1>2. LocalTyped /\ DOMAIN todo[p] \subseteq Graph.nodes /\ UNCHANGED <<tasks, held, rows, snap, cycles>>
  BY DEF Invoke, XInv, ProcessIsSound
<1>3. LocalTyped' /\ pc'[p] \in {"settle", "read", "raised"} /\ todo'[p] = results
  BY <1>1, <1>2 DEF LocalTyped, Phases, Onward
<1>4. ProcessIsSound(p)'
  BY <1>2, <1>3 DEF ProcessIsSound
<1> QED
  BY <1>1, <1>2, <1>3, <1>4 DEF Moves, LocalTyped, rows, record, Rows!vars, Outstanding, IsOutstanding

LEMMA BeginSettleStep ==
    ASSUME XInv, NEW p \in Procs, BeginSettle(p)
    PROVE  Moves(p) /\ UNCHANGED Rows!vars
<1>1. /\ pc[p] = "settle" /\ LocalTyped /\ ProcessIsSound(p) /\ seq \in Nat
      /\ pc' = [pc EXCEPT ![p] = "write"] /\ snap' = [snap EXCEPT ![p] = Snapshot]
      /\ UNCHANGED <<tasks, held, rows, todo, cycles, calls>>
  BY DEF BeginSettle, XInv
<1>2. LocalTyped' /\ pc'[p] = "write" /\ snap'[p] = Snapshot /\ Snapshot' = Snapshot
  BY <1>1 DEF LocalTyped, Phases, Snapshot, rows
<1>3. Snapshot \in Snapshots
  BY <1>1, EngineFacts DEF XInv, Snapshot, Snapshots
<1>4. SnapshotIsSound(p)'
  BY <1>1, <1>2, <1>3 DEF SnapshotIsSound, Snapshot, Collides, rows
<1>5. ProcessIsSound(p)'
  BY <1>1, <1>2, <1>4 DEF ProcessIsSound
<1> QED
  BY <1>1, <1>2, <1>5 DEF Moves, LocalTyped, rows, record, Rows!vars, Outstanding, IsOutstanding

LEMMA CommitSettleStep ==
    ASSUME XInv, NEW p \in Procs, CommitSettle(p)
    PROVE  Moves(p) /\ (Rows!Next \/ UNCHANGED Rows!vars)
<1>1. /\ pc[p] = "write" /\ LocalTyped /\ ProcessIsSound(p) /\ SnapshotIsSound(p) /\ seq \in Nat
      /\ st \in [Graph.nodes -> NodeStatus] /\ out \in [Graph.nodes -> SUBSET Handles]
  BY EngineFacts DEF CommitSettle, XInv, ProcessIsSound
<1>2. PICK n \in ToSettle(todo[p]) :
        LET result == todo[p][n]
            rest == [m \in DOMAIN todo[p] \ {n} |-> todo[p][m]]
        IN  \/ Raise(p)
            \/ /\ <<snap[p].st[n], StatusOf(result)>> \in NodeTransitions
               /\ ~Collides(p)
               /\ st' = [st EXCEPT ![n] = StatusOf(result)]
               /\ out' = IF result.kind = "completed" THEN [out EXCEPT ![n] = result.handles] ELSE out
               /\ seq' = seq + 1
               /\ pc' = [pc EXCEPT ![p] = Onward(rest)]
               /\ snap' = [snap EXCEPT ![p] = NoSnap]
               /\ todo' = [todo EXCEPT ![p] = rest]
               /\ UNCHANGED <<tasks, run, att, cycles>>
  BY DEF CommitSettle
<1> DEFINE result == todo[p][n]
           rest == [m \in DOMAIN todo[p] \ {n} |-> todo[p][m]]
<1>3. n \in Graph.nodes /\ n \in DOMAIN todo[p] /\ result \in Results /\ result.kind # "raised"
  BY <1>1 DEF ProcessIsSound, ToSettle
<1>4. CASE Raise(p)
  BY <1>4, RaiseStep
<1>5. CASE /\ <<snap[p].st[n], StatusOf(result)>> \in NodeTransitions
           /\ ~Collides(p)
           /\ st' = [st EXCEPT ![n] = StatusOf(result)]
           /\ out' = IF result.kind = "completed" THEN [out EXCEPT ![n] = result.handles] ELSE out
           /\ seq' = seq + 1
           /\ pc' = [pc EXCEPT ![p] = Onward(rest)]
           /\ snap' = [snap EXCEPT ![p] = NoSnap]
           /\ todo' = [todo EXCEPT ![p] = rest]
           /\ UNCHANGED <<tasks, run, att, cycles>>
  <2>1. <<st[n], StatusOf(result)>> \in NodeTransitions /\ UNCHANGED Outstanding(TheRun)
    BY <1>1, <1>5 DEF SnapshotIsSound, Snapshot, Outstanding, IsOutstanding
  <2>2. ASSUME result.kind = "completed"  PROVE Rows!Next
    <3>1. result.handles \in SUBSET Handles /\ StatusOf(result) = "SUCCEEDED"
      BY <1>3, <2>2 DEF Results, StatusOf
    <3>2. Rows!Settle(n, "SUCCEEDED", result.handles)
      BY <1>5, <2>1, <2>2, <3>1, SameScheduler DEF Rows!Settle
    <3> QED
      BY <1>3, <3>1, <3>2 DEF Rows!Next, Rows!Succeed
  <2>3. ASSUME result.kind # "completed"  PROVE Rows!Next
    <3>1. out' = [out EXCEPT ![n] = out[n]]
      BY <1>1, <1>5, <2>3
    <3>2. StatusOf(result) \in {"WAITING", "FAILED"}
      BY <1>3, <2>3 DEF Results, StatusOf
    <3>3. Rows!Settle(n, StatusOf(result), out[n])
      BY <1>5, <2>1, <3>1, SameScheduler DEF Rows!Settle
    <3> QED
      BY <1>3, <3>2, <3>3 DEF Rows!Next, Rows!Fail, Rows!Suspend
  <2>4. /\ LocalTyped' /\ pc'[p] \in {"settle", "read", "raised"}
        /\ todo'[p] = rest /\ DOMAIN rest \subseteq DOMAIN todo[p]
        /\ \A m \in DOMAIN rest : rest[m] = todo[p][m]
    BY <1>1, <1>5 DEF LocalTyped, Phases, Onward
  <2>5. ProcessIsSound(p)'
    BY <1>1, <2>4 DEF ProcessIsSound
  <2> QED
    BY <1>1, <1>5, <2>2, <2>3, <2>4, <2>5 DEF Moves, LocalTyped
<1> QED
  BY <1>2, <1>4, <1>5

LEMMA CallersStep ==
    ASSUME XInv, NEW c \in Callers, RequestAdvance(c) \/ Respond(c) \/ CrashCaller(c)
    PROVE  Moves(c) /\ UNCHANGED Rows!vars
<1>1. c \in Procs /\ LocalTyped /\ ProcessIsSound(c)
  BY DEF Procs, XInv
<1>2. CASE RequestAdvance(c)
  <2>1. LocalTyped' /\ pc'[c] = "read" /\ todo'[c] = todo[c]
    BY <1>1, <1>2 DEF RequestAdvance, LocalTyped, Phases
  <2>2. ProcessIsSound(c)'
    BY <1>1, <2>1 DEF ProcessIsSound
  <2> QED
    BY <1>1, <1>2, <2>1, <2>2
    DEF RequestAdvance, Moves, LocalTyped, rows, record, Rows!vars, Outstanding, IsOutstanding
<1>3. CASE Respond(c) \/ CrashCaller(c)
  BY <1>1, <1>3, ForgetStep DEF Respond, CrashCaller, Rows!vars, Outstanding, IsOutstanding
<1> QED
  BY <1>2, <1>3

LEMMA BeginResumeStep ==
    ASSUME XInv, NEW c \in Resumers, BeginResume(c)
    PROVE  Moves(c) /\ UNCHANGED Rows!vars
<1>1. PICK n \in Graph.nodes :
        /\ st[n] = "WAITING" /\ run = "SUSPENDED"
        /\ todo' = [todo EXCEPT ![c] = [m \in {n} |-> [attempt |-> att[n], resumed |-> TRUE]]]
  BY DEF BeginResume
<1>2. /\ c \in Procs /\ LocalTyped /\ seq \in Nat
      /\ pc' = [pc EXCEPT ![c] = "resume"] /\ snap' = [snap EXCEPT ![c] = Snapshot]
      /\ UNCHANGED <<tasks, held, rows, cycles, calls>>
  BY DEF BeginResume, XInv, Procs, Callers
<1>3. /\ LocalTyped' /\ pc'[c] = "resume" /\ snap'[c] = Snapshot /\ Snapshot' = Snapshot
      /\ DOMAIN todo'[c] = {n}
  BY <1>1, <1>2 DEF LocalTyped, Phases, Snapshot, rows
<1>4. Snapshot \in Snapshots
  BY <1>2, EngineFacts DEF XInv, Snapshot, Snapshots
<1>5. SnapshotIsSound(c)'
  BY <1>2, <1>3, <1>4 DEF SnapshotIsSound, Snapshot, Collides, rows
<1>6. ProcessIsSound(c)'
  BY <1>1, <1>3, <1>5 DEF ProcessIsSound, Snapshot
<1> QED
  BY <1>1, <1>2, <1>3, <1>6
  DEF Moves, LocalTyped, rows, record, Rows!vars, Outstanding, IsOutstanding

LEMMA CommitResumeStep ==
    ASSUME XInv, NEW c \in Resumers, CommitResume(c)
    PROVE  Moves(c) /\ (Rows!Next \/ UNCHANGED Rows!vars)
<1>1. /\ c \in Procs /\ pc[c] = "resume" /\ LocalTyped /\ ProcessIsSound(c) /\ SnapshotIsSound(c)
      /\ seq \in Nat /\ st \in [Graph.nodes -> NodeStatus]
  BY EngineFacts DEF CommitResume, XInv, ProcessIsSound, Procs, Callers
<1>2. PICK n \in Graph.nodes :
        DOMAIN todo[c] = {n} /\ snap[c].st[n] = "WAITING" /\ snap[c].run = "SUSPENDED"
  BY <1>1 DEF ProcessIsSound
<1>3. CASE Raise(c)
  BY <1>1, <1>3, RaiseStep
<1>4. CASE ~ Raise(c)
  <2>1. /\ ~Collides(c)
        /\ st' = [m \in Graph.nodes |-> IF m \in DOMAIN todo[c] THEN "RUNNING" ELSE st[m]]
        /\ run' = "RUNNING"
        /\ Insert(TheRun, 0)
        /\ seq' = seq + 1
        /\ pc' = [pc EXCEPT ![c] = "invoke"]
        /\ snap' = [snap EXCEPT ![c] = NoSnap]
        /\ UNCHANGED <<out, att, issued, todo, cycles>>
    BY <1>4 DEF CommitResume
  <2>2. st[n] = "WAITING" /\ run = "SUSPENDED"
    BY <1>1, <1>2, <2>1 DEF SnapshotIsSound, Snapshot
  <2>3. st' = [st EXCEPT ![n] = "RUNNING"]
    BY <1>1, <1>2, <2>1
  <2>4. Outstanding(TheRun)' # {}
    BY <2>1, QueueEffects DEF XInv
  <2>5. Rows!Next
    BY <2>1, <2>2, <2>3, <2>4 DEF Rows!Next, Rows!Resume
  <2>6. LocalTyped' /\ pc'[c] = "invoke" /\ todo'[c] = todo[c]
    BY <1>1, <2>1 DEF LocalTyped, Phases
  <2>7. ProcessIsSound(c)'
    BY <1>1, <2>6 DEF ProcessIsSound
  <2> QED
    BY <1>1, <2>1, <2>5, <2>6, <2>7 DEF Moves, LocalTyped
<1> QED
  BY <1>3, <1>4

\* What a worker does about its task leaves the run alone: the one write that
\* could close it, a release, comes too late to change anything.
LEMMA WorkersStep ==
    ASSUME XInv, NEW w \in Workers,
           LockTask(w) \/ ClaimTask(w) \/ Beat(w) \/ ReleaseTask(w) \/ AbandonTask(w) \/ CrashWorker(w)
    PROVE  Moves(w) /\ UNCHANGED Rows!vars
<1>1. /\ w \in Procs /\ LocalTyped /\ ProcessIsSound(w) /\ QInv
  BY DEF Procs, XInv
<1>2. CASE LockTask(w) \/ Beat(w)
  <2>1. UNCHANGED <<rows, local>> /\ UNCHANGED Outstanding(TheRun)
    BY <1>1, <1>2, QueueEffects DEF LockTask, Beat
  <2>2. LocalTyped' /\ UNCHANGED record
    BY <1>1, <2>1 DEF LocalTyped, local, rows, record
  <2>3. ProcessIsSound(w)'
    BY <1>1, <2>1, <2>2, OthersKeep DEF local, XInv
  <2> QED
    BY <2>1, <2>2, <2>3 DEF Moves, Rows!vars, rows, local
<1>3. CASE ClaimTask(w)
  <2>1. /\ UNCHANGED <<rows, snap, todo, cycles>> /\ UNCHANGED Outstanding(TheRun)
        /\ pc' = [pc EXCEPT ![w] = "read"]
    BY <1>1, <1>3, QueueEffects DEF ClaimTask
  <2>2. LocalTyped' /\ pc'[w] = "read" /\ UNCHANGED record
    BY <1>1, <2>1 DEF LocalTyped, Phases, rows, record
  <2>3. ProcessIsSound(w)'
    BY <1>1, <2>1, <2>2 DEF ProcessIsSound
  <2> QED
    BY <1>1, <2>1, <2>2, <2>3 DEF Moves, LocalTyped, Rows!vars, rows
<1>4. CASE ReleaseTask(w)
  <2>1. tasks[held[w].task] = DoneRow
    BY <1>4 DEF ReleaseTask, Release, XInv, ReturnedIsDone
  <2>2. UNCHANGED tasks
    BY <1>4, <2>1, DoneRowFacts DEF ReleaseTask, Release, Owns
  <2> QED
    BY <1>1, <1>4, <2>2, ForgetStep DEF ReleaseTask, Rows!vars, Outstanding, IsOutstanding
<1>5. CASE AbandonTask(w) \/ CrashWorker(w)
  BY <1>1, <1>5, ForgetStep
  DEF AbandonTask, CrashWorker, Abandon, Crash, Rows!vars, Outstanding, IsOutstanding
<1> QED
  BY <1>2, <1>3, <1>4, <1>5

\* A process works on a task only after claiming it, and begins by reading.
LEMMA WorkStartsByClaiming ==
    ASSUME XInv, [Next]_vars, NEW w \in Workers, Working(w)', ~ Working(w)
    PROVE  ClaimTask(w) /\ pc'[w] = "read"
<1>1. held \in [Workers -> Holding] /\ LocalTyped /\ w \in Procs
  BY DEF XInv, QInv, QueueTypeOK, Procs
<1>2. held'[w].phase # held[w].phase
  BY DEF Working
<1>3. PICK v \in Workers : \/ LockTask(v) \/ ClaimTask(v) \/ Beat(v)
                           \/ ReleaseTask(v) \/ AbandonTask(v) \/ CrashWorker(v)
  <2>1. held' # held
    BY <1>2
  <2>2. ~ Elapse
    BY <1>1, <1>2 DEF Elapse, PassTime, Holding
  <2> QED
    BY <2>1, <2>2 DEF Next, Step, BeginTick, CommitTick, Invoke, BeginSettle, CommitSettle, Raise,
       BeginResume, CommitResume, RequestAdvance, Respond, CrashCaller, vars
<1>4. CASE ClaimTask(v)
  <2>1. v = w
    BY <1>1, <1>2, <1>4 DEF ClaimTask, Claim
  <2> QED
    BY <1>1, <1>4, <2>1 DEF ClaimTask, LocalTyped
<1>5. CASE LockTask(v)
  BY <1>1, <1>2, <1>5 DEF LockTask, Lock, Holds, Working
<1>6. CASE Beat(v)
  BY <1>1, <1>2, <1>6 DEF Beat, Heartbeat, Working, Holding
<1>7. CASE ReleaseTask(v) \/ AbandonTask(v) \/ CrashWorker(v)
  BY <1>1, <1>2, <1>7, IdleFacts
  DEF ReleaseTask, Release, AbandonTask, Abandon, CrashWorker, Crash, Working
<1> QED
  BY <1>3, <1>4, <1>5, <1>6, <1>7

-----------------------------------------------------------------------------
(* The invariant and the refinement *)

\* Every step is made by one process, or by the clock, which moves none.
LEMMA StepsOfEngine ==
    ASSUME XInv, Next
    PROVE  /\ Rows!Next \/ UNCHANGED Rows!vars
           /\ (\E p \in Procs : Moves(p)) \/ UNCHANGED <<rows, local>>
<1>1. ASSUME NEW p \in Procs, Step(p)
      PROVE  Moves(p) /\ (Rows!Next \/ UNCHANGED Rows!vars)
  BY <1>1, BeginTickStep, CommitTickStep, InvokeStep, BeginSettleStep, CommitSettleStep
  DEF Step, Rows!Next
<1>2. Resumers \subseteq Procs /\ Callers \subseteq Procs /\ Workers \subseteq Procs /\ Advancers \subseteq Callers
  BY DEF Procs, Callers
<1>3. CASE Elapse
  <2>1. UNCHANGED <<rows, local>> /\ UNCHANGED Outstanding(TheRun)
    BY <1>3, QueueEffects DEF Elapse, XInv
  <2> QED
    BY <2>1 DEF rows, Rows!vars
<1> QED
  BY <1>1, <1>2, <1>3, BeginResumeStep, CommitResumeStep, CallersStep, WorkersStep DEF Next

LEMMA NextXInv == ASSUME XInv, [Next]_vars PROVE XInv'
<1>1. QInv' /\ RowsOfRuns' /\ \A w \in Workers : KeepsTask(w)
  BY StepsOfQueue, QueueKeeps DEF XInv
<1>2. CASE UNCHANGED vars
  <2>1. UNCHANGED Rows!vars /\ UNCHANGED <<seq, pc, snap, todo, cycles, tasks, held, record>>
    BY <1>2 DEF vars, rows, local, record, Rows!vars, Outstanding, IsOutstanding
  <2>2. Rows!IInv'
    BY <2>1, Rows!NextIInv, SameAssumptions DEF XInv
  <2>3. ASSUME NEW p \in Procs  PROVE ProcessIsSound(p)'
    BY <2>1, <2>3, OthersKeep DEF XInv
  <2> QED
    BY <1>1, <2>1, <2>2, <2>3 DEF XInv, LocalTyped, ReturnedIsDone, Working
<1>3. CASE Next
  <2>1. Rows!IInv'
    BY <1>3, StepsOfEngine, Rows!NextIInv, SameAssumptions DEF XInv
  <2>2. /\ seq' \in Nat /\ LocalTyped' /\ \A p \in Procs : ProcessIsSound(p)'
        /\ \A w \in Workers : pc'[w] = "returned" => pc[w] = "returned" \/ Outstanding(TheRun) = {}
    <3>1. CASE UNCHANGED <<rows, local>>
      <4>1. UNCHANGED <<seq, pc, snap, todo, cycles, record>>
        BY <3>1 DEF rows, local, record
      <4> QED
        BY <4>1, OthersKeep DEF XInv, LocalTyped
    <3>2. ASSUME NEW p \in Procs, Moves(p)
          PROVE  /\ seq' \in Nat /\ LocalTyped' /\ \A q \in Procs : ProcessIsSound(q)'
                 /\ \A w \in Workers :
                        pc'[w] = "returned" => pc[w] = "returned" \/ Outstanding(TheRun) = {}
      <4>1. LocalTyped' /\ ProcessIsSound(p)' /\ (UNCHANGED record \/ seq' = seq + 1) /\ seq \in Nat
        BY <3>2 DEF Moves, XInv
      <4>2. seq' \in Nat
        BY <4>1 DEF record
      <4>3. ASSUME NEW q \in Procs \ {p}  PROVE ProcessIsSound(q)'
        BY <3>2, <4>1, OthersKeep DEF Moves, XInv
      <4>4. ASSUME NEW w \in Workers, pc'[w] = "returned"
            PROVE  pc[w] = "returned" \/ Outstanding(TheRun) = {}
        BY <3>2, <4>4 DEF Moves, Procs
      <4> QED
        BY <4>1, <4>2, <4>3, <4>4
    <3> QED
      BY <1>3, <3>1, <3>2, StepsOfEngine
  <2>3. ReturnedIsDone'
    <3>1. SUFFICES ASSUME NEW w \in Workers, pc'[w] = "returned", Working(w)'
                   PROVE  tasks'[held'[w].task] = DoneRow
      BY DEF ReturnedIsDone
    <3>2. Working(w)
      BY <1>3, <3>1, WorkStartsByClaiming
    <3>3. tasks[held[w].task] = DoneRow
      <4>1. CASE pc[w] = "returned"
        BY <3>2, <4>1 DEF XInv, ReturnedIsDone
      <4>2. CASE Outstanding(TheRun) = {}
        <5>1. held[w].task \in TaskIds /\ Runs = {TheRun} /\ tasks \in [TaskIds -> Row]
          BY <3>2, ExecutionAssumption DEF XInv, QInv, QueueTypeOK, ClaimsAreSound
        <5>2. ~ IsOutstanding(held[w].task)
          BY <4>2, <5>1 DEF XInv, RowsOfRuns, Outstanding
        <5> QED
          BY <5>1, <5>2 DEF XInv, QInv, RowsAreSound, IsOutstanding, Row
      <4> QED
        BY <2>2, <3>1, <4>1, <4>2
    <3> QED
      BY <1>1, <3>1, <3>2, <3>3 DEF KeepsTask
  <2> QED
    BY <1>1, <2>1, <2>2, <2>3 DEF XInv
<1> QED
  BY <1>2, <1>3

LEMMA InitXInv == Init => XInv
<1> SUFFICES ASSUME Init PROVE XInv
  OBVIOUS
<1>1. PICK t0 \in TaskIds : tasks = [u \in TaskIds |-> IF u = t0 THEN QueuedRow(TheRun, 0) ELSE DoneRow]
  BY DEF Init
<1>2. /\ held = [w \in Workers |-> Idle] /\ run = "PENDING" /\ st = [n \in Graph.nodes |-> "PENDING"]
      /\ out = [n \in Graph.nodes |-> {}] /\ att = [n \in Graph.nodes |-> 1] /\ seq = 1
      /\ pc = [p \in Procs |-> "off"] /\ snap = [p \in Procs |-> NoSnap]
      /\ todo = [p \in Procs |-> Empty] /\ cycles = [p \in Procs |-> 0]
  BY DEF Init
<1>3. TheRun \in Runs /\ QueuedRow(TheRun, 0) \in Row
  BY ExecutionAssumption, QueueAssumption DEF QueuedRow, Row
<1>4. /\ tasks \in [TaskIds -> Row] /\ held \in [Workers -> Holding]
      /\ \A w \in Workers : held[w].phase = "idle"
      /\ tasks[t0] = QueuedRow(TheRun, 0) /\ \A u \in TaskIds \ {t0} : tasks[u] = DoneRow
  BY <1>1, <1>2, <1>3, DoneRowFacts, IdleFacts
<1>5. QInv /\ RowsOfRuns
  BY <1>3, <1>4, DoneRowFacts DEF QInv, QueueTypeOK, RowsAreSound, ClaimsAreSound, OneOutstandingPerRun,
     BeliefIsSound, LeaseExclusion, LostIsForGood, Working, IsOutstanding, Owns, RowsOfRuns, QueuedRow
<1>6. t0 \in Outstanding(TheRun)
  BY <1>4 DEF Outstanding, IsOutstanding, QueuedRow
<1>7. Rows!Init
  BY <1>2, <1>6 DEF Rows!Init
<1>8. Rows!IInv
  BY <1>7, Rows!InitIInv, SameAssumptions
<1>9. 0 \in 0 .. Limit
  BY ExecutionAssumption, FS_CardinalityType DEF Limit
<1>10. LocalTyped /\ \A p \in Procs : pc[p] = "off" /\ DOMAIN todo[p] = {}
  BY <1>2, <1>9 DEF LocalTyped, Phases, Empty
<1>11. (\A p \in Procs : ProcessIsSound(p)) /\ ReturnedIsDone
  BY <1>10 DEF ProcessIsSound, ReturnedIsDone, Procs
<1> QED
  BY <1>2, <1>5, <1>8, <1>10, <1>11 DEF XInv

\* The inductive invariant holds of every behaviour.
THEOREM ExecutionInvariant == Spec => []XInv
BY InitXInv, NextXInv, PTL DEF Spec

\* ImplementsEngine speaks of an instance of RunEngine, the proofs of an instance
\* of the module that proves it; they are the same specification.
LEMMA SameEngine ==
    /\ Rows!Init <=> Engine!Init
    /\ Rows!Next <=> Engine!Next
    /\ UNCHANGED Rows!vars <=> UNCHANGED Engine!vars
<1>1. /\ \A g, r, s, o : Engine!Tick(g, r, s, o) = Tick(g, r, s, o)
      /\ \A d : Engine!Quiet(d) = Quiet(d) /\ Engine!ClosesTask(d) = ClosesTask(d)
      /\ \A r, s, d : Engine!Applicable(r, s, d) = Applicable(r, s, d)
      /\ \A s, d : Engine!AfterStart(s, d) = AfterStart(s, d)
      /\ \A r, d : Engine!AfterTickRun(r, d) = AfterTickRun(r, d)
      /\ Engine!NodeTransitions = NodeTransitions
  BY DEF Engine!Tick, Tick, Engine!Ready, Ready, Engine!Conclusion, Conclusion, Engine!Stranded,
     Stranded, Engine!Prunable, Prunable, Engine!UpstreamSatisfied, UpstreamSatisfied,
     Engine!UpstreamDead, UpstreamDead, Engine!Incoming, Incoming, Engine!IsLive, IsLive,
     Engine!IsDead, IsDead, Engine!NodeTerminal, NodeTerminal, Engine!NodeStatus, NodeStatus,
     Engine!NodeTransitions, NodeTransitions, Engine!NoStatus, NoStatus, Engine!Quiet, Quiet,
     Engine!ClosesTask, ClosesTask, Engine!Settled, Settled, Engine!RunTerminal, RunTerminal,
     Engine!RunStatus, RunStatus, Engine!RunTransitions, RunTransitions, Engine!Applicable,
     Applicable, Engine!AfterStart, AfterStart, Engine!AfterSkip, AfterSkip, Engine!AfterRecover,
     AfterRecover, Engine!AfterTickRun, AfterTickRun
<1>2. Rows!Init <=> Engine!Init
  BY DEF Rows!Init, Engine!Init
<1>3. Rows!Advance <=> Engine!Advance
  BY <1>1, SameScheduler DEF Rows!Advance, Engine!Advance
<1>4. \A n, s, o : Rows!Settle(n, s, o) <=> Engine!Settle(n, s, o)
  BY <1>1, SameScheduler DEF Rows!Settle, Engine!Settle
<1>5. \A n : Rows!Resume(n) <=> Engine!Resume(n)
  BY DEF Rows!Resume, Engine!Resume
<1>6. Rows!Next <=> Engine!Next
  BY <1>3, <1>4, <1>5 DEF Rows!Next, Engine!Next, Rows!Succeed, Engine!Succeed, Rows!Fail,
     Engine!Fail, Rows!Suspend, Engine!Suspend
<1>7. UNCHANGED Rows!vars <=> UNCHANGED Engine!vars
  BY DEF Rows!vars, Engine!vars
<1> QED
  BY <1>2, <1>6, <1>7

\* Units of work on stale snapshots, by any number of workers and requests that
\* crash, lapse and race, are whole transactions on current rows: for every graph
\* the run behaves as RunEngine says.
THEOREM ExecutionImplementsEngine == Spec => ImplementsEngine
<1>1. Init => Engine!Init
  <2>1. ASSUME Init  PROVE Rows!Init
    <3>1. PICK t \in TaskIds : tasks = [u \in TaskIds |-> IF u = t THEN QueuedRow(TheRun, 0) ELSE DoneRow]
      BY <2>1 DEF Init
    <3>2. t \in Outstanding(TheRun)
      BY <3>1 DEF Outstanding, IsOutstanding, QueuedRow
    <3> QED
      BY <2>1, <3>2 DEF Init, Rows!Init
  <2> QED
    BY <2>1, SameEngine
<1>2. XInv /\ [Next]_vars => [Engine!Next]_Engine!vars
  <2>1. UNCHANGED vars => UNCHANGED Rows!vars
    BY DEF vars, rows, Rows!vars, Outstanding, IsOutstanding
  <2> QED
    BY <2>1, StepsOfEngine, SameEngine
<1> QED
  BY <1>1, <1>2, ExecutionInvariant, PTL DEF Spec, ImplementsEngine, Engine!Spec

\* What holds of the engine's rows holds of the run's: nothing here but whole
\* transactions on current rows reaches them.
THEOREM ExecutionKeepsRecord ==
    Spec => [](Engine!RecordIsSound)
<1>1. Rows!IInv => Engine!RecordIsSound
  BY DEF Rows!IInv, Engine!RecordIsSound, Rows!ExecutedIsSatisfied, Engine!ExecutedIsSatisfied,
     Rows!SkippedIsDead, Engine!SkippedIsDead, Rows!RunStatusAgrees, Engine!RunStatusAgrees,
     Rows!SettledHoldsNoTask, Engine!SettledHoldsNoTask, Rows!UpstreamSatisfied,
     Engine!UpstreamSatisfied, Rows!UpstreamDead, Engine!UpstreamDead, Rows!Incoming,
     Engine!Incoming, Rows!IsLive, Engine!IsLive, Rows!IsDead, Engine!IsDead, Rows!Settled,
     Engine!Settled, Rows!RunTerminal, Engine!RunTerminal, Rows!RunStatus, Engine!RunStatus,
     Rows!RunTransitions, Engine!RunTransitions
<1>2. XInv => Engine!RecordIsSound
  BY <1>1 DEF XInv
<1> QED
  BY <1>2, ExecutionInvariant, PTL

\* The queue keeps its promises for a run whose workers crash and lapse in the
\* middle of their units of work.
THEOREM ExecutionQueueSafety == Spec => [](OneOutstandingPerRun /\ LeasesAreSound)
<1>1. XInv => OneOutstandingPerRun /\ LeasesAreSound
  BY DEF XInv, QInv, LeasesAreSound
<1> QED
  BY <1>1, ExecutionInvariant, PTL

\* No worker's release ever drops the task of a run still to be driven: by then
\* the tick that settled the run has closed it, or the worker has lost it.
THEOREM ReleasesNothingUnfinished == Spec => NothingReleasedUnfinished
<1> DEFINE Finished == \A w \in Workers :
             pc[w] = "returned" /\ pc'[w] = "off" /\ tasks' # tasks => Settled(run) \/ held'[w] = Dead
<1>1. ASSUME XInv, [Next]_vars  PROVE [Finished]_vars
  <2> SUFFICES ASSUME Next, NEW w \in Workers, pc[w] = "returned", pc'[w] = "off", tasks' # tasks
               PROVE  FALSE
    BY <1>1
  <2>1. LocalTyped /\ ReturnedIsDone /\ w \in Procs
    BY <1>1 DEF XInv, Procs
  <2>2. ASSUME NEW p \in Procs, Step(p)  PROVE FALSE
    BY <2>1, <2>2 DEF LocalTyped, Step, BeginTick, CommitTick, Invoke, BeginSettle, CommitSettle, Raise,
       Onward, Phases
  <2>3. ASSUME NEW c \in Resumers, BeginResume(c) \/ CommitResume(c)  PROVE FALSE
    BY <2>1, <2>3 DEF LocalTyped, BeginResume, CommitResume, Raise
  <2>4. ASSUME NEW c \in Callers, RequestAdvance(c) \/ Respond(c) \/ CrashCaller(c)  PROVE FALSE
    BY <2>4 DEF RequestAdvance, Respond, CrashCaller
  <2>5. ASSUME NEW v \in Workers, LockTask(v) \/ AbandonTask(v) \/ CrashWorker(v)  PROVE FALSE
    BY <2>5 DEF LockTask, Lock, AbandonTask, Abandon, CrashWorker, Crash
  <2>6. ASSUME NEW v \in Workers, ClaimTask(v) \/ Beat(v)  PROVE FALSE
    BY <2>1, <2>6 DEF ClaimTask, Beat, LocalTyped, local
  <2>7. ASSUME NEW v \in Workers, ReleaseTask(v)  PROVE FALSE
    BY <2>1, <2>7, DoneRowFacts DEF ReleaseTask, Release, ReturnedIsDone, Owns
  <2>8. ~ Elapse
    BY DEF Elapse, local
  <2> QED
    BY <2>2, <2>3, <2>4, <2>5, <2>6, <2>7, <2>8 DEF Next, Callers
<1>2. Spec => [][Finished]_vars
  BY <1>1, ExecutionInvariant, PTL DEF Spec
<1> QED
  BY <1>2 DEF NothingReleasedUnfinished

-----------------------------------------------------------------------------
(* Tokens *)

\* What a tick of current rows makes of a node.
LEMMA TickOnNode ==
    ASSUME XInv, NEW d, d = Tick(Graph, run, st, out), NEW n \in Graph.nodes
    PROVE  /\ st[n] \notin {"PENDING", "RUNNING"} => AfterStart(st, d)[n] = st[n]
           /\ st[n] \in {"PENDING", "RUNNING"} => AfterStart(st, d)[n] \in {"PENDING", "SKIPPED", "RUNNING"}
           /\ AfterStart(st, d)[n] = "PENDING" => st[n] = "PENDING"
           /\ n \in d.start => st[n] \in {"PENDING", "RUNNING"} /\ AfterStart(st, d)[n] = "RUNNING"
           /\ n \in d.recover <=> st[n] = "RUNNING"
           /\ d.recover \subseteq d.start /\ d.start \subseteq Graph.nodes
<1>1. st \in [Graph.nodes -> NodeStatus] /\ Stranded(Graph, st) \subseteq Ready(Graph, st, out)
  BY EngineFacts DEF XInv
<1>2. /\ d.recover = Stranded(Graph, st) /\ d.start = Ready(Graph, st, out)
      /\ d.skip = Prunable(Graph, st, out)
  BY DEF Tick
<1> QED
  BY <1>1, <1>2 DEF AfterStart, AfterSkip, AfterRecover, Stranded, Ready, Prunable, NodeStatus

TokenTyped == token \in [Graph.nodes -> 0 .. issued] /\ issued \in 0 .. MaxTokens

TInv == TokenTyped /\ TokensNameSuspensions

LEMMA NextTInv == ASSUME XInv, TInv, [Next]_vars PROVE TInv'
<1> USE DEF TInv, TokenTyped, TokensNameSuspensions
<1>1. st \in [Graph.nodes -> NodeStatus] /\ issued \in Nat /\ token \in [Graph.nodes -> Nat]
  BY EngineFacts, ExecutionAssumption DEF XInv
<1>2. ASSUME UNCHANGED <<token, issued>>,
             \A n \in Graph.nodes : st'[n] = "WAITING" <=> st[n] = "WAITING"
      PROVE  TInv'
  BY <1>2
<1>3. CASE UNCHANGED rows
  BY <1>2, <1>3 DEF rows
<1>4. ASSUME NEW p \in Procs, CommitTick(p)  PROVE TInv'
  <2>1. CASE Raise(p)
    BY <1>3, <2>1 DEF Raise
  <2>2. CASE ~ Raise(p)
    <3> DEFINE d == Tick(Graph, run, st, out)
    <3>1. st' = AfterStart(st, d) /\ UNCHANGED <<token, issued>>
      BY <1>4, <2>2, TickIsCurrent
    <3>2. \A n \in Graph.nodes : st'[n] = "WAITING" <=> st[n] = "WAITING"
      BY <3>1, TickOnNode
    <3> QED
      BY <1>2, <3>1, <3>2
  <2> QED
    BY <2>1, <2>2
<1>5. ASSUME NEW p \in Procs, CommitSettle(p)  PROVE TInv'
  <2>1. CASE Raise(p)
    BY <1>3, <2>1 DEF Raise
  <2>2. CASE ~ Raise(p)
    <3>1. /\ ProcessIsSound(p) /\ SnapshotIsSound(p) /\ pc[p] = "write"
      BY <1>5 DEF CommitSettle, XInv, ProcessIsSound
    <3>2. PICK n \in ToSettle(todo[p]) :
            /\ <<snap[p].st[n], StatusOf(todo[p][n])>> \in NodeTransitions
            /\ ~Collides(p)
            /\ st' = [st EXCEPT ![n] = StatusOf(todo[p][n])]
            /\ IF todo[p][n].kind = "suspended"
               THEN /\ issued < MaxTokens /\ issued' = issued + 1
                    /\ token' = [token EXCEPT ![n] = issued + 1]
               ELSE UNCHANGED <<issued, token>>
      BY <1>5, <2>2 DEF CommitSettle
    <3>3. /\ n \in Graph.nodes /\ todo[p][n] \in Results /\ todo[p][n].kind # "raised"
      BY <3>1, <3>2 DEF ProcessIsSound, ToSettle
    <3>4. <<st[n], StatusOf(todo[p][n])>> \in NodeTransitions
      BY <3>1, <3>2 DEF SnapshotIsSound, Snapshot
    <3>5. CASE todo[p][n].kind = "suspended"
      <4>1. /\ st' = [st EXCEPT ![n] = "WAITING"] /\ issued' = issued + 1 /\ issued < MaxTokens
            /\ token' = [token EXCEPT ![n] = issued + 1]
        BY <3>2, <3>5 DEF StatusOf
      <4> QED
        BY <1>1, <3>3, <4>1, ExecutionAssumption
    <3>6. CASE todo[p][n].kind # "suspended"
      <4>1. StatusOf(todo[p][n]) \in {"SUCCEEDED", "FAILED"} /\ UNCHANGED <<issued, token>>
        BY <3>2, <3>3, <3>6 DEF Results, StatusOf
      <4>2. st[n] = "RUNNING"
        BY <3>4, <4>1 DEF NodeTransitions
      <4> QED
        BY <1>1, <1>2, <3>2, <3>3, <4>1, <4>2
    <3> QED
      BY <3>5, <3>6
  <2> QED
    BY <2>1, <2>2
<1>6. ASSUME NEW c \in Resumers, CommitResume(c)  PROVE TInv'
  <2>1. CASE Raise(c)
    BY <1>3, <2>1 DEF Raise
  <2>2. CASE ~ Raise(c)
    <3>1. /\ st' = [n \in Graph.nodes |-> IF n \in DOMAIN todo[c] THEN "RUNNING" ELSE st[n]]
          /\ token' = [n \in Graph.nodes |-> IF n \in DOMAIN todo[c] THEN 0 ELSE token[n]]
          /\ issued' = issued
      BY <1>6, <2>2 DEF CommitResume
    <3> QED
      BY <1>1, <3>1
  <2> QED
    BY <2>1, <2>2
<1>7. CASE UNCHANGED vars
  BY <1>3, <1>7 DEF vars
<1>8. ASSUME NEW p \in Procs, BeginTick(p) \/ Invoke(p) \/ BeginSettle(p)  PROVE UNCHANGED rows
  BY <1>8 DEF BeginTick, Invoke, BeginSettle
<1>9. ASSUME NEW c \in Procs, \/ BeginResume(c) \/ RequestAdvance(c) \/ Respond(c) \/ CrashCaller(c)
                              \/ LockTask(c) \/ ClaimTask(c) \/ Beat(c) \/ ReleaseTask(c)
                              \/ AbandonTask(c) \/ CrashWorker(c)
      PROVE  UNCHANGED rows
  BY <1>9 DEF BeginResume, RequestAdvance, Respond, CrashCaller, LockTask, ClaimTask, Beat,
     ReleaseTask, AbandonTask, CrashWorker, Forget
<1>10. Elapse => UNCHANGED rows
  BY DEF Elapse
<1> QED
  BY <1>3, <1>4, <1>5, <1>6, <1>7, <1>8, <1>9, <1>10 DEF Next, Step, Procs, Callers

\* A resume token names one suspension of one node: an approval given for one can
\* neither wake another node nor the same node's next suspension.
THEOREM ExecutionTokens == Spec => []TokensNameSuspensions
<1>1. Init => TInv
  BY ExecutionAssumption DEF Init, TInv, TokenTyped, TokensNameSuspensions
<1>2. XInv /\ TInv /\ [Next]_vars => TInv'
  BY NextTInv
<1>3. Spec => []TInv
  BY <1>1, <1>2, ExecutionInvariant, PTL DEF Spec
<1> QED
  BY <1>3, PTL DEF TInv

\* Every reachable state is well typed, tokens and open snapshots included.
THEOREM ExecutionTyped == Spec => []TypeOK
<1>1. Init => TInv
  BY ExecutionAssumption DEF Init, TInv, TokenTyped, TokensNameSuspensions
<1>2. XInv /\ TInv /\ [Next]_vars => TInv'
  BY NextTInv
<1>3. XInv /\ TInv => TypeOK
  BY EngineFacts DEF XInv, TInv, TokenTyped, TypeOK, QInv, LocalTyped, Phases, ProcessIsSound, SnapshotIsSound, Snapshots
<1> QED
  BY <1>1, <1>2, <1>3, ExecutionInvariant, PTL DEF Spec

-----------------------------------------------------------------------------
(* Calls: each attempt of a row is the licence for one fresh call *)

Invocation == [attempt : Nat, resumed : BOOLEAN]

\* Process p is about to call n's runner afresh.
AboutToCall(p, n) == pc[p] = "invoke" /\ n \in DOMAIN todo[p] /\ todo[p][n].resumed = FALSE

\* The attempts whose call is still to come.
OpenAttempts(n) == {todo[p][n].attempt : p \in {q \in Procs : AboutToCall(q, n)}}

InvocationsTyped ==
    \A p \in Procs :
        /\ pc[p] \in {"invoke", "resume"} => \A n \in DOMAIN todo[p] : todo[p][n] \in Invocation
        /\ pc[p] = "resume" => \A n \in DOMAIN todo[p] : todo[p][n].resumed = TRUE

\* Each open attempt is one that the row records and no other process has.
AttemptsAreExclusive ==
    \A p \in Procs, n \in Graph.nodes : AboutToCall(p, n) =>
        /\ todo[p][n].attempt \in 1 .. att[n]
        /\ st[n] # "PENDING"
        /\ \A q \in Procs : AboutToCall(q, n) /\ todo[q][n].attempt = todo[p][n].attempt => q = p

\* A call made has used up an attempt, which none that is open is; the first
\* attempt is the only one an AT_MOST_ONCE node is called in.
CallsAreLicensed ==
    \A n \in Graph.nodes :
        /\ st[n] = "PENDING" => calls[n] = 0
        /\ calls[n] + Cardinality(OpenAttempts(n)) <= att[n]
        /\ n \in AtMostOnce => calls[n] <= 1 /\ (1 \in OpenAttempts(n) => calls[n] = 0)

CInv ==
    /\ calls \in [Graph.nodes -> Nat]
    /\ InvocationsTyped
    /\ AttemptsAreExclusive
    /\ CallsAreLicensed

LEMMA OpenAttemptsFinite ==
    ASSUME XInv, CInv, NEW n \in Graph.nodes
    PROVE  /\ OpenAttempts(n) \subseteq 1 .. att[n] /\ att[n] \in Nat \ {0} /\ calls[n] \in Nat
           /\ IsFiniteSet(OpenAttempts(n)) /\ Cardinality(OpenAttempts(n)) \in Nat
<1>1. att[n] \in Nat \ {0} /\ calls[n] \in Nat
  BY EngineFacts, ExecutionAssumption DEF XInv, CInv
<1>2. OpenAttempts(n) \subseteq 1 .. att[n]
  BY DEF CInv, AttemptsAreExclusive, OpenAttempts
<1>3. IsFiniteSet(OpenAttempts(n))
  <2>1. IsFiniteSet(1 .. att[n])
    BY <1>1, FS_Interval
  <2> QED
    BY <1>2, <2>1, FS_Subset
<1> QED
  BY <1>1, <1>2, <1>3, FS_CardinalityType

\* A process that ends, or goes on to anything but a call, takes nobody's licence.
LEMMA CallsShrink ==
    ASSUME XInv, CInv, NEW p \in Procs, pc'[p] # "invoke",
           pc'[p] = "resume" =>
              \A n \in DOMAIN todo'[p] : todo'[p][n] \in Invocation /\ todo'[p][n].resumed = TRUE,
           \A q \in Procs \ {p} : pc'[q] = pc[q] /\ todo'[q] = todo[q],
           att' = att, calls' = calls,
           \A n \in Graph.nodes : st'[n] = "PENDING" => st[n] = "PENDING"
    PROVE  CInv'
<1>1. \A q \in Procs, n \in Graph.nodes :
        AboutToCall(q, n)' => AboutToCall(q, n) /\ todo'[q] = todo[q]
  BY DEF AboutToCall
<1>2. InvocationsTyped'
  BY DEF CInv, InvocationsTyped
<1>3. AttemptsAreExclusive'
  BY <1>1 DEF CInv, AttemptsAreExclusive
<1>4. ASSUME NEW n \in Graph.nodes
      PROVE  /\ st'[n] = "PENDING" => calls'[n] = 0
             /\ calls'[n] + Cardinality(OpenAttempts(n))' <= att'[n]
             /\ n \in AtMostOnce => calls'[n] <= 1 /\ (1 \in OpenAttempts(n)' => calls'[n] = 0)
  <2>1. OpenAttempts(n)' \subseteq OpenAttempts(n)
    BY <1>1 DEF OpenAttempts
  <2>2. Cardinality(OpenAttempts(n)') <= Cardinality(OpenAttempts(n)) /\ Cardinality(OpenAttempts(n)') \in Nat
    BY <2>1, OpenAttemptsFinite, FS_Subset, FS_CardinalityType
  <2>3. /\ st[n] = "PENDING" => calls[n] = 0
        /\ calls[n] + Cardinality(OpenAttempts(n)) <= att[n]
        /\ n \in AtMostOnce => calls[n] <= 1 /\ (1 \in OpenAttempts(n) => calls[n] = 0)
    BY DEF CInv, CallsAreLicensed
  <2> QED
    BY <2>1, <2>2, <2>3, OpenAttemptsFinite
<1>5. CallsAreLicensed'
  BY <1>4 DEF CallsAreLicensed
<1> QED
  BY <1>2, <1>3, <1>5 DEF CInv

\* The tick that starts a node opens the attempt it has written to the row.
LEMMA TickCInv == ASSUME XInv, CInv, NEW p \in Procs, CommitTick(p) PROVE CInv'
<1>1. LocalTyped /\ pc[p] = "apply" /\ st \in [Graph.nodes -> NodeStatus]
      /\ att \in [Graph.nodes -> 1 .. MaxAttempt]
  BY EngineFacts DEF XInv, CommitTick
<1>2. CASE Raise(p)
  BY <1>1, <1>2, CallsShrink DEF Raise, LocalTyped, rows, CommitTick
<1>3. CASE ~ Raise(p)
  <2> DEFINE d == Tick(Graph, run, st, out)
  <2>1. /\ st' = AfterStart(st, d)
        /\ att' = [n \in Graph.nodes |-> IF n \in d.recover THEN att[n] + 1 ELSE att[n]]
        /\ pc' = [pc EXCEPT ![p] = IF d.start = {} THEN "read" ELSE "invoke"]
        /\ todo' = [todo EXCEPT ![p] = [n \in d.start |-> [attempt |-> att'[n], resumed |-> FALSE]]]
        /\ calls' = calls
    BY <1>3, TickIsCurrent
  <2>2. ASSUME NEW n \in Graph.nodes
        PROVE  /\ AfterStart(st, d)[n] = "PENDING" => st[n] = "PENDING"
               /\ n \in d.start => st[n] \in {"PENDING", "RUNNING"} /\ AfterStart(st, d)[n] = "RUNNING"
               /\ n \in d.recover <=> st[n] = "RUNNING"
               /\ d.recover \subseteq d.start
    BY TickOnNode
  <2>0. d.start \subseteq Graph.nodes
    BY DEF Tick, Ready
  <2> HIDE DEF d
  <2>3. /\ \A q \in Procs \ {p} : pc'[q] = pc[q] /\ todo'[q] = todo[q]
        /\ pc'[p] \in {"read", "invoke"} /\ (pc'[p] = "invoke" <=> d.start # {})
        /\ todo'[p] = [n \in d.start |-> [attempt |-> att'[n], resumed |-> FALSE]]
    BY <1>1, <2>1 DEF LocalTyped
  <2>4. ASSUME NEW n \in Graph.nodes
        PROVE  /\ \A q \in Procs \ {p} : AboutToCall(q, n)' <=> AboutToCall(q, n)
               /\ AboutToCall(p, n)' <=> n \in d.start
               /\ ~ AboutToCall(p, n)
               /\ n \in d.start => todo'[p][n].attempt = att'[n]
    BY <1>1, <2>3 DEF AboutToCall
  <2>5. ASSUME NEW n \in Graph.nodes
        PROVE  OpenAttempts(n)' = IF n \in d.start THEN OpenAttempts(n) \cup {att'[n]} ELSE OpenAttempts(n)
    <3>1. OpenAttempts(n)' = {todo'[q][n].attempt : q \in {r \in Procs : AboutToCall(r, n)'}}
      BY DEF OpenAttempts
    <3> QED
      BY <2>3, <2>4, <3>1 DEF OpenAttempts
  <2>6. ASSUME NEW n \in Graph.nodes
        PROVE  /\ att'[n] \in Nat \ {0} /\ att'[n] >= att[n]
               /\ n \in d.start => att'[n] \notin OpenAttempts(n)
    <3>1. /\ att[n] \in Nat \ {0} /\ OpenAttempts(n) \subseteq 1 .. att[n]
          /\ att'[n] = IF n \in d.recover THEN att[n] + 1 ELSE att[n]
      BY <2>1, OpenAttemptsFinite
    <3>2. n \in d.start /\ n \notin d.recover => OpenAttempts(n) = {}
      BY <2>2 DEF CInv, AttemptsAreExclusive, OpenAttempts
    <3>3. att[n] + 1 \notin 1 .. att[n]
      BY <3>1
    <3>4. att'[n] \in Nat \ {0} /\ att'[n] >= att[n]
      BY <3>1
    <3>5. ASSUME n \in d.start  PROVE att'[n] \notin OpenAttempts(n)
      <4>1. CASE n \in d.recover
        BY <3>1, <3>3, <4>1
      <4>2. CASE n \notin d.recover
        BY <3>2, <3>5, <4>2
      <4> QED
        BY <4>1, <4>2
    <3> QED
      BY <3>4, <3>5
  <2>7. InvocationsTyped'
    <3>1. \A n \in DOMAIN todo'[p] : todo'[p][n] \in Invocation
      BY <2>0, <2>3, <2>6 DEF Invocation
    <3> QED
      BY <2>3, <3>1 DEF CInv, InvocationsTyped
  <2>8. AttemptsAreExclusive'
    <3>1. SUFFICES ASSUME NEW q \in Procs, NEW n \in Graph.nodes, AboutToCall(q, n)'
                   PROVE  /\ todo'[q][n].attempt \in 1 .. att'[n]
                          /\ st'[n] # "PENDING"
                          /\ \A r \in Procs :
                              AboutToCall(r, n)' /\ todo'[r][n].attempt = todo'[q][n].attempt => r = q
      BY DEF AttemptsAreExclusive
    <3>2. CASE q = p
      <4>1. n \in d.start /\ todo'[p][n].attempt = att'[n]
        BY <2>4, <3>1, <3>2
      <4>2. \A r \in Procs \ {p} : AboutToCall(r, n)' => todo'[r][n].attempt \in OpenAttempts(n)
        BY <2>3, <2>4 DEF OpenAttempts
      <4> QED
        <5>1. att'[n] \in Nat \ {0} /\ att'[n] \notin OpenAttempts(n)
          BY <2>6, <4>1
        <5>2. st'[n] # "PENDING"
          BY <2>1, <2>2, <4>1
        <5>3. ASSUME NEW r \in Procs, AboutToCall(r, n)', todo'[r][n].attempt = todo'[q][n].attempt
              PROVE  r = q
          BY <3>2, <4>1, <4>2, <5>1, <5>3
        <5>4. todo'[q][n].attempt \in 1 .. att'[n]
          BY <3>2, <4>1, <5>1
        <5> QED
          BY <5>2, <5>3, <5>4
    <3>3. CASE q # p
      <4>1. AboutToCall(q, n) /\ todo'[q] = todo[q] /\ todo[q][n].attempt \in OpenAttempts(n)
        BY <2>3, <2>4, <3>1, <3>3 DEF OpenAttempts
      <4>2. todo[q][n].attempt \in 1 .. att[n] /\ st[n] # "PENDING"
        BY <4>1 DEF CInv, AttemptsAreExclusive
      <4>3. todo'[q][n].attempt \in 1 .. att'[n] /\ st'[n] # "PENDING"
        BY <1>1, <2>1, <2>2, <2>6, <4>1, <4>2
      <4>4. ASSUME NEW r \in Procs, AboutToCall(r, n)', todo'[r][n].attempt = todo'[q][n].attempt
            PROVE  r = q
        <5>1. CASE r = p
          BY <2>4, <2>6, <4>1, <4>4, <5>1
        <5>2. CASE r # p
          <6>1. AboutToCall(r, n) /\ todo'[r][n].attempt = todo[r][n].attempt
            BY <2>3, <2>4, <4>4, <5>2
          <6>2. todo[r][n].attempt = todo[q][n].attempt
            BY <4>1, <4>4, <6>1
          <6>3. \A s \in Procs :
                  AboutToCall(s, n) /\ todo[s][n].attempt = todo[q][n].attempt => s = q
            BY <4>1 DEF CInv, AttemptsAreExclusive
          <6> QED
            BY <6>1, <6>2, <6>3
        <5> QED
          BY <5>1, <5>2
      <4> QED
        BY <4>3, <4>4
    <3> QED
      BY <3>2, <3>3
  <2>9. CallsAreLicensed'
    <3>1. SUFFICES ASSUME NEW n \in Graph.nodes
                   PROVE  /\ st'[n] = "PENDING" => calls'[n] = 0
                          /\ calls'[n] + Cardinality(OpenAttempts(n))' <= att'[n]
                          /\ n \in AtMostOnce =>
                                calls'[n] <= 1 /\ (1 \in OpenAttempts(n)' => calls'[n] = 0)
      BY DEF CallsAreLicensed
    <3>2. /\ st[n] = "PENDING" => calls[n] = 0
          /\ calls[n] + Cardinality(OpenAttempts(n)) <= att[n]
          /\ n \in AtMostOnce => calls[n] <= 1 /\ (1 \in OpenAttempts(n) => calls[n] = 0)
      BY DEF CInv, CallsAreLicensed
    <3>3. /\ att[n] \in Nat \ {0} /\ calls[n] \in Nat
          /\ IsFiniteSet(OpenAttempts(n)) /\ Cardinality(OpenAttempts(n)) \in Nat
      BY OpenAttemptsFinite
    <3>4. CASE n \notin d.start
      BY <2>1, <2>2, <2>5, <2>6, <3>2, <3>3, <3>4
    <3>5. CASE n \in d.start
      <4>1. /\ OpenAttempts(n)' = OpenAttempts(n) \cup {att'[n]}
            /\ st'[n] = "RUNNING" /\ st[n] \in {"PENDING", "RUNNING"}
        BY <2>1, <2>2, <2>5, <3>5
      <4>0. Cardinality(OpenAttempts(n)') = Cardinality(OpenAttempts(n)) + 1
        BY <2>6, <3>3, <3>5, <4>1, FS_AddElement
      <4>2. CASE st[n] = "RUNNING"
        <5>1. att'[n] = att[n] + 1
          BY <2>1, <2>2, <4>2
        <5> QED
          BY <2>1, <3>2, <3>3, <4>0, <4>1, <5>1
      <4>3. CASE st[n] = "PENDING"
        <5>1. OpenAttempts(n) = {} /\ att'[n] = att[n]
          BY <2>1, <2>2, <4>3 DEF OpenAttempts, CInv, AttemptsAreExclusive
        <5> QED
          BY <2>1, <3>2, <3>3, <4>0, <4>1, <4>3, <5>1, FS_EmptySet
      <4> QED
        BY <4>1, <4>2, <4>3
    <3> QED
      BY <3>4, <3>5
  <2> QED
    BY <2>1, <2>7, <2>8, <2>9 DEF CInv
<1> QED
  BY <1>2, <1>3

\* The call uses up the attempt it was licensed by.
LEMMA InvokeCInv == ASSUME XInv, CInv, NEW p \in Procs, Invoke(p) PROVE CInv'
<1>1. PICK results \in [DOMAIN todo[p] -> Results] :
        /\ \A n \in DOMAIN results : results[n] \in ResultsOf(n, todo[p][n])
        /\ todo' = [todo EXCEPT ![p] = results]
        /\ pc' = [pc EXCEPT ![p] = Onward(results)]
        /\ calls' = [n \in Graph.nodes |->
                        IF n \in ToSettle(results) /\ ~todo[p][n].resumed
                           /\ results[n].kind # "refused"
                        THEN calls[n] + 1 ELSE calls[n]]
  BY DEF Invoke
<1>2. /\ LocalTyped /\ pc[p] = "invoke" /\ UNCHANGED rows
      /\ \A n \in DOMAIN todo[p] : todo[p][n] \in Invocation
  BY DEF Invoke, XInv, CInv, InvocationsTyped
<1>3. /\ \A q \in Procs \ {p} : pc'[q] = pc[q] /\ todo'[q] = todo[q]
      /\ pc'[p] \in {"settle", "read", "raised"}
      /\ UNCHANGED <<st, att>>
  BY <1>1, <1>2 DEF LocalTyped, Onward, rows
<1>4. \A q \in Procs, n \in Graph.nodes : AboutToCall(q, n)' <=> q # p /\ AboutToCall(q, n)
  BY <1>3 DEF AboutToCall
<1>5. InvocationsTyped'
  BY <1>3 DEF CInv, InvocationsTyped
<1>6. AttemptsAreExclusive'
  BY <1>3, <1>4 DEF CInv, AttemptsAreExclusive
<1>7. ASSUME NEW n \in Graph.nodes
      PROVE  /\ calls'[n] \in Nat
             /\ st'[n] = "PENDING" => calls'[n] = 0
             /\ calls'[n] + Cardinality(OpenAttempts(n)') <= att'[n]
             /\ n \in AtMostOnce => calls'[n] <= 1 /\ (1 \in OpenAttempts(n)' => calls'[n] = 0)
  <2>1. /\ st[n] = "PENDING" => calls[n] = 0
        /\ calls[n] + Cardinality(OpenAttempts(n)) <= att[n]
        /\ n \in AtMostOnce => calls[n] <= 1 /\ (1 \in OpenAttempts(n) => calls[n] = 0)
        /\ att[n] \in Nat \ {0} /\ calls[n] \in Nat
        /\ IsFiniteSet(OpenAttempts(n)) /\ Cardinality(OpenAttempts(n)) \in Nat
    BY OpenAttemptsFinite DEF CInv, CallsAreLicensed
  <2>2. OpenAttempts(n)' = {todo[q][n].attempt : q \in {r \in Procs \ {p} : AboutToCall(r, n)}}
    <3>1. OpenAttempts(n)' = {todo'[q][n].attempt : q \in {r \in Procs : AboutToCall(r, n)'}}
      BY DEF OpenAttempts
    <3> QED
      BY <1>3, <1>4, <3>1
  <2>3. CASE AboutToCall(p, n)
    <3> DEFINE a == todo[p][n].attempt
    <3>0. /\ \A q \in Procs : AboutToCall(q, n) /\ todo[q][n].attempt = a => q = p
          /\ a \in 1 .. att[n] /\ st[n] # "PENDING"
      BY <2>3 DEF CInv, AttemptsAreExclusive
    <3>1. OpenAttempts(n)' = OpenAttempts(n) \ {a}
      <4> HIDE DEF a
      <4>1. \A q \in Procs \ {p} : AboutToCall(q, n) => todo[q][n].attempt # a
        BY <3>0
      <4>2. \A q \in Procs : AboutToCall(q, n) /\ todo[q][n].attempt # a => q # p
        BY DEF a
      <4> QED
        BY <2>2, <4>1, <4>2 DEF OpenAttempts
    <3>2. a \in OpenAttempts(n) /\ a \in Nat \ {0} /\ st[n] # "PENDING"
      <4>1. a \in OpenAttempts(n)
        BY <2>3 DEF OpenAttempts
      <4>2. a \in Nat \ {0}
        BY <2>1, <3>0
      <4> QED
        BY <3>0, <4>1, <4>2
    <3>3. Cardinality(OpenAttempts(n)') = Cardinality(OpenAttempts(n)) - 1
      <4> HIDE DEF a
      <4>1. Cardinality(OpenAttempts(n) \ {a}) = Cardinality(OpenAttempts(n)) - 1
        BY <2>1, <3>2, FS_RemoveElement
      <4> QED
        BY <3>1, <4>1
    <3>4. calls'[n] \in {calls[n], calls[n] + 1}
      BY <1>1
    <3>5. calls'[n] \in Nat /\ calls'[n] + Cardinality(OpenAttempts(n)') <= att'[n]
      BY <1>3, <2>1, <3>3, <3>4
    <3>6. ASSUME n \in AtMostOnce, calls'[n] # calls[n]  PROVE a = 1
      <4>1. n \in DOMAIN results /\ results[n].kind # "refused"
        BY <1>1, <3>6 DEF ToSettle
      <4>2. ~ (todo[p][n].attempt > 1)
        BY <1>1, <3>6, <4>1 DEF ResultsOf
      <4> QED
        BY <3>2, <4>2
    <3>7. ASSUME n \in AtMostOnce
          PROVE  calls'[n] <= 1 /\ (1 \in OpenAttempts(n)' => calls'[n] = 0)
      <4>1. CASE calls'[n] = calls[n]
        BY <2>1, <3>1, <3>7, <4>1
      <4>2. CASE calls'[n] # calls[n]
        BY <2>1, <3>1, <3>2, <3>4, <3>6, <3>7, <4>2
      <4> QED
        BY <4>1, <4>2
    <3> QED
      BY <1>3, <3>2, <3>5, <3>7
  <2>4. CASE ~ AboutToCall(p, n)
    <3>1. OpenAttempts(n)' = OpenAttempts(n)
      BY <2>2, <2>4 DEF OpenAttempts
    <3>2. calls'[n] = calls[n]
      BY <1>1, <1>2, <2>4 DEF AboutToCall, ToSettle, Invocation
    <3> QED
      BY <1>3, <2>1, <3>1, <3>2
  <2> QED
    BY <2>3, <2>4
<1>8. calls' \in [Graph.nodes -> Nat]
  BY <1>1, <1>7
<1>9. CallsAreLicensed'
  BY <1>7 DEF CallsAreLicensed
<1> QED
  BY <1>5, <1>6, <1>8, <1>9 DEF CInv

\* A resumed node is not called afresh.
LEMMA ResumeCInv == ASSUME XInv, CInv, NEW c \in Resumers, CommitResume(c) PROVE CInv'
<1>1. /\ c \in Procs /\ LocalTyped /\ pc[c] = "resume"
      /\ \A n \in DOMAIN todo[c] : todo[c][n] \in Invocation /\ todo[c][n].resumed = TRUE
  BY DEF CommitResume, XInv, CInv, InvocationsTyped, Procs, Callers
<1>2. CASE Raise(c)
  BY <1>1, <1>2, CallsShrink DEF Raise, LocalTyped, rows, CommitResume
<1>3. CASE ~ Raise(c)
  <2>1. /\ st' = [n \in Graph.nodes |-> IF n \in DOMAIN todo[c] THEN "RUNNING" ELSE st[n]]
        /\ pc' = [pc EXCEPT ![c] = "invoke"]
        /\ UNCHANGED <<att, todo, calls>>
    BY <1>3 DEF CommitResume
  <2>2. /\ \A q \in Procs \ {c} : pc'[q] = pc[q]
        /\ pc'[c] = "invoke"
        /\ \A n \in Graph.nodes : st'[n] = "PENDING" => st[n] = "PENDING"
    BY <1>1, <2>1 DEF LocalTyped
  <2>3. \A q \in Procs, n \in Graph.nodes : AboutToCall(q, n)' <=> AboutToCall(q, n)
    BY <1>1, <2>1, <2>2 DEF AboutToCall
  <2>4. \A n \in Graph.nodes : OpenAttempts(n)' = OpenAttempts(n)
    BY <2>1, <2>3 DEF OpenAttempts
  <2>5. InvocationsTyped'
    BY <1>1, <2>1, <2>2 DEF CInv, InvocationsTyped
  <2>6. AttemptsAreExclusive'
    BY <2>1, <2>2, <2>3 DEF CInv, AttemptsAreExclusive
  <2>7. CallsAreLicensed'
    BY <2>1, <2>2, <2>4 DEF CInv, CallsAreLicensed
  <2> QED
    BY <2>1, <2>5, <2>6, <2>7 DEF CInv
<1> QED
  BY <1>2, <1>3

LEMMA NextCInv == ASSUME XInv, CInv, [Next]_vars PROVE CInv'
<1>1. /\ LocalTyped /\ st \in [Graph.nodes -> NodeStatus] /\ att \in [Graph.nodes -> 1 .. MaxAttempt]
  BY EngineFacts DEF XInv
<1>2. CASE UNCHANGED <<rows, local, calls>>
  <2>1. UNCHANGED <<st, att, pc, todo, calls>>
    BY <1>2 DEF rows, local
  <2>2. \A p \in Procs, n \in Graph.nodes : AboutToCall(p, n)' <=> AboutToCall(p, n)
    BY <2>1 DEF AboutToCall
  <2>3. \A n \in Graph.nodes : OpenAttempts(n)' = OpenAttempts(n)
    BY <2>1, <2>2 DEF OpenAttempts
  <2> QED
    BY <2>1, <2>2, <2>3 DEF CInv, InvocationsTyped, AttemptsAreExclusive, CallsAreLicensed
<1>3. ASSUME NEW p \in Procs, Forget(p)  PROVE CInv'
  BY <1>1, <1>3, CallsShrink DEF Forget, LocalTyped, rows
<1>4. ASSUME NEW p \in Procs, BeginTick(p) \/ BeginSettle(p) \/ RequestAdvance(p) \/ ClaimTask(p)
      PROVE  CInv'
  <2>1. /\ \A q \in Procs \ {p} : pc'[q] = pc[q]
        /\ pc'[p] \notin {"invoke", "resume"} /\ UNCHANGED <<rows, todo, calls>>
    BY <1>1, <1>4 DEF BeginTick, BeginSettle, RequestAdvance, ClaimTask, LocalTyped
  <2> QED
    BY <2>1, CallsShrink DEF rows
<1>5. ASSUME NEW c \in Resumers, BeginResume(c)  PROVE CInv'
  <2>1. c \in Procs
    BY DEF Procs, Callers
  <2>2. PICK n \in Graph.nodes :
          todo' = [todo EXCEPT ![c] = [m \in {n} |-> [attempt |-> att[n], resumed |-> TRUE]]]
    BY <1>5 DEF BeginResume
  <2>3. pc' = [pc EXCEPT ![c] = "resume"] /\ UNCHANGED <<rows, calls>>
    BY <1>5 DEF BeginResume
  <2>4. att[n] \in Nat
    BY <1>1, ExecutionAssumption
  <2>5. /\ \A q \in Procs \ {c} : pc'[q] = pc[q] /\ todo'[q] = todo[q]
        /\ pc'[c] = "resume"
        /\ \A m \in DOMAIN todo'[c] : todo'[c][m] \in Invocation /\ todo'[c][m].resumed = TRUE
    BY <1>1, <2>1, <2>2, <2>3, <2>4 DEF LocalTyped, Invocation
  <2> QED
    BY <2>1, <2>3, <2>5, CallsShrink DEF rows
<1>6. ASSUME NEW p \in Procs, CommitSettle(p)  PROVE CInv'
  <2>1. CASE Raise(p)
    BY <1>1, <1>6, <2>1, CallsShrink DEF Raise, LocalTyped, rows, CommitSettle
  <2>2. CASE ~ Raise(p)
    <3>1. PICK n \in ToSettle(todo[p]) :
            /\ st' = [st EXCEPT ![n] = StatusOf(todo[p][n])]
            /\ pc' = [pc EXCEPT ![p] = Onward([m \in DOMAIN todo[p] \ {n} |-> todo[p][m]])]
            /\ todo' = [todo EXCEPT ![p] = [m \in DOMAIN todo[p] \ {n} |-> todo[p][m]]]
            /\ UNCHANGED <<att, calls>>
      BY <1>6, <2>2 DEF CommitSettle
    <3>2. n \in Graph.nodes /\ todo[p][n] \in Results /\ todo[p][n].kind # "raised"
      BY <1>6, <3>1 DEF CommitSettle, XInv, ProcessIsSound, ToSettle
    <3>3. StatusOf(todo[p][n]) # "PENDING"
      BY <3>2 DEF Results, StatusOf
    <3>4. /\ \A q \in Procs \ {p} : pc'[q] = pc[q] /\ todo'[q] = todo[q]
          /\ pc'[p] \notin {"invoke", "resume"}
      BY <1>1, <3>1 DEF LocalTyped, Onward
    <3>5. \A m \in Graph.nodes : st'[m] = "PENDING" => st[m] = "PENDING"
      BY <1>1, <3>1, <3>3
    <3> QED
      BY <3>1, <3>4, <3>5, CallsShrink
  <2> QED
    BY <2>1, <2>2
<1>7. Resumers \subseteq Procs /\ Callers \subseteq Procs /\ Workers \subseteq Procs /\ Advancers \subseteq Callers
  BY DEF Procs, Callers
<1>8. ASSUME NEW w \in Workers, \/ LockTask(w) \/ ClaimTask(w) \/ Beat(w)
                                \/ ReleaseTask(w) \/ AbandonTask(w) \/ CrashWorker(w)
      PROVE  CInv'
  BY <1>2, <1>3, <1>4, <1>7, <1>8 DEF LockTask, Beat, ReleaseTask, AbandonTask, CrashWorker
<1>9. CASE UNCHANGED vars
  BY <1>2, <1>9 DEF vars
<1>10. ASSUME NEW c \in Callers, Respond(c) \/ CrashCaller(c) \/ RequestAdvance(c)  PROVE CInv'
  BY <1>3, <1>4, <1>7, <1>10 DEF Respond, CrashCaller
<1>11. ASSUME NEW p \in Procs, Step(p)  PROVE CInv'
  BY <1>4, <1>6, <1>11, TickCInv, InvokeCInv DEF Step
<1>12. Elapse => CInv'
  BY <1>2 DEF Elapse
<1> QED
  BY <1>5, <1>7, <1>8, <1>9, <1>10, <1>11, <1>12, ResumeCInv DEF Next

\* No side effect is asked for twice, whoever crashes, lapses or races: each
\* attempt of a row licenses one fresh call, and an AT_MOST_ONCE node gets one.
THEOREM ExecutionCalls == Spec => []CallsAreNotRepeated
<1>1. Init => CInv
  <2> SUFFICES ASSUME Init PROVE CInv
    OBVIOUS
  <2>1. /\ att = [n \in Graph.nodes |-> 1] /\ pc = [p \in Procs |-> "off"]
        /\ calls = [n \in Graph.nodes |-> 0]
    BY DEF Init
  <2>2. \A n \in Graph.nodes : OpenAttempts(n) = {}
    BY <2>1 DEF OpenAttempts, AboutToCall
  <2> QED
    BY <2>1, <2>2, FS_EmptySet
    DEF CInv, InvocationsTyped, AttemptsAreExclusive, CallsAreLicensed, AboutToCall
<1>2. XInv /\ CInv /\ [Next]_vars => CInv'
  BY NextCInv
<1>3. XInv /\ CInv => CallsAreNotRepeated
  <2> SUFFICES ASSUME XInv, CInv, NEW n \in Graph.nodes
               PROVE  calls[n] <= att[n] /\ (n \in AtMostOnce => calls[n] <= 1)
    BY ExecutionAssumption DEF CallsAreNotRepeated, OneCallPerAttempt, AtMostOnceHolds
  <2> QED
    BY OpenAttemptsFinite DEF CInv, CallsAreLicensed
<1> QED
  BY <1>1, <1>2, <1>3, ExecutionInvariant, PTL DEF Spec

-----------------------------------------------------------------------------
(* When the scheduler's premise holds *)

\* Without resume requests nothing puts a task back once the run is closed.
LEMMA NoNewTask ==
    ASSUME XInv, Resumers = {}, [Next]_vars
    PROVE  Outstanding(TheRun)' \in {Outstanding(TheRun), {}}
<1>1. CASE UNCHANGED tasks
  BY <1>1 DEF Outstanding, IsOutstanding
<1>2. CASE Finish(TheRun)
  BY <1>2, QueueEffects DEF XInv
<1>3. ASSUME NEW p \in Procs, Step(p)  PROVE Finish(TheRun) \/ UNCHANGED tasks
  BY <1>3 DEF Step, BeginTick, CommitTick, Invoke, BeginSettle, CommitSettle, Raise
<1>4. ASSUME NEW c \in Callers, RequestAdvance(c) \/ Respond(c) \/ CrashCaller(c)
      PROVE  UNCHANGED tasks
  BY <1>4 DEF RequestAdvance, Respond, CrashCaller
<1>5. ASSUME NEW w \in Workers, \/ LockTask(w) \/ ClaimTask(w) \/ Beat(w)
                                \/ AbandonTask(w) \/ CrashWorker(w)
      PROVE  Outstanding(TheRun)' = Outstanding(TheRun)
  BY <1>5, QueueEffects DEF XInv, LockTask, ClaimTask, Beat, AbandonTask, CrashWorker
<1>6. ASSUME NEW w \in Workers, ReleaseTask(w)  PROVE UNCHANGED tasks
  BY <1>6, DoneRowFacts DEF ReleaseTask, Release, Owns, XInv, ReturnedIsDone
<1>7. Elapse => Outstanding(TheRun)' = Outstanding(TheRun)
  BY QueueEffects DEF XInv, Elapse
<1>8. UNCHANGED vars => UNCHANGED tasks
  BY DEF vars
<1> QED
  BY <1>1, <1>2, <1>3, <1>4, <1>5, <1>6, <1>7, <1>8 DEF Next, Callers

\* One worker at a time has the run; once its task is closed nobody else gets it;
\* and a worker that does anything to the run has it.
SoloInv ==
    /\ \A v, w \in Workers : Working(v) /\ Working(w) => v = w
    /\ \A w \in Workers :
        Working(w) /\ tasks[held[w].task] = DoneRow => Outstanding(TheRun) = {}
    /\ \A w \in Workers : pc[w] # "off" => Working(w)

LEMMA SoloStep ==
    ASSUME XInv, SoloInv, TimelyInv, Timely, Resumers = {}, Advancers = {}, [Next]_vars
    PROVE  SoloInv'
<1>1. /\ tasks \in [TaskIds -> Row] /\ held \in [Workers -> Holding] /\ LocalTyped
      /\ Runs = {TheRun} /\ Procs = Workers /\ Callers = {}
      /\ QInv /\ RowsOfRuns
  BY ExecutionAssumption DEF XInv, QInv, QueueTypeOK, Procs, Callers
<1>2. ASSUME NEW w \in Workers, Working(w)
      PROVE  /\ held[w].task \in TaskIds
             /\ tasks[held[w].task] # DoneRow => held[w].task \in Outstanding(TheRun)
  BY <1>1, <1>2 DEF QInv, ClaimsAreSound, RowsAreSound, RowsOfRuns, Outstanding, IsOutstanding, Row
<1>3. ASSUME NEW v \in Workers, NEW w \in Workers, Working(v)', Working(w)', ~ Working(w)
      PROVE  v = w
  <2>1. Claim(w)
    BY <1>3, WorkStartsByClaiming DEF ClaimTask
  <2>2. /\ held[w].task \in Outstanding(TheRun) /\ tasks[held[w].task].left = 0
        /\ held'= [held EXCEPT ![w] = [held[w] EXCEPT !.phase = "working"]]
    BY <1>1, <2>1 DEF Claim, QInv, ClaimsAreSound, RowsOfRuns, Outstanding, IsOutstanding
  <2>3. SUFFICES ASSUME v # w PROVE FALSE
    OBVIOUS
  <2>4. Working(v)
    BY <1>1, <1>3, <2>2, <2>3 DEF Working
  <2>5. tasks[held[v].task] # DoneRow
    BY <2>2, <2>4 DEF SoloInv
  <2>6. held[v].phase = "working" /\ held[v].left > 0 /\ Owns(v, held[v].task)
    BY <2>4, <2>5 DEF TimelyInv, Working
  <2>7. held[v].task = held[w].task
    BY <1>1, <1>2, <2>2, <2>4, <2>5 DEF QInv, OneOutstandingPerRun, Outstanding
  <2>8. held[v].left <= tasks[held[v].task].left /\ held[v].left \in Nat
    BY <1>1, <2>4, <2>5, <2>6 DEF QInv, BeliefIsSound, Holding
  <2> QED
    BY <2>2, <2>6, <2>7, <2>8
<1>4. ASSUME NEW v \in Workers, NEW w \in Workers, Working(v)', Working(w)'  PROVE v = w
  BY <1>3, <1>4 DEF SoloInv
<1>5. ASSUME NEW w \in Workers, Working(w)', tasks'[held'[w].task] = DoneRow
      PROVE  Outstanding(TheRun)' = {}
  <2>1. CASE ~ Working(w)
    <3>1. Claim(w)
      BY <1>5, <2>1, WorkStartsByClaiming DEF ClaimTask
    <3>2. held[w].task \in TaskIds /\ held'[w].task = held[w].task
      BY <1>1, <3>1 DEF Claim, QInv, ClaimsAreSound, Holding
    <3>3. tasks'[held[w].task].status = "LEASED"
      BY <1>1, <3>1, <3>2 DEF Claim, Row
    <3> QED
      BY <1>5, <3>2, <3>3, DoneRowFacts
  <2>2. CASE Working(w) /\ tasks[held[w].task] = DoneRow
    BY <2>2, NoNewTask DEF SoloInv
  <2>3. CASE Working(w) /\ tasks[held[w].task] # DoneRow
    <3>1. held[w].task \in Outstanding(TheRun)
      BY <1>2, <2>3
    <3>2. held'[w].task = held[w].task
      BY <1>1, <1>5, <2>3, StepsOfQueue, QueueKeeps DEF KeepsTask
    <3>3. held[w].task \notin Outstanding(TheRun)'
      BY <1>5, <3>2, DoneRowFacts DEF Outstanding, IsOutstanding
    <3> QED
      BY <3>1, <3>3, NoNewTask
  <2> QED
    BY <2>1, <2>2, <2>3
<1>6. ASSUME NEW w \in Workers, pc'[w] # "off"  PROVE Working(w)'
  <2>1. pc[w] # "off" => Working(w)
    BY DEF SoloInv
  <2>2. ASSUME NEW p \in Procs, Step(p)  PROVE Working(w)'
    <3>1. UNCHANGED held /\ pc[w] # "off"
      BY <1>1, <1>6, <2>2 DEF LocalTyped, Step, BeginTick, CommitTick, Invoke, BeginSettle,
         CommitSettle, Raise
    <3> QED
      BY <2>1, <3>1 DEF Working
  <2>3. ASSUME NEW v \in Workers, LockTask(v)  PROVE Working(w)'
    <3>1. UNCHANGED pc /\ held[v].phase = "idle" /\ \A u \in Workers \ {v} : held'[u] = held[u]
      BY <1>1, <2>3 DEF LockTask, Lock, local
    <3> QED
      BY <1>6, <2>1, <3>1 DEF Working
  <2>4. ASSUME NEW v \in Workers, ClaimTask(v)  PROVE Working(w)'
    <3>1. /\ \A u \in Workers \ {v} : held'[u] = held[u] /\ pc'[u] = pc[u]
          /\ held'[v].phase = "working"
      BY <1>1, <2>4 DEF ClaimTask, Claim, LocalTyped, Holding
    <3> QED
      BY <1>6, <2>1, <3>1 DEF Working
  <2>5. ASSUME NEW v \in Workers, Beat(v)  PROVE Working(w)'
    <3>1. /\ \A u \in Workers \ {v} : held'[u] = held[u]
          /\ held'[v].phase \in {"working", "lost"} /\ UNCHANGED pc
      BY <1>1, <2>5 DEF Beat, Heartbeat, local, Holding
    <3> QED
      BY <1>6, <2>1, <3>1 DEF Working
  <2>6. ASSUME NEW v \in Workers, ReleaseTask(v) \/ AbandonTask(v) \/ CrashWorker(v)
        PROVE  Working(w)'
    <3>1. /\ \A u \in Workers \ {v} : held'[u] = held[u] /\ pc'[u] = pc[u]
          /\ pc'[v] = "off"
      BY <1>1, <2>6 DEF ReleaseTask, Release, AbandonTask, Abandon, CrashWorker, Crash, Forget, LocalTyped
    <3> QED
      BY <1>6, <2>1, <3>1 DEF Working
  <2>7. CASE Elapse
    <3>1. held'[w].phase = held[w].phase /\ UNCHANGED pc
      BY <1>1, <2>7 DEF Elapse, PassTime, local, Holding
    <3> QED
      BY <1>6, <2>1, <3>1 DEF Working
  <2>8. CASE UNCHANGED vars
    BY <1>6, <2>1, <2>8 DEF vars, local, Working
  <2> QED
    BY <1>1, <2>2, <2>3, <2>4, <2>5, <2>6, <2>7, <2>8 DEF Next
<1> QED
  BY <1>4, <1>5, <1>6 DEF SoloInv

\* The scheduler's premise, that a node found RUNNING was left there by a process
\* that died, is right for a run that workers alone drive, each scheduled in time
\* to keep its lease: whoever recovers a node is the only one at work.
THEOREM ExecutionRecoversOnlyTheDead ==
    ASSUME Timely, Resumers = {}, Advancers = {}
    PROVE  Spec => RecoversOnlyTheDead
<1> DEFINE Premise == \A n \in Graph.nodes : att'[n] # att[n] => \A p \in Procs : ~Executing(p, n)
<1>1. Init => TimelyInv /\ SoloInv
  <2> SUFFICES ASSUME Init PROVE TimelyInv /\ SoloInv
    OBVIOUS
  <2>1. \A w \in Workers : held[w].phase = "idle" /\ pc[w] = "off"
    BY IdleFacts DEF Init, Procs
  <2> QED
    BY <2>1 DEF TimelyInv, SoloInv, Working
<1>2. XInv /\ TimelyInv /\ SoloInv /\ [Next]_vars => TimelyInv' /\ SoloInv'
  BY StepsOfQueue, TimelyStep, SoloStep DEF XInv
<1>3. ASSUME XInv, SoloInv, [Next]_vars  PROVE [Premise]_vars
  <2> SUFFICES ASSUME Next, NEW n \in Graph.nodes, att'[n] # att[n], NEW p \in Procs, Executing(p, n)
               PROVE  FALSE
    BY <1>3
  <2>1. PICK q \in Procs : CommitTick(q)
    <3>1. ASSUME NEW q \in Procs, Step(q)  PROVE CommitTick(q)
      <4>1. ~ BeginTick(q) /\ ~ Invoke(q) /\ ~ BeginSettle(q)
        BY DEF BeginTick, Invoke, BeginSettle, rows
      <4>2. ~ CommitSettle(q)
        BY DEF CommitSettle, Raise, rows
      <4> QED
        BY <3>1, <4>1, <4>2 DEF Step
    <3>2. ASSUME NEW c  PROVE ~ Forget(c)
      BY DEF Forget, rows
    <3>3. ASSUME NEW c \in Callers
          PROVE  /\ ~ BeginResume(c) /\ ~ CommitResume(c)
                 /\ ~ RequestAdvance(c) /\ ~ Respond(c) /\ ~ CrashCaller(c)
      <4>1. ~ BeginResume(c) /\ ~ RequestAdvance(c)
        BY DEF BeginResume, RequestAdvance, rows
      <4>2. ~ CommitResume(c)
        BY DEF CommitResume, Raise, rows
      <4> QED
        BY <3>2, <4>1, <4>2 DEF Respond, CrashCaller
    <3>4. ASSUME NEW w \in Workers
          PROVE  ~ LockTask(w) /\ ~ ClaimTask(w) /\ ~ Beat(w)
                 /\ ~ ReleaseTask(w) /\ ~ AbandonTask(w) /\ ~ CrashWorker(w)
      <4>1. ~ LockTask(w) /\ ~ ClaimTask(w) /\ ~ Beat(w)
        BY DEF LockTask, ClaimTask, Beat, rows
      <4> QED
        BY <3>2, <4>1 DEF ReleaseTask, AbandonTask, CrashWorker
    <3>5. ~ Elapse
      BY DEF Elapse, rows
    <3>6. Resumers \subseteq Callers /\ Advancers \subseteq Callers
      BY DEF Callers
    <3> QED
      BY <3>1, <3>3, <3>4, <3>5, <3>6 DEF Next
  <2>2. p \in Workers /\ q \in Workers /\ pc[p] # "off" /\ pc[q] = "apply" /\ pc[p] # "apply"
    BY <2>1 DEF Procs, Callers, Executing, CommitTick
  <2>3. Working(p) /\ Working(q)
    BY <1>3, <2>2 DEF SoloInv
  <2> QED
    BY <1>3, <2>2, <2>3 DEF SoloInv
<1>4. Spec => [][Premise]_vars
  BY <1>1, <1>2, <1>3, ExecutionInvariant, PTL DEF Spec
<1> QED
  BY <1>4 DEF RecoversOnlyTheDead

\* Nodes a tick may still touch, and those none has touched yet.
Open == {n \in Graph.nodes : st[n] \in {"PENDING", "RUNNING"}}
Untouched == {n \in Graph.nodes : st[n] = "PENDING"}

\* Every cycle of an advance that is not its last settles a node for good: what it
\* starts it also settles before it ticks again.
CycleOf(w) ==
    /\ pc[w] = "off" => cycles[w] = 0
    /\ pc[w] = "read" =>
          \/ cycles[w] + Cardinality(Open) <= Cardinality(Graph.nodes)
          \/ Quiet(Tick(Graph, run, st, out))
    /\ pc[w] = "apply" => cycles[w] + Cardinality(Open) <= Limit
    /\ pc[w] \in {"invoke", "settle", "write"} =>
          /\ cycles[w] + Cardinality(Untouched) <= Cardinality(Graph.nodes)
          /\ \A n \in Graph.nodes : st[n] = "RUNNING" => n \in DOMAIN todo[w]

CycleInv == \A w \in Workers : CycleOf(w)

LEMMA Fewer ==
    ASSUME NEW S, IsFiniteSet(S), NEW T, T \subseteq S
    PROVE  /\ Cardinality(S) \in Nat /\ Cardinality(T) \in Nat /\ Cardinality(T) <= Cardinality(S)
           /\ T # S => Cardinality(T) + 1 <= Cardinality(S)
<1>1. /\ IsFiniteSet(T) /\ Cardinality(T) <= Cardinality(S)
      /\ Cardinality(S) = Cardinality(T) => S = T
  BY FS_Subset
<1>2. Cardinality(S) \in Nat /\ Cardinality(T) \in Nat
  BY <1>1, FS_CardinalityType
<1> QED
  BY <1>1, <1>2

LEMMA NodeCounts ==
    /\ Cardinality(Graph.nodes) \in Nat /\ Limit = Cardinality(Graph.nodes) + 1
    /\ IsFiniteSet(Open) /\ Cardinality(Open) \in Nat
    /\ Cardinality(Open) <= Cardinality(Graph.nodes)
    /\ Cardinality(Untouched) \in Nat
<1>1. IsFiniteSet(Graph.nodes) /\ Open \subseteq Graph.nodes /\ Untouched \subseteq Graph.nodes
  BY ExecutionAssumption DEF Open, Untouched
<1> QED
  BY <1>1, Fewer, FS_Subset DEF Limit

\* A tick uses up nodes, or it is the last but one.
LEMMA TickCycles ==
    ASSUME XInv, NEW p \in Procs, CommitTick(p), ~ Raise(p)
    PROVE  /\ pc'[p] = "read" =>
                \/ Cardinality(Open)' + 1 <= Cardinality(Open)
                \/ Quiet(Tick(Graph, run, st, out))'
           /\ pc'[p] # "read" =>
                /\ Cardinality(Untouched)' + 1 <= Cardinality(Open)
                /\ \A n \in Graph.nodes : st'[n] = "RUNNING" => n \in DOMAIN todo'[p]
<1> DEFINE d == Tick(Graph, run, st, out)
<1>1. /\ LocalTyped /\ ~Quiet(d) /\ st' = AfterStart(st, d) /\ run' = AfterTickRun(run, d)
      /\ pc' = [pc EXCEPT ![p] = IF d.start = {} THEN "read" ELSE "invoke"]
      /\ todo' = [todo EXCEPT ![p] = [n \in d.start |-> [attempt |-> att'[n], resumed |-> FALSE]]]
      /\ out' = out
  BY TickIsCurrent DEF XInv
<1>2. /\ pc'[p] = IF d.start = {} THEN "read" ELSE "invoke"
      /\ DOMAIN todo'[p] = d.start
  BY <1>1 DEF LocalTyped
<1>3. /\ d.recover = Stranded(Graph, st) /\ d.skip = Prunable(Graph, st, out)
      /\ d.start = Ready(Graph, st, out) /\ d.recover \subseteq d.start
      /\ st \in [Graph.nodes -> NodeStatus]
  BY EngineFacts DEF XInv, Tick
<1>4. IsFiniteSet(Open)
  BY NodeCounts
<1>5. CASE d.start = {} /\ d.skip = {}
  <2>1. /\ d.recover = {} /\ d.status # NoStatus
        /\ st' = st /\ run' = d.status
    BY <1>1, <1>3, <1>5 DEF Quiet, AfterStart, AfterSkip, AfterRecover, AfterTickRun
  <2>2. d.status = Conclusion(Graph, st, {})
    BY <1>3, <1>5, <2>1 DEF Tick
  <2>3. Quiet(Tick(Graph, run', st', out'))
    BY <1>1, <1>3, <1>5, <2>1, <2>2 DEF Tick, Quiet
  <2> QED
    BY <1>2, <1>5, <2>3
<1>6. CASE d.start = {} /\ d.skip # {}
  <2>1. PICK n \in d.skip : n \in Graph.nodes /\ st[n] = "PENDING" /\ st'[n] = "SKIPPED"
    BY <1>1, <1>3, <1>6 DEF AfterStart, AfterSkip, AfterRecover, Prunable
  <2>2. Open' \subseteq Open /\ n \in Open /\ n \notin Open'
    BY <1>1, <1>3, <1>6, <2>1 DEF Open, AfterStart, AfterSkip, AfterRecover
  <2>3. Cardinality(Open') + 1 <= Cardinality(Open)
    BY <1>4, <2>2, Fewer
  <2> QED
    BY <1>2, <1>6, <2>3
<1>7. CASE d.start # {}
  <2>1. PICK n \in d.start : n \in Graph.nodes /\ st[n] \in {"PENDING", "RUNNING"} /\ st'[n] = "RUNNING"
    BY <1>1, <1>3, <1>7 DEF AfterStart, Ready
  <2>2. Untouched' \subseteq Open /\ n \in Open /\ n \notin Untouched'
    BY <1>1, <1>3, <2>1 DEF Open, Untouched, AfterStart, AfterSkip, AfterRecover, Stranded
  <2>3. Cardinality(Untouched') + 1 <= Cardinality(Open)
    BY <1>4, <2>2, Fewer
  <2>4. \A m \in Graph.nodes : st'[m] = "RUNNING" => m \in d.start
    BY <1>1, <1>3 DEF AfterStart, AfterSkip, AfterRecover, Stranded
  <2> QED
    BY <1>2, <1>7, <2>3, <2>4
<1> QED
  BY <1>5, <1>6, <1>7

LEMMA CycleStep ==
    ASSUME XInv, SoloInv, CycleInv, Resumers = {}, Advancers = {}, [Next]_vars
    PROVE  CycleInv'
<1>1. /\ LocalTyped /\ Procs = Workers /\ Callers = {} /\ st \in [Graph.nodes -> NodeStatus]
      /\ held \in [Workers -> Holding]
  BY EngineFacts DEF XInv, QInv, QueueTypeOK, Procs, Callers
<1>2. ASSUME NEW w \in Workers, pc'[w] = pc[w], cycles'[w] = cycles[w], todo'[w] = todo[w],
             UNCHANGED rows \/ pc[w] = "off"
      PROVE  CycleOf(w)'
  <2>1. CASE UNCHANGED rows
    <3>1. /\ UNCHANGED <<run, st, out>> /\ Open' = Open /\ Untouched' = Untouched
      BY <2>1 DEF rows, Open, Untouched
    <3> QED
      BY <1>2, <3>1 DEF CycleInv, CycleOf
  <2>2. CASE pc[w] = "off"
    BY <1>2, <2>2 DEF CycleInv, CycleOf
  <2> QED
    BY <1>2, <2>1, <2>2
<1>3. CASE UNCHANGED <<rows, local>>
  BY <1>2, <1>3 DEF local, CycleInv
<1>4. \A w \in Workers : cycles[w] \in Nat
  BY <1>1, NodeCounts DEF LocalTyped
<1>5. ASSUME NEW w \in Workers, NEW v \in Workers \ {w}, Step(v)  PROVE CycleOf(w)'
  <2>1. pc[v] # "off"
    BY <1>5 DEF Step, BeginTick, CommitTick, Invoke, BeginSettle, CommitSettle
  <2>2. pc[w] = "off"
    BY <1>5, <2>1 DEF SoloInv
  <2>3. pc'[w] = pc[w] /\ todo'[w] = todo[w] /\ cycles'[w] = cycles[w]
    BY <1>1, <1>5 DEF LocalTyped, Step, BeginTick, CommitTick, Invoke, BeginSettle, CommitSettle, Raise
  <2> QED
    BY <1>2, <2>2, <2>3
<1>6. ASSUME NEW w \in Workers, BeginTick(w)  PROVE CycleOf(w)'
  <2>1. /\ UNCHANGED rows /\ pc[w] = "read" /\ cycles[w] \in Nat
        /\ UNCHANGED <<run, st, out>> /\ Open' = Open /\ CycleOf(w)
    BY <1>4, <1>6 DEF BeginTick, rows, Open, CycleInv
  <2>2. CASE pc'[w] \in {"returned", "raised"}
    BY <2>2 DEF CycleOf
  <2>3. CASE /\ ~Quiet(Tick(Graph, run, st, out)) /\ pc' = [pc EXCEPT ![w] = "apply"]
             /\ cycles' = [cycles EXCEPT ![w] = @ + 1]
    <3>1. pc'[w] = "apply" /\ cycles'[w] = cycles[w] + 1
      BY <1>1, <2>3 DEF LocalTyped
    <3> QED
      BY <2>1, <2>3, <3>1, NodeCounts DEF CycleOf
  <2> QED
    BY <1>1, <1>6, <2>2, <2>3 DEF BeginTick, LocalTyped
<1>7. ASSUME NEW w \in Workers, Raise(w)  PROVE CycleOf(w)'
  BY <1>1, <1>7 DEF Raise, LocalTyped, CycleOf
<1>8. ASSUME NEW w \in Workers, CommitTick(w), ~ Raise(w)  PROVE CycleOf(w)'
  <2>1. /\ pc[w] = "apply" /\ cycles[w] + Cardinality(Open) <= Limit
        /\ pc'[w] \in {"read", "invoke"} /\ UNCHANGED cycles
    BY <1>1, <1>8, TickIsCurrent DEF CommitTick, CycleInv, CycleOf, LocalTyped
  <2>2. /\ cycles[w] \in Nat /\ cycles'[w] = cycles[w]
        /\ Cardinality(Open) \in Nat /\ Cardinality(Graph.nodes) \in Nat
        /\ Limit = Cardinality(Graph.nodes) + 1
    BY <1>4, <2>1, NodeCounts
  <2>3. Cardinality(Open)' \in Nat /\ Cardinality(Untouched)' \in Nat
    <3>1. Open' \subseteq Graph.nodes /\ Untouched' \subseteq Graph.nodes
      BY DEF Open, Untouched
    <3> QED
      BY <3>1, Fewer, ExecutionAssumption
  <2>4. CASE pc'[w] = "read"
    BY <1>1, <1>8, <2>1, <2>2, <2>3, <2>4, TickCycles DEF CycleOf
  <2>5. CASE pc'[w] = "invoke"
    BY <1>1, <1>8, <2>1, <2>2, <2>3, <2>5, TickCycles DEF CycleOf
  <2> QED
    BY <2>1, <2>4, <2>5
<1>9. ASSUME NEW w \in Workers, pc[w] \in {"invoke", "settle", "write"},
             UNCHANGED cycles,
             pc'[w] \in {"settle", "write", "read", "raised"},
             Untouched' \subseteq Untouched, st' \in [Graph.nodes -> NodeStatus],
             \A n \in Graph.nodes : st'[n] = "RUNNING" => n \in DOMAIN todo'[w],
             pc'[w] = "read" => DOMAIN todo'[w] = {}
      PROVE  CycleOf(w)'
  <2>1. /\ cycles'[w] = cycles[w] /\ cycles[w] \in Nat
        /\ cycles[w] + Cardinality(Untouched) <= Cardinality(Graph.nodes)
    BY <1>4, <1>9 DEF CycleInv, CycleOf
  <2>2. Untouched \subseteq Graph.nodes /\ IsFiniteSet(Untouched)
    BY ExecutionAssumption, FS_Subset DEF Untouched
  <2>3. /\ Cardinality(Untouched') <= Cardinality(Untouched) /\ Cardinality(Untouched') \in Nat
        /\ Cardinality(Untouched) \in Nat /\ Cardinality(Graph.nodes) \in Nat
    BY <1>9, <2>2, Fewer, NodeCounts
  <2>4. cycles'[w] + Cardinality(Untouched') <= Cardinality(Graph.nodes)
    BY <2>1, <2>3
  <2>5. ASSUME pc'[w] = "read"  PROVE Open' = Untouched'
    BY <1>9, <2>5 DEF Open, Untouched
  <2> QED
    BY <1>9, <2>4, <2>5 DEF CycleOf
<1>10. ASSUME NEW w \in Workers, Invoke(w)  PROVE CycleOf(w)'
  <2>1. PICK results \in [DOMAIN todo[w] -> Results] :
          todo' = [todo EXCEPT ![w] = results] /\ pc' = [pc EXCEPT ![w] = Onward(results)]
    BY <1>10 DEF Invoke
  <2>2. pc[w] = "invoke" /\ UNCHANGED <<rows, cycles>>
    BY <1>10 DEF Invoke
  <2>3. /\ pc'[w] = Onward(results) /\ DOMAIN todo'[w] = DOMAIN todo[w]
        /\ DOMAIN results = DOMAIN todo[w]
    BY <1>1, <2>1 DEF LocalTyped
  <2>4. pc'[w] \in {"settle", "read", "raised"} /\ (pc'[w] = "read" => DOMAIN todo'[w] = {})
    BY <2>3 DEF Onward
  <2>5. UNCHANGED <<st, run, out>> /\ Untouched' = Untouched
    BY <2>2 DEF rows, Untouched
  <2>6. \A n \in Graph.nodes : st'[n] = "RUNNING" => n \in DOMAIN todo'[w]
    BY <2>2, <2>3, <2>5 DEF CycleInv, CycleOf
  <2> QED
    BY <1>1, <1>9, <2>2, <2>4, <2>5, <2>6
<1>11. ASSUME NEW w \in Workers, BeginSettle(w)  PROVE CycleOf(w)'
  <2>1. pc[w] = "settle" /\ pc'[w] = "write" /\ UNCHANGED <<rows, cycles, todo>>
    BY <1>1, <1>11 DEF BeginSettle, LocalTyped
  <2>2. UNCHANGED <<st, run, out>> /\ Untouched' = Untouched
    BY <2>1 DEF rows, Untouched
  <2>3. \A n \in Graph.nodes : st'[n] = "RUNNING" => n \in DOMAIN todo'[w]
    BY <2>1, <2>2 DEF CycleInv, CycleOf
  <2> QED
    BY <1>1, <1>9, <2>1, <2>2, <2>3
<1>12. ASSUME NEW w \in Workers, CommitSettle(w), ~ Raise(w)  PROVE CycleOf(w)'
  <2>1. PICK n \in ToSettle(todo[w]) :
          /\ st' = [st EXCEPT ![n] = StatusOf(todo[w][n])]
          /\ pc' = [pc EXCEPT ![w] = Onward([m \in DOMAIN todo[w] \ {n} |-> todo[w][m]])]
          /\ todo' = [todo EXCEPT ![w] = [m \in DOMAIN todo[w] \ {n} |-> todo[w][m]]]
          /\ UNCHANGED <<run, att, cycles>>
    BY <1>12 DEF CommitSettle
  <2>2. n \in Graph.nodes /\ todo[w][n] \in Results /\ todo[w][n].kind # "raised" /\ pc[w] = "write"
    BY <1>1, <1>12, <2>1 DEF CommitSettle, XInv, ProcessIsSound, ToSettle
  <2>3. StatusOf(todo[w][n]) \in {"SUCCEEDED", "WAITING", "FAILED"}
    BY <2>2 DEF Results, StatusOf
  <2>4. /\ pc'[w] = Onward(todo'[w]) /\ DOMAIN todo'[w] = DOMAIN todo[w] \ {n}
    BY <1>1, <2>1 DEF LocalTyped
  <2>5. pc'[w] \in {"settle", "read", "raised"} /\ (pc'[w] = "read" => DOMAIN todo'[w] = {})
    BY <2>4 DEF Onward
  <2>6. Untouched' \subseteq Untouched /\ st' \in [Graph.nodes -> NodeStatus]
    BY <1>1, <2>1, <2>2, <2>3 DEF Untouched, NodeStatus
  <2>7. \A m \in Graph.nodes : st'[m] = "RUNNING" => m \in DOMAIN todo'[w]
    BY <1>1, <2>1, <2>2, <2>3, <2>4 DEF CycleInv, CycleOf
  <2> QED
    BY <1>9, <2>1, <2>2, <2>5, <2>6, <2>7
<1>13. ASSUME NEW v \in Workers, Step(v)  PROVE CycleInv'
  <2>1. CycleOf(v)'
    BY <1>6, <1>7, <1>8, <1>10, <1>11, <1>12, <1>13 DEF Step
  <2> QED
    BY <1>5, <1>13, <2>1 DEF CycleInv
<1>14. ASSUME NEW v \in Workers, ClaimTask(v)  PROVE CycleInv'
  <2>1. /\ pc' = [pc EXCEPT ![v] = "read"] /\ UNCHANGED <<rows, todo, cycles>>
        /\ ~ Working(v)
    BY <1>14 DEF ClaimTask, Claim, Working
  <2>2. pc[v] = "off" /\ cycles[v] = 0 /\ pc'[v] = "read"
    BY <1>1, <2>1 DEF SoloInv, CycleInv, CycleOf, LocalTyped
  <2>3. Open' = Open
    BY <2>1 DEF Open, rows
  <2>4. CycleOf(v)'
    BY <2>1, <2>2, <2>3, NodeCounts DEF CycleOf
  <2>5. ASSUME NEW w \in Workers \ {v}  PROVE CycleOf(w)'
    BY <1>1, <1>2, <2>1 DEF LocalTyped
  <2> QED
    BY <2>4, <2>5 DEF CycleInv
<1>15. ASSUME NEW v \in Workers, Forget(v)  PROVE CycleInv'
  <2>1. /\ pc'[v] = "off" /\ cycles'[v] = 0 /\ UNCHANGED rows
        /\ \A w \in Workers \ {v} : pc'[w] = pc[w] /\ todo'[w] = todo[w] /\ cycles'[w] = cycles[w]
    BY <1>1, <1>15 DEF Forget, LocalTyped
  <2>2. CycleOf(v)'
    BY <2>1 DEF CycleOf
  <2> QED
    BY <1>2, <2>1, <2>2 DEF CycleInv
<1>16. ASSUME NEW v \in Workers, \/ LockTask(v) \/ ClaimTask(v) \/ Beat(v)
                                 \/ ReleaseTask(v) \/ AbandonTask(v) \/ CrashWorker(v)
       PROVE  CycleInv'
  BY <1>3, <1>14, <1>15, <1>16 DEF LockTask, Beat, ReleaseTask, AbandonTask, CrashWorker
<1>17. UNCHANGED vars => UNCHANGED <<rows, local>>
  BY DEF vars
<1>18. Elapse => UNCHANGED <<rows, local>>
  BY DEF Elapse
<1> QED
  BY <1>1, <1>3, <1>13, <1>16, <1>17, <1>18 DEF Next

\* A run that workers drive, each scheduled in time, needs no more cycles than its
\* graph has nodes, and one: the guard of _advance against a run that cannot
\* progress never stops one that can.
THEOREM ExecutionWithinCycleLimit ==
    ASSUME Timely, Resumers = {}, Advancers = {}
    PROVE  Spec => []WithinCycleLimit
<1>1. Init => TimelyInv /\ SoloInv /\ CycleInv
  <2> SUFFICES ASSUME Init PROVE TimelyInv /\ SoloInv /\ CycleInv
    OBVIOUS
  <2>1. \A w \in Workers : held[w].phase = "idle" /\ pc[w] = "off" /\ cycles[w] = 0
    BY IdleFacts DEF Init, Procs
  <2> QED
    BY <2>1 DEF TimelyInv, SoloInv, Working, CycleInv, CycleOf
<1>2. XInv /\ TimelyInv /\ SoloInv /\ CycleInv /\ [Next]_vars => TimelyInv' /\ SoloInv' /\ CycleInv'
  BY StepsOfQueue, TimelyStep, SoloStep, CycleStep DEF XInv
<1>3. XInv /\ CycleInv => WithinCycleLimit
  <2> SUFFICES ASSUME XInv, CycleInv, NEW p \in Procs, pc[p] = "read", cycles[p] = Limit
               PROVE  Quiet(Tick(Graph, run, st, out))
    BY DEF WithinCycleLimit
  <2>1. p \in Workers
    BY DEF Procs, Callers
  <2> QED
    BY <2>1, NodeCounts DEF CycleInv, CycleOf
<1> QED
  BY <1>1, <1>2, <1>3, ExecutionInvariant, PTL DEF Spec


-----------------------------------------------------------------------------
(* The run and its queue *)

\* What a tick concludes from is what the engine's rows say, in either instance.
LEMMA SameConclusions ==
    /\ Rows!ConcludesWhenNothingCanMove <=> Engine!ConcludesWhenNothingCanMove
    /\ Rows!TaskAgrees <=> RunAndQueueAgree
<1>1. \A g, s, o : Rows!Ready(g, s, o) = Engine!Ready(g, s, o)
  BY DEF Rows!Ready, Engine!Ready, Rows!UpstreamSatisfied, Engine!UpstreamSatisfied,
     Rows!Incoming, Engine!Incoming, Rows!IsLive, Engine!IsLive, Rows!IsDead, Engine!IsDead
<1>2. Rows!ConcludesWhenNothingCanMove <=> Engine!ConcludesWhenNothingCanMove
  BY <1>1 DEF Rows!ConcludesWhenNothingCanMove, Engine!ConcludesWhenNothingCanMove
<1>3. Rows!TaskAgrees <=> RunAndQueueAgree
  BY DEF Rows!TaskAgrees, RunAndQueueAgree
<1> QED  BY <1>2, <1>3

\* The run of the processes is a run of the engine whose theorems are cited.
LEMMA RunsTheEngine == Spec => Rows!Spec
<1>1. Engine!Init => Rows!Init
  BY SameEngine
<1>2. [Engine!Next]_Engine!vars => [Rows!Next]_Rows!vars
  BY SameEngine
<1> QED
  BY <1>1, <1>2, ExecutionImplementsEngine, PTL DEF ImplementsEngine, Engine!Spec, Rows!Spec

\* _apply's comment that the run's status and the queue's view of it can never
\* disagree, for any number of workers and requests that crash, lapse and race: it
\* is true of every run that never concludes while a node can start, and finding 1
\* is the only way to make it false.
THEOREM ExecutionQueueAgrees ==
    Spec /\ []Engine!ConcludesWhenNothingCanMove => []RunAndQueueAgree
<1>1. Rows!Spec /\ []Rows!ConcludesWhenNothingCanMove => []Rows!TaskAgrees
  BY SameAssumptions, Rows!EngineTaskAgrees
<1> QED
  BY <1>1, SameConclusions, RunsTheEngine, PTL

\* And it is true, whatever the processes do, of every graph whose joins follow roots.
THEOREM ExecutionQueueAgreesByShape ==
    ASSUME Rows!JoinsFollowRoots(Graph)
    PROVE  Spec => []RunAndQueueAgree
<1>1. Rows!Spec => []Rows!ConcludesWhenNothingCanMove /\ []Rows!TaskAgrees
  BY SameAssumptions, Rows!EngineConcludesInTime
<1> QED
  BY <1>1, SameConclusions, RunsTheEngine, PTL
=============================================================================
