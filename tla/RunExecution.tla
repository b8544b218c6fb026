---------------------------- MODULE RunExecution ----------------------------
(***************************************************************************)
(* One run and the processes that drive it: workers that claim its queue   *)
(* task, and API requests that resume or advance it directly               *)
(* (services/run_service.py, worker/loop.py).                              *)
(*                                                                         *)
(* Every unit of work is two steps: it reads a snapshot (MySQL's REPEATABLE*)
(* READ) and later commits what it decided from it. Nothing locks the run; *)
(* what keeps two units of work apart is the event log, whose next sequence*)
(* number each computes from its snapshot and inserts under a unique index:*)
(* of two that started from the same snapshot, one is rolled back.         *)
(***************************************************************************)
EXTENDS RunScheduler, TaskQueue, FiniteSets

CONSTANTS
    TheRun,
    Graph,
    Handles,
    Resumers,    \* API requests that present a resume token
    Advancers,   \* API requests that advance the run
    Emits,       \* Emits[n]: the sets of handles n's runner may emit on
    MayFail,     \* nodes whose runner may report failure
    MayRaise,    \* nodes whose invocation may raise instead of reporting
    Waits,       \* core_wait nodes: suspend, and complete when resumed
    AtMostOnce,  \* nodes that declare SideEffect.AT_MOST_ONCE
    MaxAttempt,  \* bound on node_executions.attempt
    MaxRaises,   \* bound on the attempts that raise
    MaxTokens    \* bound on the suspensions of the run

ASSUME ExecutionAssumption ==
    /\ Runs = {TheRun}
    /\ IsGraph(Graph) /\ IsAcyclic(Graph) /\ SupportedFanIn(Graph) /\ IsFiniteSet(Graph.nodes)
    /\ \A e \in Graph.edges : e.handle \in Handles
    /\ Emits \in [Graph.nodes -> SUBSET SUBSET Handles]
    /\ MayFail \cup MayRaise \cup Waits \cup AtMostOnce \subseteq Graph.nodes
    /\ MaxAttempt \in Nat \ {0} /\ MaxRaises \in Nat /\ MaxTokens \in Nat

Callers == Resumers \cup Advancers
Procs == Workers \cup Callers

VARIABLES
    run, st, out, att,  \* the rows of the run, as in RunEngine
    token,   \* node_executions.resume_token, 0 for NULL
    issued,  \* how many tokens were ever issued; each is new
    seq,     \* how many units of work have appended to run_events
    pc,      \* where each process is
    snap,    \* the snapshot its open unit of work read
    todo,    \* the nodes it started, with their attempt, then with their result
    cycles,  \* the cycles of its current advance
    calls    \* how often each node's runner was called afresh (a history variable)

rows == <<run, st, out, att, token, issued, seq>>
local == <<pc, snap, todo, cycles>>
vars == <<tasks, held, rows, local, calls>>

\* Mutant of Limit: as many cycles as nodes.
LimitOfNodes == Cardinality(Graph.nodes)

Limit == Cardinality(Graph.nodes) + 1
Empty == [n \in {} |-> 0]
NoSnap == [seq |-> 0]
Snapshot == [run |-> run, st |-> st, out |-> out, att |-> att, seq |-> seq]

Results ==
    [kind : {"completed"}, handles : SUBSET Handles]
    \cup [kind : {"failed", "suspended", "refused", "raised"}]

TypeOK ==
    /\ QueueTypeOK
    /\ run \in RunStatus
    /\ st \in [Graph.nodes -> NodeStatus]
    /\ out \in [Graph.nodes -> SUBSET Handles]
    /\ att \in [Graph.nodes -> 1 .. MaxAttempt]
    /\ token \in [Graph.nodes -> 0 .. issued] /\ issued \in 0 .. MaxTokens
    /\ seq \in Nat
    /\ pc \in [Procs -> {"off", "read", "apply", "resume", "invoke", "settle", "write",
                         "returned", "raised"}]
    /\ \A p \in Procs : pc[p] \in {"apply", "resume", "write"} =>
           snap[p].st \in [Graph.nodes -> NodeStatus]
    /\ \A p \in Procs : DOMAIN todo[p] \subseteq Graph.nodes
    /\ \A p \in Procs : pc[p] \in {"settle", "write"} =>
           \A n \in DOMAIN todo[p] : todo[p][n] \in Results
    /\ cycles \in [Procs -> 0 .. Limit]

\* _materialize, in one transaction: the run, its executions, the first event
\* and the queue task.
Init ==
    /\ \E t \in TaskIds : tasks = [u \in TaskIds |->
                                    IF u = t THEN QueuedRow(TheRun, 0) ELSE DoneRow]
    /\ held = [w \in Workers |-> Idle]
    /\ run = "PENDING"
    /\ st = [n \in Graph.nodes |-> "PENDING"]
    /\ out = [n \in Graph.nodes |-> {}]
    /\ att = [n \in Graph.nodes |-> 1]
    /\ token = [n \in Graph.nodes |-> 0]
    /\ issued = 0
    /\ seq = 1
    /\ pc = [p \in Procs |-> "off"]
    /\ snap = [p \in Procs |-> NoSnap]
    /\ todo = [p \in Procs |-> Empty]
    /\ cycles = [p \in Procs |-> 0]
    /\ calls = [n \in Graph.nodes |-> 0]

-----------------------------------------------------------------------------
(* What every unit of work shares *)

\* Mutant of Collides: the event log lets every unit of work in.
NeverCollides(p) == FALSE

\* The insert of an event collides with one committed since the snapshot.
Collides(p) == snap[p].seq # seq

\* Whatever raises abandons the advance: its unit of work rolls back and the
\* results not yet settled are lost.
Raise(p) ==
    /\ pc' = [pc EXCEPT ![p] = "raised"]
    /\ snap' = [snap EXCEPT ![p] = NoSnap]
    /\ todo' = [todo EXCEPT ![p] = Empty]
    /\ UNCHANGED <<tasks, rows, cycles>>

-----------------------------------------------------------------------------
(* _advance: a cycle of tick, commit, invoke, settle *)

\* Read the snapshot and tick. Nothing to do ends the advance; a cycle too many
\* raises.
BeginTick(p) ==
    LET d == Tick(Graph, run, st, out) IN
    /\ pc[p] = "read"
    /\ \/ /\ Quiet(d)
          /\ pc' = [pc EXCEPT ![p] = "returned"]
          /\ UNCHANGED <<snap, cycles>>
       \/ /\ ~Quiet(d) /\ cycles[p] = Limit
          /\ pc' = [pc EXCEPT ![p] = "raised"]
          /\ UNCHANGED <<snap, cycles>>
       \/ /\ ~Quiet(d) /\ cycles[p] < Limit
          /\ \A n \in d.recover : att[n] < MaxAttempt
          /\ pc' = [pc EXCEPT ![p] = "apply"]
          /\ snap' = [snap EXCEPT ![p] = Snapshot]
          /\ cycles' = [cycles EXCEPT ![p] = @ + 1]
    /\ UNCHANGED <<tasks, held, rows, todo, calls>>

\* Whether applying d to a run in status r appends to the event log.
Appends(r, d) ==
    \/ d.skip \cup d.start # {}
    \/ d.status # NoStatus /\ RunEventWritten(r, d.status)

\* _apply and commit. The rows written are those the decisions name, with the
\* values the snapshot gives.
CommitTick(p) ==
    LET s == snap[p]
        d == Tick(Graph, s.run, s.st, s.out)
        written == d.recover \cup d.skip \cup d.start
        newAtt == [n \in Graph.nodes |-> IF n \in d.recover THEN s.att[n] + 1 ELSE att[n]]
    IN
    /\ pc[p] = "apply"
    /\ \/ /\ ~Applicable(s.run, s.st, d) \/ (Appends(s.run, d) /\ Collides(p))
          /\ Raise(p)
       \/ /\ Applicable(s.run, s.st, d)
          /\ Appends(s.run, d) => ~Collides(p)
          /\ st' = [n \in Graph.nodes |-> IF n \in written THEN AfterStart(s.st, d)[n] ELSE st[n]]
          /\ att' = newAtt
          /\ run' = AfterTickRun(run, d)
          /\ IF ClosesTask(d) THEN Finish(TheRun) ELSE UNCHANGED tasks
          /\ seq' = IF Appends(s.run, d) THEN seq + 1 ELSE seq
          /\ pc' = [pc EXCEPT ![p] = IF d.start = {} THEN "read" ELSE "invoke"]
          /\ snap' = [snap EXCEPT ![p] = NoSnap]
          /\ todo' = [todo EXCEPT ![p] =
                        [n \in d.start |-> [attempt |-> newAtt[n], resumed |-> FALSE]]]
          /\ UNCHANGED <<out, token, issued, cycles>>
    /\ UNCHANGED <<held, calls>>

\* The nodes whose invocation i may raise.
Raising(i) == IF i.attempt <= MaxRaises THEN MayRaise ELSE {}

\* Mutant of ResultsOf: no repeat is refused.
ResultsWithRepeats(n, i) ==
    IF n \in Waits /\ ~i.resumed THEN {[kind |-> "suspended"]}
    ELSE {[kind |-> "completed", handles |-> hs] : hs \in Emits[n]}
         \cup {[kind |-> "failed"] : x \in {n} \cap MayFail}
         \cup {[kind |-> "raised"] : x \in Raising(i) \cap {n}}

\* What invoking n can come to. A repeat of an AT_MOST_ONCE node is refused
\* without a call; core_wait suspends unless it is resumed.
ResultsOf(n, i) ==
    IF i.attempt > 1 /\ n \in AtMostOnce THEN {[kind |-> "refused"]}
    ELSE IF n \in Waits /\ ~i.resumed THEN {[kind |-> "suspended"]}
    ELSE {[kind |-> "completed", handles |-> hs] : hs \in Emits[n]}
         \cup {[kind |-> "failed"] : x \in {n} \cap MayFail}
         \cup {[kind |-> "raised"] : x \in Raising(i) \cap {n}}

\* After an invocation and after every settle: the results still to record, in
\* the scheduler's order; what raised is raised again once the others are kept.
ToSettle(results) == {n \in DOMAIN results : results[n].kind # "raised"}

\* Mutant of Onward: the advance ends with its first batch.
OnwardOnce(results) ==
    IF ToSettle(results) # {} THEN "settle"
    ELSE IF DOMAIN results = {} THEN "returned" ELSE "raised"

Onward(results) ==
    IF ToSettle(results) # {} THEN "settle"
    ELSE IF DOMAIN results = {} THEN "read" ELSE "raised"

\* The whole batch is invoked together; nothing here touches the database.
Invoke(p) ==
    /\ pc[p] = "invoke"
    /\ \E results \in [DOMAIN todo[p] -> Results] :
        /\ \A n \in DOMAIN results : results[n] \in ResultsOf(n, todo[p][n])
        /\ todo' = [todo EXCEPT ![p] = results]
        /\ pc' = [pc EXCEPT ![p] = Onward(results)]
        /\ calls' = [n \in Graph.nodes |->
                        IF n \in ToSettle(results) /\ ~todo[p][n].resumed
                           /\ results[n].kind # "refused"
                        THEN calls[n] + 1 ELSE calls[n]]
    /\ UNCHANGED <<tasks, held, rows, snap, cycles>>

BeginSettle(p) ==
    /\ pc[p] = "settle"
    /\ pc' = [pc EXCEPT ![p] = "write"]
    /\ snap' = [snap EXCEPT ![p] = Snapshot]
    /\ UNCHANGED <<tasks, held, rows, todo, cycles, calls>>

StatusOf(result) ==
    CASE result.kind = "completed" -> "SUCCEEDED"
      [] result.kind = "suspended" -> "WAITING"
      [] result.kind \in {"failed", "refused"} -> "FAILED"

\* _settle and _refuse_repeat: guarded by the node's transition only, neither by
\* the attempt that was invoked nor by who holds the lease.
CommitSettle(p) ==
    /\ pc[p] = "write"
    /\ \E n \in ToSettle(todo[p]) :
        LET result == todo[p][n]
            rest == [m \in DOMAIN todo[p] \ {n} |-> todo[p][m]]
        IN
        /\ \A m \in ToSettle(todo[p]) : n <= m
        /\ \/ /\ <<snap[p].st[n], StatusOf(result)>> \notin NodeTransitions \/ Collides(p)
              /\ Raise(p)
           \/ /\ <<snap[p].st[n], StatusOf(result)>> \in NodeTransitions
              /\ ~Collides(p)
              /\ st' = [st EXCEPT ![n] = StatusOf(result)]
              /\ out' = IF result.kind = "completed"
                        THEN [out EXCEPT ![n] = result.handles] ELSE out
              /\ IF result.kind = "suspended"
                 THEN /\ issued < MaxTokens
                      /\ issued' = issued + 1
                      /\ token' = [token EXCEPT ![n] = issued + 1]
                 ELSE UNCHANGED <<issued, token>>
              /\ seq' = seq + 1
              /\ pc' = [pc EXCEPT ![p] = Onward(rest)]
              /\ snap' = [snap EXCEPT ![p] = NoSnap]
              /\ todo' = [todo EXCEPT ![p] = rest]
              /\ UNCHANGED <<tasks, run, att, cycles>>
    /\ UNCHANGED <<held, calls>>

-----------------------------------------------------------------------------
(* API requests *)

\* advance_run.
RequestAdvance(c) ==
    /\ pc[c] = "off"
    /\ pc' = [pc EXCEPT ![c] = "read"]
    /\ UNCHANGED <<tasks, held, rows, snap, todo, cycles, calls>>

\* resume_run with a token somebody was given; a token that matches no waiting
\* node of a suspended run is refused and changes nothing.
BeginResume(c) ==
    /\ pc[c] = "off"
    /\ \E k \in 1 .. issued, n \in Graph.nodes :
        /\ token[n] = k /\ st[n] = "WAITING" /\ run = "SUSPENDED"
        /\ todo' = [todo EXCEPT ![c] = [m \in {n} |-> [attempt |-> att[n], resumed |-> TRUE]]]
    /\ pc' = [pc EXCEPT ![c] = "resume"]
    /\ snap' = [snap EXCEPT ![c] = Snapshot]
    /\ UNCHANGED <<tasks, held, rows, cycles, calls>>

CommitResume(c) ==
    /\ pc[c] = "resume"
    /\ \/ Collides(c) /\ Raise(c)
       \/ /\ ~Collides(c)
          /\ st' = [n \in Graph.nodes |-> IF n \in DOMAIN todo[c] THEN "RUNNING" ELSE st[n]]
          /\ token' = [n \in Graph.nodes |-> IF n \in DOMAIN todo[c] THEN 0 ELSE token[n]]
          /\ run' = "RUNNING"
          /\ Insert(TheRun, 0)
          /\ seq' = seq + 1
          /\ pc' = [pc EXCEPT ![c] = "invoke"]
          /\ snap' = [snap EXCEPT ![c] = NoSnap]
          /\ UNCHANGED <<out, att, issued, todo, cycles>>
    /\ UNCHANGED <<held, calls>>

\* The process forgets everything: the request was answered, or it crashed.
Forget(p) ==
    /\ pc' = [pc EXCEPT ![p] = "off"]
    /\ snap' = [snap EXCEPT ![p] = NoSnap]
    /\ todo' = [todo EXCEPT ![p] = Empty]
    /\ cycles' = [cycles EXCEPT ![p] = 0]
    /\ UNCHANGED <<rows, calls>>

Respond(c) == pc[c] \in {"returned", "raised"} /\ Forget(c) /\ UNCHANGED <<tasks, held>>

CrashCaller(c) == pc[c] # "off" /\ Forget(c) /\ UNCHANGED <<tasks, held>>

-----------------------------------------------------------------------------
(* Workers *)

LockTask(w) == (\E t \in TaskIds : Lock(w, t)) /\ UNCHANGED <<rows, local, calls>>

ClaimTask(w) ==
    /\ Claim(w)
    /\ pc' = [pc EXCEPT ![w] = "read"]
    /\ UNCHANGED <<rows, snap, todo, cycles, calls>>

\* The heartbeat runs beside the advance and is stopped when it ends. A refusal
\* is only remembered: the advance is not cancelled.
Beat(w) ==
    /\ pc[w] \notin {"returned", "raised"}
    /\ Heartbeat(w)
    /\ UNCHANGED <<rows, local, calls>>

ReleaseTask(w) == pc[w] = "returned" /\ Release(w) /\ Forget(w)

AbandonTask(w) == pc[w] = "raised" /\ Abandon(w) /\ Forget(w)

CrashWorker(w) == Crash(w) /\ Forget(w)

Elapse == PassTime /\ UNCHANGED <<rows, local, calls>>

-----------------------------------------------------------------------------
Step(p) ==
    BeginTick(p) \/ CommitTick(p) \/ Invoke(p) \/ BeginSettle(p) \/ CommitSettle(p)

Next ==
    \/ \E p \in Procs : Step(p)
    \/ \E c \in Resumers : BeginResume(c) \/ CommitResume(c)
    \/ \E c \in Advancers : RequestAdvance(c)
    \/ \E c \in Callers : Respond(c) \/ CrashCaller(c)
    \/ \E w \in Workers :
        LockTask(w) \/ ClaimTask(w) \/ Beat(w) \/ ReleaseTask(w) \/ AbandonTask(w) \/ CrashWorker(w)
    \/ Elapse

Spec == Init /\ [][Next]_vars

\* A live worker polls, and its code keeps executing; time passes.
Fairness ==
    /\ WF_vars(Elapse)
    /\ \A w \in Workers :
        /\ WF_vars(LockTask(w))
        /\ WF_vars(ClaimTask(w))
        /\ WF_vars(Step(w))
        /\ WF_vars(Beat(w))
        /\ WF_vars(ReleaseTask(w) \/ AbandonTask(w))

FairSpec == Spec /\ Fairness

-----------------------------------------------------------------------------
(* Properties *)

\* Every interleaving of units of work on stale snapshots, by processes with and
\* without the lease, is a sequence of whole transactions on current rows: the
\* run never loses an update and never sees half of one.
Engine == INSTANCE RunEngine WITH
    graph <- Graph, Graphs <- {Graph}, task <- Outstanding(TheRun) # {}

ImplementsEngine == Engine!Spec

\* A node's runner is called afresh once for each attempt its row records, at
\* most, so an idempotency key built from the attempt is never reused by two
\* independent invocations (idempotency_key, _apply).
OneCallPerAttempt == \A n \in Graph.nodes : calls[n] <= att[n]

\* AT_MOST_ONCE nodes are invoked once, whoever crashes, lapses or races
\* (_repeat_would_be_unsafe).
AtMostOnceHolds == \A n \in AtMostOnce : calls[n] <= 1

\* No side effect is asked for twice: neither under one idempotency key nor,
\* of an AT_MOST_ONCE node, at all.
CallsAreNotRepeated == OneCallPerAttempt /\ AtMostOnceHolds

\* A node holds a token exactly while it waits, and no two the same: an approval
\* names one suspension (_settle, resume_run).
TokensNameSuspensions ==
    \A n \in Graph.nodes :
        /\ token[n] # 0 <=> st[n] = "WAITING"
        /\ \A m \in Graph.nodes : token[n] # 0 /\ token[n] = token[m] => m = n

\* run_service.py, _apply, on finish_outstanding: "In this transaction, so the
\* run's status and the queue's view of it can never disagree." A run that must
\* still be driven has a task, and a run at rest has none. On the graphs of the
\* runs, that is: where a pruning makes a node ready beside a waiting one, the early
\* conclusion (RunEngine) parks the run, closes its task, and goes on without one.
RunAndQueueAgree ==
    run \in {"PENDING", "RUNNING"} <=> Outstanding(TheRun) # {}

\* A worker closes its task by hand only if there is nothing left to do: release
\* never drops the task of a run that is still to be driven (Worker._settle).
NothingReleasedUnfinished ==
    [][\A w \in Workers : pc[w] = "returned" /\ pc'[w] = "off" /\ tasks' # tasks =>
            Settled(run) \/ held'[w] = Dead]_vars

\* _advance's guard never fires for a run that is driven by workers only: a run
\* needs no more cycles than its graph has nodes, and one.
WithinCycleLimit ==
    \A p \in Procs : pc[p] = "read" /\ cycles[p] = Limit => Quiet(Tick(Graph, run, st, out))

\* The run is driven to rest in the end although a worker may crash at any
\* point, between any two transactions.
RunSettles == <>[](Settled(run) /\ Outstanding(TheRun) = {})

Executing(p, n) == pc[p] \in {"invoke", "settle", "write"} /\ n \in DOMAIN todo[p]

\* scheduler.py:71-73, "A node found RUNNING at the start of a tick was left
\* there by a process that died: nothing else can produce that state". So it is
\* as long as workers are scheduled in time to keep their leases and nobody
\* resumes the run: resume_run enqueues the task before it invokes the node, and
\* a worker that claims it recovers the node the request is executing.
RecoversOnlyTheDead ==
    [][\A n \in Graph.nodes : att'[n] # att[n] => \A p \in Procs : ~Executing(p, n)]_vars
=============================================================================
