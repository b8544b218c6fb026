----------------------------- MODULE RunEngine -----------------------------
(***************************************************************************)
(* What a run promises: the rows of one run in the database, and the       *)
(* transactions of RunService that change them, each as one atomic step on *)
(* the current rows, whoever performs it. There is no notion of a process  *)
(* here; RunExecution has the processes, their snapshots and their crashes,*)
(* and is shown to implement this module.                                  *)
(***************************************************************************)
EXTENDS RunScheduler

CONSTANTS
    Graphs,       \* the published graphs a run may execute
    Handles,      \* output handles a node may emit on
    MaxAttempt    \* bound on node_executions.attempt

ASSUME GraphsAssumption ==
    \A g \in Graphs :
        IsGraph(g) /\ IsAcyclic(g) /\ SupportedFanIn(g) /\ \A e \in g.edges : e.handle \in Handles

ASSUME MaxAttemptAssumption == MaxAttempt \in Nat \ {0}

VARIABLES
    graph,  \* the version this run executes, fixed when it is created
    run,    \* runs.status
    st,     \* node_executions.status, by node
    out,    \* the handles in node_executions.output
    att,    \* node_executions.attempt
    task    \* whether the run has an outstanding (QUEUED or LEASED) queue task

vars == <<graph, run, st, out, att, task>>

TypeOK ==
    /\ graph \in Graphs
    /\ run \in RunStatus
    /\ st \in [graph.nodes -> NodeStatus]
    /\ out \in [graph.nodes -> SUBSET Handles]
    /\ att \in [graph.nodes -> 1 .. MaxAttempt]
    /\ task \in BOOLEAN

\* _materialize: the run, one PENDING execution per node, and the queue task,
\* in one transaction.
Init ==
    /\ graph \in Graphs
    /\ run = "PENDING"
    /\ st = [n \in graph.nodes |-> "PENDING"]
    /\ out = [n \in graph.nodes |-> {}]
    /\ att = [n \in graph.nodes |-> 1]
    /\ task = TRUE

\* One cycle of _advance: tick the current rows and apply what it decides.
Advance ==
    LET d == Tick(graph, run, st, out) IN
    /\ ~Quiet(d)
    /\ Applicable(run, st, d)
    /\ \A n \in d.recover : att[n] < MaxAttempt
    /\ st' = AfterStart(st, d)
    /\ att' = [n \in graph.nodes |-> IF n \in d.recover THEN att[n] + 1 ELSE att[n]]
    /\ run' = AfterTickRun(run, d)
    /\ task' = (task /\ ~ClosesTask(d))
    /\ UNCHANGED <<graph, out>>

\* _settle: the three results of a runner, each refused unless n is RUNNING.
Settle(n, status, emitted) ==
    /\ <<st[n], status>> \in NodeTransitions
    /\ st' = [st EXCEPT ![n] = status]
    /\ out' = [out EXCEPT ![n] = emitted]
    /\ UNCHANGED <<graph, run, att, task>>

Succeed(n) == \E emitted \in SUBSET Handles : Settle(n, "SUCCEEDED", emitted)

\* Also _refuse_repeat, which fails a node without invoking it.
Fail(n) == Settle(n, "FAILED", out[n])

Suspend(n) == Settle(n, "WAITING", out[n])

\* The transaction of resume_run: un-suspend the run and enqueue it again.
Resume(n) ==
    /\ st[n] = "WAITING"
    /\ run = "SUSPENDED"
    /\ st' = [st EXCEPT ![n] = "RUNNING"]
    /\ run' = "RUNNING"
    /\ task' = TRUE
    /\ UNCHANGED <<graph, out, att>>

Next ==
    \/ Advance
    \/ \E n \in graph.nodes : Succeed(n) \/ Fail(n) \/ Suspend(n) \/ Resume(n)

Spec == Init /\ [][Next]_vars

-----------------------------------------------------------------------------
(* Properties *)

\* Readiness survives: a node that was handed to a runner had, and still has,
\* every inbound edge resolved and one live, so no later step can take away the
\* inputs it ran with (_upstream_satisfied, _apply, _settle).
ExecutedIsSatisfied ==
    \A n \in graph.nodes :
        st[n] \in {"RUNNING", "WAITING", "SUCCEEDED", "FAILED"} =>
            UpstreamSatisfied(graph, st, out, n)

\* Pruning is never premature: a skipped node's inbound edges are dead for good,
\* so nothing can still arrive at it (_prunable).
SkippedIsDead ==
    \A n \in graph.nodes : st[n] = "SKIPPED" => UpstreamDead(graph, st, out, n)

\* The run's status and its nodes' agree after every transaction, though a
\* settle writes the node and leaves the run for the next tick (_run_status,
\* _settle).
RunStatusAgrees ==
    /\ run = "PENDING" => \A n \in graph.nodes : st[n] = "PENDING"
    /\ \A n \in graph.nodes : st[n] = "RUNNING" => run = "RUNNING"
    /\ run = "SUSPENDED" => \E n \in graph.nodes : st[n] = "WAITING"
    /\ run = "FAILED" =>
          /\ \E n \in graph.nodes : st[n] = "FAILED"
          /\ \A n \in graph.nodes : st[n] # "WAITING"
    /\ run = "COMPLETED" => \A n \in graph.nodes : st[n] \in {"SUCCEEDED", "SKIPPED"}

\* A parked or finished run holds no claimable work (_apply calls
\* finish_outstanding in the transaction that settles the run).
SettledHoldsNoTask == Settled(run) => ~task

\* What a run's rows may ever say, together: readiness and pruning that were
\* right when decided stay right, and the run, its nodes and the queue agree.
RecordIsSound ==
    /\ ExecutedIsSatisfied
    /\ SkippedIsDead
    /\ RunStatusAgrees
    /\ SettledHoldsNoTask

\* A recovered node is restarted by the tick that recovers it: nothing is left
\* PENDING by a recovery for want of a second tick (_ready's `recovered`).
RecoveryRestarts == Stranded(graph, st) \subseteq Ready(graph, st, out)

\* The scheduler's None case, "nothing running, nothing ready, nothing waiting,
\* no failure, yet not everything is terminal", cannot happen: a tick that
\* decides nothing leaves a run that is parked or finished, so _advance never
\* returns a run that is stuck halfway (_run_status, _advance).
NoStall == Quiet(Tick(graph, run, st, out)) => Settled(run)

\* The same for the transition guards: outside a run that already FAILED, the
\* scheduler never decides what _apply would refuse.
DecisionsApply == run # "FAILED" => Applicable(run, st, Tick(graph, run, st, out))

\* What a tick may ever decide, together: it strands nothing, leaves nothing it
\* recovered behind, and decides nothing that cannot be applied.
TickIsSound == NoStall /\ RecoveryRestarts /\ DecisionsApply

\* A reference definition of which nodes a completed run executed, independent
\* of ticks and pruning: those a value could flow to from a root, that is, the
\* members of every set that holds the roots and is closed under live edges.
CompletedMeansReached ==
    LET Closed(S) ==
            /\ {n \in graph.nodes : Incoming(graph, n) = {}} \subseteq S
            /\ \A e \in graph.edges :
                  e.source \in S /\ e.handle \in out[e.source] => e.target \in S
        reached == {n \in graph.nodes :
                        \A S \in SUBSET graph.nodes : Closed(S) => n \in S}
    IN  run = "COMPLETED" => reached = {n \in graph.nodes : st[n] = "SUCCEEDED"}

\* A finished run is final: no later transaction changes its status, and none
\* starts or re-opens a node of it (RUN_TRANSITIONS, _apply, resume_run). Nodes
\* may still be pruned.
FinishedIsFinal ==
    [][RunTerminal(run) =>
        /\ run' = run
        /\ \A n \in graph.nodes : st'[n] = st[n] \/ st'[n] = "SKIPPED"]_vars

\* scheduler.py:236-240, "Only once nothing can move does the run take a
\* conclusion". The code judges the statuses from before the tick's prunings, so
\* it can conclude FAILED or SUSPENDED, and close the queue task, in the tick
\* whose pruning makes a rejoin node ready.
ConcludesWhenNothingCanMove ==
    run \in {"FAILED", "SUSPENDED"} => Ready(graph, st, out) = {}
=============================================================================
