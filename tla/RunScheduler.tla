---------------------------- MODULE RunScheduler ----------------------------
(***************************************************************************)
(* The scheduler's tick (domain/engine/scheduler.py): a pure function from *)
(* a snapshot of a run to the decisions that move it on.                   *)
(*                                                                         *)
(* A graph g is [nodes, edges]; an edge leaves its source's output handle  *)
(* and enters one input port of its target. Nodes are numbers, in the      *)
(* graph's declaration order. st[n] is the status of n's execution and     *)
(* out[n] the set of handles it emitted a value on ({} until it succeeds). *)
(***************************************************************************)
EXTENDS EngineState, Naturals

NoStatus == "none"

IsGraph(g) ==
    /\ g.nodes \subseteq Nat
    /\ g.nodes # {}
    /\ \A e \in g.edges : e.source \in g.nodes /\ e.target \in g.nodes

\* Publishing rejects a cycle; a rank that grows along every edge says so
\* without recursion.
IsAcyclic(g) ==
    \E rank \in [g.nodes -> g.nodes] : \A e \in g.edges : rank[e.source] < rank[e.target]

Incoming(g, n) == {e \in g.edges : e.target = n}

\* _reject_unsupported_fan_in: two edges into one input port.
SupportedFanIn(g) ==
    \A e, f \in g.edges : e.target = f.target /\ e.port = f.port => e = f

\* The source succeeded and emitted on the handle this edge leaves from.
IsLive(st, out, e) ==
    st[e.source] = "SUCCEEDED" /\ e.handle \in out[e.source]

\* Mutants of IsDead: a skipped source is forgotten; any edge not live is dead.
IsDeadUnlessSkipped(st, out, e) ==
    st[e.source] = "SUCCEEDED" /\ e.handle \notin out[e.source]
IsDeadIfNotLive(st, out, e) == ~IsLive(st, out, e)

\* The source was skipped, or succeeded and stayed silent on the handle. Not the
\* negation of IsLive: an edge from an unsettled node is neither.
IsDead(st, out, e) ==
    \/ st[e.source] = "SKIPPED"
    \/ st[e.source] = "SUCCEEDED" /\ e.handle \notin out[e.source]

\* Every inbound edge is resolved and one at least carried a value.
UpstreamSatisfied(g, st, out, n) ==
    \/ Incoming(g, n) = {}
    \/ /\ \A e \in Incoming(g, n) : IsLive(st, out, e) \/ IsDead(st, out, e)
       /\ \E e \in Incoming(g, n) : IsLive(st, out, e)

\* Mutant of UpstreamDead: one dead edge is enough.
UpstreamDeadOnAny(g, st, out, n) == \E e \in Incoming(g, n) : IsDead(st, out, e)

\* Nothing will ever arrive at n.
UpstreamDead(g, st, out, n) ==
    /\ Incoming(g, n) # {}
    /\ \A e \in Incoming(g, n) : IsDead(st, out, e)

Stranded(g, st) == {n \in g.nodes : st[n] = "RUNNING"}

\* Mutant of Prunable: one dead edge is enough.
PrunableOnAnyDead(g, st, out) ==
    {n \in g.nodes : st[n] = "PENDING" /\ \E e \in Incoming(g, n) : IsDead(st, out, e)}

Prunable(g, st, out) ==
    {n \in g.nodes : st[n] = "PENDING" /\ UpstreamDead(g, st, out, n)}

\* Mutants of Ready: a stranded node waits for the next tick; a node starts on
\* the first value that arrives.
ReadyPendingOnly(g, st, out) ==
    {n \in g.nodes : st[n] = "PENDING" /\ UpstreamSatisfied(g, st, out, n)}
ReadyOnFirstArrival(g, st, out) ==
    {n \in g.nodes :
        /\ st[n] \in {"PENDING", "RUNNING"}
        /\ Incoming(g, n) = {} \/ \E e \in Incoming(g, n) : IsLive(st, out, e)}

\* A stranded node counts as PENDING: its recovery is applied first.
Ready(g, st, out) ==
    {n \in g.nodes : st[n] \in {"PENDING", "RUNNING"} /\ UpstreamSatisfied(g, st, out, n)}

\* Mutants of Conclusion: a failure ends the run at once; what this tick starts
\* is overlooked.
ConclusionFailFast(g, st, starting) ==
    IF \E n \in g.nodes : st[n] = "FAILED" THEN "FAILED"
    ELSE IF starting # {} \/ \E n \in g.nodes : st[n] = "RUNNING" THEN "RUNNING"
    ELSE IF \E n \in g.nodes : st[n] = "WAITING" THEN "SUSPENDED"
    ELSE IF \A n \in g.nodes : NodeTerminal(st[n]) THEN "COMPLETED" ELSE NoStatus
ConclusionIgnoringStarts(g, st, starting) ==
    IF \E n \in g.nodes : st[n] = "RUNNING" THEN "RUNNING"
    ELSE IF \E n \in g.nodes : st[n] = "WAITING" THEN "SUSPENDED"
    ELSE IF \E n \in g.nodes : st[n] = "FAILED" THEN "FAILED"
    ELSE IF \A n \in g.nodes : NodeTerminal(st[n]) THEN "COMPLETED" ELSE NoStatus

\* _run_status: most live first, judged on the statuses the snapshot holds,
\* before this tick's prunings.
Conclusion(g, st, starting) ==
    IF starting # {} \/ \E n \in g.nodes : st[n] = "RUNNING" THEN "RUNNING"
    ELSE IF \E n \in g.nodes : st[n] = "WAITING" THEN "SUSPENDED"
    ELSE IF \E n \in g.nodes : st[n] = "FAILED" THEN "FAILED"
    ELSE IF g.nodes # {} /\ \A n \in g.nodes : NodeTerminal(st[n]) THEN "COMPLETED"
    ELSE NoStatus

\* The decisions of one tick. status is NoStatus when the run keeps its own.
Tick(g, run, st, out) ==
    LET ready == Ready(g, st, out)
        conclusion == Conclusion(g, st, ready)
    IN  [recover |-> Stranded(g, st),
         skip    |-> Prunable(g, st, out),
         start   |-> ready,
         status  |-> IF conclusion = run THEN NoStatus ELSE conclusion]

Quiet(d) == d.recover = {} /\ d.skip = {} /\ d.start = {} /\ d.status = NoStatus

-----------------------------------------------------------------------------
(***************************************************************************)
(* RunService._apply: what one tick's decisions do to the rows, in the     *)
(* order recover, skip, start, status, each behind its transition guard.   *)
(***************************************************************************)

AfterRecover(st, d) == [n \in DOMAIN st |-> IF n \in d.recover THEN "PENDING" ELSE st[n]]

AfterSkip(st, d) ==
    [n \in DOMAIN st |-> IF n \in d.skip THEN "SKIPPED" ELSE AfterRecover(st, d)[n]]

AfterStart(st, d) ==
    [n \in DOMAIN st |-> IF n \in d.start THEN "RUNNING" ELSE AfterSkip(st, d)[n]]

\* Mutant of AfterTickRun: the absence of a decision is written too.
AfterTickRunUnguarded(run, d) == d.status

AfterTickRun(run, d) == IF d.status = NoStatus THEN run ELSE d.status

\* The guards all pass; otherwise _apply raises and the transaction rolls back.
Applicable(run, st, d) ==
    /\ \A n \in d.recover : <<st[n], "PENDING">> \in NodeTransitions
    /\ \A n \in d.skip : <<AfterRecover(st, d)[n], "SKIPPED">> \in NodeTransitions
    /\ \A n \in d.start : <<AfterSkip(st, d)[n], "RUNNING">> \in NodeTransitions
    /\ d.status # NoStatus => <<run, d.status>> \in RunTransitions

\* Mutant of ClosesTask: a suspended run keeps its task.
ClosesTaskAtEndOnly(d) == d.status # NoStatus /\ RunTerminal(d.status)

\* finish_outstanding runs when the status a tick sets is a resting one.
ClosesTask(d) == d.status # NoStatus /\ Settled(d.status)
=============================================================================
