-------------------------- MODULE RunEngineProofs --------------------------
(***************************************************************************)
(* Proofs about RunEngine, for every finite or infinite set of published   *)
(* graphs, every set of handles and every bound on attempts.               *)
(***************************************************************************)
EXTENDS RunEngine, TLAPS, WellFoundedInduction

Typed(g, s) == s \in [g.nodes -> NodeStatus]

\* An acyclic graph has, in any non-empty set of nodes, one that no edge enters
\* from the set.
LEMMA MinimalNode ==
    ASSUME NEW g, IsGraph(g), IsAcyclic(g), NEW S, S \subseteq g.nodes, S # {}
    PROVE  \E m \in S : \A e \in Incoming(g, m) : e.source \notin S
<1>1. PICK rank \in [g.nodes -> g.nodes] : \A e \in g.edges : rank[e.source] < rank[e.target]
  BY DEF IsAcyclic
<1> DEFINE T == {rank[n] : n \in S}
<1>2. T \subseteq Nat /\ T # {}
  BY <1>1 DEF IsGraph
<1>3. \E r \in T : \A q \in T : ~(<<q, r>> \in OpToRel(<, Nat))
  <2> HIDE DEF T
  <2> QED  BY <1>2, NatLessThanWellFounded, WFMin
<1>4. PICK m \in S : \A q \in T : ~(<<q, rank[m]>> \in OpToRel(<, Nat))
  BY <1>3
<1>5. ASSUME NEW e \in Incoming(g, m), e.source \in S  PROVE FALSE
  <2>1. rank[e.source] \in T /\ rank[e.source] \in Nat /\ rank[m] \in Nat
    BY <1>1, <1>2, <1>5
  <2>2. rank[e.source] < rank[m]
    BY <1>1, <1>5 DEF Incoming
  <2>3. <<rank[e.source], rank[m]>> \in OpToRel(<, Nat)
    BY <2>1, <2>2 DEF OpToRel
  <2> QED  BY <1>4, <2>1, <2>3
<1> QED  BY <1>4, <1>5

\* The terminal statuses, as the tables give them.
LEMMA TerminalStatuses ==
    /\ \A s \in NodeStatus : NodeTerminal(s) <=> s \in {"SUCCEEDED", "FAILED", "SKIPPED"}
    /\ \A s \in RunStatus : RunTerminal(s) <=> s \in {"COMPLETED", "FAILED"}
BY DEF NodeStatus, NodeTerminal, NodeTransitions, RunStatus, RunTerminal, RunTransitions

\* With nothing running, waiting or failed, some node of an unfinished graph can
\* be started or pruned.
LEMMA SomethingCanMove ==
    ASSUME NEW g, IsGraph(g), IsAcyclic(g), NEW s, Typed(g, s), NEW o,
           \A n \in g.nodes : s[n] \in {"PENDING", "SUCCEEDED", "SKIPPED"},
           \E n \in g.nodes : s[n] = "PENDING"
    PROVE  Ready(g, s, o) # {} \/ Prunable(g, s, o) # {}
<1> DEFINE S == {n \in g.nodes : s[n] = "PENDING"}
<1>1. PICK m \in S : \A e \in Incoming(g, m) : e.source \notin S
  <2>1. S \subseteq g.nodes /\ S # {}
    OBVIOUS
  <2> HIDE DEF S
  <2> QED  BY <2>1, MinimalNode
<1>2. ASSUME NEW e \in Incoming(g, m)  PROVE IsLive(s, o, e) \/ IsDead(s, o, e)
  <2>1. e.source \in g.nodes /\ s[e.source] \in {"SUCCEEDED", "SKIPPED"}
    BY <1>1 DEF Incoming, IsGraph
  <2> QED  BY <2>1 DEF IsLive, IsDead
<1>3. CASE UpstreamSatisfied(g, s, o, m)
  BY <1>1, <1>3 DEF Ready
<1>4. CASE ~UpstreamSatisfied(g, s, o, m)
  <2>1. UpstreamDead(g, s, o, m)
    BY <1>2, <1>4 DEF UpstreamSatisfied, UpstreamDead
  <2> QED  BY <1>1, <2>1 DEF Prunable
<1> QED  BY <1>3, <1>4

\* A tick that decides nothing is the tick of a parked or finished run.
LEMMA QuietIsSettled ==
    ASSUME NEW g, IsGraph(g), IsAcyclic(g), NEW s, Typed(g, s), NEW o, NEW r \in RunStatus,
           Quiet(Tick(g, r, s, o))
    PROVE  Settled(r)
<1> DEFINE c == Conclusion(g, s, Ready(g, s, o))
<1>1. /\ Stranded(g, s) = {} /\ Prunable(g, s, o) = {} /\ Ready(g, s, o) = {}
      /\ c = r \/ c = NoStatus
  BY DEF Quiet, Tick
<1>2. \A n \in g.nodes : s[n] # "RUNNING"
  BY <1>1 DEF Stranded
<1>3. CASE c = r
  BY <1>1, <1>2, <1>3 DEF Conclusion, Settled, RunTerminal, RunTransitions, RunStatus, NoStatus
<1>4. CASE c = NoStatus
  <2>1. \A n \in g.nodes : s[n] \in {"PENDING", "SUCCEEDED", "SKIPPED"}
    BY <1>1, <1>2, <1>4 DEF Conclusion, NoStatus, Typed, NodeStatus
  <2>2. \E n \in g.nodes : s[n] = "PENDING"
    BY <1>1, <1>4, <2>1, TerminalStatuses DEF Conclusion, NoStatus, IsGraph, NodeStatus
  <2>3. FALSE
    BY <1>1, <2>1, <2>2, SomethingCanMove
  <2> QED  BY <2>3
<1> QED  BY <1>1, <1>3, <1>4

\* A resolved edge stays resolved: as long as finished nodes keep their status
\* and outputs, what satisfied or killed a node's inputs still does.
LEMMA ResolvedIsStable ==
    ASSUME NEW g, IsGraph(g), NEW s, NEW o, NEW s2, NEW o2,
           \A n \in g.nodes : s[n] \in {"SUCCEEDED", "SKIPPED"} => s2[n] = s[n] /\ o2[n] = o[n],
           NEW n \in g.nodes
    PROVE  /\ UpstreamSatisfied(g, s, o, n) => UpstreamSatisfied(g, s2, o2, n)
           /\ UpstreamDead(g, s, o, n) => UpstreamDead(g, s2, o2, n)
<1>1. ASSUME NEW e \in Incoming(g, n)
      PROVE  /\ IsLive(s, o, e) => IsLive(s2, o2, e)
             /\ IsDead(s, o, e) => IsDead(s2, o2, e)
  <2>1. e.source \in g.nodes
    BY DEF Incoming, IsGraph
  <2> QED  BY <2>1 DEF IsLive, IsDead
<1> QED  BY <1>1 DEF UpstreamSatisfied, UpstreamDead

\* No node is both startable and prunable, so _apply never skips a node and then
\* fails to start it.
LEMMA ReadyPrunableDisjoint ==
    ASSUME NEW g, NEW s, NEW o
    PROVE  Ready(g, s, o) \cap Prunable(g, s, o) = {}
<1> SUFFICES ASSUME NEW n \in Ready(g, s, o), n \in Prunable(g, s, o) PROVE FALSE
  OBVIOUS
<1>1. UpstreamSatisfied(g, s, o, n) /\ UpstreamDead(g, s, o, n)
  BY DEF Ready, Prunable
<1>2. PICK e \in Incoming(g, n) : IsLive(s, o, e) /\ IsDead(s, o, e)
  BY <1>1 DEF UpstreamSatisfied, UpstreamDead
<1> QED  BY <1>2 DEF IsLive, IsDead

\* What one tick makes of every node's status.
LEMMA TickEffect ==
    ASSUME NEW g, NEW s, Typed(g, s), NEW o, NEW r, NEW n \in g.nodes
    PROVE  LET s2 == AfterStart(s, Tick(g, r, s, o)) IN
           s2[n] = IF n \in Ready(g, s, o) THEN "RUNNING"
                   ELSE IF n \in Prunable(g, s, o) THEN "SKIPPED"
                   ELSE IF s[n] = "RUNNING" THEN "PENDING" ELSE s[n]
BY DEF AfterStart, AfterSkip, AfterRecover, Tick, Stranded, Typed

\* A tick leaves what has finished or waits alone.
LEMMA TickKeepsFinished ==
    ASSUME NEW g, NEW s, Typed(g, s), NEW o, NEW r, NEW n \in g.nodes,
           s[n] \notin {"PENDING", "RUNNING"}
    PROVE  AfterStart(s, Tick(g, r, s, o))[n] = s[n]
<1>1. n \notin Ready(g, s, o) /\ n \notin Prunable(g, s, o)
  BY DEF Ready, Prunable
<1> QED  BY <1>1, TickEffect

-----------------------------------------------------------------------------
(***************************************************************************)
(* The inductive invariant. ExecutedIsSatisfied is what makes recovery     *)
(* safe: a node that ran is ready again as soon as it is stranded.         *)
(***************************************************************************)

IInv ==
    /\ TypeOK
    /\ ExecutedIsSatisfied
    /\ SkippedIsDead
    /\ RunStatusAgrees
    /\ SettledHoldsNoTask

LEMMA GraphFacts == ASSUME TypeOK PROVE IsGraph(graph) /\ IsAcyclic(graph) /\ Typed(graph, st)
BY GraphsAssumption DEF TypeOK, Typed

\* The status a tick leaves the run with, by what its nodes are doing.
LEMMA ConclusionCases ==
    ASSUME NEW g, IsGraph(g), NEW s, Typed(g, s), NEW o, NEW r,
           NEW c, c = Conclusion(g, s, Ready(g, s, o))
    PROVE  /\ c \in RunStatus \cup {NoStatus}
           /\ c = "RUNNING" <=> Ready(g, s, o) # {} \/ \E n \in g.nodes : s[n] = "RUNNING"
           /\ c = "SUSPENDED" => \E n \in g.nodes : s[n] = "WAITING"
           /\ c = "FAILED" => /\ \E n \in g.nodes : s[n] = "FAILED"
                              /\ \A n \in g.nodes : s[n] # "WAITING"
           /\ c = "COMPLETED" => \A n \in g.nodes : s[n] \in {"SUCCEEDED", "SKIPPED"}
           /\ c # "PENDING"
           /\ (\E n \in g.nodes : s[n] = "WAITING") => c \in {"RUNNING", "SUSPENDED"}
           /\ (\E n \in g.nodes : s[n] = "FAILED") => c \in {"RUNNING", "SUSPENDED", "FAILED"}
<1>1. c = "COMPLETED" => \A n \in g.nodes : s[n] \in {"SUCCEEDED", "SKIPPED"}
  BY TerminalStatuses DEF Conclusion, NoStatus, Typed
<1> QED  BY <1>1 DEF Conclusion, NoStatus, RunStatus

LEMMA InitIInv == Init => IInv
<1> SUFFICES ASSUME Init PROVE IInv
  OBVIOUS
<1>1. TypeOK
  BY MaxAttemptAssumption DEF Init, TypeOK, RunStatus, NodeStatus
<1>2. ExecutedIsSatisfied /\ SkippedIsDead /\ RunStatusAgrees
  BY GraphFacts, <1>1 DEF Init, ExecutedIsSatisfied, SkippedIsDead, RunStatusAgrees, IsGraph
<1>3. SettledHoldsNoTask
  BY TerminalStatuses DEF Init, SettledHoldsNoTask, Settled, RunStatus
<1> QED  BY <1>1, <1>2, <1>3 DEF IInv

LEMMA AdvanceIInv == ASSUME IInv, Advance PROVE IInv'
<1> DEFINE d == Tick(graph, run, st, out)
           c == Conclusion(graph, st, Ready(graph, st, out))
<1>1. /\ IsGraph(graph) /\ IsAcyclic(graph) /\ Typed(graph, st) /\ TypeOK
      /\ ExecutedIsSatisfied /\ SkippedIsDead /\ RunStatusAgrees /\ SettledHoldsNoTask
  BY GraphFacts DEF IInv
<1>2. /\ st' = AfterStart(st, d) /\ graph' = graph /\ out' = out
      /\ Applicable(run, st, d)
      /\ run' = AfterTickRun(run, d) /\ task' = (task /\ ~ClosesTask(d))
  BY DEF Advance
<1>3. \A n \in graph.nodes :
        st'[n] = IF n \in Ready(graph, st, out) THEN "RUNNING"
                 ELSE IF n \in Prunable(graph, st, out) THEN "SKIPPED"
                 ELSE IF st[n] = "RUNNING" THEN "PENDING" ELSE st[n]
  BY <1>1, <1>2, TickEffect
<1>4. \A n \in graph.nodes : st[n] \in {"SUCCEEDED", "SKIPPED"} => st'[n] = st[n] /\ out'[n] = out[n]
  BY <1>1, <1>2, TickKeepsFinished
<1>5. run' = IF c = NoStatus THEN run ELSE c
  BY <1>2 DEF AfterTickRun, Tick, NoStatus
<1>6. TypeOK'
  <2>1. st' \in [graph.nodes -> NodeStatus]
    BY <1>1, <1>2, <1>3 DEF AfterStart, Typed, NodeStatus
  <2>2. run' \in RunStatus
    BY <1>1, <1>5, ConclusionCases DEF TypeOK
  <2>3. att' \in [graph.nodes -> 1 .. MaxAttempt]
    BY <1>1, MaxAttemptAssumption DEF Advance, TypeOK
  <2> QED  BY <1>1, <1>2, <2>1, <2>2, <2>3 DEF TypeOK
<1>7. ExecutedIsSatisfied'
  <2> SUFFICES ASSUME NEW n \in graph.nodes, st'[n] \in {"RUNNING", "WAITING", "SUCCEEDED", "FAILED"}
               PROVE  UpstreamSatisfied(graph, st', out', n)
    BY <1>2 DEF ExecutedIsSatisfied
  <2>1. UpstreamSatisfied(graph, st, out, n)
    BY <1>1, <1>3 DEF ExecutedIsSatisfied, Ready
  <2> QED  BY <1>1, <1>4, <2>1, ResolvedIsStable
<1>8. SkippedIsDead'
  <2> SUFFICES ASSUME NEW n \in graph.nodes, st'[n] = "SKIPPED"
               PROVE  UpstreamDead(graph, st', out', n)
    BY <1>2 DEF SkippedIsDead
  <2>1. UpstreamDead(graph, st, out, n)
    BY <1>1, <1>3 DEF SkippedIsDead, Prunable
  <2> QED  BY <1>1, <1>4, <2>1, ResolvedIsStable
<1>9. RunStatusAgrees'
  <2>1. ASSUME run' = "PENDING"  PROVE \A n \in graph.nodes : st'[n] = "PENDING"
    <3>1. c = NoStatus /\ run = "PENDING"
      BY <1>1, <1>5, <2>1, ConclusionCases
    <3>2. \A n \in graph.nodes : st[n] = "PENDING"
      BY <1>1, <3>1 DEF RunStatusAgrees
    <3>3. Ready(graph, st, out) = {}
      BY <1>1, <3>1, ConclusionCases DEF NoStatus
    <3>4. Prunable(graph, st, out) = {}
      BY <3>2, <1>1 DEF Prunable, UpstreamDead, IsDead, Incoming, IsGraph
    <3> QED  BY <1>3, <3>2, <3>3, <3>4
  <2>2. ASSUME NEW n \in graph.nodes, st'[n] = "RUNNING"  PROVE run' = "RUNNING"
    <3>1. n \in Ready(graph, st, out)
      BY <1>3, <2>2
    <3> QED  BY <1>1, <1>5, <3>1, ConclusionCases DEF NoStatus
  <2>3. \A n \in graph.nodes : st[n] \in {"WAITING", "FAILED", "SUCCEEDED", "SKIPPED"} => st'[n] = st[n]
    BY <1>1, <1>2, TickKeepsFinished
  <2>4. ASSUME run' = "SUSPENDED"  PROVE \E n \in graph.nodes : st'[n] = "WAITING"
    BY <1>1, <1>5, <2>3, <2>4, ConclusionCases DEF RunStatusAgrees, NoStatus
  <2>5. ASSUME run' = "FAILED"
        PROVE  /\ \E n \in graph.nodes : st'[n] = "FAILED"
               /\ \A n \in graph.nodes : st'[n] # "WAITING"
    <3>1. /\ \E n \in graph.nodes : st[n] = "FAILED"
          /\ \A n \in graph.nodes : st[n] # "WAITING"
      BY <1>1, <1>5, <2>5, ConclusionCases DEF RunStatusAgrees, NoStatus
    <3> QED  BY <1>3, <2>3, <3>1
  <2>6. ASSUME run' = "COMPLETED"  PROVE \A n \in graph.nodes : st'[n] \in {"SUCCEEDED", "SKIPPED"}
    <3>1. \A n \in graph.nodes : st[n] \in {"SUCCEEDED", "SKIPPED"}
      BY <1>1, <1>5, <2>6, ConclusionCases DEF RunStatusAgrees, NoStatus
    <3> QED  BY <2>3, <3>1
  <2> QED  BY <1>2, <2>1, <2>2, <2>4, <2>5, <2>6 DEF RunStatusAgrees
<1>10. SettledHoldsNoTask'
  <2>1. d.status = NoStatus => run' = run
    BY <1>2 DEF AfterTickRun
  <2>2. d.status # NoStatus => run' = d.status
    BY <1>2 DEF AfterTickRun
  <2> QED  BY <1>1, <1>2, <2>1, <2>2 DEF SettledHoldsNoTask, ClosesTask
<1> QED  BY <1>6, <1>7, <1>8, <1>9, <1>10 DEF IInv


LEMMA SettleIInv ==
    ASSUME IInv, NEW n \in graph.nodes, NEW s \in {"SUCCEEDED", "FAILED", "WAITING"},
           NEW emitted \in SUBSET Handles, Settle(n, s, emitted)
    PROVE  IInv'
<1>1. /\ IsGraph(graph) /\ Typed(graph, st) /\ TypeOK
      /\ ExecutedIsSatisfied /\ SkippedIsDead /\ RunStatusAgrees /\ SettledHoldsNoTask
  BY GraphFacts DEF IInv
<1>2. st[n] = "RUNNING" /\ run = "RUNNING"
  BY <1>1 DEF Settle, NodeTransitions, RunStatusAgrees
<1>3. /\ st' = [st EXCEPT ![n] = s] /\ out' = [out EXCEPT ![n] = emitted]
      /\ graph' = graph /\ run' = run /\ att' = att /\ task' = task
  BY DEF Settle
<1>4. \A m \in graph.nodes : st[m] \in {"SUCCEEDED", "SKIPPED"} => st'[m] = st[m] /\ out'[m] = out[m]
  BY <1>1, <1>2, <1>3 DEF TypeOK
<1>5. TypeOK'
  BY <1>1, <1>3 DEF TypeOK, NodeStatus
<1>6. ExecutedIsSatisfied'
  <2> SUFFICES ASSUME NEW m \in graph.nodes, st'[m] \in {"RUNNING", "WAITING", "SUCCEEDED", "FAILED"}
               PROVE  UpstreamSatisfied(graph, st', out', m)
    BY <1>3 DEF ExecutedIsSatisfied
  <2>1. UpstreamSatisfied(graph, st, out, m)
    BY <1>1, <1>2, <1>3 DEF ExecutedIsSatisfied, TypeOK
  <2> QED  BY <1>1, <1>4, <2>1, ResolvedIsStable
<1>7. SkippedIsDead'
  <2> SUFFICES ASSUME NEW m \in graph.nodes, st'[m] = "SKIPPED"
               PROVE  UpstreamDead(graph, st', out', m)
    BY <1>3 DEF SkippedIsDead
  <2>1. UpstreamDead(graph, st, out, m)
    BY <1>1, <1>3 DEF SkippedIsDead, TypeOK
  <2> QED  BY <1>1, <1>4, <2>1, ResolvedIsStable
<1>8. RunStatusAgrees'
  BY <1>2, <1>3 DEF RunStatusAgrees
<1>9. SettledHoldsNoTask'
  BY <1>1, <1>3 DEF SettledHoldsNoTask
<1> QED  BY <1>5, <1>6, <1>7, <1>8, <1>9 DEF IInv

LEMMA ResumeIInv == ASSUME IInv, NEW n \in graph.nodes, Resume(n) PROVE IInv'
<1>1. /\ IsGraph(graph) /\ Typed(graph, st) /\ TypeOK
      /\ ExecutedIsSatisfied /\ SkippedIsDead /\ RunStatusAgrees /\ SettledHoldsNoTask
  BY GraphFacts DEF IInv
<1>2. /\ st[n] = "WAITING" /\ st' = [st EXCEPT ![n] = "RUNNING"] /\ out' = out
      /\ graph' = graph /\ run' = "RUNNING" /\ att' = att /\ task' = TRUE
  BY DEF Resume
<1>3. \A m \in graph.nodes : st[m] \in {"SUCCEEDED", "SKIPPED"} => st'[m] = st[m] /\ out'[m] = out[m]
  BY <1>1, <1>2 DEF TypeOK
<1>4. TypeOK'
  BY <1>1, <1>2 DEF TypeOK, NodeStatus, RunStatus
<1>5. ExecutedIsSatisfied'
  <2> SUFFICES ASSUME NEW m \in graph.nodes, st'[m] \in {"RUNNING", "WAITING", "SUCCEEDED", "FAILED"}
               PROVE  UpstreamSatisfied(graph, st', out', m)
    BY <1>2 DEF ExecutedIsSatisfied
  <2>1. UpstreamSatisfied(graph, st, out, m)
    BY <1>1, <1>2 DEF ExecutedIsSatisfied, TypeOK
  <2> QED  BY <1>1, <1>3, <2>1, ResolvedIsStable
<1>6. SkippedIsDead'
  <2> SUFFICES ASSUME NEW m \in graph.nodes, st'[m] = "SKIPPED"
               PROVE  UpstreamDead(graph, st', out', m)
    BY <1>2 DEF SkippedIsDead
  <2>1. UpstreamDead(graph, st, out, m)
    BY <1>1, <1>2 DEF SkippedIsDead, TypeOK
  <2> QED  BY <1>1, <1>3, <2>1, ResolvedIsStable
<1>7. RunStatusAgrees'
  BY <1>2 DEF RunStatusAgrees
<1>8. SettledHoldsNoTask'
  BY <1>2, TerminalStatuses DEF SettledHoldsNoTask, Settled, RunStatus
<1> QED  BY <1>4, <1>5, <1>6, <1>7, <1>8 DEF IInv

LEMMA NextIInv == ASSUME IInv, [Next]_vars PROVE IInv'
<1>1. CASE Advance
  BY <1>1, AdvanceIInv
<1>2. ASSUME NEW n \in graph.nodes, Succeed(n)  PROVE IInv'
  BY <1>2, SettleIInv DEF Succeed
<1>3. ASSUME NEW n \in graph.nodes, Fail(n) \/ Suspend(n)  PROVE IInv'
  <2>1. out[n] \in SUBSET Handles
    BY DEF IInv, TypeOK
  <2> QED  BY <1>3, <2>1, SettleIInv DEF Fail, Suspend
<1>4. ASSUME NEW n \in graph.nodes, Resume(n)  PROVE IInv'
  BY <1>4, ResumeIInv
<1>5. CASE UNCHANGED vars
  BY <1>5 DEF vars, IInv, TypeOK, ExecutedIsSatisfied, SkippedIsDead, RunStatusAgrees,
              SettledHoldsNoTask
<1> QED  BY <1>1, <1>2, <1>3, <1>4, <1>5 DEF Next

\* The inductive invariant holds of every behaviour.
THEOREM EngineInvariant == Spec => []IInv
BY InitIInv, NextIInv, PTL DEF Spec

\* Every reachable state is well typed; nodes that ran had their inputs; skipped
\* nodes could not run; the run's status agrees with its nodes'; a parked or
\* finished run holds no queue task.
THEOREM EngineSafety ==
    Spec => [](TypeOK /\ RecordIsSound)
<1>1. IInv => TypeOK /\ RecordIsSound
  BY DEF IInv, RecordIsSound
<1> QED  BY <1>1, EngineInvariant, PTL

\* The scheduler never leaves a run stuck halfway: a tick that decides nothing
\* is the tick of a parked or finished run, in every acyclic graph.
THEOREM EngineNoStall == Spec => []NoStall
<1>1. IInv => NoStall
  BY GraphFacts, QuietIsSettled DEF IInv, TypeOK, NoStall
<1> QED  BY <1>1, EngineInvariant, PTL

\* Whatever a crash strands in RUNNING, the recovering tick restarts.
THEOREM EngineRecoveryRestarts == Spec => []RecoveryRestarts
<1>1. IInv => RecoveryRestarts
  BY DEF IInv, ExecutedIsSatisfied, RecoveryRestarts, Stranded, Ready
<1> QED  BY <1>1, EngineInvariant, PTL

\* Outside a failed run, what the scheduler decides the transition guards allow.
THEOREM EngineDecisionsApply == Spec => []DecisionsApply
<1>1. ASSUME IInv, run # "FAILED"  PROVE Applicable(run, st, Tick(graph, run, st, out))
  <2> DEFINE d == Tick(graph, run, st, out)
             c == Conclusion(graph, st, Ready(graph, st, out))
  <2>1. IsGraph(graph) /\ Typed(graph, st) /\ TypeOK /\ RunStatusAgrees
    BY <1>1, GraphFacts DEF IInv
  <2>2. /\ d.recover = Stranded(graph, st) /\ d.skip = Prunable(graph, st, out)
        /\ d.start = Ready(graph, st, out)
        /\ d.status = IF c = run THEN NoStatus ELSE c
    BY DEF Tick
  <2>3. \A n \in d.recover : <<st[n], "PENDING">> \in NodeTransitions
    BY <2>2 DEF Stranded, NodeTransitions
  <2>4. \A n \in d.skip : <<AfterRecover(st, d)[n], "SKIPPED">> \in NodeTransitions
    BY <2>1, <2>2 DEF Prunable, AfterRecover, NodeTransitions, Typed
  <2>5. ASSUME NEW n \in d.start  PROVE <<AfterSkip(st, d)[n], "RUNNING">> \in NodeTransitions
    <3>1. n \in graph.nodes /\ n \notin d.skip /\ st[n] \in {"PENDING", "RUNNING"}
      BY <2>2, <2>5, ReadyPrunableDisjoint DEF Ready
    <3>2. AfterSkip(st, d)[n] = "PENDING"
      BY <2>1, <2>2, <3>1 DEF AfterSkip, AfterRecover, Stranded, Typed
    <3> QED  BY <3>2 DEF NodeTransitions
  <2>6. ASSUME d.status # NoStatus  PROVE <<run, d.status>> \in RunTransitions
    <3>1. c # run /\ d.status = c /\ c \in RunStatus \ {"PENDING"}
      BY <2>1, <2>2, <2>6, ConclusionCases
    <3>2. run = "PENDING" => c # "SUSPENDED"
      BY <2>1, ConclusionCases DEF RunStatusAgrees
    <3>3. run = "SUSPENDED" => c = "RUNNING"
      BY <2>1, <3>1, ConclusionCases DEF RunStatusAgrees
    <3>4. run # "COMPLETED"
      <4> SUFFICES ASSUME run = "COMPLETED" PROVE FALSE
        OBVIOUS
      <4>1. \A n \in graph.nodes : st[n] \in {"SUCCEEDED", "SKIPPED"}
        BY <2>1 DEF RunStatusAgrees
      <4>2. Ready(graph, st, out) = {}
        BY <4>1 DEF Ready
      <4>3. \A n \in graph.nodes : NodeTerminal(st[n])
        BY <2>1, <4>1, TerminalStatuses DEF Typed
      <4>4. c = "COMPLETED"
        BY <2>1, <4>1, <4>2, <4>3 DEF Conclusion, IsGraph
      <4> QED  BY <3>1, <4>4
    <3> QED  BY <1>1, <2>1, <3>1, <3>2, <3>3, <3>4 DEF RunStatus, RunTransitions, TypeOK
  <2> QED  BY <2>3, <2>4, <2>5, <2>6 DEF Applicable
<1>2. IInv => DecisionsApply
  BY <1>1 DEF DecisionsApply
<1> QED  BY <1>2, EngineInvariant, PTL

\* So no tick strands a run, leaves a crashed node behind or decides what the
\* transition guards refuse, in any acyclic graph.
THEOREM EngineTicks == Spec => []TickIsSound
BY EngineNoStall, EngineRecoveryRestarts, EngineDecisionsApply, PTL DEF TickIsSound


\* A finished run is final.
THEOREM EngineFinishedIsFinal == Spec => FinishedIsFinal
<1> DEFINE Final == RunTerminal(run) =>
               /\ run' = run
               /\ \A n \in graph.nodes : st'[n] = st[n] \/ st'[n] = "SKIPPED"
<1>1. ASSUME IInv, [Next]_vars  PROVE [Final]_vars
  <2> SUFFICES ASSUME RunTerminal(run), Next  PROVE Final
    BY <1>1
  <2>1. /\ run \in {"COMPLETED", "FAILED"} /\ Typed(graph, st) /\ IsGraph(graph)
        /\ RunStatusAgrees /\ TypeOK
    BY <1>1, TerminalStatuses, GraphFacts DEF IInv, TypeOK
  <2>2. \A n \in graph.nodes : st[n] # "RUNNING"
    BY <2>1 DEF RunStatusAgrees
  <2>3. CASE Advance
    <3> DEFINE d == Tick(graph, run, st, out)
               c == Conclusion(graph, st, Ready(graph, st, out))
    <3>1. d.status = IF c = run THEN NoStatus ELSE c
      BY DEF Tick
    <3>2. d.status = NoStatus
      BY <2>1, <2>3 DEF Advance, Applicable, RunTransitions
    <3>3. Ready(graph, st, out) = {}
      BY <2>1, <3>1, <3>2, ConclusionCases DEF NoStatus
    <3>4. \A n \in graph.nodes : st'[n] = st[n] \/ st'[n] = "SKIPPED"
      BY <2>1, <2>2, <2>3, <3>3, TickEffect DEF Advance
    <3> QED  BY <2>3, <3>2, <3>4 DEF Advance, AfterTickRun
  <2>4. ASSUME NEW n \in graph.nodes, Succeed(n) \/ Fail(n) \/ Suspend(n)  PROVE FALSE
    BY <2>1, <2>2, <2>4 DEF Succeed, Fail, Suspend, Settle, NodeTransitions
  <2>5. ASSUME NEW n \in graph.nodes, Resume(n)  PROVE FALSE
    BY <2>1, <2>5 DEF Resume
  <2> QED  BY <2>3, <2>4, <2>5 DEF Next
<1>2. Spec => [][Final]_vars
  BY <1>1, EngineInvariant, PTL DEF Spec
<1> QED  BY <1>2 DEF FinishedIsFinal


\* A completed run executed exactly the nodes a value could reach from a root.
\* One way, the nodes that succeeded hold the roots (a root is never dead) and
\* are closed under live edges (the target of a live edge is not dead). The other
\* way, of the succeeded nodes outside a closed set, one is minimal; a live edge
\* enters it from a node inside, so it is inside.
THEOREM EngineCompletedMeansReached == Spec => []CompletedMeansReached
<1>1. ASSUME IInv  PROVE CompletedMeansReached
  <2> DEFINE Closed(S) ==
                 /\ {n \in graph.nodes : Incoming(graph, n) = {}} \subseteq S
                 /\ \A e \in graph.edges :
                       e.source \in S /\ e.handle \in out[e.source] => e.target \in S
             reached == {n \in graph.nodes : \A S \in SUBSET graph.nodes : Closed(S) => n \in S}
             ran == {n \in graph.nodes : st[n] = "SUCCEEDED"}
  <2> SUFFICES ASSUME run = "COMPLETED" PROVE reached = ran
    BY DEF CompletedMeansReached
  <2>1. /\ IsGraph(graph) /\ IsAcyclic(graph) /\ ExecutedIsSatisfied /\ SkippedIsDead
        /\ \A n \in graph.nodes : st[n] \in {"SUCCEEDED", "SKIPPED"}
    BY <1>1, GraphFacts DEF IInv, RunStatusAgrees
  <2>2. ASSUME NEW n \in graph.nodes, n \notin ran  PROVE UpstreamDead(graph, st, out, n)
    BY <2>1, <2>2 DEF SkippedIsDead
  <2>3. Closed(ran)
    <3>1. ASSUME NEW n \in graph.nodes, Incoming(graph, n) = {}  PROVE n \in ran
      BY <2>2, <3>1 DEF UpstreamDead
    <3>2. ASSUME NEW e \in graph.edges, e.source \in ran, e.handle \in out[e.source]
          PROVE  e.target \in ran
      <4>1. e.target \in graph.nodes /\ e \in Incoming(graph, e.target)
        BY <2>1 DEF IsGraph, Incoming
      <4>2. ~IsDead(st, out, e)
        BY <3>2 DEF IsDead
      <4> QED  BY <2>2, <4>1, <4>2 DEF UpstreamDead
    <3> QED  BY <3>1, <3>2
  <2>4. ASSUME NEW S \in SUBSET graph.nodes, Closed(S)  PROVE ran \subseteq S
    <3> DEFINE R == ran \ S
    <3> SUFFICES ASSUME R # {} PROVE FALSE
      OBVIOUS
    <3>1. PICK m \in R : \A e \in Incoming(graph, m) : e.source \notin R
      <4>1. R \subseteq graph.nodes
        OBVIOUS
      <4> HIDE DEF R
      <4> QED  BY <2>1, <4>1, MinimalNode
    <3>2. Incoming(graph, m) # {}
      BY <2>4, <3>1
    <3>3. PICK e \in Incoming(graph, m) : IsLive(st, out, e)
      BY <2>1, <3>1, <3>2 DEF ExecutedIsSatisfied, UpstreamSatisfied
    <3>4. e \in graph.edges /\ e.source \in ran /\ e.handle \in out[e.source] /\ e.target = m
      BY <2>1, <3>3 DEF Incoming, IsGraph, IsLive
    <3>5. e.source \in S
      BY <3>1, <3>4
    <3> QED  BY <2>4, <3>1, <3>4, <3>5
  <2> HIDE DEF Closed, ran
  <2>5. ran \in SUBSET graph.nodes
    BY DEF ran
  <2> QED  BY <2>3, <2>4, <2>5
<1> QED  BY <1>1, EngineInvariant, PTL


\* Every row has its type, for every graph and every bound on attempts.
THEOREM EngineTyped == Spec => []TypeOK
<1>1. IInv => TypeOK
  BY DEF IInv
<1> QED  BY <1>1, EngineInvariant, PTL

-----------------------------------------------------------------------------
(* Who closes the task, and when: the run and the queue agree unless a tick *)
(* concludes while its own pruning makes a node ready.                      *)

\* The run's status and the queue's view of it.
TaskAgrees == task <=> run \in {"PENDING", "RUNNING"}

LEMMA SettledStatuses ==
    ASSUME NEW r \in RunStatus
    PROVE  Settled(r) <=> r \notin {"PENDING", "RUNNING"}
BY DEF Settled, RunTerminal, RunStatus, RunTransitions

\* A tick with nothing ready wakes neither a parked run nor a finished one.
LEMMA TaskAgreesStep ==
    ASSUME IInv, ConcludesWhenNothingCanMove, TaskAgrees, [Next]_vars
    PROVE  TaskAgrees'
<1> DEFINE d == Tick(graph, run, st, out)
           c == Conclusion(graph, st, Ready(graph, st, out))
<1>1. IsGraph(graph) /\ Typed(graph, st) /\ TypeOK /\ RunStatusAgrees /\ IInv'
  BY GraphFacts, NextIInv DEF IInv
<1>2. run \in RunStatus /\ run' \in RunStatus
  BY <1>1 DEF IInv, TypeOK
<1>3. CASE Advance
  <2>1. /\ run' = AfterTickRun(run, d) /\ task' = (task /\ ~ClosesTask(d))
        /\ d.status = IF c = run THEN NoStatus ELSE c
        /\ d.status # NoStatus => <<run, d.status>> \in RunTransitions
    BY <1>3 DEF Advance, Applicable, Tick
  <2>2. CASE d.status = NoStatus
    <3>1. run' = run /\ ~ClosesTask(d)
      BY <2>1, <2>2 DEF AfterTickRun, ClosesTask
    <3>2. task' <=> task
      BY <2>1, <3>1
    <3> QED  BY <3>1, <3>2 DEF TaskAgrees
  <2>3. CASE d.status # NoStatus
    <3>1. run' = d.status /\ d.status = c /\ c # run /\ (ClosesTask(d) <=> Settled(d.status))
      BY <2>1, <2>3 DEF AfterTickRun, ClosesTask
    <3>2. run \in {"PENDING", "RUNNING"}
      <4>1. run # "COMPLETED" /\ run # "FAILED"
        BY <2>1, <2>3 DEF RunTransitions
      <4>2. ASSUME run = "SUSPENDED"  PROVE FALSE
        <5>1. Ready(graph, st, out) = {} /\ (\E n \in graph.nodes : st[n] = "WAITING")
              /\ \A n \in graph.nodes : st[n] # "RUNNING"
          BY <1>1, <4>2 DEF ConcludesWhenNothingCanMove, RunStatusAgrees
        <5>2. c = "SUSPENDED"
          BY <5>1 DEF Conclusion
        <5> QED  BY <3>1, <4>2, <5>2
      <4> QED  BY <1>2, <4>1, <4>2 DEF RunStatus
    <3>3. task' <=> ~ Settled(run')
      BY <2>1, <3>1, <3>2 DEF TaskAgrees
    <3> QED  BY <1>2, <3>3, SettledStatuses DEF TaskAgrees
  <2> QED  BY <2>2, <2>3
<1>4. ASSUME NEW n \in graph.nodes, Succeed(n) \/ Fail(n) \/ Suspend(n)  PROVE TaskAgrees'
  BY <1>4 DEF Succeed, Fail, Suspend, Settle, TaskAgrees
<1>5. ASSUME NEW n \in graph.nodes, Resume(n)  PROVE TaskAgrees'
  BY <1>5 DEF Resume, TaskAgrees
<1>6. CASE UNCHANGED vars
  BY <1>6 DEF vars, TaskAgrees
<1> QED  BY <1>3, <1>4, <1>5, <1>6 DEF Next

\* The early conclusion is the only way the run and the queue come to disagree: a
\* run that never concludes while a node can start has a task exactly while it is
\* to be driven.
THEOREM EngineTaskAgrees ==
    Spec /\ []ConcludesWhenNothingCanMove => []TaskAgrees
<1>1. Init => TaskAgrees
  BY DEF Init, TaskAgrees
<1> QED  BY <1>1, TaskAgreesStep, EngineInvariant, PTL DEF Spec

\* No node that joins several edges is fed by a node that could be skipped.
JoinsFollowRoots(g) ==
    \A e, f \in g.edges : e # f /\ e.target = f.target => Incoming(g, e.source) = {}

\* Where joins follow roots, a pruning makes nothing ready: what a tick leaves
\* behind cannot start.
LEMMA NothingReadyAfterTick ==
    ASSUME NEW g, IsGraph(g), JoinsFollowRoots(g), NEW s, Typed(g, s), NEW o, NEW r,
           Stranded(g, s) \subseteq Ready(g, s, o)
    PROVE  \A m \in Ready(g, AfterStart(s, Tick(g, r, s, o)), o) :
             AfterStart(s, Tick(g, r, s, o))[m] = "RUNNING"
<1> DEFINE s2 == AfterStart(s, Tick(g, r, s, o))
<1>1. \A n \in g.nodes :
        s2[n] = IF n \in Ready(g, s, o) THEN "RUNNING"
                ELSE IF n \in Prunable(g, s, o) THEN "SKIPPED"
                ELSE IF s[n] = "RUNNING" THEN "PENDING" ELSE s[n]
  BY TickEffect
<1> HIDE DEF s2
<1> SUFFICES ASSUME NEW m \in Ready(g, s2, o), s2[m] # "RUNNING"  PROVE FALSE
  BY DEF s2
<1>2. m \in g.nodes /\ s2[m] = "PENDING" /\ UpstreamSatisfied(g, s2, o, m)
  BY DEF Ready
<1>3. m \notin Ready(g, s, o) /\ s[m] = "PENDING"
  BY <1>1, <1>2 DEF Stranded
<1>4. ~ UpstreamSatisfied(g, s, o, m)
  BY <1>2, <1>3 DEF Ready
<1>5. Incoming(g, m) # {}
  BY <1>4 DEF UpstreamSatisfied
<1>6. PICK e \in Incoming(g, m) : IsLive(s2, o, e)
  BY <1>2, <1>5 DEF UpstreamSatisfied
<1>7. ASSUME NEW f \in Incoming(g, m), s2[f.source] = "SUCCEEDED"  PROVE s[f.source] = "SUCCEEDED"
  <2>1. f.source \in g.nodes
    BY DEF Incoming, IsGraph
  <2> QED  BY <1>1, <1>7, <2>1
<1>8. IsLive(s, o, e)
  BY <1>6, <1>7 DEF IsLive
<1>9. ASSUME NEW f \in Incoming(g, m)  PROVE IsLive(s, o, f) \/ IsDead(s, o, f)
  <2>1. CASE f = e
    BY <1>8, <2>1
  <2>2. CASE f # e
    <3>1. f.source \in g.nodes /\ Incoming(g, f.source) = {}
      BY <2>2 DEF Incoming, IsGraph, JoinsFollowRoots
    <3>2. f.source \notin Prunable(g, s, o)
      BY <3>1 DEF Prunable, UpstreamDead
    <3>3. s2[f.source] = "SKIPPED" => s[f.source] = "SKIPPED"
      BY <1>1, <3>1, <3>2
    <3>4. IsLive(s2, o, f) \/ IsDead(s2, o, f)
      BY <1>2, <1>5 DEF UpstreamSatisfied
    <3> QED  BY <1>7, <3>3, <3>4 DEF IsLive, IsDead
  <2> QED  BY <2>1, <2>2
<1> QED  BY <1>4, <1>8, <1>9 DEF UpstreamSatisfied

\* Where joins follow roots, every conclusion is timely, and so the run and the
\* queue agree: the premise of the theorem before this one can be met by the
\* shape of the graph.
THEOREM EngineConcludesInTime ==
    ASSUME \A g \in Graphs : JoinsFollowRoots(g)
    PROVE  Spec => []ConcludesWhenNothingCanMove /\ []TaskAgrees
<1>1. Init => ConcludesWhenNothingCanMove
  BY DEF Init, ConcludesWhenNothingCanMove
<1>2. IInv /\ ConcludesWhenNothingCanMove /\ [Next]_vars => ConcludesWhenNothingCanMove'
  <2> SUFFICES ASSUME IInv, ConcludesWhenNothingCanMove, [Next]_vars
               PROVE  ConcludesWhenNothingCanMove'
    OBVIOUS
  <2>1. /\ IsGraph(graph) /\ Typed(graph, st) /\ RunStatusAgrees /\ JoinsFollowRoots(graph)
        /\ Stranded(graph, st) \subseteq Ready(graph, st, out) /\ RunStatusAgrees'
    BY GraphFacts, NextIInv DEF IInv, TypeOK, ExecutedIsSatisfied, Stranded, Ready
  <2>2. CASE Advance
    <3>1. st' = AfterStart(st, Tick(graph, run, st, out)) /\ graph' = graph /\ out' = out
      BY <2>2 DEF Advance
    <3>2. \A m \in Ready(graph, st', out) : st'[m] = "RUNNING" /\ m \in graph.nodes
      BY <2>1, <3>1, NothingReadyAfterTick DEF Ready
    <3>3. \A m \in graph.nodes : st'[m] = "RUNNING" => run' = "RUNNING"
      BY <2>1, <3>1 DEF RunStatusAgrees
    <3>4. run' \in {"FAILED", "SUSPENDED"} => Ready(graph, st', out) = {}
      BY <3>2, <3>3
    <3> QED  BY <3>1, <3>4 DEF ConcludesWhenNothingCanMove
  <2>3. ASSUME NEW n \in graph.nodes, Succeed(n) \/ Fail(n) \/ Suspend(n) \/ Resume(n)
        PROVE  run' = "RUNNING"
    BY <2>1, <2>3 DEF Succeed, Fail, Suspend, Settle, Resume, NodeTransitions, RunStatusAgrees
  <2>4. CASE UNCHANGED vars
    BY <2>4 DEF vars, ConcludesWhenNothingCanMove
  <2> QED  BY <2>2, <2>3, <2>4 DEF Next, ConcludesWhenNothingCanMove
<1>3. Spec => []ConcludesWhenNothingCanMove
  BY <1>1, <1>2, EngineInvariant, PTL DEF Spec
<1> QED  BY <1>3, EngineTaskAgrees, PTL
=============================================================================
