---------------------------- MODULE EngineState ----------------------------
(***************************************************************************)
(* The vocabulary of the run engine: the states of a run and of one node's *)
(* execution, and the two transition tables every write of a status is     *)
(* guarded by (domain/engine/state.py).                                    *)
(***************************************************************************)

RunStatus == {"PENDING", "RUNNING", "SUSPENDED", "COMPLETED", "FAILED"}

NodeStatus == {"PENDING", "RUNNING", "WAITING", "SUCCEEDED", "FAILED", "SKIPPED"}

\* RUN_TRANSITIONS: an absent pair is an illegal transition.
RunTransitions ==
    {<<"PENDING", "RUNNING">>, <<"PENDING", "COMPLETED">>, <<"PENDING", "FAILED">>,
     <<"RUNNING", "SUSPENDED">>, <<"RUNNING", "COMPLETED">>, <<"RUNNING", "FAILED">>,
     <<"SUSPENDED", "RUNNING">>}

\* NODE_EXECUTION_TRANSITIONS; RUNNING -> PENDING is the recovery of a node
\* whose process stopped existing, the one backward edge.
NodeTransitions ==
    {<<"PENDING", "RUNNING">>, <<"PENDING", "SKIPPED">>,
     <<"RUNNING", "WAITING">>, <<"RUNNING", "SUCCEEDED">>, <<"RUNNING", "FAILED">>,
     <<"RUNNING", "PENDING">>,
     <<"WAITING", "RUNNING">>}

\* is_terminal, read off the tables as the code does.
RunTerminal(s) == \A t \in RunStatus : <<s, t>> \notin RunTransitions
NodeTerminal(s) == \A t \in NodeStatus : <<s, t>> \notin NodeTransitions

\* A run that will not move again on its own: parked on a human, or finished.
Settled(s) == s = "SUSPENDED" \/ RunTerminal(s)

\* _RUN_EVENTS: whether a run transition writes a timeline event. RunStarted is
\* already written when the run is materialized.
RunEventWritten(s, t) == <<s, t>> # <<"PENDING", "RUNNING">>
=============================================================================
