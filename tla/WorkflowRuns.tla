---------------------------- MODULE WorkflowRuns ----------------------------
(***************************************************************************)
(* A run of a published draft with the built-in node types: the validator, *)
(* the scheduler's ticks, the resolution of inputs and the runners, one    *)
(* after the other. Values are told apart only by where they arrive; that  *)
(* transactions may fail or overlap is RunEngine's and RunExecution's.     *)
(***************************************************************************)
EXTENDS GraphValidation

VARIABLES
    draft,   \* the published draft this run executes
    run,     \* runs.status
    st,      \* node_executions.status, by node
    out,     \* the handles in node_executions.output
    resumed, \* the nodes resumed, and to be invoked with the token they suspended with
    broken   \* history: the nodes whose runner read an input that was not there

runVars == <<draft, run, st, out, resumed, broken>>

RunInit(drafts) ==
    /\ draft \in {d \in drafts : IsValid(d)}
    /\ run = "PENDING"
    /\ st = [n \in draft.nodes |-> "PENDING"]
    /\ out = [n \in draft.nodes |-> {}]
    /\ resumed = {} /\ broken = {}

\* resolve_inputs: the ports at which a value arrives.
ResolveInputs(n) ==
    {e.port : e \in {f \in Incoming(draft, n) : f.handle \in out[f.source]}}

Completed(handles) == [status |-> "SUCCEEDED", handles |-> handles, broken |-> FALSE]
Suspended == [status |-> "WAITING", handles |-> {}, broken |-> FALSE]
Failed == [status |-> "FAILED", handles |-> {}, broken |-> FALSE]

\* A runner that raises fails its node (invoke).
Raised == [Failed EXCEPT !.broken = TRUE]

Emits == {Completed({"main"})}

Forwards(inputs) == IF "main" \in inputs THEN Emits ELSE {Raised}

Logs(inputs) == IF "main" \in inputs THEN {Completed({})} ELSE {Raised}

\* A comparison answers, but looking a list or an object up among a mapping's keys
\* raises (_contains: such a value is unhashable).
Branches(n) ==
    {Completed({"true"}), Completed({"false"})}
        \cup IF n \in draft.unhashable THEN {Failed} ELSE {}

Merges(inputs) == IF {"first", "second"} \cap inputs # {} THEN Emits ELSE {Completed({})}

Waits(inputs, again) ==
    IF ~ again THEN {Suspended} ELSE {Completed({"main"} \cap inputs)}

\* What the runner of n may answer (the model and the documents may fail an agent).
Outcomes(n) ==
    LET type == draft.type[n]  inputs == ResolveInputs(n)
    IN  CASE type = "core.noop" -> Forwards(inputs)
          [] type = "core.log" -> Logs(inputs)
          [] type = "core.condition" -> Branches(n)
          [] type = "core.merge" -> Merges(inputs)
          [] type = "core.wait" -> Waits(inputs, n \in resumed)
          [] type = "ai.agent" -> Emits \cup {Failed}
          [] OTHER -> Emits

-----------------------------------------------------------------------------

\* No process dies here: a tick comes when what it started has been run, and
\* recovers nothing.
Advance ==
    /\ \A n \in draft.nodes : st[n] # "RUNNING"
    /\ LET d == Tick(draft, run, st, out)
       IN  /\ ~ Quiet(d) /\ Applicable(run, st, d)
           /\ st' = AfterStart(st, d) /\ run' = AfterTickRun(run, d)
    /\ UNCHANGED <<draft, out, resumed, broken>>

Invoke(n) ==
    /\ st[n] = "RUNNING"
    /\ \E result \in Outcomes(n) :
         /\ st' = [st EXCEPT ![n] = result.status]
         /\ out' = [out EXCEPT ![n] = result.handles]
         /\ broken' = IF result.broken THEN broken \cup {n} ELSE broken
    /\ UNCHANGED <<draft, run, resumed>>

ResumeNode(n) ==
    /\ run = "SUSPENDED" /\ st[n] = "WAITING"
    /\ st' = [st EXCEPT ![n] = "RUNNING"]
    /\ run' = "RUNNING"
    /\ resumed' = resumed \cup {n}
    /\ UNCHANGED <<draft, out, broken>>

RunNext == Advance \/ \E n \in draft.nodes : Invoke(n) \/ ResumeNode(n)

RunSpec(drafts) == RunInit(drafts) /\ [][RunNext]_runVars

-----------------------------------------------------------------------------
(* Properties *)

\* The nodes whose runner may fail for a reason of its own.
MayFail(n) ==
    \/ draft.type[n] = "ai.agent"
    \/ draft.type[n] = "core.condition" /\ n \in draft.unhashable

\* Of a draft that was allowed to be published no runner ever reads an input that
\* is not there, whichever branches are taken and however often it waits
\* ("validation guarantees an inbound edge"); it only fails where an agent does, or
\* a condition configured to look for a list or an object.
NothingIsMissing ==
    /\ broken = {}
    /\ run = "FAILED" => \E n \in draft.nodes : st[n] = "FAILED" /\ MayFail(n)

Taken(n) == st[n] \in {"RUNNING", "WAITING", "SUCCEEDED", "FAILED"}

\* Values go where they were drawn to: what a node emitted it declares, and of
\* two nodes behind the two ways out of a condition never both are run.
BranchesExclude ==
    /\ \A n \in draft.nodes : out[n] \subseteq {h.name : h \in Outputs(draft, n)}
    /\ \A e, f \in draft.edges :
         /\ draft.type[e.source] = "core.condition"
         /\ e.source = f.source /\ e.handle # f.handle
         /\ Incoming(draft, e.target) = {e} /\ Incoming(draft, f.target) = {f}
         => ~ (Taken(e.target) /\ Taken(f.target))

RunsAsDrawn == NothingIsMissing /\ BranchesExclude
=============================================================================
