----------------------------- MODULE MCServices -----------------------------
(***************************************************************************)
(* Services that share no state, each a scenario of its own: documents being *)
(* ingested, texts being chunked, requests being limited, an agent's         *)
(* invocation, drafts being validated, and valid drafts being run. The two   *)
(* pure ones are judged on an input that the initial state chooses.          *)
(***************************************************************************)
EXTENDS Ingestion, RateLimiter, AgentLoop, WorkflowRuns

VARIABLES scenario, input

services == <<documentVars, limiterVars, agentVars, runVars, scenario, input>>

MCTexts == {<<1, 2>>, <<1, 2, 3, 4, 5, 6, 7>>, <<5, 6>>}

\* Every text of a length, with letters that tell the positions apart.
Letters(kinds) == [i \in DOMAIN kinds |-> IF kinds[i] \in White THEN kinds[i] ELSE i]
AllTexts == UNION {{Letters(kinds) : kinds \in [1 .. n -> White \cup {0}]} : n \in 0 .. 8}

AtMost(k, S) == UNION {kSubset(i, S) : i \in 0 .. k}

\* Shapes: every graph of four nodes and few edges, self-loops included.
Wire(s, h, t, p) == [source |-> s, handle |-> h, target |-> t, port |-> p]
Draft(types, edges, misconfigured, unhashable) ==
    [nodes |-> DOMAIN types, edges |-> edges, type |-> types,
     misconfigured |-> misconfigured, unhashable |-> unhashable]
Shapes ==
    {Draft(<<"trigger.manual", "core.noop", "core.wait", last>>, edges, {}, {}) :
        last \in {"ai.agent", "core.none"},
        edges \in AtMost(5, {Wire(s, "main", t, "main") : s, t \in 1 .. 4})}

\* Wirings: every pair of types, joined in every way by few edges.
Wirings ==
    {Draft(types, edges, bad, {}) :
        types \in [1 .. 2 -> {"trigger.manual", "core.constant", "core.log", "core.condition",
                              "core.merge", "core.none"}],
        edges \in AtMost(3, {Wire(1, h, 2, p) : h \in {"main", "true", "false"},
                                                p \in {"main", "first", "second"}}
                            \cup {Wire(2, "main", 1, "main")}),
        bad \in {{}, {2}}}

\* Flows: a trigger, a condition, some node and a merge, joined in every way,
\* the condition looking for a list or object or for anything else.
Flows ==
    {Draft(<<"trigger.manual", "core.condition", third, "core.merge", last>>, edges, {}, odd) :
        odd \in {{}, {2}},
        third \in {"core.noop", "core.wait", "ai.agent"},
        last \in {"core.log", "core.noop"},
        edges \in SUBSET {Wire(1, "main", 2, "main"), Wire(1, "main", 3, "main"),
                          Wire(2, "true", 3, "main"), Wire(2, "true", 4, "first"),
                          Wire(2, "false", 4, "second"), Wire(3, "main", 4, "first"),
                          Wire(4, "main", 5, "main"), Wire(2, "false", 5, "main")}}

\* The drafts of the scenarios are what the theorems about drafts are stated for.
ASSUME DraftsAreGraphs == \A d \in Shapes \cup Wirings \cup Flows : IsDraft(d)

Idle == DocumentInit /\ LimiterInit /\ config = (CHOOSE c \in Configs : TRUE) /\ AgentInit
Nothing == RunInit({Draft(<<"trigger.manual">>, {}, {}, {})})

MCInit ==
    \/ scenario \in {"documents", "limits"} /\ input = <<>> /\ Idle /\ Nothing
    \/ scenario = "chunking" /\ input \in AllTexts /\ Idle /\ Nothing
    \/ scenario = "validation" /\ input \in Shapes \cup Wirings /\ Idle /\ Nothing
    \/ scenario = "agent" /\ input = <<>> /\ DocumentInit /\ LimiterInit /\ AgentInit /\ Nothing
    \/ scenario = "runs" /\ input = <<>> /\ Idle /\ RunInit(Flows)

MCNext ==
    /\ UNCHANGED <<scenario, input>>
    /\ \/ scenario = "documents" /\ DocumentNext /\ UNCHANGED <<limiterVars, agentVars, runVars>>
       \/ scenario = "limits" /\ LimiterNext /\ UNCHANGED <<documentVars, agentVars, runVars>>
       \/ scenario = "agent" /\ AgentNext /\ UNCHANGED <<documentVars, limiterVars, runVars>>
       \/ scenario = "runs" /\ RunNext /\ UNCHANGED <<documentVars, limiterVars, agentVars>>

MCSpec == MCInit /\ [][MCNext]_services

\* A phrase no longer than the overlap is whole in some chunk, and ordinals
\* identify chunks (chunk_text).
TextIsFindable == scenario = "chunking" => KeepsPhrases(input) /\ ChunksAdvance(input)

\* What may be published, the engine can execute, and no cycle is overlooked
\* (validate_graph, against the assumptions of RunEngine).
ValidationIsRight == scenario = "validation" => ValidationIsSound(input)
=============================================================================
