------------------------------ MODULE AgentLoop ------------------------------
(***************************************************************************)
(* One invocation of an ai.agent node: retrieval, the resolution of its     *)
(* tools, and the rounds in which a model asks for tools until it answers.  *)
(* The model is an actor that may ask for anything, any number of times.    *)
(* The conversation is kept in the process: a crash loses it, and the       *)
(* engine's next attempt begins the invocation again.                       *)
(***************************************************************************)
EXTENDS Integers, Sequences, SequencesExt

CONSTANTS Tools,          \* the names a model may come up with
          MaxToolRounds,  \* MAX_TOOL_ROUNDS
          MaxBatch,       \* bound on the calls of one response
          MaxInvocations  \* bound on the attempts that a crash may cost

ASSUME AgentAssumption == MaxToolRounds \in Nat /\ MaxBatch \in Nat /\ MaxInvocations \in Nat

VARIABLES config,     \* what was published, and what this deployment has
          invocation,
          phase,      \* "start", "resolve", "ask", "tools"; "completed" or "failed" at the end
          searched,   \* the knowledge base answered for this prompt
          round,      \* round_number
          completed,  \* completed_tools: the calls answered so far, with their results
          pending,    \* the rest of the calls of the last response
          asked,      \* history: every call the model asked for in this invocation
          calls       \* history: how often this invocation called the model

agentVars == <<config, invocation, phase, searched, round, completed, pending, asked, calls>>

Configs ==
    [tools : SUBSET Tools,       \* AgentConfig.tools
     retrieval : BOOLEAN,        \* AgentConfig.retrieval
     blank : BOOLEAN,            \* nothing but white space arrived on the input
     knowledge : BOOLEAN,        \* the deployment can retrieve
     shipped : {Tools, Tools \ {CHOOSE t \in Tools : TRUE}}]  \* the release's catalogue

AgentInit ==
    /\ config \in Configs
    /\ invocation = 1 /\ phase = "start"
    /\ searched = FALSE /\ round = 0
    /\ completed = <<>> /\ pending = <<>> /\ asked = <<>> /\ calls = 0

AgentEnded == phase \in {"completed", "failed"}

-----------------------------------------------------------------------------

Grounds == config.retrieval /\ ~ config.blank

\* Retrieval that cannot be had fails the node.
\* What retrieve found, if anything, is put before the prompt.
Ground ==
    /\ phase = "start"
    /\ \/ ~ Grounds /\ phase' = "resolve" /\ UNCHANGED searched
       \/ Grounds /\ config.knowledge /\ phase' = "resolve" /\ searched' = TRUE
       \/ Grounds /\ phase' = "failed" /\ UNCHANGED searched
    /\ UNCHANGED <<config, invocation, round, completed, pending, asked, calls>>

\* A published tool that this release does not ship fails the node.
ResolveTools ==
    /\ phase = "resolve"
    /\ phase' = IF config.tools \subseteq config.shipped THEN "ask" ELSE "failed"
    /\ UNCHANGED <<config, invocation, searched, round, completed, pending, asked, calls>>

\* The adapter and the node do not retry: whether to is the engine's decision.
ModelRefuses ==
    /\ phase = "ask"
    /\ phase' = "failed"
    /\ calls' = calls + 1
    /\ UNCHANGED <<config, invocation, searched, round, completed, pending, asked>>

ModelAnswers ==
    /\ phase = "ask"
    /\ phase' = "completed"
    /\ calls' = calls + 1
    /\ UNCHANGED <<config, invocation, searched, round, completed, pending, asked>>

ModelAsks ==
    /\ phase = "ask"
    /\ IF round = MaxToolRounds
       THEN phase' = "failed" /\ UNCHANGED <<pending, asked>>
       ELSE \E batch \in BoundedSeq(Tools, MaxBatch) \ {<<>>} :
              phase' = "tools" /\ pending' = batch /\ asked' = asked \o batch
    /\ calls' = calls + 1
    /\ UNCHANGED <<config, invocation, searched, round, completed>>

\* Mutant of AfterCall: a call that went wrong is shown to the model at once.
StopsAtError(result) == IF result = "error" THEN <<>> ELSE Tail(pending)

\* What is left of the response once its first call has its result.
AfterCall(result) == Tail(pending)

\* One call: the allow-list fails the node; arguments that do not validate and a
\* tool that refuses are results, for the model to deal with.
CallTool ==
    /\ phase = "tools"
    /\ IF Head(pending) \notin config.tools
       THEN phase' = "failed" /\ UNCHANGED <<round, completed, pending>>
       ELSE \E result \in {"value", "error"} :
              /\ completed' = Append(completed, [name |-> Head(pending), result |-> result])
              /\ pending' = AfterCall(result)
              /\ IF pending' = <<>>
                 THEN phase' = "ask" /\ round' = round + 1
                 ELSE UNCHANGED <<phase, round>>
    /\ UNCHANGED <<config, invocation, searched, asked, calls>>

\* The worker dies and the engine invokes the node again (AT_LEAST_ONCE).
LoseInvocation ==
    /\ ~ AgentEnded /\ invocation < MaxInvocations
    /\ invocation' = invocation + 1
    /\ phase' = "start" /\ searched' = FALSE /\ round' = 0
    /\ completed' = <<>> /\ pending' = <<>> /\ asked' = <<>> /\ calls' = 0
    /\ UNCHANGED config

AgentNext ==
    \/ Ground \/ ResolveTools \/ ModelRefuses \/ ModelAnswers \/ ModelAsks
    \/ CallTool \/ LoseInvocation

AgentSpec == AgentInit /\ [][AgentNext]_agentVars

-----------------------------------------------------------------------------
(* Properties *)

\* An answer that the author asked to have from the organization's documents is
\* never given without them ("it does not quietly ask anyway").
AnswersAreGrounded == phase = "completed" /\ Grounds => searched

\* Whenever the model is called, it is shown the result of every call it has
\* asked for, once and in order, in whatever batches and with whatever errors:
\* an answer never rests on a call that did not run; and no tool runs that the
\* author did not choose or the release does not ship.
ConversationIsWhole ==
    /\ phase \in {"ask", "completed"} =>
         asked = [i \in DOMAIN completed |-> completed[i].name]
    /\ ToSet(completed) \subseteq [name : config.tools \cap config.shipped, result : {"value", "error"}]

\* "The model is called at most six times: one first ask, five tool-and-reply
\* cycles", and none of them goes uncounted.
CallsAreBounded == calls <= MaxToolRounds + 1 /\ (phase = "ask" => calls = round)

AgentIsSound == AnswersAreGrounded /\ ConversationIsWhole /\ CallsAreBounded
=============================================================================
