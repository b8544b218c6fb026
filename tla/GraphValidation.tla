-------------------------- MODULE GraphValidation --------------------------
(***************************************************************************)
(* validate_graph: which drafts may be published. A draft is a graph of     *)
(* RunScheduler with, for each node, its type, the set of nodes whose config *)
(* its model refuses, and the set of conditions that look for a list or an  *)
(* object (which it accepts). An issue is its code and the node it is       *)
(* anchored to; messages, order and field paths are left out, and so is the *)
(* warning about deprecated types, which no built-in type triggers.         *)
(***************************************************************************)
EXTENDS RunScheduler, Sequences, FiniteSets, SequencesExt

\* A type is a kind under so many lists. (A Record has its model, too; no built-in
\* handle is a List or a Record.)
AnyType == [kind |-> "Any", lists |-> 0]
TextType == [kind |-> "Text", lists |-> 0]
JsonType == [kind |-> "Json", lists |-> 0]

\* compatible: whether a value of one type may flow into a handle of another: what
\* is left of them below the lists that both are.
Compatible(source, target) ==
    LET both == IF source.lists <= target.lists THEN source.lists ELSE target.lists
        from == [source EXCEPT !.lists = @ - both]
        to == [target EXCEPT !.lists = @ - both]
    IN  \/ AnyType \in {from, to}
        \/ from = to
        \/ to = JsonType /\ from.kind = "Record" /\ from.lists = 0

\* The built-in node types (every input takes one connection).
Optional(port) == [name |-> port, type |-> AnyType, required |-> FALSE, single |-> TRUE]
Required(port, type) == [name |-> port, type |-> type, required |-> TRUE, single |-> TRUE]
Output(handle, type) == [name |-> handle, type |-> type]
Type(name, trigger, inputs, outputs) ==
    [name |-> name, trigger |-> trigger, inputs |-> inputs, outputs |-> outputs]

TriggerManual == Type("trigger.manual", TRUE, {}, {Output("main", JsonType)})
TriggerWebhook == Type("trigger.webhook", TRUE, {}, {Output("main", JsonType)})
TriggerSchedule == Type("trigger.schedule", TRUE, {}, {Output("main", JsonType)})
CoreNoop == Type("core.noop", FALSE, {Required("main", AnyType)}, {Output("main", AnyType)})
CoreConstant == Type("core.constant", FALSE, {}, {Output("main", TextType)})
CoreLog == Type("core.log", FALSE, {Required("main", TextType)}, {})
CoreWait == Type("core.wait", FALSE, {Optional("main")}, {Output("main", AnyType)})
CoreCondition ==
    Type("core.condition", FALSE, {Optional("main")}, {Output("true", AnyType), Output("false", AnyType)})
CoreMerge ==
    Type("core.merge", FALSE, {Optional("first"), Optional("second")}, {Output("main", AnyType)})
AiAgent == Type("ai.agent", FALSE, {Optional("main")}, {Output("main", TextType)})

Catalogue ==
    {TriggerManual, TriggerWebhook, TriggerSchedule, CoreNoop, CoreConstant, CoreLog,
     CoreWait, CoreCondition, CoreMerge, AiAgent}

\* What WorkflowGraph takes for a graph: no edge dangles. (It may have no node.)
IsDraft(d) ==
    /\ d.nodes \subseteq Nat /\ IsFiniteSet(d.nodes) /\ IsFiniteSet(d.edges)
    /\ \A e \in d.edges : e.source \in d.nodes /\ e.target \in d.nodes

\* find, as a set: empty for a type this release does not know.
Descriptors(d, n) == {t \in Catalogue : t.name = d.type[n]}
Inputs(d, n) == UNION {t.inputs : t \in Descriptors(d, n)}
Outputs(d, n) == UNION {t.outputs : t \in Descriptors(d, n)}
Resolved(d) == {n \in d.nodes : Descriptors(d, n) # {}}
Triggers(d) == {n \in d.nodes : \E t \in Descriptors(d, n) : t.trigger}

Issue(code, n) == [code |-> code, node |-> n]
Issues(code, nodes) == {Issue(code, n) : n \in nodes}

-----------------------------------------------------------------------------
(* Stages 1 to 3: types, configs, handles *)

Resolve(d) == Issues("UNKNOWN_NODE_TYPE", d.nodes \ Resolved(d))

ValidateConfig(d) == Issues("INVALID_CONFIG", d.misconfigured \cap Resolved(d))

\* An end whose node did not resolve is not judged.
CheckEdge(d, e) ==
    LET sources == {h \in Outputs(d, e.source) : h.name = e.handle}
        targets == {h \in Inputs(d, e.target) : h.name = e.port}
    IN  {Issue("UNKNOWN_HANDLE", n) :
            n \in {m \in {e.source} \cap Resolved(d) : sources = {}}
             \cup {m \in {e.target} \cap Resolved(d) : targets = {}}}
        \cup {Issue("INCOMPATIBLE_TYPES", e.target) :
                pair \in {p \in sources \X targets : ~ Compatible(p[1].type, p[2].type)}}

CountInto(d, n, port) == Cardinality({e \in Incoming(d, n) : e.port = port})

\* Mutant of TooMany: the bound is off by one.
TooManyLate(count) == count > 2

TooMany(count) == count > 1

\* Mutant of Unfed: only asked of inputs that take many connections.
UnfedIfMany(h, count) == h.required /\ ~ h.single /\ count = 0

Unfed(h, count) == h.required /\ count = 0

CheckInputs(d, n) ==
    {Issue("ARITY_VIOLATION", n) :
        h \in {h \in Inputs(d, n) : h.single /\ TooMany(CountInto(d, n, h.name))}}
    \cup {Issue("REQUIRED_INPUT_MISSING", n) :
        h \in {h \in Inputs(d, n) : Unfed(h, CountInto(d, n, h.name))}}

ValidateHandles(d) ==
    (UNION {CheckEdge(d, e) : e \in d.edges}) \cup (UNION {CheckInputs(d, n) : n \in d.nodes})

-----------------------------------------------------------------------------
(* Stage 4: cycles, triggers, reachability *)

Successors(d, n) == {e.target : e \in {f \in d.edges : f.source = n}}

First(nodes) == CHOOSE n \in nodes : \A m \in nodes : n <= m

\* _normalise: a cycle starts at its smallest node.
Normalise(cycle) ==
    LET pivot == CHOOSE i \in DOMAIN cycle : \A j \in DOMAIN cycle : cycle[i] <= cycle[j]
    IN  [i \in DOMAIN cycle |-> cycle[((pivot + i - 2) % Len(cycle)) + 1]]

\* The three colours: the path is grey, the done nodes are black, the rest white.
\* A successor on the path closes the stretch of the path that begins with it.
Closed(d, path) ==
    LET grey == {i \in DOMAIN path : path[i] \in Successors(d, Last(path))}
    IN  {Normalise(SubSeq(path, i, Len(path))) : i \in grey}

FindCycles(d) ==
    LET search[at \in Seq(d.nodes) \X SUBSET d.nodes] ==
          LET path == at[1]  done == at[2]
          IN  IF path = <<>>
              THEN IF d.nodes = done THEN {} ELSE search[<< <<First(d.nodes \ done)>>, done >>]
              ELSE LET white == Successors(d, Last(path)) \ (done \cup ToSet(path))
                   IN  Closed(d, path) \cup
                       IF white # {} THEN search[<<Append(path, First(white)), done>>]
                       ELSE search[<<Front(path), done \cup {Last(path)}>>]
    IN  search[<< <<>>, {} >>]

CheckTriggers(d) ==
    LET triggers == Triggers(d)
    IN  (IF triggers = {} THEN {Issue("NO_TRIGGER", 0)} ELSE {})
        \cup (IF Cardinality(triggers) > 1 THEN Issues("MULTIPLE_TRIGGERS", triggers) ELSE {})
        \cup Issues("TRIGGER_HAS_INPUT", {n \in triggers : Incoming(d, n) # {}})

ReachableFrom(d, starts) ==
    LET spread[reached \in SUBSET d.nodes] ==
          LET next == reached \cup UNION {Successors(d, n) : n \in reached}
          IN  IF next = reached THEN reached ELSE spread[next]
    IN  spread[starts]

\* Warnings, and none where there is no trigger; unresolved nodes have had theirs.
CheckReachability(d) ==
    IF Triggers(d) = {} THEN {}
    ELSE Issues("UNREACHABLE_NODE", Resolved(d) \ ReachableFrom(d, Triggers(d)))

ValidateStructure(d) ==
    {Issue("CYCLE_DETECTED", cycle[1]) : cycle \in FindCycles(d)}
    \cup CheckTriggers(d) \cup CheckReachability(d)

Warnings == {"UNREACHABLE_NODE"}

ValidateGraph(d) ==
    Resolve(d) \cup ValidateConfig(d) \cup ValidateHandles(d) \cup ValidateStructure(d)

IsValid(d) == \A issue \in ValidateGraph(d) : issue.code \in Warnings

-----------------------------------------------------------------------------
(* Properties *)

\* A node that the scheduler finds ready has every input it requires, for readiness
\* asks for one live edge and not for all.
RequiredIsFed(d) ==
    \A n \in d.nodes :
      (\E h \in Inputs(d, n) : h.required) => Cardinality(Incoming(d, n)) = 1

\* What may be published is what the engine can execute: the graphs RunEngine
\* assumes, and those in which nothing required is missing where it is ready.
ValidatedIsSupported(d) ==
    IsValid(d) => IsGraph(d) /\ IsAcyclic(d) /\ SupportedFanIn(d) /\ RequiredIsFed(d)

\* The nodes from which a path of one edge or more leads to n: in every set that
\* holds n's predecessors and is closed under predecessors.
Before(d, n) ==
    {m \in d.nodes :
       \A S \in SUBSET d.nodes :
         (\A e \in d.edges : e.target = n \/ e.target \in S => e.source \in S) => m \in S}

BeforeAll(d) == [n \in d.nodes |-> Before(d, n)]

\* One bad cycle never hides another: what is reported is a cycle of the draft,
\* and every node that lies on a cycle has one reported among the nodes it shares
\* its cycles with, whatever order the search took and whether types resolved.
CyclesAreFound(d) ==
    LET cycles == FindCycles(d)
        before == BeforeAll(d)
    IN  /\ \A c \in cycles :
             /\ IsInjective(c)
             /\ \A i \in DOMAIN c : c[(i % Len(c)) + 1] \in Successors(d, c[i])
        /\ \A n \in d.nodes :
             n \in before[n] =>
               \E c \in cycles : \A m \in ToSet(c) : m \in before[n] /\ n \in before[m]

\* The warning is given for exactly the nodes that no path leads to from a
\* trigger, cycles or not.
UnreachedIsReported(d) ==
    LET before == BeforeAll(d)
    IN  Triggers(d) # {} =>
          {n \in d.nodes : Issue("UNREACHABLE_NODE", n) \in ValidateGraph(d)}
            = {n \in Resolved(d) \ Triggers(d) : before[n] \cap Triggers(d) = {}}

ValidationIsSound(d) ==
    ValidatedIsSupported(d) /\ CyclesAreFound(d) /\ UnreachedIsReported(d)
=============================================================================
