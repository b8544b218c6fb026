---------------------------- MODULE MCRunEngine ----------------------------
(***************************************************************************)
(* RunEngine over every acyclic graph of a size. Nodes are numbered so that*)
(* edges go upwards, which loses no graph: a tick's decisions do not depend*)
(* on the declaration order.                                               *)
(***************************************************************************)
EXTENDS RunEngine, FiniteSets

CONSTANTS Size, MaxEdges

MCHandles == {"true", "false"}

Wires == {w \in (1 .. Size) \X MCHandles \X (1 .. Size) : w[1] < w[3]}

\* Every edge has an input port of its own (SINGLE arity, checked at publish).
GraphOf(wires) ==
    [nodes |-> 1 .. Size,
     edges |-> {[source |-> w[1], handle |-> w[2], target |-> w[3],
                 port |-> <<w[1], w[2]>>] : w \in wires}]

MCGraphs == {GraphOf(wires) : wires \in {W \in SUBSET Wires : Cardinality(W) <= MaxEdges}}
=============================================================================
