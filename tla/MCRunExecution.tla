--------------------------- MODULE MCRunExecution ---------------------------
(* RunExecution on small graphs; symmetry only where no liveness is checked. *)
EXTENDS RunExecution, TLC

Symmetry == Permutations(Workers) \cup Permutations(Resumers)

Edge(s, h, t) == [source |-> s, handle |-> h, target |-> t, port |-> <<s, h>>]

MCHandles == {"true", "false"}

\* A condition, an effect on one branch, and a join of both branches.
BranchGraph ==
    [nodes |-> 1 .. 3,
     edges |-> {Edge(1, "true", 2), Edge(2, "true", 3), Edge(1, "false", 3)}]

\* A condition emits on one handle or the other; the others on one.
BranchEmits ==
    [n \in 1 .. 3 |-> IF n = 1 THEN {{"true"}, {"false"}} ELSE {{"true"}}]

\* Two roots, which start in one batch; a third node follows the first.
ForkGraph == [nodes |-> 1 .. 3, edges |-> {Edge(1, "true", 3)}]
ForkEmits == [n \in 1 .. 3 |-> {{"true"}}]
=============================================================================
