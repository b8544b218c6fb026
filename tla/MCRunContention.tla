--------------------------- MODULE MCRunContention ---------------------------
(***************************************************************************)
(* RunExecution with the processes that take part chosen at the start:     *)
(* either all workers and an advance request, or one worker and all resume *)
(* requests. All of them at once is out of reach.                          *)
(***************************************************************************)
EXTENDS MCRunExecution

VARIABLE cast

Casts == {Workers \cup Advancers} \cup {{w} \cup Resumers : w \in Workers}

CastInit == Init /\ cast \in Casts

CastNext ==
    /\ Next
    /\ \A p \in Procs \ cast : pc'[p] = "off"
    /\ \A w \in Workers \ cast : held'[w] = Idle
    /\ UNCHANGED cast

CastSpec == CastInit /\ [][CastNext]_<<vars, cast>>
=============================================================================
