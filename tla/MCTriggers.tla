----------------------------- MODULE MCTriggers -----------------------------
(***************************************************************************)
(* Triggers in two scenarios: the clock starts runs of scheduled versions, *)
(* or deliveries and users' requests start them; always beside the editing,*)
(* publishing and deleting of the workflow.                                *)
(***************************************************************************)
EXTENDS Triggers, TLC

VARIABLE scenario

Editing == {"create", "open", "save", "publish", "delete"}

Sends(trigger) == \E c \in Clients : tx[c].op = "save" /\ tx[c].trigger = trigger

Clock ==
    /\ \A r \in Callers : calls[r] = Idle
    /\ ~ Sends("webhook")

Calls ==
    /\ \A p \in Dispatchers : disp[p] = Idle
    /\ ~ Sends("schedule")
    /\ now = 0

MCInit == Init /\ scenario \in {"clock", "calls"}

MCNext ==
    /\ Next
    /\ UNCHANGED scenario
    /\ (scenario = "clock" => Clock)' /\ (scenario = "calls" => Calls)'

\* Only where there are dispatchers, they are fair (Fairness of Triggers).
Clocked(A) == scenario = "clock" /\ A

MCSpec ==
    /\ MCInit /\ [][MCNext]_<<vars, scenario>>
    /\ \A p \in Dispatchers :
         /\ WF_vars(Clocked(Poll(p) \/ FindNothing(p) \/ ClaimDue(p)))
         /\ WF_vars(Clocked(Dispatch(p)))
=============================================================================
