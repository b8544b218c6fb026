------------------------ MODULE MCWorkflowAuthoring ------------------------
(***************************************************************************)
(* WorkflowAuthoring in three scenarios, one of which is chosen at the     *)
(* start: two clients edit one workflow and their transactions overlap;    *)
(* every use case and trigger, but one request at a time; and workflows    *)
(* created, renamed and deleted by requests that overlap.                  *)
(***************************************************************************)
EXTENDS WorkflowAuthoring, TLC

CONSTANTS Deep   \* bound on the batches of rows in the serial scenario

VARIABLE scenario

Scenarios == {"overlap", "serial", "names"}

Symmetry == Permutations(Clients)

Editing == {"create", "open", "save", "publish"}
Naming == {"create", "rename", "delete"}

Used == {w \in Workflows : db.wf[w].name # NoName}
Open == {c \in Clients : tx[c] # NoTx}
Sent(c, trigger) == tx[c].op = "save" /\ tx[c].trigger = trigger
OneName == \A w \in Used : db.wf[w].name = CHOOSE n \in Names : TRUE

\* What of the model takes part in each scenario.
Overlapping ==
    /\ \A c \in Open : tx[c].op \in Editing /\ ~ Sent(c, "manual") /\ ~ Sent(c, "schedule")
    /\ OneName /\ now = 0

Serial ==
    /\ Cardinality(Open) <= 1
    /\ rows <= Deep
    /\ OneName

NamesOnly ==
    /\ \A c \in Open : tx[c].op \in Naming
    /\ now = 0

OneWorkflow == \A c \in Open : tx[c].wf = CHOOSE w \in Workflows : TRUE

Within ==
    /\ scenario = "overlap" => Overlapping /\ OneWorkflow
    /\ scenario = "serial" => Serial /\ OneWorkflow
    /\ scenario = "names" => NamesOnly

MCInit == AuthoringInit /\ scenario \in Scenarios
MCNext == AuthoringNext /\ UNCHANGED scenario /\ Within'
MCSpec == MCInit /\ [][MCNext]_<<authoringVars, scenario>>

-----------------------------------------------------------------------------
(* What requests that do not overlap are promised *)

\* While requests do not overlap: what is published has passed validation
\* (publish); a workflow has at most one address and one schedule, through any
\* sequence of publications with and without them (_register_webhook_trigger,
\* _register_schedule_trigger); the trigger of the version it runs fires; and a
\* save replaces what its author had received (replace_draft).
SeriallySound ==
    scenario = "serial" =>
        /\ PublishedIsValid
        /\ OneAddress /\ OneSchedule
        /\ ActiveTriggerFires
        /\ SaveReplacesWhatWasRead

\* And what was given out stays: a published version never changes (ADR-026), and
\* an address that was minted is never withdrawn or exchanged.
SeriallyPermanent ==
    [][scenario = "serial" =>
         /\ \A v \in VersionIds : IsPublished(db, v) => db'.ver[v].graph = db.ver[v].graph
         /\ \A x \in db.reg : \E y \in db'.reg : y.token = x.token]_authoringVars
=============================================================================
