------------------------- MODULE WorkflowAuthoring -------------------------
(***************************************************************************)
(* Workflows, their drafts and published versions, and the trigger rows    *)
(* that publishing maintains (services/workflow_service.py and the         *)
(* workflow, version, registration and schedule repositories).             *)
(*                                                                         *)
(* A use case is one transaction under REPEATABLE READ, hence two steps:   *)
(* Begin takes the snapshot all its SELECTs read, its commit writes        *)
(* *current* rows, subject to the unique indexes and foreign keys.  A row  *)
(* it does not write keeps its current value.  Abort stands for every way  *)
(* out without effect: a refusal, an integrity error, a deadlock, a crash. *)
(*                                                                         *)
(* replace_graph deletes and inserts node rows, so a graph is named by the *)
(* batch of rows that holds it; `content` names what the rows say, which a *)
(* copy shares with its source.  Of a graph's meaning only its trigger is  *)
(* kept; a graph without one ("none") stands for all that publish refuses. *)
(***************************************************************************)
EXTENDS Naturals, FiniteSets, FiniteSetsExt

CONSTANTS
    Workflows, Names,
    Clients,
    Publishers,    \* clients that are the creator or an administrator
    VersionIds,    \* a set of naturals: workflow_versions rows
    MaxRows,       \* bound on the batches of node rows ever inserted
    MaxTime,       \* bound on the clock
    TriggersUsed,  \* the triggers that saved graphs have
    Operations,    \* the use cases that clients call
    NoName

Triggers == {"none", "manual", "webhook", "schedule"}
AllOperations == {"create", "rename", "delete", "open", "validate", "save", "publish"}

ASSUME AuthoringAssumption ==
    /\ VersionIds \subseteq Nat \ {0} /\ MaxRows \in Nat /\ MaxTime \in Nat
    /\ IsFiniteSet(Clients) /\ Publishers \subseteq Clients /\ NoName \notin Names
    /\ TriggersUsed \subseteq Triggers /\ Operations \subseteq AllOperations

VARIABLES
    db,     \* the committed rows
    rows,   \* batches of node rows inserted so far (the AUTO_INCREMENT)
    tx,     \* each client's open transaction
    view,   \* the draft each client last received: what it edits
    last,   \* history: what the last save was based on, and what it replaced
    now     \* the clock

authoringVars == <<db, rows, tx, view, last, now>>

None == 0
WorkflowRow == [name : Names \cup {NoName}, deleted : BOOLEAN, active : VersionIds \cup {None}]
Graph == [rows : 0 .. MaxRows, content : 0 .. MaxRows, trigger : Triggers]
Empty == [rows |-> 0, content |-> 0, trigger |-> "none"]
Unused == [wf |-> None, status |-> "UNUSED", no |-> None, rev |-> 0, graph |-> Empty]
VersionRow ==
    {Unused}
    \cup [wf : Workflows, status : {"DRAFT"}, no : {None}, rev : Nat \ {0}, graph : Graph]
    \cup [wf : Workflows, status : {"PUBLISHED"}, no : Nat \ {0}, rev : Nat \ {0}, graph : Graph]
RegistrationRow == [token : (0 .. MaxRows) \X Clients, rows : 0 .. MaxRows]
ScheduleRow == [id : (0 .. MaxRows) \X Clients, rows : 0 .. MaxRows, due : Nat]

NoTx == [op |-> "none"]
NoView == [ver |-> None, rev |-> 0, content |-> 0]

AuthoringTypeOK ==
    /\ db.wf \in [Workflows -> WorkflowRow]
    /\ db.ver \in [VersionIds -> VersionRow]
    /\ db.reg \subseteq RegistrationRow
    /\ db.sched \subseteq ScheduleRow
    /\ rows \in 0 .. MaxRows
    /\ now \in 0 .. MaxTime
    /\ \A c \in Clients : tx[c].op \in Operations \cup {"none"}
    /\ \A c \in Clients : view[c].ver \in VersionIds \cup {None}

AuthoringInit ==
    /\ db = [wf |-> [w \in Workflows |-> [name |-> NoName, deleted |-> FALSE, active |-> None]],
             ver |-> [v \in VersionIds |-> Unused], reg |-> {}, sched |-> {}]
    /\ rows = 0
    /\ tx = [c \in Clients |-> NoTx]
    /\ view = [c \in Clients |-> NoView]
    /\ last = [same |-> TRUE, read |-> 0, replaced |-> 0]
    /\ now = 0

-----------------------------------------------------------------------------
(* What a transaction reads, in the database d it sees *)

Exists(d, w) == d.wf[w].name # NoName

\* get_by_public_id: soft-deleted rows are invisible.
Live(d, w) == Exists(d, w) /\ ~ d.wf[w].deleted

\* name_exists, by the generated column name_active.
NameTaken(d, n) == \E w \in Workflows : Live(d, w) /\ d.wf[w].name = n

\* Mutant: the check of the snapshot is relied upon.
NoIndex(w, n) == TRUE

\* The unique index on name_active, when a row is written.
IndexAllows(w, n) == \A u \in Workflows \ {w} : ~ (Live(db, u) /\ db.wf[u].name = n)

VersionsOf(d, w) == {v \in VersionIds : d.ver[v].status # "UNUSED" /\ d.ver[v].wf = w}

\* Mutant: the draft is taken to be the newest version.
NewestVersion(d, w) ==
    IF VersionsOf(d, w) = {} THEN {} ELSE {Max(VersionsOf(d, w))}

Drafts(d, w) == {v \in VersionsOf(d, w) : d.ver[v].status = "DRAFT"}
IsPublished(d, v) == d.ver[v].status = "PUBLISHED"
Numbers(d, w) == {d.ver[v].no : v \in {u \in VersionsOf(d, w) : IsPublished(d, u)}}

Valid(g) == g.trigger # "none"

\* Node rows that exist: what a foreign key to workflow_nodes can name.
RowsOf(d, w) == {d.ver[v].graph.rows : v \in VersionsOf(d, w)}
RowsExist(d, r) == \E v \in VersionIds : d.ver[v].graph.rows = r /\ r # 0

\* Mutant: only a row that points into the active version is found.
ActiveRegistrations(d, w) ==
    {x \in d.reg : d.wf[w].active # None /\ x.rows = d.ver[d.wf[w].active].graph.rows}

\* get_for_workflow of both repositories: through node and version, whichever
\* version that is.
RegistrationsOf(d, w) == {x \in d.reg : x.rows \in RowsOf(d, w)}

\* Mutant: likewise for schedules.
ActiveSchedules(d, w) ==
    {x \in d.sched : d.wf[w].active # None /\ x.rows = d.ver[d.wf[w].active].graph.rows}

SchedulesOf(d, w) == {x \in d.sched : x.rows \in RowsOf(d, w)}

\* Mutant: the number is computed from the rows as they are when it is written.
NextVersionNoNow(d, w) == Max(Numbers(db, w) \cup {0}) + 1

\* One past the highest number that the transaction reads.
NextVersionNo(d, w) == Max(Numbers(d, w) \cup {0}) + 1

\* The first occurrence strictly after t, of a schedule that fires every tick.
NextOccurrence(t) == t + 1

-----------------------------------------------------------------------------
(* What a transaction writes *)

\* Mutant: the trigger rows stay when their node goes.
KeepsOrphans(d, r) == d

\* The rows that ON DELETE CASCADE leaves when a batch of node rows goes.
WithoutRows(d, r) ==
    [d EXCEPT !.reg = {x \in @ : x.rows # r}, !.sched = {x \in @ : x.rows # r}]

\* Mutant: the revision is computed from the one that was read.
ReadModifyWrite(read, current) == read + 1

\* bump_revision increments in SQL.
NextRevision(read, current) == current + 1

\* replace_graph: the rows of v as they are now, whatever has become of v
\* since it was read.
Replaced(d, v, g, read) ==
    [WithoutRows(d, d.ver[v].graph.rows) EXCEPT
        !.ver[v].graph = g, !.ver[v].rev = NextRevision(read, @)]

\* Mutant: the whole row is copied, its number with it.
NewDraftOfRow(s, w) ==
    LET a == s.wf[w].active
    IN  IF a = None
        THEN [wf |-> w, status |-> "DRAFT", no |-> None, rev |-> 1, graph |-> Empty]
        ELSE [s.ver[a] EXCEPT !.status = "DRAFT", !.rev = 1, !.graph.rows = rows + 1]

\* _ensure_draft: the draft in the snapshot s, or a new one, a copy of the
\* version that is active in s.  The unique index on draft_key refuses a second.
NewDraft(s, w) ==
    LET a == s.wf[w].active
        copy == IF a = None THEN Empty ELSE [s.ver[a].graph EXCEPT !.rows = rows + 1]
    IN  [wf |-> w, status |-> "DRAFT", no |-> None, rev |-> 1, graph |-> copy]

FreeVersion(d) == Min({v \in VersionIds : d.ver[v].status = "UNUSED"})

CanCreateDraft(d, w) ==
    /\ Drafts(d, w) = {}
    /\ \E v \in VersionIds : d.ver[v].status = "UNUSED"

HasDraft(s, w) == Drafts(s, w) # {}
\* Batches of node rows that opening the draft inserts.
Copies(s, w) == IF HasDraft(s, w) \/ s.wf[w].active = None THEN 0 ELSE 1
DraftId(s, w) == IF HasDraft(s, w) THEN Min(Drafts(s, w)) ELSE FreeVersion(db)
\* The draft as the transaction sees it, and the database once it is ensured.
DraftRow(s, w) == IF HasDraft(s, w) THEN s.ver[DraftId(s, w)] ELSE NewDraft(s, w)
Ensured(s, w) ==
    IF HasDraft(s, w) THEN db ELSE [db EXCEPT !.ver[DraftId(s, w)] = NewDraft(s, w)]

-----------------------------------------------------------------------------
(* Transactions *)

\* A request arrives and its transaction reads.  A save states the revision
\* the client last received, and carries the graph it made of what it received.
Begin(c, op, w, n, t) ==
    /\ op \in Operations
    /\ tx[c] = NoTx
    /\ op = "save" => view[c].rev > 0
    /\ tx' = [tx EXCEPT ![c] =
                [op |-> op, wf |-> w, name |-> n, trigger |-> t, at |-> now, db |-> db]]
    /\ UNCHANGED <<db, rows, view, last, now>>

Abort(c) ==
    /\ tx[c] # NoTx
    /\ tx' = [tx EXCEPT ![c] = NoTx]
    /\ UNCHANGED <<db, rows, view, last, now>>

Committing(c, op) == tx[c].op = op
Ends(c) == tx' = [tx EXCEPT ![c] = NoTx]

Create(c) ==
    /\ Committing(c, "create")
    /\ LET w == tx[c].wf  n == tx[c].name
       IN  /\ ~ Exists(db, w)    \* a row of its own
           /\ ~ NameTaken(tx[c].db, n)
           /\ IndexAllows(w, n)
           /\ db' = [db EXCEPT !.wf[w] = [name |-> n, deleted |-> FALSE, active |-> None]]
    /\ Ends(c) /\ UNCHANGED <<rows, view, last, now>>

UpdateMetadata(c) ==
    /\ Committing(c, "rename")
    /\ LET w == tx[c].wf  n == tx[c].name
       IN  /\ Live(tx[c].db, w)
           /\ n # tx[c].db.wf[w].name
           /\ ~ NameTaken(tx[c].db, n)
           /\ db' = [db EXCEPT !.wf[w].name = n]
           /\ ~ db.wf[w].deleted => IndexAllows(w, n)
    /\ Ends(c) /\ UNCHANGED <<rows, view, last, now>>

SoftDelete(c) ==
    /\ Committing(c, "delete")
    /\ Live(tx[c].db, tx[c].wf)
    /\ db' = [db EXCEPT !.wf[tx[c].wf].deleted = TRUE]
    /\ Ends(c) /\ UNCHANGED <<rows, view, last, now>>

\* get_draft and validate_draft both commit the draft they may have created;
\* only the first returns it.
GetDraft(c) ==
    /\ tx[c].op \in {"open", "validate"}
    /\ LET w == tx[c].wf  s == tx[c].db
       IN  /\ Live(s, w)
           /\ HasDraft(s, w) \/ CanCreateDraft(db, w)
           /\ db' = Ensured(s, w)
           /\ rows + Copies(s, w) <= MaxRows
           /\ rows' = rows + Copies(s, w)
           /\ view' = IF tx[c].op = "validate" THEN view
                      ELSE [view EXCEPT ![c] =
                              [ver |-> DraftId(s, w), rev |-> DraftRow(s, w).rev,
                               content |-> DraftRow(s, w).graph.content]]
    /\ Ends(c) /\ UNCHANGED <<last, now>>

\* Mutant: any revision the draft has had is accepted.
OnceCurrent(draft, rev) == rev <= draft.rev

StillCurrent(draft, rev) == draft.rev = rev

\* The revision stated is compared with the draft of the snapshot.
ReplaceDraft(c) ==
    /\ Committing(c, "save")
    /\ rows < MaxRows
    /\ LET w == tx[c].wf  s == tx[c].db  v == DraftId(s, w)
           g == [rows |-> rows + 1, content |-> rows + 1, trigger |-> tx[c].trigger]
       IN  /\ Live(s, w)
           /\ HasDraft(s, w) \/ CanCreateDraft(db, w)
           /\ StillCurrent(DraftRow(s, w), view[c].rev)
           /\ db' = Replaced(Ensured(s, w), v, g, DraftRow(s, w).rev)
           /\ view' = [view EXCEPT ![c] =
                         [ver |-> v, rev |-> db'.ver[v].rev, content |-> g.content]]
           /\ last' = [same |-> view[c].ver = v, read |-> view[c].content,
                       replaced |-> Ensured(s, w).ver[v].graph.content]
    /\ rows' = rows + 1
    /\ Ends(c) /\ UNCHANGED now

\* Mutant: an address that exists is left as it is.
NotRepointed(x, r, c) == x

\* Mutant: a publication issues a new address.
Reissued(x, r, c) == [token |-> <<r, c>>, rows |-> r]

Repointed(x, r, c) == [x EXCEPT !.rows = r]

\* _register_webhook_trigger, for the nodes g the transaction has read: what
\* the table may become, nothing if the transaction fails.  No webhook leaves
\* it alone; an address the workflow has is repointed; otherwise one is minted.
\* A row that is gone cannot be updated, and a foreign key needs its target.
WebhookOutcomes(c, d) ==
    LET s == tx[c].db  g == s.ver[DraftId(s, tx[c].wf)].graph
        existing == {x.token : x \in RegistrationsOf(s, tx[c].wf)}
    IN  CASE g.trigger # "webhook" -> {d.reg}
          [] g.trigger = "webhook" /\ ~ RowsExist(d, g.rows) -> {}
          [] OTHER ->
               IF existing = {} THEN {d.reg \cup {[token |-> <<g.rows, c>>, rows |-> g.rows]}}
               ELSE {(d.reg \ {x}) \cup {Repointed(x, g.rows, c)} :
                       x \in {y \in d.reg : y.token \in existing}}

\* _register_schedule_trigger: the same, with the due time computed anew, and
\* a unique index on the node.
ScheduleOutcomes(c, d) ==
    LET s == tx[c].db  g == s.ver[DraftId(s, tx[c].wf)].graph
        existing == {x.id : x \in SchedulesOf(s, tx[c].wf)}
        At(id) == {[id |-> id, rows |-> g.rows, due |-> NextOccurrence(t)] : t \in tx[c].at .. now}
        Free(others) == \A x \in others : x.rows # g.rows
    IN  CASE g.trigger # "schedule" -> {d.sched}
          [] g.trigger = "schedule" /\ ~ RowsExist(d, g.rows) -> {}
          [] OTHER ->
               IF existing = {}
               THEN {d.sched \cup {new} : new \in {x \in At(<<g.rows, c>>) : Free(d.sched)}}
               ELSE UNION {{(d.sched \ {x}) \cup {new} : new \in At(x.id)} :
                             x \in {y \in d.sched : y.id \in existing /\ Free(d.sched \ {y})}}

\* Mutant: publishing does not validate.
PublishesAnything(g) == TRUE

Publishable(g) == Valid(g)

\* Validates the graph of the snapshot, then promotes the row in place.
Publish(c) ==
    /\ Committing(c, "publish")
    /\ LET w == tx[c].wf  s == tx[c].db  v == DraftId(s, w)  no == NextVersionNo(s, w)
           d == [db EXCEPT !.ver[v].status = "PUBLISHED", !.ver[v].no = no, !.wf[w].active = v]
       IN  /\ Live(s, w)
           /\ c \in Publishers
           /\ HasDraft(s, w)
           /\ Publishable(s.ver[v].graph)
           /\ \A u \in VersionsOf(db, w) \ {v} : db.ver[u].no # no    \* unique index
           /\ \E reg \in WebhookOutcomes(c, d), sched \in ScheduleOutcomes(c, d) :
                db' = [d EXCEPT !.reg = reg, !.sched = sched]
    /\ Ends(c) /\ UNCHANGED <<rows, view, last, now>>

PassTime ==
    /\ now < MaxTime
    /\ now' = now + 1
    /\ UNCHANGED <<db, rows, tx, view, last>>

AnyRequest(c) ==
    \E w \in Workflows :
      \/ \E op \in {"create", "rename"}, n \in Names : Begin(c, op, w, n, "none")
      \/ \E op \in {"delete", "open", "validate", "publish"} : Begin(c, op, w, NoName, "none")
      \/ \E t \in TriggersUsed : Begin(c, "save", w, NoName, t)

AuthoringStep(c) ==
    \/ AnyRequest(c) \/ Abort(c)
    \/ Create(c) \/ UpdateMetadata(c) \/ SoftDelete(c)
    \/ GetDraft(c) \/ ReplaceDraft(c) \/ Publish(c)

AuthoringNext == PassTime \/ \E c \in Clients : AuthoringStep(c)

AuthoringSpec == AuthoringInit /\ [][AuthoringNext]_authoringVars

-----------------------------------------------------------------------------
(* What holds however transactions overlap *)

\* The published versions of a workflow are numbered 1, 2, 3, ..., each number
\* once, although a number is computed from a snapshot and a publish may be
\* repeated by a second one that began before it.
NumbersAreDense ==
    \A w \in Workflows :
      LET published == {v \in VersionsOf(db, w) : IsPublished(db, v)}
      IN  Numbers(db, w) = 1 .. Cardinality(published)

\* Live workflows have distinct names, although the check for a duplicate
\* reads a snapshot, and deleting frees a name that an open request then takes.
NamesAreDistinct ==
    \A u, w \in Workflows :
      u # w /\ Live(db, u) /\ Live(db, w) => db.wf[u].name # db.wf[w].name

\* The revision is a name of the draft's content: whoever received revision r
\* of a draft and finds it still at r has seen what is in it.
RevisionNamesContent ==
    \A c \in Clients :
      LET v == view[c].ver
      IN  v # None /\ db.ver[v].rev = view[c].rev => db.ver[v].graph.content = view[c].content

\* A workflow runs a published version of its own, and a registration or a
\* schedule never outlives the rows it fires.
PointersResolve ==
    /\ \A w \in Workflows :
         db.wf[w].active # None =>
           db.wf[w].active \in VersionsOf(db, w) /\ IsPublished(db, db.wf[w].active)
    /\ \A x \in db.reg \cup db.sched : RowsExist(db, x.rows)

\* What the rows of all workflows may ever say, however transactions overlap:
\* names and numbers are distinct, pointers resolve, a revision is a name.
RowsAgree == NumbersAreDense /\ NamesAreDistinct /\ PointersResolve /\ RevisionNamesContent

-----------------------------------------------------------------------------
(* What the code promises of every schedule of requests, and keeps while     *)
(* transactions do not overlap *)

\* Whatever the order of requests, what is published has passed validation.
PublishedIsValid == \A v \in VersionIds : IsPublished(db, v) => Valid(db.ver[v].graph)

\* A published version never changes (ADR-026): runs of it cannot change
\* underneath, and the trigger rows that point into it stay.
PublishedIsFrozen ==
    [][\A v \in VersionIds :
         IsPublished(db, v) => db'.ver[v].graph = db.ver[v].graph]_authoringVars

\* A workflow has at most one address, through any sequence of
\* publications with and without the trigger.
OneAddress ==
    \A w \in Workflows : Cardinality({x \in db.reg : x.rows \in RowsOf(db, w)}) <= 1

\* Likewise at most one schedule, whose due time alone says when it fires.
OneSchedule ==
    \A w \in Workflows : Cardinality({x \in db.sched : x.rows \in RowsOf(db, w)}) <= 1

\* The trigger of the active version fires: its row exists and points at it.
ActiveTriggerFires ==
    \A w \in Workflows :
      db.wf[w].active # None =>
        LET g == db.ver[db.wf[w].active].graph
        IN  /\ g.trigger = "webhook" => \E x \in db.reg : x.rows = g.rows
            /\ g.trigger = "schedule" => \E x \in db.sched : x.rows = g.rows

\* A save replaces what its author had received, unless the draft it was
\* received from has been published in between.
SaveReplacesWhatWasRead == last.same => last.read = last.replaced
=============================================================================
