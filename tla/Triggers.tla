------------------------------ MODULE Triggers ------------------------------
(***************************************************************************)
(* What starts a run: the dispatcher's claim of a due schedule             *)
(* (services/schedule_dispatch_service.py, dispatcher/loop.py,             *)
(* repositories/schedule_repository.py), a webhook delivery                *)
(* (services/webhook_service.py) and a request of a user, beside the       *)
(* authoring and publishing of WorkflowAuthoring.                          *)
(*                                                                         *)
(* A dispatch is one transaction: it locks the schedule row it claims, and *)
(* its snapshot begins with that SELECT.  A delivery is two transactions:  *)
(* one resolves the token, the other creates the run.                      *)
(***************************************************************************)
EXTENDS WorkflowAuthoring

CONSTANTS
    Dispatchers,
    Callers,       \* deliveries and requests that create runs
    MaxRuns,       \* bound on runs created
    MaxFailures    \* bound on dispatches that fail or die before their commit

ASSUME TriggersAssumption == MaxRuns \in Nat /\ MaxFailures \in Nat

VARIABLES
    runs,      \* the runs created: the version pinned, and what started each
    disp,      \* the dispatchers' polls and claims
    calls,     \* the requests' progress
    failures

triggerVars == <<runs, disp, calls, failures>>
vars == <<authoringVars, triggerVars>>

NoSchedule == <<0, 0>>
Run == [n : 1 .. MaxRuns, ver : VersionIds, cause : {"user", "webhook", "schedule"},
        schedule : {NoSchedule} \cup ((0 .. MaxRows) \X Clients), occurrence : 0 .. MaxTime + 1,
        resolved : VersionIds \cup {None}]

Idle == [phase |-> "idle"]

TypeOK ==
    /\ AuthoringTypeOK
    /\ runs \subseteq Run
    /\ \A p \in Dispatchers : disp[p].phase \in {"idle", "polled", "holding"}
    /\ \A r \in Callers : calls[r].phase \in {"idle", "resolved", "creating"}
    /\ failures \in 0 .. MaxFailures

Init ==
    /\ AuthoringInit
    /\ runs = {}
    /\ disp = [p \in Dispatchers |-> Idle]
    /\ calls = [r \in Callers |-> Idle]
    /\ failures = 0

-----------------------------------------------------------------------------
(* Rows *)

\* Mutant: the claim does not lock.
LocksNothing(id) == FALSE

IsLocked(id) == \E p \in Dispatchers : disp[p].phase = "holding" /\ disp[p].id = id

\* Mutant: any version of the workflow will do.
FiresAnyVersion(d, w, x) == Live(d, w) /\ d.wf[w].active # None /\ x.rows \in RowsOf(d, w)

\* The node a row points at is in the version the workflow runs, and the
\* workflow is not deleted.
Fires(d, w, x) ==
    Live(d, w) /\ d.wf[w].active # None /\ d.ver[d.wf[w].active].graph.rows = x.rows

\* Mutant: a tick's tolerance.
EligibleAhead(w, x, at) == x.due <= at + 1 /\ Fires(db, w, x)

\* Mutant: an occurrence that was missed is not made up for.
EligibleOnTheDot(w, x, at) == x.due = at /\ Fires(db, w, x)

Eligible(w, x, at) == x.due <= at /\ Fires(db, w, x)

\* _published_version of the workflow, in the snapshot d.
Runnable(d, w) ==
    Live(d, w) /\ d.wf[w].active # None /\ IsPublished(d, d.wf[w].active)

\* Mutant: the newest version is pinned, published or not.
PinnedNewest(d, w) == Max(VersionsOf(d, w))

Pinned(d, w) == d.wf[w].active

\* _materialize: one run of the active version of the snapshot d, with a row
\* for each of its nodes, which must still exist.
Materialize(d, w, cause, id, occurrence, resolved) ==
    /\ Cardinality(runs) < MaxRuns
    /\ Runnable(d, w)
    /\ RowsExist(db, d.ver[Pinned(d, w)].graph.rows)
    /\ runs' = runs \cup {[n |-> Cardinality(runs) + 1, ver |-> Pinned(d, w), cause |-> cause,
                           schedule |-> id, occurrence |-> occurrence,
                           resolved |-> resolved]}

-----------------------------------------------------------------------------
(* The dispatcher *)

\* The clock is read before the transaction begins.
Poll(p) ==
    /\ disp[p] = Idle
    /\ disp' = [disp EXCEPT ![p] = [phase |-> "polled", at |-> now]]
    /\ UNCHANGED <<authoringVars, runs, calls, failures>>

\* FOR UPDATE OF schedules SKIP LOCKED: any eligible row that nobody holds.
ClaimDue(p) ==
    /\ disp[p].phase = "polled"
    /\ \E w \in Workflows, x \in db.sched :
         /\ Eligible(w, x, disp[p].at)
         /\ ~ IsLocked(x.id)
         /\ disp' = [disp EXCEPT ![p] =
                       [phase |-> "holding", at |-> disp[p].at, wf |-> w, id |-> x.id,
                        occurrence |-> x.due, db |-> db]]
    /\ UNCHANGED <<authoringVars, runs, calls, failures>>

FindNothing(p) ==
    /\ disp[p].phase = "polled"
    /\ \A w \in Workflows, x \in db.sched : Eligible(w, x, disp[p].at) => IsLocked(x.id)
    /\ disp' = [disp EXCEPT ![p] = Idle]
    /\ UNCHANGED <<authoringVars, runs, calls, failures>>

\* Mutant: advanced from the stale due time, by a schedule that then replays.
AdvancedFromDue(h) == NextOccurrence(h.occurrence) - 1

Advanced(h) == NextOccurrence(h.at)

\* The due time moves past the moment of the poll, never past the stale one.
Dispatch(p) ==
    /\ disp[p].phase = "holding"
    /\ LET h == disp[p]
       IN  /\ Materialize(h.db, h.wf, "schedule", h.id, h.occurrence, None)
           /\ db' = [db EXCEPT !.sched =
                       {IF x.id = h.id THEN [x EXCEPT !.due = Advanced(h)] ELSE x : x \in @}]
    /\ disp' = [disp EXCEPT ![p] = Idle]
    /\ UNCHANGED <<rows, tx, view, last, now, calls, failures>>

\* The dispatch raises, or its process dies and another takes its place.
DispatchFails(p) ==
    /\ disp[p].phase = "holding"
    /\ failures < MaxFailures
    /\ failures' = failures + 1
    /\ disp' = [disp EXCEPT ![p] = Idle]
    /\ UNCHANGED <<authoringVars, runs, calls>>

-----------------------------------------------------------------------------
(* Deliveries and requests *)

\* get_by_token_digest and get_workflow_for, a transaction of their own.
Resolve(r) ==
    /\ calls[r] = Idle
    /\ \E w \in Workflows, x \in db.reg :
         /\ Fires(db, w, x)
         /\ calls' = [calls EXCEPT ![r] = [phase |-> "resolved", wf |-> w, ver |-> db.wf[w].active]]
    /\ UNCHANGED <<authoringVars, runs, disp, failures>>

\* The transaction that creates the run reads: for a delivery that has been
\* resolved, or for a user.
BeginRun(r) ==
    /\ \E w \in Workflows :
         /\ calls[r] = Idle \/ (calls[r].phase = "resolved" /\ calls[r].wf = w)
         /\ Runnable(db, w)
         /\ calls' = [calls EXCEPT ![r] =
                        [phase |-> "creating", wf |-> w, db |-> db,
                         cause |-> IF calls[r] = Idle THEN "user" ELSE "webhook",
                         resolved |-> IF calls[r] = Idle THEN None ELSE calls[r].ver]]
    /\ UNCHANGED <<authoringVars, runs, disp, failures>>

CreateRun(r) ==
    /\ calls[r].phase = "creating"
    /\ Materialize(calls[r].db, calls[r].wf, calls[r].cause, NoSchedule, 0,
                   calls[r].resolved)
    /\ calls' = [calls EXCEPT ![r] = Idle]
    /\ UNCHANGED <<authoringVars, disp, failures>>

\* Not found, a conflict, or a transaction that fails.
GiveUp(r) ==
    /\ calls[r] # Idle
    /\ calls' = [calls EXCEPT ![r] = Idle]
    /\ UNCHANGED <<authoringVars, runs, disp, failures>>

\* A publication that repoints a schedule, or a save that deletes its node,
\* waits for the dispatcher that holds the row.
Authoring ==
    /\ AuthoringNext
    /\ \A x \in db.sched : IsLocked(x.id) => x \in db'.sched
    /\ UNCHANGED triggerVars

DispatcherStep(p) == Poll(p) \/ ClaimDue(p) \/ FindNothing(p) \/ Dispatch(p) \/ DispatchFails(p)
CallerStep(r) == Resolve(r) \/ BeginRun(r) \/ CreateRun(r) \/ GiveUp(r)

Next ==
    \/ Authoring
    \/ \E p \in Dispatchers : DispatcherStep(p)
    \/ \E r \in Callers : CallerStep(r)

Spec == Init /\ [][Next]_vars

\* A dispatcher polls again, and its transaction ends: nothing in the code
\* keeps it from either.  Requests, publications and failures need not happen.
Fairness ==
    \A p \in Dispatchers : WF_vars(Poll(p) \/ FindNothing(p) \/ ClaimDue(p)) /\ WF_vars(Dispatch(p))

FairSpec == Spec /\ Fairness

-----------------------------------------------------------------------------
(* Properties *)

\* A run is pinned to a version that is published, and that stays the version
\* it was: however long ago its transaction read the active version (ADR-026).
RunsPinPublished == \A r \in runs : IsPublished(db, r.ver)

\* Dispatchers never fire an occurrence twice, nor one before another they
\* have fired: under one published version a schedule moves forward only,
\* whoever claims it, whoever died holding it, and however late it polls.
OccurrencesAdvance ==
    [][\A r \in runs' \ runs, q \in runs :
         r.cause = "schedule" /\ q.schedule = r.schedule /\ q.ver = r.ver
           => q.occurrence < r.occurrence]_vars

\* The clock starts only versions that have a schedule: eligibility is decided
\* in the statement that claims, and the run is created from the same snapshot.
ClockStartsScheduled ==
    \A r \in runs : r.cause = "schedule" => db.ver[r.ver].graph.trigger = "schedule"

\* No occurrence is fired ahead of its time.
NeverEarly == \A r \in runs : r.occurrence <= now

\* A delivery starts the version whose address it resolved, or one published
\* since; that one may have no webhook trigger, for the second transaction asks
\* for the active version again. (deliver's comment calls the gap benign: one
\* run more of a registration that is being revoked.)
DeliveryStartsResolved ==
    \A r \in runs :
      r.cause = "webhook" /\ db.ver[r.ver].graph.trigger # "webhook"
        => db.ver[r.resolved].no < db.ver[r.ver].no

\* A run is of what was asked for: the clock starts scheduled versions only and
\* never early, an address the version it was resolved to, or a later one.
StartsWhatWasAsked == ClockStartsScheduled /\ NeverEarly /\ DeliveryStartsResolved

\* A schedule that is due is fired, unless a publication moves it or the
\* workflow is deleted; the failures of single dispatches do not prevent it.
IsDue(k) ==
    /\ Cardinality(runs) < MaxRuns
    /\ \E w \in Workflows, x \in db.sched : x.id = k /\ x.due <= now /\ Fires(db, w, x)

DueIsFired == \A k \in (0 .. MaxRows) \X Clients : IsDue(k) ~> ~ IsDue(k)
=============================================================================
