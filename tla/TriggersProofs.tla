--------------------------- MODULE TriggersProofs ---------------------------
(***************************************************************************)
(* Proofs about Triggers, for any dispatchers and callers beside any       *)
(* authoring, whatever transactions overlap.                               *)
(*                                                                         *)
(* A dispatch or a request creates its run from a snapshot that may be     *)
(* long past.  What its rows say of a published version is still so: the   *)
(* current rows follow (WorkflowAuthoringProofs) every open snapshot.      *)
(***************************************************************************)
EXTENDS Triggers, WorkflowAuthoringProofs

\* What is known of a run created, in the rows d and at the time n.
RunIsSound(r, d, n) ==
    r \in Run /\ IsPublished(d, r.ver) /\ r.occurrence <= n

\* The moment of a poll is past, the occurrence claimed was due by then, and the
\* snapshot of the claim is followed by the rows.
ClaimIsSound(h, d, n) ==
    \/ h = Idle
    \/ h.phase = "polled" /\ h.at \in Nat /\ h.at <= n
    \/ /\ h.phase = "holding" /\ h.at \in Nat /\ h.at <= n
       /\ h.id \in (0 .. MaxRows) \X Clients /\ h.occurrence \in Nat /\ h.occurrence <= h.at
       /\ h.wf \in Workflows /\ RowsSound(h.db) /\ Follows(h.db, d)

RequestIsSound(k, d) ==
    \/ k = Idle
    \/ k.phase = "resolved" /\ k.wf \in Workflows /\ k.ver \in VersionIds
    \/ /\ k.phase = "creating" /\ k.cause \in {"user", "webhook"}
       /\ k.resolved \in VersionIds \cup {None}
       /\ k.wf \in Workflows /\ RowsSound(k.db) /\ Follows(k.db, d)

TInv ==
    /\ AInv
    /\ IsFiniteSet(runs) /\ \A r \in runs : RunIsSound(r, db, now)
    /\ DOMAIN disp = Dispatchers /\ \A p \in Dispatchers : ClaimIsSound(disp[p], db, now)
    /\ DOMAIN calls = Callers /\ \A r \in Callers : RequestIsSound(calls[r], db)
    /\ failures \in 0 .. MaxFailures

-----------------------------------------------------------------------------
(* Rows that follow *)

\* The version that a snapshot pins is published now.
LEMMA PinnedIsPublished ==
    ASSUME NEW s, RowsSound(s), NEW d, Follows(s, d), NEW w \in Workflows, Runnable(s, w)
    PROVE  Pinned(s, w) \in VersionIds /\ IsPublished(d, Pinned(s, w))
<1> DEFINE v == Pinned(s, w)
<1>1. v \in PublishedOf(s, w)
  BY DEF Runnable, RowsSound, Resolves, Pinned
<1>2. v \in VersionIds /\ InUse(s, v) /\ IsPublished(s, v)
  BY <1>1 DEF PublishedOf, VersionsOf, InUse
<1> HIDE DEF v
<1>3. IsPublished(d, v)
  BY <1>2 DEF Follows, VersionFollows
<1> QED  BY <1>2, <1>3 DEF v

\* What is known of runs, claims and requests stays known.
LEMMA StaysKnown ==
    ASSUME NEW d, RowsSound(d), NEW e, RowsSound(e), Follows(d, e),
           NEW m \in Nat, NEW n \in Nat, m <= n
    PROVE  /\ \A r : RunIsSound(r, d, m) => RunIsSound(r, e, n)
           /\ \A h : ClaimIsSound(h, d, m) => ClaimIsSound(h, e, n)
           /\ \A k : RequestIsSound(k, d) => RequestIsSound(k, e)
<1>1. d \in Database /\ e \in Database
  BY DEF RowsSound
<1>2. ASSUME NEW s, RowsSound(s), Follows(s, d)  PROVE Follows(s, e)
  BY <1>1, <1>2, FollowsOn DEF RowsSound
<1>3. ASSUME NEW r, RunIsSound(r, d, m)  PROVE RunIsSound(r, e, n)
  <2>1. r.ver \in VersionIds /\ InUse(d, r.ver) /\ r.occurrence \in Nat
    BY <1>3, AuthoringAssumption DEF RunIsSound, Run, IsPublished, InUse
  <2>2. IsPublished(e, r.ver)
    BY <1>3, <2>1 DEF RunIsSound, Follows, VersionFollows
  <2> QED  BY <1>3, <2>1, <2>2 DEF RunIsSound
<1>4. ASSUME NEW h, ClaimIsSound(h, d, m)  PROVE ClaimIsSound(h, e, n)
  BY <1>2, <1>4 DEF ClaimIsSound
<1>5. ASSUME NEW k, RequestIsSound(k, d)  PROVE RequestIsSound(k, e)
  BY <1>2, <1>5 DEF RequestIsSound
<1> QED  BY <1>3, <1>4, <1>5

\* The run that is created.
LEMMA MaterializeKeeps ==
    ASSUME TInv, NEW s, RowsSound(s), Follows(s, db), NEW w \in Workflows,
           NEW cause \in {"user", "webhook", "schedule"},
           NEW id \in {NoSchedule} \cup ((0 .. MaxRows) \X Clients),
           NEW occurrence \in Nat, occurrence <= now,
           NEW resolved \in VersionIds \cup {None},
           Materialize(s, w, cause, id, occurrence, resolved)
    PROVE  IsFiniteSet(runs') /\ \A r \in runs' : RunIsSound(r, db, now)
<1> DEFINE new == [n |-> Cardinality(runs) + 1, ver |-> Pinned(s, w), cause |-> cause,
                   schedule |-> id, occurrence |-> occurrence, resolved |-> resolved]
<1>1. Cardinality(runs) < MaxRuns /\ runs' = runs \cup {new} /\ Runnable(s, w)
  BY DEF Materialize
<1>2. Cardinality(runs) + 1 \in 1 .. MaxRuns
  BY <1>1, FS_CardinalityType, TriggersAssumption DEF TInv
<1>3. Pinned(s, w) \in VersionIds /\ IsPublished(db, Pinned(s, w))
  BY <1>1, PinnedIsPublished
<1>4. occurrence \in 0 .. MaxTime + 1
  BY AuthoringAssumption DEF TInv, AInv
<1>5. RunIsSound(new, db, now)
  BY <1>2, <1>3, <1>4 DEF RunIsSound, Run
<1> HIDE DEF new
<1>6. IsFiniteSet(runs')
  BY <1>1, FS_AddElement DEF TInv
<1> QED  BY <1>1, <1>5, <1>6 DEF TInv

\* A dispatch moves one due time, to the tick after a moment that is past.
LEMMA DueTimeMoves ==
    ASSUME AInv, NEW p, ClaimIsSound(disp[p], db, now), Dispatch(p)
    PROVE  AInv' /\ Follows(db, db')
<1> DEFINE h == disp[p]
           Moved(x) == IF x.id = h.id THEN [x EXCEPT !.due = Advanced(h)] ELSE x
           sched == {Moved(x) : x \in db.sched}
<1>1. h.at \in Nat /\ h.at <= now
  BY DEF Dispatch, ClaimIsSound, Idle
<1>2. Advanced(h) \in Nat /\ Advanced(h) <= now + 1
  BY <1>1, AuthoringAssumption DEF Advanced, NextOccurrence, AInv
<1>3. db \in Database /\ now \in Nat
  BY AuthoringAssumption DEF AInv, RowsSound
<1>4. db' = [db EXCEPT !.sched = sched] /\ UNCHANGED <<rows, tx, view, now>>
  BY DEF Dispatch
<1>5. ASSUME NEW x \in db.sched
      PROVE  /\ Moved(x) \in ScheduleRow /\ Moved(x).rows = x.rows
             /\ Moved(x).due <= now + 1
  <2>1. x \in ScheduleRow /\ x.due <= now + 1
    BY <1>3 DEF Database, AInv, DueSoon
  <2> HIDE DEF h
  <2> QED  BY <1>2, <2>1 DEF ScheduleRow
<1>6. /\ db'.wf = db.wf /\ db'.ver = db.ver /\ db'.reg = db.reg /\ db'.sched = sched
      /\ db' \in Database
  <2>1. sched \subseteq ScheduleRow
    BY <1>5
  <2> HIDE DEF sched
  <2> QED  BY <1>3, <1>4, <2>1 DEF Database
<1>7. \A x \in db'.sched : (\E y \in db.sched : y.rows = x.rows) /\ x.due <= now + 1
  BY <1>5, <1>6
<1> HIDE DEF sched, Moved
<1>8. \A w : /\ VersionsOf(db', w) = VersionsOf(db, w) /\ Drafts(db', w) = Drafts(db, w)
             /\ PublishedOf(db', w) = PublishedOf(db, w) /\ Numbers(db', w) = Numbers(db, w)
             /\ Live(db', w) = Live(db, w)
  BY <1>6 DEF VersionsOf, Drafts, PublishedOf, Numbers, IsPublished, Live, Exists
<1>9. OneDraft(db') /\ NumbersCount(db') /\ Distinct(db')
  BY <1>6, <1>8 DEF AInv, RowsSound, OneDraft, NumbersCount, Distinct
<1>10. Resolves(db')
  <2>1. \A x \in db'.reg \cup db'.sched : RowsExist(db, x.rows)
    BY <1>6, <1>7 DEF AInv, RowsSound, Resolves
  <2> QED  BY <1>6, <1>8, <2>1 DEF AInv, RowsSound, Resolves, RowsExist
<1>11. Follows(db, db')
  <2>1. Follows(db, db)
    BY <1>3, FollowsItself
  <2> QED  BY <1>6, <1>8, <2>1
           DEF Follows, VersionFollows, InUse, IsPublished, NextVersionNo
<1>12. RowsSound(db') /\ DueSoon(db', now')
  BY <1>4, <1>6, <1>7, <1>9, <1>10 DEF RowsSound, DueSoon
<1> QED  BY <1>4, <1>11, <1>12, Carried DEF AInv


-----------------------------------------------------------------------------
(* Steps *)

LEMMA TInvInit == ASSUME Init PROVE TInv
BY AInvInit, FS_EmptySet, TriggersAssumption DEF Init, TInv, ClaimIsSound, RequestIsSound

\* A step that takes the rows to some that follow, and changes claims, requests and
\* runs only to sound ones.
LEMMA TCarried ==
    ASSUME TInv, AInv', Follows(db, db'), now <= now',
           \/ runs' = runs
           \/ IsFiniteSet(runs') /\ \A r \in runs' : RunIsSound(r, db', now'),
           DOMAIN disp' = Dispatchers,
           \A p \in Dispatchers : disp'[p] = disp[p] \/ ClaimIsSound(disp'[p], db', now'),
           DOMAIN calls' = Callers,
           \A r \in Callers : calls'[r] = calls[r] \/ RequestIsSound(calls'[r], db'),
           failures' \in 0 .. MaxFailures
    PROVE  TInv'
<1>1. RowsSound(db) /\ RowsSound(db') /\ now \in Nat /\ now' \in Nat
  BY AuthoringAssumption DEF TInv, AInv
<1>2. /\ \A r : RunIsSound(r, db, now) => RunIsSound(r, db', now')
      /\ \A h : ClaimIsSound(h, db, now) => ClaimIsSound(h, db', now')
      /\ \A k : RequestIsSound(k, db) => RequestIsSound(k, db')
  BY <1>1, StaysKnown
<1> QED  BY <1>2 DEF TInv

LEMMA DispatcherKeeps ==
    ASSUME TInv, NEW p \in Dispatchers, DispatcherStep(p)
    PROVE  TInv'
<1>1. /\ RowsSound(db) /\ db \in Database /\ now \in Nat /\ Follows(db, db)
      /\ ClaimIsSound(disp[p], db, now)
  BY FollowsItself, AuthoringAssumption DEF TInv, AInv, RowsSound
<1>2. ASSUME UNCHANGED <<authoringVars, runs, calls>>, failures' \in 0 .. MaxFailures,
             NEW h, ClaimIsSound(h, db, now), disp' = [disp EXCEPT ![p] = h]
      PROVE  TInv'
  <2>1. AInv'
    BY <1>2, AuthoringKeeps DEF TInv
  <2> QED  BY <1>1, <1>2, <2>1, TCarried DEF TInv, authoringVars
<1>3. CASE Poll(p)
  <2>1. ClaimIsSound([phase |-> "polled", at |-> now], db, now)
    BY <1>1 DEF ClaimIsSound
  <2> QED  BY <1>2, <1>3, <2>1 DEF Poll, TInv
<1>4. CASE FindNothing(p)
  BY <1>2, <1>4 DEF FindNothing, TInv, ClaimIsSound
<1>5. CASE DispatchFails(p)
  <2>1. failures' \in 0 .. MaxFailures
    BY <1>5, TriggersAssumption DEF DispatchFails, TInv
  <2> QED  BY <1>2, <1>5, <2>1 DEF DispatchFails, ClaimIsSound
<1>6. CASE ClaimDue(p)
  <2>1. PICK w \in Workflows, x \in db.sched :
          /\ Eligible(w, x, disp[p].at)
          /\ disp' = [disp EXCEPT ![p] =
                        [phase |-> "holding", at |-> disp[p].at, wf |-> w, id |-> x.id,
                         occurrence |-> x.due, db |-> db]]
    BY <1>6 DEF ClaimDue
  <2>2. disp[p].at \in Nat /\ disp[p].at <= now
    BY <1>1, <1>6 DEF ClaimDue, ClaimIsSound, Idle
  <2>3. x \in ScheduleRow /\ x.due <= disp[p].at
    BY <1>1, <2>1 DEF Database, Eligible
  <2>4. ClaimIsSound([phase |-> "holding", at |-> disp[p].at, wf |-> w, id |-> x.id,
                      occurrence |-> x.due, db |-> db], db, now)
    BY <1>1, <2>2, <2>3 DEF ClaimIsSound, ScheduleRow
  <2> QED  BY <1>2, <1>6, <2>1, <2>4 DEF ClaimDue, TInv
<1>7. CASE Dispatch(p)
  <2> DEFINE h == disp[p]
  <2>1. AInv' /\ Follows(db, db')
    BY <1>1, <1>7, DueTimeMoves DEF TInv
  <2>2. /\ Materialize(h.db, h.wf, "schedule", h.id, h.occurrence, None)
        /\ disp' = [disp EXCEPT ![p] = Idle] /\ UNCHANGED <<now, calls, failures>>
    BY <1>7 DEF Dispatch
  <2>3. /\ h.id \in (0 .. MaxRows) \X Clients /\ h.occurrence \in Nat /\ h.occurrence <= now
        /\ h.wf \in Workflows /\ RowsSound(h.db) /\ Follows(h.db, db)
    BY <1>1, <1>7 DEF Dispatch, ClaimIsSound, Idle
  <2> HIDE DEF h
  <2>4. IsFiniteSet(runs') /\ \A r \in runs' : RunIsSound(r, db, now)
    BY <2>2, <2>3, MaterializeKeeps
  <2>5. \A r \in runs' : RunIsSound(r, db', now)
    <3>1. RowsSound(db')
      BY <2>1 DEF AInv
    <3> QED  BY <1>1, <2>1, <2>4, <3>1, StaysKnown
  <2>6. ClaimIsSound(Idle, db', now')
    BY DEF ClaimIsSound
  <2> QED  BY <1>1, <2>1, <2>2, <2>4, <2>5, <2>6, TCarried DEF TInv
<1> QED  BY <1>3, <1>4, <1>5, <1>6, <1>7 DEF DispatcherStep

LEMMA CallerKeeps ==
    ASSUME TInv, NEW r \in Callers, CallerStep(r)
    PROVE  TInv'
<1>1. /\ RowsSound(db) /\ db \in Database /\ now \in Nat /\ Follows(db, db)
      /\ RequestIsSound(calls[r], db)
  BY FollowsItself, AuthoringAssumption DEF TInv, AInv, RowsSound
<1>2. ASSUME UNCHANGED <<authoringVars, disp, failures>>,
             \/ runs' = runs
             \/ IsFiniteSet(runs') /\ \A q \in runs' : RunIsSound(q, db, now),
             NEW k, RequestIsSound(k, db), calls' = [calls EXCEPT ![r] = k]
      PROVE  TInv'
  <2>1. AInv'
    BY <1>2, AuthoringKeeps DEF TInv
  <2> QED  BY <1>1, <1>2, <2>1, TCarried DEF TInv, authoringVars
<1>3. RequestIsSound(Idle, db)
  BY DEF RequestIsSound
<1>4. CASE Resolve(r)
  <2>1. PICK w \in Workflows, x \in db.reg :
          /\ Fires(db, w, x)
          /\ calls' = [calls EXCEPT ![r] = [phase |-> "resolved", wf |-> w, ver |-> db.wf[w].active]]
    BY <1>4 DEF Resolve
  <2>2. db.wf[w].active \in VersionIds
    BY <1>1, <2>1 DEF Fires, RowsSound, Resolves, PublishedOf, VersionsOf
  <2> QED  BY <1>2, <1>4, <2>1, <2>2 DEF Resolve, RequestIsSound
<1>5. CASE BeginRun(r)
  <2>1. PICK w \in Workflows :
          /\ calls[r] = Idle \/ (calls[r].phase = "resolved" /\ calls[r].wf = w)
          /\ calls' = [calls EXCEPT ![r] =
                        [phase |-> "creating", wf |-> w, db |-> db,
                         cause |-> IF calls[r] = Idle THEN "user" ELSE "webhook",
                         resolved |-> IF calls[r] = Idle THEN None ELSE calls[r].ver]]
    BY <1>5 DEF BeginRun
  <2>2. calls[r] # Idle => calls[r].ver \in VersionIds
    BY <1>1, <2>1 DEF RequestIsSound
  <2> QED  BY <1>1, <1>2, <1>5, <2>1, <2>2 DEF BeginRun, RequestIsSound
<1>6. CASE CreateRun(r)
  <2> DEFINE k == calls[r]
  <2>1. /\ Materialize(k.db, k.wf, k.cause, NoSchedule, 0, k.resolved)
        /\ calls' = [calls EXCEPT ![r] = Idle]
        /\ UNCHANGED <<authoringVars, disp, failures>>
    BY <1>6 DEF CreateRun
  <2>2. /\ k.cause \in {"user", "webhook", "schedule"} /\ k.resolved \in VersionIds \cup {None}
        /\ k.wf \in Workflows /\ RowsSound(k.db) /\ Follows(k.db, db)
    BY <1>1, <1>6 DEF CreateRun, RequestIsSound, Idle
  <2> HIDE DEF k
  <2>3. IsFiniteSet(runs') /\ \A q \in runs' : RunIsSound(q, db, now)
    BY <1>1, <2>1, <2>2, MaterializeKeeps
  <2> QED  BY <1>2, <1>3, <2>1, <2>3
<1>7. CASE GiveUp(r)
  BY <1>2, <1>3, <1>7 DEF GiveUp
<1> QED  BY <1>4, <1>5, <1>6, <1>7 DEF CallerStep

LEMMA TStep == ASSUME TInv, [Next]_vars PROVE TInv'
<1>1. ASSUME [AuthoringNext]_authoringVars, UNCHANGED triggerVars
      PROVE  TInv'
  <2>1. AInv' /\ Follows(db, db')
    BY <1>1, AuthoringKeeps DEF TInv
  <2>2. now <= now'
    <3>1. now \in Nat
      BY AuthoringAssumption DEF TInv, AInv
    <3>2. ASSUME NEW c \in Clients, AuthoringStep(c)  PROVE now' = now
      BY <3>2 DEF AuthoringStep, AnyRequest, Begin, Abort, Create, UpdateMetadata, SoftDelete,
                  GetDraft, ReplaceDraft, Publish
    <3> QED  BY <1>1, <3>1, <3>2 DEF AuthoringNext, PassTime, authoringVars
  <2> QED  BY <1>1, <2>1, <2>2, TCarried DEF TInv, triggerVars
<1>2. CASE Authoring
  BY <1>1, <1>2 DEF Authoring
<1>3. CASE UNCHANGED vars
  BY <1>1, <1>3 DEF vars
<1> QED  BY <1>2, <1>3, DispatcherKeeps, CallerKeeps DEF Next

\* The inductive invariant holds of every behaviour.
THEOREM TriggersInvariant == Spec => []TInv
BY TInvInit, TStep, PTL DEF Spec

\* Every reachable state is well typed: in particular the occurrences that were
\* fired and the moments to which schedules were advanced.
THEOREM TriggersTyped == Spec => []TypeOK
<1>1. ASSUME TInv  PROVE TypeOK
  <2>1. AuthoringTypeOK
    BY <1>1 DEF TInv, AInv, AuthoringTypeOK, RowsSound, Database, TxIsSound, ViewIsSound, NoTx
  <2> QED  BY <1>1, <2>1 DEF TInv, TypeOK, RunIsSound, ClaimIsSound, RequestIsSound, Idle
<1> QED  BY <1>1, TriggersInvariant, PTL

\* A run is pinned to a version that is published and stays so (ADR-026), however
\* long ago its transaction read the active version (_published_version), whatever
\* was saved, published or deleted since.
THEOREM RunsArePinned == Spec => []RunsPinPublished
<1>1. ASSUME TInv  PROVE RunsPinPublished
  BY <1>1 DEF TInv, RunIsSound, RunsPinPublished
<1> QED  BY <1>1, TriggersInvariant, PTL

\* No occurrence is fired ahead of its time, whoever polls and however late.
THEOREM NothingFiresEarly == Spec => []NeverEarly
<1>1. ASSUME TInv  PROVE NeverEarly
  BY <1>1 DEF TInv, RunIsSound, NeverEarly
<1> QED  BY <1>1, TriggersInvariant, PTL


-----------------------------------------------------------------------------
(* While the requests that edit workflows do not overlap *)

\* What was published in d stays, in e, as it was.
Stays(d, e) ==
    \A v \in VersionIds :
      IsPublished(d, v) =>
        /\ IsPublished(e, v) /\ e.ver[v].wf = d.ver[v].wf
        /\ e.ver[v].no = d.ver[v].no /\ e.ver[v].graph = d.ver[v].graph

\* The version v of a delivery that resolved u: u, or one published since.
Delivered(u, v, d) ==
    /\ u \in VersionIds /\ IsPublished(d, u) /\ v \in VersionIds /\ IsPublished(d, v)
    /\ d.ver[v].graph.trigger # "webhook" => d.ver[u].no < d.ver[v].no

RunIsAsked(r, d) ==
    /\ r.cause = "schedule" => d.ver[r.ver].graph.trigger = "schedule"
    /\ r.cause = "webhook" => Delivered(r.resolved, r.ver, d)

\* The row a dispatcher holds is the one it locked: it points at the version that
\* was active then, and its due time is the occurrence claimed.
IsClaimed(h, d) ==
    LET v == Pinned(h.db, h.wf)
    IN  /\ v \in VersionIds /\ IsPublished(d, v) /\ d.ver[v].graph.trigger = "schedule"
        /\ \E x \in d.sched :
             x.id = h.id /\ x.due = h.occurrence /\ x.rows = d.ver[v].graph.rows

IsAsked(k, d) ==
    /\ k.phase = "resolved" =>
         /\ k.ver \in VersionIds /\ IsPublished(d, k.ver)
         /\ d.ver[k.ver].wf = k.wf /\ d.ver[k.ver].graph.trigger = "webhook"
    /\ k.phase = "creating" /\ k.cause = "webhook" => Delivered(k.resolved, Pinned(k.db, k.wf), d)

HoldersApart ==
    \A p, q \in Dispatchers :
      disp[p].phase = "holding" /\ disp[q].phase = "holding" /\ disp[p].id = disp[q].id => p = q

\* What a schedule has fired under the version it points at lies before its due time.
FiredBefore(q, d) ==
    \A x \in d.sched :
      q.schedule = x.id /\ x.rows = d.ver[q.ver].graph.rows => q.occurrence < x.due

TSerialInv ==
    /\ SerialInv
    /\ \A p \in Dispatchers : disp[p].phase = "holding" => IsClaimed(disp[p], db)
    /\ HoldersApart
    /\ \A r \in Callers : IsAsked(calls[r], db)
    /\ \A r \in runs : RunIsAsked(r, db) /\ FiredBefore(r, db)

\* What was asked of published versions is still asked of them.
LEMMA StaysAsked ==
    ASSUME NEW d, NEW e, Stays(d, e)
    PROVE  /\ \A r : r.ver \in VersionIds /\ IsPublished(d, r.ver) /\ RunIsAsked(r, d) => RunIsAsked(r, e)
           /\ \A k : IsAsked(k, d) => IsAsked(k, e)
           /\ \A h : IsClaimed(h, d)
                     /\ (\A x \in d.sched : x.id = h.id => \E y \in e.sched : y = x)
                       => IsClaimed(h, e)
<1>1. \A u, v : Delivered(u, v, d) => Delivered(u, v, e)
  BY DEF Delivered, Stays
<1>2. \A r : r.ver \in VersionIds /\ IsPublished(d, r.ver) /\ RunIsAsked(r, d) => RunIsAsked(r, e)
  BY <1>1 DEF RunIsAsked, Stays
<1>3. \A k : IsAsked(k, d) => IsAsked(k, e)
  BY <1>1 DEF IsAsked, Stays
<1>4. ASSUME NEW h, IsClaimed(h, d), \A x \in d.sched : x.id = h.id => \E y \in e.sched : y = x
      PROVE  IsClaimed(h, e)
  BY <1>4 DEF IsClaimed, Stays
<1> QED  BY <1>2, <1>3, <1>4

\* A key of a schedule names a batch of rows, so it is not the key of no schedule.
LEMMA KeysName ==
    ASSUME NEW d, d \in Database, TriggerRows(d, d.sched, "schedule")
    PROVE  /\ \A x \in d.sched : x.id # NoSchedule /\ KeyOf(x) = x.id
           /\ \A x, y \in d.sched : x.id = y.id => x = y
<1>1. \A x \in d.sched : x \in ScheduleRow
  BY DEF Database
<1>2. \A x \in ScheduleRow : KeyOf(x) = x.id
  BY DEF KeyOf, ScheduleRow
<1>3. ASSUME NEW x \in d.sched, x.id = NoSchedule  PROVE FALSE
  <2>1. x.id[1] # 0
    BY <1>1, <1>2 DEF TriggerRows
  <2> QED  BY <1>3, <2>1 DEF NoSchedule
<1> QED  BY <1>1, <1>2, <1>3 DEF TriggerRows

\* An authoring step, of requests that do not overlap.
LEMMA AuthoringStays ==
    ASSUME TInv, TInv', TSerialInv, OneAtATime', [AuthoringNext]_authoringVars,
           UNCHANGED triggerVars, \A x \in db.sched : IsLocked(x.id) => x \in db'.sched
    PROVE  TSerialInv'
<1>1. SerialInv' /\ Kept
  BY SerialStep DEF TInv, TSerialInv
<1>2. Follows(db, db') /\ RowsSound(db) /\ RowsSound(db')
  BY AuthoringKeeps DEF TInv, AInv
<1>3. Stays(db, db')
  <2>1. ASSUME NEW v \in VersionIds, IsPublished(db, v)
        PROVE  VersionFollows(db, db', v)
    BY <1>2, <2>1 DEF Follows, InUse, IsPublished
  <2> QED  BY <1>1, <2>1 DEF Stays, Kept, VersionFollows
<1>4. ASSUME NEW p \in Dispatchers, disp'[p].phase = "holding"
      PROVE  IsClaimed(disp'[p], db')
  <2>1. disp'[p] = disp[p] /\ disp[p].phase = "holding"
    BY <1>4 DEF triggerVars
  <2>2. IsClaimed(disp[p], db)
    BY <2>1 DEF TSerialInv
  <2>3. \A x \in db.sched : x.id = disp[p].id => \E y \in db'.sched : y = x
    BY <2>1 DEF IsLocked
  <2> QED  BY <1>3, <2>1, <2>2, <2>3, StaysAsked
<1>5. \A r \in Callers : IsAsked(calls'[r], db')
  BY <1>3, StaysAsked DEF TSerialInv, triggerVars
<1>6. ASSUME NEW r \in runs'  PROVE RunIsAsked(r, db') /\ FiredBefore(r, db')
  <2>1. r \in runs /\ r.ver \in VersionIds /\ IsPublished(db, r.ver)
    BY <1>6 DEF triggerVars, TInv, RunIsSound, Run
  <2>2. RunIsAsked(r, db')
    BY <1>3, <2>1, StaysAsked DEF TSerialInv
  <2>3. ASSUME NEW x \in db'.sched, r.schedule = x.id, x.rows = db'.ver[r.ver].graph.rows
        PROVE  r.occurrence < x.due
    <3>1. CASE x \in db.sched
      BY <1>3, <2>1, <2>3, <3>1 DEF Stays, TSerialInv, FiredBefore
    <3>2. ASSUME NEW v \in VersionIds, ~ IsPublished(db, v), db'.ver[v].graph.rows = x.rows
          PROVE  FALSE
      <4>1. x.rows # 0
        BY <1>1, <2>3 DEF SerialInv, SerialRows, TriggerRows
      <4>2. RowsApart(db', rows')
        BY <1>1 DEF SerialInv, SerialRows
      <4>3. v = r.ver
        BY <2>1, <2>3, <3>2, <4>1, <4>2 DEF RowsApart
      <4> QED  BY <2>1, <3>2, <4>3
    <3> QED  BY <1>1, <2>3, <3>1, <3>2 DEF Kept
  <2> QED  BY <2>2, <2>3 DEF FiredBefore
<1>7. HoldersApart'
  BY DEF TSerialInv, HoldersApart, triggerVars
<1> QED  BY <1>1, <1>4, <1>5, <1>6, <1>7 DEF TSerialInv


\* The snapshots that are open, and what dispatchers hold, where only due times differ.
LEMMA DueTimesSerially ==
    ASSUME SerialInv, UNCHANGED <<tx, rows, last>>,
           NEW f, db' = [db EXCEPT !.sched = {f[x] : x \in db.sched}], db \in Database,
           \A x \in db.sched : f[x] \in ScheduleRow /\ f[x].id = x.id /\ f[x].rows = x.rows
    PROVE  SerialInv' /\ Stays(db, db')
<1> DEFINE S == {f[x] : x \in db.sched}
<1>1. db'.wf = db.wf /\ db'.ver = db.ver /\ db'.reg = db.reg /\ db'.sched = S
  BY DEF Database
<1>2. /\ \A y \in S : \E x \in db.sched : y = f[x]
      /\ \A x \in db.sched : f[x] \in S
  OBVIOUS
<1> HIDE DEF S
<1>3. \A w : RowsOf(db', w) = RowsOf(db, w) /\ PublishedOf(db', w) = PublishedOf(db, w)
  BY <1>1 DEF RowsOf, PublishedOf, VersionsOf, IsPublished
<1>4. SerialRows(db, rows)
  BY DEF SerialInv
<1>5. RowsApart(db', rows') /\ ValidOnce(db')
  BY <1>1, <1>4 DEF SerialRows, RowsApart, ValidOnce, IsPublished
<1>6. NewestRuns(db')
  BY <1>1, <1>3, <1>4 DEF SerialRows, NewestRuns
<1>7. TriggerFires(db')
  <2>1. \A g : FiresIn(g, db.sched, "schedule") => FiresIn(g, S, "schedule")
    BY <1>2 DEF FiresIn
  <2> QED  BY <1>1, <1>4, <2>1 DEF SerialRows, TriggerFires
<1>8. TriggerRows(db', db'.reg, "webhook")
  BY <1>1, <1>3, <1>4 DEF SerialRows, TriggerRows, IsPublished
<1>9. TriggerRows(db', db'.sched, "schedule")
  <2>1. \A x \in ScheduleRow : KeyOf(x) = x.id
    BY DEF KeyOf, ScheduleRow
  <2>2. \A x \in db.sched : x \in ScheduleRow
    BY DEF Database
  <2>3. ASSUME NEW y \in S
        PROVE  \E x \in db.sched : y = f[x] /\ KeyOf(y) = KeyOf(x) /\ y.rows = x.rows
    BY <1>2, <2>1, <2>2
  <2>4. TriggerRows(db, db.sched, "schedule")
    BY <1>4 DEF SerialRows
  <2>5. ASSUME NEW x \in S
        PROVE  /\ \E v \in VersionIds :
                    /\ IsPublished(db', v) /\ db'.ver[v].graph.trigger = "schedule"
                    /\ db'.ver[v].graph.rows = x.rows /\ x.rows # 0
               /\ \E v \in VersionIds :
                    IsPublished(db', v) /\ db'.ver[v].graph.rows = KeyOf(x)[1] /\ KeyOf(x)[1] # 0
    BY <1>1, <2>3, <2>4 DEF TriggerRows, IsPublished
  <2>6. ASSUME NEW x \in S, NEW y \in S, KeyOf(x) = KeyOf(y)  PROVE x = y
    BY <2>3, <2>4, <2>6 DEF TriggerRows
  <2>7. ASSUME NEW w \in Workflows, NEW x \in S, NEW y \in S,
               x.rows \in RowsOf(db', w), y.rows \in RowsOf(db', w)
        PROVE  x = y
    BY <1>3, <2>3, <2>4, <2>7 DEF TriggerRows
  <2> QED  BY <1>1, <2>5, <2>6, <2>7 DEF TriggerRows
<1>10. ASSUME NEW s, Shows(s, db)  PROVE Shows(s, db')
  BY <1>1, <1>2, <1>10 DEF Shows
<1>11. OneAtATime' /\ SnapshotIsCurrent' /\ SaveReplacesWhatWasRead'
  BY <1>10 DEF SerialInv, OneAtATime, SnapshotIsCurrent, SaveReplacesWhatWasRead
<1>12. Stays(db, db')
  BY <1>1 DEF Stays, IsPublished
<1> QED  BY <1>5, <1>6, <1>7, <1>8, <1>9, <1>11, <1>12 DEF SerialInv, SerialRows

\* A step that leaves the rows and the runs alone.
LEMMA TSerialCarried ==
    ASSUME TSerialInv, UNCHANGED authoringVars, UNCHANGED runs,
           \A p \in Dispatchers : disp'[p] = disp[p] \/ (disp'[p].phase = "holding" => IsClaimed(disp'[p], db)),
           HoldersApart',
           \A r \in Callers : calls'[r] = calls[r] \/ IsAsked(calls'[r], db)
    PROVE  TSerialInv'
<1>1. db' = db /\ rows' = rows /\ tx' = tx /\ last' = last
  BY DEF authoringVars
<1>2. SerialInv'
  BY <1>1 DEF TSerialInv, SerialInv, OneAtATime, SnapshotIsCurrent, SaveReplacesWhatWasRead
<1> QED  BY <1>1, <1>2 DEF TSerialInv

\* Whoever claims a due row, that nobody holds, fires the version it points at.
LEMMA ClaimSerially ==
    ASSUME TInv, TSerialInv, NEW p \in Dispatchers, ClaimDue(p)
    PROVE  TSerialInv'
<1>1. PICK w \in Workflows, x \in db.sched :
        /\ Eligible(w, x, disp[p].at) /\ ~ IsLocked(x.id)
        /\ disp' = [disp EXCEPT ![p] =
                      [phase |-> "holding", at |-> disp[p].at, wf |-> w, id |-> x.id,
                       occurrence |-> x.due, db |-> db]]
  BY DEF ClaimDue
<1>2. /\ SerialRows(db, rows) /\ RowsSound(db) /\ DOMAIN disp = Dispatchers
      /\ UNCHANGED authoringVars /\ UNCHANGED <<runs, calls>>
  BY DEF TSerialInv, SerialInv, TInv, AInv, ClaimDue
<1> DEFINE v == db.wf[w].active
<1>3. v \in VersionIds /\ IsPublished(db, v) /\ x.rows = db.ver[v].graph.rows
  BY <1>1, <1>2 DEF Eligible, Fires, RowsSound, Resolves, PublishedOf, VersionsOf
<1>4. db.ver[v].graph.trigger = "schedule"
  <2>1. PICK u \in VersionIds :
          db.ver[u].graph.trigger = "schedule" /\ db.ver[u].graph.rows = x.rows /\ x.rows # 0
    BY <1>2 DEF SerialRows, TriggerRows
  <2>2. u = v
    BY <1>2, <1>3, <2>1 DEF SerialRows, RowsApart
  <2> QED  BY <2>1, <2>2
<1>5. disp'[p] = [phase |-> "holding", at |-> disp[p].at, wf |-> w, id |-> x.id,
                  occurrence |-> x.due, db |-> db]
  BY <1>1, <1>2
<1>6. IsClaimed(disp'[p], db)
  <2> DEFINE h == disp'[p]
  <2>1. h.db = db /\ h.wf = w /\ h.id = x.id /\ h.occurrence = x.due
    BY <1>5
  <2>2. Pinned(h.db, h.wf) = v
    BY <2>1 DEF Pinned
  <2> HIDE DEF h, v
  <2>3. \E y \in db.sched : y.id = h.id /\ y.due = h.occurrence /\ y.rows = db.ver[v].graph.rows
    BY <1>1, <1>3, <2>1
  <2>4. IsClaimed(h, db)
    BY <1>3, <1>4, <2>2, <2>3 DEF IsClaimed
  <2> QED  BY <2>4 DEF h
<1>7. \A q \in Dispatchers \ {p} : disp'[q] = disp[q]
  BY <1>1, <1>2
<1>8. disp'[p].id = x.id
  BY <1>5
<1>9. HoldersApart'
  BY <1>1, <1>7, <1>8 DEF TSerialInv, HoldersApart, IsLocked
<1> QED  BY <1>2, <1>6, <1>7, <1>9, TSerialCarried


\* What a dispatch knows of the row it holds, and how it moves it.
LEMMA HeldRow ==
    ASSUME TInv, TSerialInv, NEW p \in Dispatchers, Dispatch(p)
    PROVE  LET h == disp[p]
               v == Pinned(h.db, h.wf)
               new == [n |-> Cardinality(runs) + 1, ver |-> v, cause |-> "schedule",
                       schedule |-> h.id, occurrence |-> h.occurrence, resolved |-> None]
               f == [x \in db.sched |-> IF x.id = h.id THEN [x EXCEPT !.due = h.at + 1] ELSE x]
           IN  /\ h.phase = "holding" /\ h.at \in Nat /\ h.occurrence \in Nat /\ h.occurrence <= h.at
               /\ v \in VersionIds /\ IsPublished(db, v) /\ db.ver[v].graph.trigger = "schedule"
               /\ \E x \in db.sched :
                    /\ x.id = h.id /\ x.due = h.occurrence /\ x.rows = db.ver[v].graph.rows
                    /\ \A y \in db.sched : y.id = h.id => y = x
               /\ runs' = runs \cup {new}
               /\ db' = [db EXCEPT !.sched = {f[x] : x \in db.sched}]
               /\ \A x \in db.sched : x \in ScheduleRow /\ f[x] \in ScheduleRow
               /\ \A x \in db.sched :
                    /\ f[x].id = x.id /\ f[x].rows = x.rows
                    /\ x.id = h.id => f[x].due = h.at + 1
                    /\ x.id # h.id => f[x] = x
<1> DEFINE h == disp[p]
           v == Pinned(h.db, h.wf)
           f == [x \in db.sched |-> IF x.id = h.id THEN [x EXCEPT !.due = h.at + 1] ELSE x]
<1>1. h.phase = "holding" /\ ClaimIsSound(h, db, now) /\ IsClaimed(h, db)
  BY DEF TInv, TSerialInv, Dispatch
<1>2. h.at \in Nat /\ h.occurrence \in Nat /\ h.occurrence <= h.at
  BY <1>1 DEF ClaimIsSound, Idle
<1>3. db \in Database /\ TriggerRows(db, db.sched, "schedule")
  BY DEF TInv, AInv, RowsSound, TSerialInv, SerialInv, SerialRows
<1>4. \A x, y \in db.sched : x.id = y.id => x = y
  BY <1>3, KeysName
<1>5. \A x \in db.sched : x \in ScheduleRow
  BY <1>3 DEF Database
<1>6. ASSUME NEW x \in db.sched
      PROVE  /\ f[x] \in ScheduleRow /\ f[x].id = x.id /\ f[x].rows = x.rows
             /\ x.id = h.id => f[x].due = h.at + 1
             /\ x.id # h.id => f[x] = x
  <2>1. x \in ScheduleRow /\ h.at + 1 \in Nat
    BY <1>2, <1>5
  <2> HIDE DEF h
  <2> QED  BY <2>1 DEF ScheduleRow
<1>7. db' = [db EXCEPT !.sched = {f[x] : x \in db.sched}]
  <2>1. Advanced(h) = h.at + 1
    BY DEF Advanced, NextOccurrence
  <2>2. {f[x] : x \in db.sched}
          = {IF x.id = h.id THEN [x EXCEPT !.due = Advanced(h)] ELSE x : x \in db.sched}
    BY <2>1
  <2> QED  BY <1>3, <2>2 DEF Dispatch, Database
<1>8. runs' = runs \cup {[n |-> Cardinality(runs) + 1, ver |-> v, cause |-> "schedule",
                         schedule |-> h.id, occurrence |-> h.occurrence, resolved |-> None]}
  BY DEF Dispatch, Materialize
<1> HIDE DEF f, h
<1>9. /\ v \in VersionIds /\ IsPublished(db, v) /\ db.ver[v].graph.trigger = "schedule"
      /\ \E x \in db.sched : x.id = h.id /\ x.due = h.occurrence /\ x.rows = db.ver[v].graph.rows
  BY <1>1 DEF IsClaimed
<1>10. \E x \in db.sched :
         /\ x.id = h.id /\ x.due = h.occurrence /\ x.rows = db.ver[v].graph.rows
         /\ \A y \in db.sched : y.id = h.id => y = x
  <2> HIDE DEF v
  <2> QED  BY <1>4, <1>9
<1>11. \A x \in db.sched : x \in ScheduleRow /\ f[x] \in ScheduleRow
  BY <1>5, <1>6
<1> QED  BY <1>1, <1>2, <1>6, <1>7, <1>8, <1>9, <1>10, <1>11 DEF f, h

\* A dispatch fires what it holds and moves it past the moment of its poll.
LEMMA DispatchSerially ==
    ASSUME TInv, TSerialInv, NEW p \in Dispatchers, Dispatch(p)
    PROVE  TSerialInv'
<1> DEFINE h == disp[p]
           v == Pinned(h.db, h.wf)
           new == [n |-> Cardinality(runs) + 1, ver |-> v, cause |-> "schedule",
                   schedule |-> h.id, occurrence |-> h.occurrence, resolved |-> None]
           f == [x \in db.sched |-> IF x.id = h.id THEN [x EXCEPT !.due = h.at + 1] ELSE x]
<1>1. /\ h.phase = "holding" /\ h.at \in Nat /\ h.occurrence \in Nat /\ h.occurrence <= h.at
      /\ v \in VersionIds /\ IsPublished(db, v) /\ db.ver[v].graph.trigger = "schedule"
      /\ \E x \in db.sched :
           /\ x.id = h.id /\ x.due = h.occurrence /\ x.rows = db.ver[v].graph.rows
           /\ \A y \in db.sched : y.id = h.id => y = x
      /\ runs' = runs \cup {new}
      /\ db' = [db EXCEPT !.sched = {f[x] : x \in db.sched}]
      /\ \A x \in db.sched : x \in ScheduleRow /\ f[x] \in ScheduleRow
      /\ \A x \in db.sched :
           /\ f[x].id = x.id /\ f[x].rows = x.rows
           /\ x.id = h.id => f[x].due = h.at + 1
           /\ x.id # h.id => f[x] = x
  BY HeldRow
<1>2. /\ disp' = [disp EXCEPT ![p] = Idle] /\ UNCHANGED <<rows, tx, last, calls>>
      /\ DOMAIN disp = Dispatchers /\ db \in Database /\ SerialInv
  BY DEF Dispatch, TInv, AInv, RowsSound, TSerialInv
<1>3. /\ new.ver = v /\ new.cause = "schedule" /\ new.schedule = h.id
      /\ new.occurrence = h.occurrence
  OBVIOUS
<1> HIDE DEF f, new, v
<1>4. SerialInv' /\ Stays(db, db')
  BY <1>1, <1>2, DueTimesSerially
<1>5. db'.sched = {f[x] : x \in db.sched}
  BY <1>1, <1>2 DEF Database
<1>6. /\ \A q \in Dispatchers \ {p} : disp'[q] = disp[q]
      /\ disp'[p].phase # "holding"
  BY <1>2 DEF Idle
<1>7. HoldersApart'
  BY <1>6 DEF TSerialInv, HoldersApart
<1>8. ASSUME NEW q \in Dispatchers, disp'[q].phase = "holding"
      PROVE  IsClaimed(disp'[q], db')
  <2>1. q # p /\ disp'[q] = disp[q] /\ disp[q].phase = "holding"
    BY <1>6, <1>8
  <2>2. IsClaimed(disp[q], db) /\ disp[q].id # h.id
    BY <1>1, <2>1 DEF TSerialInv, HoldersApart
  <2>3. \A x \in db.sched : x.id = disp[q].id => \E y \in db'.sched : y = x
    BY <1>1, <1>5, <2>2
  <2> QED  BY <1>4, <2>1, <2>2, <2>3, StaysAsked
<1>9. \A r \in Callers : IsAsked(calls'[r], db')
  BY <1>2, <1>4, StaysAsked DEF TSerialInv
<1>10. ASSUME NEW r \in runs  PROVE RunIsAsked(r, db') /\ FiredBefore(r, db')
  <2>1. r.ver \in VersionIds /\ IsPublished(db, r.ver) /\ r.occurrence \in Nat
    BY AuthoringAssumption DEF TInv, RunIsSound, Run
  <2>2. RunIsAsked(r, db')
    BY <1>4, <2>1, StaysAsked DEF TSerialInv
  <2>3. ASSUME NEW y \in db'.sched, r.schedule = y.id, y.rows = db'.ver[r.ver].graph.rows
        PROVE  r.occurrence < y.due
    <3>1. PICK x \in db.sched : y = f[x]
      BY <1>5
    <3>2. r.schedule = x.id /\ x.rows = db.ver[r.ver].graph.rows
      BY <1>1, <1>4, <2>1, <2>3, <3>1 DEF Stays
    <3>3. r.occurrence < x.due
      BY <3>2 DEF TSerialInv, FiredBefore
    <3>4. CASE x.id = h.id
      <4>1. x.due = h.occurrence /\ y.due = h.at + 1
        BY <1>1, <3>1, <3>4
      <4> HIDE DEF h
      <4> QED  BY <1>1, <2>1, <3>3, <4>1
    <3> QED  BY <1>1, <3>1, <3>3, <3>4
  <2> QED  BY <2>2, <2>3 DEF FiredBefore
<1>11. RunIsAsked(new, db') /\ FiredBefore(new, db')
  <2>1. RunIsAsked(new, db')
    BY <1>1, <1>3, <1>4 DEF RunIsAsked, Stays
  <2>2. ASSUME NEW y \in db'.sched, h.id = y.id  PROVE h.occurrence < y.due
    <3>1. PICK x \in db.sched : y = f[x]
      BY <1>5
    <3>2. y.due = h.at + 1
      BY <1>1, <2>2, <3>1
    <3> HIDE DEF h
    <3> QED  BY <1>1, <3>2
  <2> QED  BY <1>3, <2>1, <2>2 DEF FiredBefore
<1> QED  BY <1>1, <1>4, <1>7, <1>8, <1>9, <1>10, <1>11 DEF TSerialInv


\* A request that begins, creates its run or ends.
LEMMA CallerSerially ==
    ASSUME TInv, TSerialInv, NEW r \in Callers, CallerStep(r)
    PROVE  TSerialInv'
<1>1. /\ DOMAIN calls = Callers /\ SerialRows(db, rows) /\ RowsSound(db)
      /\ RequestIsSound(calls[r], db) /\ IsAsked(calls[r], db)
  BY DEF TInv, AInv, TSerialInv, SerialInv
<1>2. IsAsked(Idle, db)
  BY DEF IsAsked, Idle
<1>3. ASSUME UNCHANGED <<authoringVars, runs, disp>>, NEW k, IsAsked(k, db),
             calls' = [calls EXCEPT ![r] = k]
      PROVE  TSerialInv'
  <2>1. HoldersApart'
    BY <1>3 DEF TSerialInv, HoldersApart
  <2>2. \A q \in Callers : calls'[q] = calls[q] \/ IsAsked(calls'[q], db)
    BY <1>1, <1>3
  <2> QED  BY <1>3, <2>1, <2>2, TSerialCarried
<1>4. CASE Resolve(r)
  <2>1. PICK w \in Workflows, x \in db.reg :
          /\ Fires(db, w, x)
          /\ calls' = [calls EXCEPT ![r] = [phase |-> "resolved", wf |-> w, ver |-> db.wf[w].active]]
    BY <1>4 DEF Resolve
  <2> DEFINE v == db.wf[w].active
  <2>2. v \in VersionIds /\ IsPublished(db, v) /\ db.ver[v].wf = w /\ db.ver[v].graph.rows = x.rows
    BY <1>1, <2>1 DEF Fires, RowsSound, Resolves, PublishedOf, VersionsOf
  <2>3. db.ver[v].graph.trigger = "webhook"
    <3>1. PICK u \in VersionIds :
            db.ver[u].graph.trigger = "webhook" /\ db.ver[u].graph.rows = x.rows /\ x.rows # 0
      BY <1>1 DEF SerialRows, TriggerRows
    <3>2. u = v
      BY <1>1, <2>2, <3>1 DEF SerialRows, RowsApart
    <3> QED  BY <3>1, <3>2
  <2>4. IsAsked([phase |-> "resolved", wf |-> w, ver |-> v], db)
    BY <2>2, <2>3 DEF IsAsked
  <2> QED  BY <1>3, <1>4, <2>1, <2>4 DEF Resolve
<1>5. CASE BeginRun(r)
  <2>1. PICK w \in Workflows :
          /\ calls[r] = Idle \/ (calls[r].phase = "resolved" /\ calls[r].wf = w)
          /\ Runnable(db, w)
          /\ calls' = [calls EXCEPT ![r] =
                        [phase |-> "creating", wf |-> w, db |-> db,
                         cause |-> IF calls[r] = Idle THEN "user" ELSE "webhook",
                         resolved |-> IF calls[r] = Idle THEN None ELSE calls[r].ver]]
    BY <1>5 DEF BeginRun
  <2> DEFINE v == db.wf[w].active
             k == [phase |-> "creating", wf |-> w, db |-> db,
                   cause |-> IF calls[r] = Idle THEN "user" ELSE "webhook",
                   resolved |-> IF calls[r] = Idle THEN None ELSE calls[r].ver]
  <2>2. v # None /\ v \in PublishedOf(db, w) /\ v \in VersionIds /\ IsPublished(db, v)
    BY <1>1, <2>1 DEF Runnable, RowsSound, Resolves, PublishedOf, VersionsOf
  <2>3. ASSUME calls[r] # Idle  PROVE Delivered(calls[r].ver, v, db)
    <3> DEFINE u == calls[r].ver
    <3>1. /\ u \in VersionIds /\ IsPublished(db, u) /\ db.ver[u].wf = w
          /\ db.ver[u].graph.trigger = "webhook"
      BY <1>1, <2>1, <2>3 DEF IsAsked
    <3>2. u \in PublishedOf(db, w)
      BY <3>1 DEF PublishedOf, VersionsOf, IsPublished
    <3> HIDE DEF u
    <3>3. db.ver[u].no <= db.ver[v].no
      BY <1>1, <2>2, <3>2 DEF SerialRows, NewestRuns
    <3>4. db.ver[u].no = db.ver[v].no => u = v
      BY <1>1, <2>2, <3>2 DEF RowsSound, NumbersCount
    <3>5. db.ver[u].no \in Nat /\ db.ver[v].no \in Nat
      <4>1. db.ver[u] \in VersionRow /\ db.ver[v] \in VersionRow
        BY <1>1, <2>2, <3>1 DEF RowsSound, Database
      <4> HIDE DEF v
      <4> QED  BY <2>2, <3>1, <4>1, VersionRows DEF IsPublished
    <3>6. db.ver[v].graph.trigger # "webhook" => db.ver[u].no < db.ver[v].no
      <4>1. db.ver[v].graph.trigger # "webhook" => u # v
        BY <3>1
      <4> HIDE DEF v
      <4> QED  BY <3>3, <3>4, <3>5, <4>1
    <3> HIDE DEF v
    <3>7. Delivered(u, v, db)
      BY <2>2, <3>1, <3>6 DEF Delivered
    <3> QED  BY <3>7 DEF u
  <2>4. IsAsked(k, db)
    <3>1. k.phase = "creating" /\ Pinned(k.db, k.wf) = v
      BY DEF Pinned
    <3>2. k.cause = "webhook" => calls[r] # Idle /\ k.resolved = calls[r].ver
      OBVIOUS
    <3> HIDE DEF k, v
    <3> QED  BY <2>3, <3>1, <3>2 DEF IsAsked
  <2> HIDE DEF k
  <2>5. calls' = [calls EXCEPT ![r] = k]
    BY <2>1 DEF k
  <2> QED  BY <1>3, <1>5, <2>4, <2>5 DEF BeginRun
<1>6. CASE CreateRun(r)
  <2> DEFINE k == calls[r]
             new == [n |-> Cardinality(runs) + 1, ver |-> Pinned(k.db, k.wf), cause |-> k.cause,
                     schedule |-> NoSchedule, occurrence |-> 0, resolved |-> k.resolved]
  <2>1. runs' = runs \cup {new} /\ calls' = [calls EXCEPT ![r] = Idle]
        /\ UNCHANGED authoringVars /\ UNCHANGED disp
    BY <1>6 DEF CreateRun, Materialize
  <2>2. k.phase = "creating" /\ k.cause \in {"user", "webhook"}
    BY <1>1, <1>6 DEF CreateRun, RequestIsSound, Idle
  <2>3. RunIsAsked(new, db)
    BY <1>1, <2>2 DEF RunIsAsked, IsAsked
  <2>4. FiredBefore(new, db)
    <3>1. db \in Database /\ TriggerRows(db, db.sched, "schedule")
      BY <1>1 DEF RowsSound, SerialRows
    <3> QED  BY <3>1, KeysName DEF FiredBefore
  <2> HIDE DEF new
  <2>5. \A q \in runs' : RunIsAsked(q, db) /\ FiredBefore(q, db)
    BY <2>1, <2>3, <2>4 DEF TSerialInv
  <2>6. \A q \in Callers : IsAsked(calls'[q], db)
    BY <1>1, <1>2, <2>1 DEF TSerialInv
  <2>7. db' = db /\ disp' = disp /\ rows' = rows /\ tx' = tx /\ last' = last
    BY <2>1 DEF authoringVars
  <2>8. SerialInv' /\ HoldersApart'
    BY <2>7 DEF TSerialInv, HoldersApart, SerialInv, OneAtATime, SnapshotIsCurrent,
                SaveReplacesWhatWasRead
  <2> QED  BY <2>5, <2>6, <2>7, <2>8 DEF TSerialInv
<1>7. CASE GiveUp(r)
  BY <1>2, <1>3, <1>7 DEF GiveUp
<1> QED  BY <1>4, <1>5, <1>6, <1>7 DEF CallerStep

LEMMA TSerialInit == ASSUME Init PROVE TSerialInv
BY SerialInit DEF Init, TSerialInv, HoldersApart, IsAsked, Idle

LEMMA TSerialStep == ASSUME TInv, TInv', TSerialInv, OneAtATime', [Next]_vars PROVE TSerialInv'
<1>1. CASE Authoring
  BY <1>1, AuthoringStays DEF Authoring
<1>2. CASE UNCHANGED vars
  BY <1>2, AuthoringStays DEF vars, authoringVars
<1>3. ASSUME NEW p \in Dispatchers, DispatcherStep(p)  PROVE TSerialInv'
  <2>1. ASSUME UNCHANGED <<authoringVars, runs, calls>>, NEW h, h.phase # "holding",
               disp' = [disp EXCEPT ![p] = h]
        PROVE  TSerialInv'
    <3>1. /\ DOMAIN disp = Dispatchers /\ \A q \in Dispatchers \ {p} : disp'[q] = disp[q]
          /\ disp'[p] = h
      BY <2>1 DEF TInv
    <3>2. HoldersApart'
      BY <2>1, <3>1 DEF TSerialInv, HoldersApart
    <3> QED  BY <2>1, <3>1, <3>2, TSerialCarried
  <2>2. CASE Poll(p)
    BY <2>1, <2>2 DEF Poll
  <2>3. CASE FindNothing(p)
    BY <2>1, <2>3 DEF FindNothing, Idle
  <2>4. CASE DispatchFails(p)
    BY <2>1, <2>4 DEF DispatchFails, Idle
  <2> QED  BY <1>3, <2>2, <2>3, <2>4, ClaimSerially, DispatchSerially DEF DispatcherStep
<1> QED  BY <1>1, <1>2, <1>3, CallerSerially DEF Next

\* While the requests that edit workflows do not overlap: the clock starts scheduled
\* versions only, and never early, and a delivery starts the version whose address it
\* resolved, or one published since, however dispatchers and callers interleave with
\* each other and with the editing.
THEOREM RunsAreAsked == Spec /\ []OneAtATime => []StartsWhatWasAsked
<1>1. ASSUME TInv, TSerialInv  PROVE StartsWhatWasAsked
  <2>1. ClockStartsScheduled /\ DeliveryStartsResolved
    BY <1>1 DEF TSerialInv, RunIsAsked, Delivered, ClockStartsScheduled, DeliveryStartsResolved
  <2>2. NeverEarly
    BY <1>1 DEF TInv, RunIsSound, NeverEarly
  <2> QED  BY <2>1, <2>2 DEF StartsWhatWasAsked
<1> QED  BY <1>1, TriggersInvariant, TSerialInit, TSerialStep, PTL DEF Spec

\* While the requests that edit workflows do not overlap, no occurrence is fired
\* twice nor before another that has been fired: under one published version a
\* schedule moves forward only, whoever claims, fails or polls late.
THEOREM OccurrencesMoveForward == Spec /\ []OneAtATime => OccurrencesAdvance
<1>1. ASSUME TInv, TSerialInv, [Next]_vars
      PROVE  [\A r \in runs' \ runs, q \in runs :
                r.cause = "schedule" /\ q.schedule = r.schedule /\ q.ver = r.ver
                  => q.occurrence < r.occurrence]_vars
  <2>1. SUFFICES ASSUME NEW r \in runs' \ runs, NEW q \in runs, r.cause = "schedule",
                        q.schedule = r.schedule, q.ver = r.ver
                 PROVE  q.occurrence < r.occurrence
    OBVIOUS
  <2>2. ASSUME NEW p \in Dispatchers, Dispatch(p)  PROVE q.occurrence < r.occurrence
    <3> DEFINE h == disp[p]
               v == Pinned(h.db, h.wf)
               new == [n |-> Cardinality(runs) + 1, ver |-> v, cause |-> "schedule",
                       schedule |-> h.id, occurrence |-> h.occurrence, resolved |-> None]
    <3>1. /\ runs' = runs \cup {new}
          /\ \E x \in db.sched : x.id = h.id /\ x.due = h.occurrence /\ x.rows = db.ver[v].graph.rows
      BY <1>1, <2>2, HeldRow
    <3>2. r = new
      BY <2>1, <3>1
    <3>3. q.schedule = h.id /\ q.ver = v /\ r.occurrence = h.occurrence
      BY <2>1, <3>2
    <3> HIDE DEF h, v, new
    <3> QED  BY <1>1, <3>1, <3>3 DEF TSerialInv, FiredBefore
  <2>3. ASSUME NEW k \in Callers, CreateRun(k)  PROVE FALSE
    <3>1. r.cause = calls[k].cause
      BY <2>1, <2>3 DEF CreateRun, Materialize
    <3>2. RequestIsSound(calls[k], db) /\ calls[k].phase = "creating"
      BY <1>1, <2>3 DEF TInv, CreateRun
    <3> QED  BY <2>1, <3>1, <3>2 DEF RequestIsSound, Idle
  <2>4. ASSUME runs' = runs  PROVE FALSE
    BY <2>1, <2>4
  <2> QED  BY <1>1, <2>2, <2>3, <2>4
           DEF Next, Authoring, triggerVars, vars, DispatcherStep, CallerStep, Poll, ClaimDue,
               FindNothing, DispatchFails, Resolve, BeginRun, GiveUp
<1> QED  BY <1>1, TriggersInvariant, TSerialInit, TSerialStep, PTL DEF Spec, OccurrencesAdvance
=============================================================================
