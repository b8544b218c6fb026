----------------------------- MODULE QueueOrder -----------------------------
(***************************************************************************)
(* TaskQueue with the order in which a claim takes its rows                *)
(* (mysql_task_queue.py, _eligible: ORDER BY run_after, id LIMIT 1), and   *)
(* what the workers' polling makes of it: which tasks are taken in the end *)
(* and which may wait for ever. A claim, a heartbeat and a lapse never     *)
(* change run_after, so a task that is taken again keeps its place. No     *)
(* code calls requeue, and it is left out here.                            *)
(***************************************************************************)
EXTENDS TaskQueue, SequencesExt

VARIABLE order  \* the outstanding rows, by run_after and then id

orderVars == <<tasks, held, order>>

\* Mutant of IsNext: the newest eligible row.
IsNewest(t) ==
    LET eligible == IF Fresh # {} THEN Fresh ELSE Lapsed
    IN  eligible # {} /\ t = Last(SelectSeq(order, LAMBDA u : u \in eligible))

\* _eligible: the first row the predicate selects and no other claim has locked.
IsNext(t) ==
    LET eligible == IF Fresh # {} THEN Fresh ELSE Lapsed
    IN  eligible # {} /\ t = Head(SelectSeq(order, LAMBDA u : u \in eligible))

LockNext(w) == \E t \in TaskIds : IsNext(t) /\ Lock(w, t)

\* The row a step inserts.
Placed == {t \in TaskIds : tasks'[t].status = "QUEUED" /\ tasks[t].status # "QUEUED"}

\* A placed row goes behind those due no later than it; a row that is DONE leaves.
Reorder ==
    LET rest == SelectSeq(order, LAMBDA u : tasks'[u].status # "DONE" /\ u \notin Placed)
        Ahead(t, u) == tasks'[u].after <= tasks'[t].after
    IN  IF Placed = {} THEN order' = rest
        ELSE \E t \in Placed :
                order' = SelectSeq(rest, LAMBDA u : Ahead(t, u)) \o <<t>>
                            \o SelectSeq(rest, LAMBDA u : ~Ahead(t, u))

OrderInit == QueueInit /\ order = <<>>

\* The queue's steps, a claim's SELECT taking the first row alone.
OrderNext ==
    /\ \/ \E w \in Workers :
            \/ LockNext(w)
            \/ Claim(w)
            \/ Heartbeat(w)
            \/ Release(w)
            \/ Abandon(w)
            \/ Crash(w)
       \/ PassTime
       \/ \E r \in Runs, delay \in 0 .. MaxDelay : Enqueue(r, delay)
       \/ \E r \in Runs : FinishOutstanding(r)
    /\ Reorder

OrderSpec == OrderInit /\ [][OrderNext]_orderVars

\* Each process goes on by itself, and nothing more: time passes, a worker's loop
\* polls, a claim commits, a heartbeat runs, and the advance of a task returns or
\* raises.
OrderFairness ==
    /\ WF_queueVars(PassTime)
    /\ \A w \in Workers :
        /\ WF_queueVars(LockNext(w))
        /\ WF_queueVars(Claim(w))
        /\ WF_queueVars(Heartbeat(w))
        /\ WF_queueVars(Release(w) \/ Abandon(w))

OrderFairSpec == OrderSpec /\ OrderFairness

-----------------------------------------------------------------------------
(* Properties *)

\* From some moment on no task is left waiting to be claimed for the first time.
FreshWorkEnds == <>[](Fresh = {})

\* From some moment on no advance raises while its worker owns the task.
RaisingEnds ==
    <>[][\A w \in Workers : Working(w) /\ Owns(w, held[w].task) => ~Abandon(w)]_queueVars

\* Fresh work is always claimed in the end, however many workers fail or raise and
\* however much newer work arrives.
QueuedIsClaimed ==
    \A t \in TaskIds : tasks[t].status = "QUEUED" ~> tasks[t].status # "QUEUED"

\* Once no fresh work arrives, the oldest task, if its lease lapses, is claimed
\* again, however often the advances raise.
OldestIsReclaimed ==
    FreshWorkEnds => []<>(order = <<>> \/ Head(order) \notin Lapsed)

\* Once no fresh work arrives and the advances stop raising, the queue drains:
\* the tasks of dead workers and of raised advances are all claimed again and
\* finished, in whatever order their leases lapsed.
QueueDrains == FreshWorkEnds /\ RaisingEnds => <>[](order = <<>>)

\* What the order of the claims guarantees of every task: a fresh one is taken,
\* the oldest is taken again, and any other lapsed one unless fresh work keeps
\* arriving or advances keep raising.
TasksAreTaken == QueuedIsClaimed /\ OldestIsReclaimed /\ QueueDrains
=============================================================================
