----------------------------- MODULE TaskQueue -----------------------------
(***************************************************************************)
(* The durable work queue: the queue_tasks rows, the claims, leases and    *)
(* heartbeats of the workers that compete for them                         *)
(* (infrastructure/queue/mysql_task_queue.py, worker/loop.py,              *)
(* worker/lease_policy.py, repositories/queue_task_repository.py).         *)
(*                                                                         *)
(* Times are relative: `left` is how long a lease still runs, `after` how  *)
(* long a task is still withheld (run_after), 0 when the moment has come.  *)
(* A row that is DONE is never read again, so the slot of one that nobody  *)
(* refers to may stand for a row inserted later.                           *)
(***************************************************************************)
EXTENDS Naturals

CONSTANTS
    Runs,
    Workers,    \* worker ids, one for each process ever started
    TaskIds,    \* queue_tasks rows that are outstanding or still referred to
    TTL,        \* worker_lease_seconds
    Interval,   \* worker_heartbeat_interval_seconds
    MaxDelay,   \* bound on how long a task is withheld
    Timely,     \* whether working processes are always scheduled in time to renew
    Requeues,   \* whether a caller hands tasks back (the port has requeue, no
                \* code calls it)
    NoWorker,
    NoRun,
    NoTask

ASSUME QueueAssumption ==
    /\ TTL \in Nat /\ Interval \in Nat /\ MaxDelay \in Nat
    /\ 0 < Interval /\ Interval < TTL    \* FixedLeasePolicy refuses anything else
    /\ Timely \in BOOLEAN /\ Requeues \in BOOLEAN
    /\ NoTask \notin TaskIds
    /\ NoWorker \notin Workers
    /\ NoRun \notin Runs

VARIABLES
    tasks,  \* the rows
    held    \* what each worker process knows: its phase ("lost" once a heartbeat
            \* was refused), its task and its own copy of the lease's deadline

queueVars == <<tasks, held>>

QueuedRow(r, delay) ==
    [run |-> r, status |-> "QUEUED", owner |-> NoWorker, left |-> 0, after |-> delay]

DoneRow == [run |-> NoRun, status |-> "DONE", owner |-> NoWorker, left |-> 0, after |-> 0]

Row ==
    [run : Runs \cup {NoRun}, status : {"QUEUED", "LEASED", "DONE"},
     owner : Workers \cup {NoWorker}, left : 0 .. TTL, after : 0 .. MaxDelay]

Holding ==
    [phase : {"idle", "claiming", "working", "lost", "dead"},
     task : TaskIds \cup {NoTask}, left : 0 .. TTL]

Holds(phase, t, left) == [phase |-> phase, task |-> t, left |-> left]
Idle == Holds("idle", NoTask, 0)
Dead == Holds("dead", NoTask, 0)

QueueTypeOK ==
    /\ tasks \in [TaskIds -> Row]
    /\ held \in [Workers -> Holding]

-----------------------------------------------------------------------------
(* The rows *)

IsOutstanding(t) == tasks[t].status \in {"QUEUED", "LEASED"}

Outstanding(r) == {t \in TaskIds : IsOutstanding(t) /\ tasks[t].run = r}

Refers(w, t) == held[w].task = t

\* Inside process(task); a worker that lost its lease goes on all the same.
Working(w) == held[w].phase \in {"working", "lost"}

\* Row locks: a claim holds one from its SELECT ... FOR UPDATE to its commit.
Locked(t) == \E w \in Workers : held[w].phase = "claiming" /\ held[w].task = t

Owns(w, t) == tasks[t].status = "LEASED" /\ tasks[t].owner = w

\* Mutants of Insert: no unique key; every insert is taken for a duplicate.
InsertAnyway(r, delay) ==
    \E t \in TaskIds :
        /\ tasks[t] = DoneRow
        /\ \A w \in Workers : ~Refers(w, t)
        /\ tasks' = [tasks EXCEPT ![t] = QueuedRow(r, delay)]
InsertSwallowed(r, delay) == UNCHANGED tasks

\* QueueTaskRepository.enqueue: the unique pending_key refuses a second
\* outstanding task of the run, and the refusal is swallowed.
Insert(r, delay) ==
    IF Outstanding(r) # {} THEN UNCHANGED tasks
    ELSE \E t \in TaskIds :
            /\ tasks[t] = DoneRow
            /\ \A w \in Workers : ~Refers(w, t)
            /\ tasks' = [tasks EXCEPT ![t] = QueuedRow(r, delay)]

\* Mutant of Finish: the task a worker holds is left alone.
FinishQueuedOnly(r) ==
    tasks' = [t \in TaskIds |-> IF t \in Outstanding(r) /\ tasks[t].status = "QUEUED"
                                THEN DoneRow ELSE tasks[t]]

\* QueueTaskRepository.finish_outstanding; it waits for a claim in progress.
Finish(r) ==
    /\ \A t \in Outstanding(r) : ~Locked(t)
    /\ tasks' = [t \in TaskIds |-> IF t \in Outstanding(r) THEN DoneRow ELSE tasks[t]]

-----------------------------------------------------------------------------
(* Claiming: one transaction in two steps, the locking SELECT and the commit *)

Fresh == {t \in TaskIds : tasks[t].status = "QUEUED" /\ tasks[t].after = 0 /\ ~Locked(t)}

\* Mutants of Lapsed: a lease in its last unit of time counts; none ever does.
LapsedEarly == {t \in TaskIds : tasks[t].status = "LEASED" /\ tasks[t].left <= 1 /\ ~Locked(t)}
LapsedNever == {}

Lapsed == {t \in TaskIds : tasks[t].status = "LEASED" /\ tasks[t].left = 0 /\ ~Locked(t)}

\* _eligible, twice: fresh work first, then a dead worker's. SKIP LOCKED steps
\* over rows other claims hold. Any row of the set may be taken here; QueueOrder
\* keeps the order of run_after and id by which the query picks one. The expiry
\* is computed before the SELECT and runs from then.
Lock(w, t) ==
    /\ held[w].phase = "idle"
    /\ t \in IF Fresh # {} THEN Fresh ELSE Lapsed
    /\ held' = [held EXCEPT ![w] = Holds("claiming", t, TTL)]
    /\ UNCHANGED tasks

\* Mutant of Claim: the worker times its lease from the commit.
ClaimRestamped(w) ==
    /\ held[w].phase = "claiming"
    /\ tasks' = [tasks EXCEPT ![held[w].task].status = "LEASED",
                              ![held[w].task].owner = w,
                              ![held[w].task].left = held[w].left]
    /\ held' = [held EXCEPT ![w].phase = "working", ![w].left = TTL]

Claim(w) ==
    /\ held[w].phase = "claiming"
    /\ tasks' = [tasks EXCEPT ![held[w].task].status = "LEASED",
                              ![held[w].task].owner = w,
                              ![held[w].task].left = held[w].left]
    /\ held' = [held EXCEPT ![w].phase = "working"]

-----------------------------------------------------------------------------
(* Writes by the worker that holds a task, each guarded by _own *)

\* Mutant of RenewalDue: not before the lease has run out.
RenewalDueAtExpiry(w) == held[w].left = 0

\* should_extend: less than a TTL minus one interval is left.
RenewalDue(w) == held[w].left <= TTL - Interval

\* Mutant of Heartbeat: a lapsed lease counts as lost although nobody took it.
HeartbeatRefusesLapsed(w) ==
    /\ held[w].phase = "working"
    /\ RenewalDue(w)
    /\ ~Locked(held[w].task)
    /\ IF Owns(w, held[w].task) /\ tasks[held[w].task].left > 0
       THEN /\ tasks' = [tasks EXCEPT ![held[w].task].left = TTL]
            /\ held' = [held EXCEPT ![w].left = TTL]
       ELSE /\ held' = [held EXCEPT ![w].phase = "lost"]
            /\ UNCHANGED tasks

\* _heartbeat: renew, or learn that the lease is gone and stop asking.
Heartbeat(w) ==
    /\ held[w].phase = "working"
    /\ RenewalDue(w)
    /\ ~Locked(held[w].task)
    /\ IF Owns(w, held[w].task) /\ tasks[held[w].task].left <= TTL
       THEN /\ tasks' = [tasks EXCEPT ![held[w].task].left = TTL]
            /\ held' = [held EXCEPT ![w].left = TTL]
       ELSE /\ held' = [held EXCEPT ![w].phase = "lost"]
            /\ UNCHANGED tasks

\* Mutant of Release: the owner is not checked.
ReleaseUnowned(w) ==
    /\ Working(w)
    /\ held[w].phase = "lost" \/ ~Locked(held[w].task)
    /\ tasks' = IF held[w].phase = "working"
                THEN [tasks EXCEPT ![held[w].task] = DoneRow] ELSE tasks
    /\ held' = [held EXCEPT ![w] = Idle]

\* Worker._settle after the advance returned: a worker told that it lost the
\* lease leaves the queue alone; otherwise release, which applies only if owned.
Release(w) ==
    /\ Working(w)
    /\ held[w].phase = "lost" \/ ~Locked(held[w].task)
    /\ tasks' = IF held[w].phase = "working" /\ Owns(w, held[w].task)
                THEN [tasks EXCEPT ![held[w].task] = DoneRow] ELSE tasks
    /\ held' = [held EXCEPT ![w] = Idle]

\* The advance raised: the lease is left to lapse.
Abandon(w) ==
    /\ Working(w)
    /\ held' = [held EXCEPT ![w] = Idle]
    /\ UNCHANGED tasks

\* requeue, the port's operation for a worker that hands its task back: the row
\* becomes indistinguishable from one that was never claimed.
Requeue(w, delay) ==
    /\ Requeues
    /\ Working(w)
    /\ ~Locked(held[w].task)
    /\ tasks' = IF Owns(w, held[w].task)
                THEN [tasks EXCEPT ![held[w].task] = QueuedRow(tasks[held[w].task].run, delay)]
                ELSE tasks
    /\ held' = [held EXCEPT ![w] = Idle]

\* The process dies. A claim in progress rolls back; a worker id is never used
\* again (new_worker_id), and one process at least is kept alive.
Crash(w) ==
    /\ held[w].phase # "dead"
    /\ \E v \in Workers \ {w} : held[v].phase # "dead"
    /\ held' = [held EXCEPT ![w] = Dead]
    /\ UNCHANGED tasks

-----------------------------------------------------------------------------
(* Time and the queue's users *)

\* Mutant of Less: no floor.
LessUnbounded(n) == n - 1

Less(n) == IF n = 0 THEN 0 ELSE n - 1

\* With Timely, no time passes while a claim is open or a renewal is due.
PassTime ==
    /\ Timely => \A w \in Workers :
                    /\ held[w].phase # "claiming"
                    /\ held[w].phase = "working" => ~RenewalDue(w)
    /\ tasks' = [t \in TaskIds |->
                    IF IsOutstanding(t)
                    THEN [tasks[t] EXCEPT !.left = Less(tasks[t].left),
                                          !.after = Less(tasks[t].after)]
                    ELSE tasks[t]]
    /\ held' = [w \in Workers |-> [held[w] EXCEPT !.left = Less(held[w].left)]]

Enqueue(r, delay) == Insert(r, delay) /\ UNCHANGED held

FinishOutstanding(r) == Finish(r) /\ UNCHANGED held

QueueInit ==
    /\ tasks = [t \in TaskIds |-> DoneRow]
    /\ held = [w \in Workers |-> Idle]

QueueNext ==
    \/ \E w \in Workers :
        \/ \E t \in TaskIds : Lock(w, t)
        \/ Claim(w)
        \/ Heartbeat(w)
        \/ Release(w)
        \/ Abandon(w)
        \/ \E delay \in 0 .. MaxDelay : Requeue(w, delay)
        \/ Crash(w)
    \/ PassTime
    \/ \E r \in Runs, delay \in 0 .. MaxDelay : Enqueue(r, delay)
    \/ \E r \in Runs : FinishOutstanding(r)

QueueSpec == QueueInit /\ [][QueueNext]_queueVars

-----------------------------------------------------------------------------
(* Properties *)

\* At most one task of a run is outstanding, whoever enqueues, claims, hands
\* back and finishes (uq pending_key).
OneOutstandingPerRun ==
    \A t, u \in TaskIds :
        IsOutstanding(t) /\ IsOutstanding(u) /\ tasks[t].run = tasks[u].run => t = u

\* A lease is exclusive: two processes never both hold, by their own copies of
\* the deadline, an unexpired lease of one task, though a claim commits later
\* than it computed its deadline and heartbeats race reclaims.
LeaseExclusion ==
    \A v, w \in Workers :
        /\ v # w
        /\ Working(v) /\ Working(w)
        /\ held[v].task = held[w].task
        => held[v].left = 0 \/ held[w].left = 0

\* A process never believes in a longer lease than the row grants it.
BeliefIsSound ==
    \A w \in Workers :
        Working(w) /\ held[w].left > 0 =>
            \/ Owns(w, held[w].task) /\ held[w].left <= tasks[held[w].task].left
            \/ tasks[held[w].task] = DoneRow

\* worker/loop.py, _heartbeat: once the lease is no longer ours that stays true,
\* so a worker that stopped asking never again owns the task.
LostIsForGood ==
    \A w \in Workers : held[w].phase = "lost" => ~Owns(w, held[w].task)

\* A task is never in two hands: leases are exclusive, no worker believes in more
\* than its row grants, and what a worker lost it never gets back unasked.
LeasesAreSound == LeaseExclusion /\ BeliefIsSound /\ LostIsForGood

\* With workers scheduled in time, a slow node does not cost the lease: the task
\* stays its worker's until the worker ends or the run settles (process starts
\* the heartbeat beside the advance).
TimelyKeepsLease ==
    Timely => \A w \in Workers : Working(w) =>
                Owns(w, held[w].task) \/ tasks[held[w].task] = DoneRow

\* A live lease leaves its owner only by the owner's own act or because the run
\* settled: no other process's claim, heartbeat, release or requeue touches it.
LiveLeaseIsRespected ==
    [][\A t \in TaskIds, w \in Workers :
        Owns(w, t) /\ tasks[t].left > 0 =>
            \/ tasks'[t].status = "LEASED" /\ tasks'[t].owner = w
            \/ held'[w] = Idle
            \/ tasks'[t] = DoneRow /\ held' = held]_queueVars
=============================================================================
