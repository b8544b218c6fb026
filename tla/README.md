# Orqent: specifications of the backend

Orqent lets an organization draw workflows, publish them, and have them run by
hand, by a webhook or by the clock, as durable *runs* of a graph of nodes. This
directory holds TLA+ models of the backend, the TLC runs that check them on small
instances, and TLAPS proofs of what matters most for every instance. Source paths
below are relative to `src/src/app/`.

## 1. Inventory

| Component | State it keeps | Operations | What makes it correct |
|---|---|---|---|
| State machines (`domain/engine/state.py`) | none; two transition tables | guards | no status is written outside the tables |
| Scheduler (`domain/engine/scheduler.py`) | none; a pure function of a snapshot | `tick` | starts a node exactly when its inputs are settled, prunes exactly what can never run, concludes rightly, never stalls |
| Run engine (`services/run_service.py`) | `runs`, `node_executions`, `run_events` | create, advance (tick, commit, invoke, settle), resume | no lost update, no half-applied decision, crashes recovered, at-most-once nodes not repeated |
| Task queue (`infrastructure/queue/`, `queue_task_repository.py`) | `queue_tasks` | enqueue, claim, extend, release, requeue, finish_outstanding | one outstanding task per run, exclusive leases, tasks are taken in the end |
| Worker (`infrastructure/worker/`) | its task, its copy of the lease, an event "lost" | poll, heartbeat, process, settle | drives each run to rest in spite of crashes |
| Authoring (`services/workflow_service.py`) | workflows, versions, a draft with a revision, node rows | create, rename, delete, open, save, validate, publish | numbers and names unique, what is published was validated and stays, no save replaces what its author did not see |
| Schedules, dispatcher (`services/schedule_dispatch_service.py`, `infrastructure/dispatcher/`) | `schedules.next_run_at` | claim due, fire, advance | occurrences move forward, are fired once by the dispatchers, and in the end |
| Webhooks (`services/webhook_service.py`) | `trigger_registrations` | deliver | a run of the version resolved, or a later one |
| Sessions (`services/auth_service.py`) | users, refresh tokens, reset grants | register, login, refresh, logout, forgot, reset | one live token per session, reuse ends the family, ended stays ended, one link works |
| Graph validation (`domain/graph/validation/`) | none | `validate_graph` | what is published is what the engine supports; no problem hides another |
| Node runners (`infrastructure/nodes/builtin/`, `domain/engine/invocation.py`) | none | resolve inputs, invoke | no runner reads an input that is not there; branches exclude each other |
| Agent (`ai_agent.py`, `infrastructure/llm/`) | the conversation of one invocation | ground, ask, call tools | grounded if asked to be, the model sees every result, bounded |
| Documents (`services/memory_service.py`, `domain/memory/`, `infrastructure/vector/`) | documents and chunks in MySQL, vectors in Chroma | chunk, ingest, retrieve | index and record agree; one revision is found; no phrase is cut |
| Rate limiter (`infrastructure/ratelimit/limiter.py`, `api/rate_limit.py`) | hits per key | check, sweep | never more than the limit in a window; waiting as told is enough |
| HTTP edge, schemas, tokens, configuration, frontend | none that is authoritative | | |

How they interact. *Editing*: a client opens a draft, saves it under the revision
it received, and publishes; publishing validates, numbers and freezes the version,
points the workflow at it, and in the same transaction repoints, mints or reschedules its
trigger. *Starting*: a user, a delivery or the dispatcher creates a run pinned to
the active version, with its queue task, in one transaction. *Running*: workers
poll the queue; the one that claims the task advances the run in a loop: read a
snapshot, tick, commit the decisions, invoke the started nodes without any
transaction, settle each result in a transaction of its own. A heartbeat beside the
loop renews the lease. A node may suspend the run; an API request with its token
resumes it: one transaction un-suspends the run and enqueues a task, after which
*the request itself* invokes the node and advances the run, while a worker may
claim the task. `POST .../advance` advances a run without any lease at all.

So nothing but the database stands between two processes inside one run. Rows
are read under MySQL's REPEATABLE READ and nothing locks a run. What serialises
it is the event log: each transaction that changes a run appends an event whose
number is one more than the largest *in its snapshot*, under a unique index;
of two transactions that began from the same state the second is rolled back.
Elsewhere there is no such log: authoring relies on a revision compared in a
snapshot and on unique indexes, sessions on locks on single rows, the documents
on whatever InnoDB locks for the statements themselves.

The behaviours that are hard, and that tests hardly reach, are listed at their
lines in `PROJECT.json` under `hazards`.

## 2. Modules

```
EngineState         statuses and transition tables
  RunScheduler      tick as operators; what applying its decisions does
    RunEngine       one run as atomic transactions on current rows   <- MCRunEngine, RunEngineProofs
    GraphValidation what may be published
      WorkflowRuns  runs of valid drafts with the built-in runners   <- MCServices
TaskQueue           rows, claims, leases, heartbeats, time           <- MCTaskQueue, TaskQueueProofs
  QueueOrder        + the order of the claims, and its fairness
RunExecution        RunScheduler + TaskQueue + processes             <- MCRunExecution, MCRunContention,
                    implements RunEngine (INSTANCE ... WITH)            RunExecutionProofs
WorkflowAuthoring   workflows, versions, registrations, schedules    <- MCWorkflowAuthoring,
                                                                        WorkflowAuthoringProofs
  Triggers          + dispatchers, deliveries, users' requests       <- MCTriggers, TriggersProofs
Sessions            accounts, tokens, reset links                    <- MCSessions, SessionsProofs
Chunking            the windows of a text
  Ingestion         documents in two stores                          <- MCServices, IngestionProofs
RateLimiter, AgentLoop                                               <- MCServices
                    (and GraphValidation, WorkflowRuns)              <- ServicesProofs
```

**RunScheduler.** A graph is a record of node numbers (in declaration order)
and edges; an edge has a source, an output handle, a target and an input port.
`st[n]` is the status of a node's execution and `out[n]` the handles it emitted
on: the only thing the engine reads of an output. `Tick` returns the recover,
skip and start sets and the new status. Recover, skip and start are sets since
`_apply` treats their members independently; their order (recover, then skip,
then start, then status) is kept in `AfterRecover`, `AfterSkip`, `AfterStart`.
`Applicable` is the conjunction of the transition guards in that order; if one
fails the transaction rolls back.

**RunEngine** is the abstract specification of a run: `Advance` (tick and
apply), `Succeed`/`Fail`/`Suspend` (`_settle`, `_refuse_repeat`), `Resume`,
each atomic on current rows. `task` says whether the run has an outstanding
queue task. It has no processes, so a crash is invisible in it: a node is left
RUNNING and the next `Advance` recovers it.

**TaskQueue.** Rows are records with status, owner, remaining lease (`left`) and
remaining delay (`after`); `PassTime` lowers both. Each worker has a phase
(idle, claiming, working, lost, dead), a task and its own copy of the deadline.
A claim is two steps, because its deadline is computed before the locking
SELECT and the row is written at the end: `Lock` and `Claim`, with the row lock
held between. `Heartbeat` writes only if `_own` matches and otherwise makes the
worker "lost", which stops the heartbeat and nothing else. `requeue` is an
operation of the port that no code calls; it is modelled and switched on in the
queue's own run (`Requeues`), off in the composition. A DONE row is never read
again, so its slot is reused for later rows once no process refers to it.

**QueueOrder** adds the order by which `_eligible` picks: `order` is the outstanding rows by `run_after`
and `id`, and a claim locks the first of them that is eligible. A claim, a heartbeat or a lapse never
changes `run_after`, so a task that is claimed again keeps its place. Every step is one of `TaskQueue`, which lets a claim
lock any eligible row, so what is proved there holds here. What is taken in the end is asked here,
where the order decides it.

**RunExecution.** For each process a program counter, the snapshot its open
unit of work has read, the nodes it started and their results, and the cycles of
its advance. Every unit of work is two steps, `Begin...` (read) and `Commit...`
(write, or roll back if the event number is taken or a guard fails). Rows that
the decisions do not name keep their *current* values, those they name get values
computed from the *snapshot*: a lost update would be visible. `seq` counts the
units of work that appended an event; how many events each appended is left
out. `calls[n]` is a history variable. `RunExecution` maps to `RunEngine` by
identity on the rows and `task <- Outstanding(TheRun) # {}`. The result of a
runner is one of: completed on a set of handles, failed, suspended, refused (the
repeat of an at-most-once node), raised (the invocation itself failed: its
siblings' results are kept and the advance then raises).

**WorkflowAuthoring.** `db` holds what the tables hold of each workflow (name, deleted,
active version), version (draft or published, number, revision, graph),
registration and schedule; `tx[c]` the request client `c` has open, with the
snapshot it read; `view[c]` what the client last received of a draft. A graph is
its content, its trigger and `rows`, the number of the batch in which its node rows
were inserted: `replace_graph` deletes the rows and inserts new ones, and what
refers to the old ones goes with them. `Begin` reads; one action per use case commits,
with the statements that read current rows (`bump_revision`, unique indexes, bulk
deletes) doing so and the rest using the snapshot.

**Triggers** composes it with dispatchers (poll, locking claim, dispatch), webhook
deliveries (two transactions) and users' requests. A schedule's next occurrence is
the next tick; the arithmetic of cron expressions is the library's.

**Sessions.** Accounts, refresh tokens in the order of their ids, reset links, and one
open transaction per client. `SELECT ... FOR UPDATE` and bulk UPDATEs act on current
rows and wait for their holder, plain SELECTs read the snapshot. A password is named by
the number of the reset that set it, a session by its family.

**GraphValidation.** The four stages as sets of issues, over the ten built-in
node types with their handles; `FindCycles` is the three-colour search as a recursive function of its
path and the finished nodes. **WorkflowRuns** starts from any draft that validates, and runs it
with the scheduler's own `Tick`; values are told apart only by the port they arrive
at, which is what decides whether a runner's lookup fails.

**Chunking** is the algorithm over sequences of characters, two kinds of white
space apart. **Ingestion** splits a request at each call to the other store; a request
that has touched a document's rows makes others wait, as InnoDB does; any step
may be the last. **RateLimiter** makes a request one step (nothing awaits between
its checks) on a clock with several ticks to the second. **AgentLoop** is one
invocation with the model as an actor that may ask for anything.

Next to some definitions stand *mutants*, the same definition with a plausible
mistake; no specification uses them. They show that the properties can fail:
substituting the mutant makes TLC report the property it is paired with in
`PROJECT.json`.

## 3. Runs

| Run | Question | Bounds |
|---|---|---|
| `engine` | do the promises of `RunEngine` hold on every graph? | all 64 acyclic graphs on 3 nodes and 2 handles, any emitted set, one crash per node |
| `engine_conclude` | finding 1 | 4 nodes, at most 3 edges, no crash |
| `queue` | are leases exclusive and respected whatever is late? | 2 runs, 3 workers (each may die), 4 rows, lease 2, delay 0..1, requeue on |
| `queue_live` | does the renewal margin suffice, and which tasks are claimed in the end? | 3 runs, 2 workers, 3 rows, lease 2, interval 1, timely, claims in order |
| `execution` | is a run driven to rest, and only the dead recovered? | condition, at-most-once effect, join with a wait; 2 workers, one crash, one raise, 2 suspensions, timely |
| `contention` | do processes inside one run remain a serial engine? | two roots in one batch, one that waits, two at-most-once that may raise; 2 workers that lapse and an advance request, or a worker and 2 resume requests; 2 attempts, 2 tokens |
| `authoring` | what survives overlapping transactions, and what holds of serial ones? | three scenarios: 2 clients edit and publish one workflow, overlapping; every use case and trigger, serially, 4 batches of rows; 2 workflows and names created, renamed, deleted, overlapping |
| `authoring_frozen` | finding 2 | as `authoring` |
| `triggers` | do triggers start what they should beside editing? | two scenarios: 2 dispatchers, or 2 callers; 1 workflow, 2 versions, 3 runs, 2 ticks, 1 failure |
| `sessions` | do row locks suffice? | three scenarios: 2 clients of one account overlapping; of two accounts, serially; 3 registrations at once; 4 tokens, 2 links |
| `services` | six services that share no state | see below |
| `documents_corrected` | finding 3 | as the documents scenario |

The scenarios of `services`: *documents*, two callers ingesting three texts (one chunk;
several; one chunk again) under one name with two failures; *limits*, two addresses
and a subject, limit 2, window 3 of half-second ticks, a sweep every second
hit, retention 4, clock to 5; *chunking*, every text of up to 8 characters of
two kinds of white space and letters, chunks of 5 with overlap 2 and snap 2;
*agent*, three tools, every allow-list, two rounds of up to two calls, one lost
invocation; *validation*, every graph of 4 nodes and at most 5 edges, self-loops included, and
every pair of six types wired by at most 3 edges in any way; *runs*, every valid
draft among a trigger, a condition (that looks for a list or object, or for anything else), a third node,
a merge and a last one, with any of 8 edges. They are chosen by the initial state, so each is explored apart.

Why the bounds suffice. Three nodes with two handles contain every shape the
scheduler tells apart locally (chain, branch, join, rejoin of both branches of
one condition, two roots); the invariants are also proved for every graph.
Four nodes are needed for the early conclusion of finding 1, because a prune must still
be pending while another branch has ended. `MaxAttempt` 2 is the first
repeat, the only distinction the code makes (`attempt <= 1`). Three workers let one
claim, one lapse and one take over at once. A lease of 2 with interval 1 has the
three cases fresh, due and lapsed. Three runs are the fewest of which two can keep a worker from the
third. Two suspensions let a consumed token be
followed by a fresh one. Two overlapping transactions are what a snapshot race takes;
a third version or a fifth batch of rows repeats the second or the fourth. In the documents, three
texts give two that differ in length and a return to an earlier kind; two failures
give one for each of two requests. In the limiter the retention is one more than
the window, the least that the code's hour ever leaves, and the sweep comes often. A text
of 8 has three windows with every position of white space at both boundaries. Two
rounds with two calls give a batch after a batch. Bounds appear in guards (`MaxAttempt`,
`MaxTokens`, `MaxRows`, `MaxTime`, `MaxRuns`, `MaxFailures`, `MaxGrants`, `MaxClock`,
`MaxBatch`, `MaxInvocations`) and in the scenario constraints of the MC modules.

Clients, workers, runs and requests are symmetric in the runs that declare it and check no
liveness: nothing orders them. `CHECK_DEADLOCK FALSE` is set where a system stops: a run at rest,
bounds reached. The queue's runs check deadlock, since time passes.

### What the violations show

1. *"Only once nothing can move does the run take a conclusion"* (`scheduler.py:238`). The
   conclusion is drawn from the statuses before the tick's prunings. With a
   failed node beside a two-step dead branch that rejoins a live one, the run is set
   FAILED in the tick whose pruning makes the rejoin ready. The next tick
   wants FAILED -> RUNNING, is refused, and every later advance raises. With a waiting
   node instead of the failed one the run is parked a tick early: its task is closed, the
   same advance's next tick moves it back to RUNNING, and if that process dies no task is
   left to drive the run (`run_service.py:970` says the two "can never disagree").
2. *Publishing "validates and freezes it"* (`docs/decisions.md:172`). A save that read the
   draft before a publish committed runs `replace_graph` on the row that is published now:
   neither statement asks for its status again. The published graph is then one
   nobody validated, and the trigger rows that pointed into it are gone.
3. *"the next ingestion corrects it"* (`memory_service.py:170`). The recorded hash alone
   decides whether an ingestion is a no-op. After a failure between the delete and the
   commit the record still has the old hash, so ingesting the recorded text again answers
   "unchanged" over an empty index, or one with the other text.

### Known limits met while modelling

These follow from the models but have no run of their own; each is why some property is
stated as narrowly as it is.

- Two overlapping saves that state the same revision both commit (`workflow_service.py:357`);
  revisions restart at 1 with each draft, so a revision names content within one draft only.
  Two overlapping publishes may mint two addresses (`:511`), and what a publish validated may not
  be what it publishes (`:430`). `SeriallySound` is about requests that do not overlap.
- A delivery may start a version published after it resolved its address, even one without a
  webhook trigger (`webhook_service.py:66`): `DeliveryStartsResolved` says "or a later one".
- A publish writes `next_run_at` computed from its snapshot, so an occurrence fired meanwhile is due again
  (`workflow_service.py:560`): `OccurrencesAdvance` is about one published version.
- A login reads the hash without a lock: it may commit a session after a reset
  (`auth_service.py:272`), or put the old password's upgraded hash back (`:284`).
- `resume_run` enqueues a task and then executes the node itself, so a worker may
  recover a node that is being executed; at-most-once nodes are protected by the
  refusal, others run twice. A resumed node's approval does not survive a crash.
  `RecoversOnlyTheDead` is checked without resume requests.
- Because of finding 1, `RunAndQueueAgree` fails on graphs where a pruning may still make a node ready
  beside one that waits. It is proved that nothing else makes it fail, and that graphs whose joins
  directly follow roots, those of `contention` among them, are free of it (section 4). On every graph
  a run at rest has no task (`RecordIsSound`).
- A worker told that it lost its lease still settles its results; the event log stops it.
- `domain/ports/task_queue.py:26-27` promises that the task of a dead worker is taken by another. Fresh
  work is claimed before lapsed leases, so enough of it starves such a task. So do two older ones
  whose advances take a lease's time and keep raising: an advance that raises leaves its task to lapse
  (`loop.py:166`), no claim moves a task back (`mysql_task_queue.py:195`), and one of the two has always lapsed
  when the worker is free. `TasksAreTaken` says what is left: a fresh task is taken whatever
  happens; once fresh work stops, the oldest task is taken again however often advances raise; once they stop
  raising too, the queue drains.
- Two concurrent registrations of one organization name choose the same slug. The second is told that an account
  with its address exists (`auth_service.py:243`), and none need do, against `:190`. `RefusedOnlyByRivals` says which
  registrations are refused, not what they are told.
- `core_condition.py:136-138` calls the condition total. `contains` with a list or an object for its value
  (both validate: the field is `Any`) asks a mapping whether it has such a key (`:186`), which
  raises; the node fails, and with it the run. `RunsAsDrawn` allows a condition with such a value to fail.
- `structure.py:221` calls an unreachable node one that will never run. The scheduler starts every
  node without inbound edges at once, so an unconnected constant, agent or wait does run.
- Chunk offsets count from the stripped text and the window, not from the source
  (`chunking.py:54`). Overlapping ingestions may leave a stale `chunk_count`. A
  retrieval between delete and upsert finds nothing, and the agent answers ungrounded.
- The limiter's sweep keeps a fixed hour, whatever windows are in use (`limiter.py:126` says the longest);
  `LimiterAssumption` asks for windows within it. A request allowed by its address
  and refused by its subject still counts against the address.

### Fairness

All fairness is weak: it says of each process that it goes on, and of no row that its turn comes. `OrderFairness`
(`QueueOrder`): time passes, a worker's loop polls and locks the row that comes next, its claim commits, its
heartbeat runs and its work ends, by returning or by raising. Which row is next is in the guard (`IsNext`).
`Fairness` in `RunExecution` is weak fairness of each worker's
steps and of time. In `Triggers` a dispatcher polls again and its transaction ends,
weakly. No fairness is assumed of crashes, failures, requests, publications, or of what a
runner returns. `RunSettles` is checked with `Timely`: with leases lapsing under live
workers for ever, no progress can be promised.

## 4. Proofs

Each module below proves, for every value of the constants, that a named invariant is
inductive, and from it the properties the runs check. TLC checked each invariant on the
run's instances before it was proved.

**`RunEngineProofs`**: any set of acyclic graphs, any handles, any bound on
attempts. `IInv` is types, `ExecutedIsSatisfied`, `SkippedIsDead`, `RunStatusAgrees` and
`SettledHoldsNoTask`. They are
proved together: a node stays satisfied, and a skipped node dead, because an edge once
live or dead stays so (its source is terminal); the run's status agrees because
stranded nodes are ready again. Proved from it: `EngineSafety` (`RecordIsSound`);
`EngineTicks` (`TickIsSound`, from `EngineNoStall`: with nothing running, waiting or
failed, a minimal pending node in the well-founded order of the graph has only
resolved inbound edges, so it is ready or prunable; `EngineRecoveryRestarts`;
`EngineDecisionsApply`); `EngineFinishedIsFinal`; `EngineTyped`; `EngineCompletedMeansReached`, which
quantifies over the sets closed under fired edges: the nodes that succeeded are such a set,
and were some node of theirs outside a smaller one, a minimal such node would have a live
inbound edge from inside it. The other side of finding 1: `EngineTaskAgrees` assumes `[]ConcludesWhenNothingCanMove`,
the property the finding violates, and concludes that a run is outstanding exactly while it is to be
driven; `EngineConcludesInTime` has that from the shape of the graph instead: if no node that joins several
edges is fed by one that could be skipped (`JoinsFollowRoots`), no pruning ever makes a node ready
(`NothingReadyAfterTick`), so nothing is concluded early.

**`TaskQueueProofs`**: any number of runs, workers, rows and any TTL and interval
with 0 < interval < TTL. `QInv` adds to the checked properties that
rows that are not leased carry no deadline (`RowsAreSound`) and that claims
hold their rows exclusively and only on lapsed or fresh rows (`ClaimsAreSound`):
without the latter a claim could overwrite a lease just renewed. Proved:
`QueueSafety`, the action property `QueueLiveLease`, and `QueueTimely`.

**`RunExecutionProofs`**: any graph with finitely many nodes, any number of workers, resume and
advance requests, any lease, crashes and lapses included. `XInv` is `QInv`, the engine's `IInv`, and for
each process that its snapshot is of the past *and is the present unless its event number is taken*
(`SnapshotIsSound`). That is the whole concurrency argument: a commit that succeeds found its
number free, so it applied decisions to the rows they were computed from, and is a step of the
serial engine. Hence `ExecutionImplementsEngine` (initial states map to initial states, every step to a
step or a stutter), and with it everything proved of `RunEngine` holds of the rows that crashing, racing
processes write (`ExecutionKeepsRecord`), the agreement of runs and queue included, under either hypothesis
(`ExecutionQueueAgrees`, `ExecutionQueueAgreesByShape`); `ExecutionQueueSafety`; `ReleasesNothingUnfinished`;
`ExecutionTokens` and `ExecutionTyped`, with an invariant of the tokens beside it.
`ExecutionCalls` counts licences: every attempt of a row permits one fresh call, an open
attempt is held by one process and none that was used is open again (`CInv`).
Two theorems have the hypotheses of their run, that processes are timely and no request
takes part: `ExecutionRecoversOnlyTheDead` and `ExecutionWithinCycleLimit`. `SoloInv` says that then one
worker has the run at a time, and `CycleInv` weighs the cycles an advance has made against the nodes that are
still open: each cycle but the last settles one.

**`SessionsProofs`**: any accounts, clients and bounds, requests overlapping. `SInv` says that a row read FOR
UPDATE is still as it was read when its holder writes (`TxIsSound`) and that no two requests hold one
row; from these one live token per family, and that an ended family and a used link stay so.
Proved: `SessionsTyped`, `SessionsStaySound`, `LinksStaySound`, and, for requests that do not
overlap, `SessionsLockOut`, which needs that an open login has read the current password.
`RegistrationsAreRefusedOnlyByRivals` has `SlugInv` beside `SInv`: a slug with a unique id belongs to the account the id
was made for, so what a registration chose is of no account in its snapshot, and as accounts keep their slugs, of none of
them later.

**`ServicesProofs`** has three services that share nothing. *The agent*, any tools, rounds and calls: the
invariant says where in the conversation each phase stands: what was asked is what was answered followed by
what is pending (`AgentStaysSound`). *The limiter*, any keys, limit, window, retention and sweep period: `SoundLimiter`
says that the hits a key holds are the end of its whole history, what is missing having left the window, and that
in the history a grant is at least a window after the one `MaxHits` before it (`Spaced`): so no window,
wherever it begins, holds more (`LimitHolds`), and a sweep forgets only what has left; that a
refused key has room by the time it was told follows for the oldest hit, rounded up (`WaitHolds`).
*Drafts*, of any size and wiring: no issue but warnings means that every type resolves, every edge
joins handles that exist and every port takes at most one edge, hence `ValidIsSupported`, the fan-in
that `RunEngine` assumes. Of the three-colour search, three things hold at every place it passes: its path is one
of edges without repetition (so what it closes is a cycle, `FoundAreRings`); black nodes can be ranked so
that, within any set of nodes that holds with two nodes of a path those between them, edges ascend, unless a
cycle inside that set was found (`SearchRanks`); and less is left to colour at the next. With all nodes for the set, a
draft without a cycle issue is acyclic (`ValidIsAcyclic`); with the nodes that share their cycles with a
node, none that lies on a cycle is passed over (`EveryCycleIsFound`). What is reachable is the least
set closed under successors, and with that the warnings are right (`UnreachedAreReported`). Together
`EveryDraftIsJudged`, and the run's property, `ValidationIsAlwaysRight`. `FlowsRunAsDrawn` runs such drafts with the scheduler's own tick: an execution that starts has
the edge its readiness saw, so what a runner looks up is there, and of a condition's two branches
at most one is live. The run fails only where an agent does, or a condition that looks
for a list or an object.

**`IngestionProofs`**: any names, texts and callers; of documents, nothing is used of `ChunkText`, so
that holds however a text is cut. To the two checked properties `IInv` adds
that one request at a time holds a document's rows (`Exclusive`), that a public id stays
with the name it was minted for (`PubsAreNamed`), that a request works on the recorded
document or on one it added while none was recorded (`OneDocument`), and what the index
holds of a document between its delete and its commit (`HalfDone`). `OneDocument` is
what a commit needs: were two public ids live for a name, recording one would strand
the entries of the other. Proved: `IndexFollowsRecordAlways`, `OneRevisionAlways`. *Chunking*, any text, size, overlap
and snap with overlap + snap < size: the windows from a place on are such that each begins after the one
before it and no later than the overlap before its end, so a short phrase that ends beyond a window lies
wholly in what follows, and a window with a phrase is not blank, so it is kept (`WindowsOfAreSound`).
`EveryPhraseIsKept` is what strip leaves of that, and `TextIsAlwaysFindable` the run's property.

The recursive functions of the model (`WindowsOf`, `FindCycles`, `ReachableFrom`) have no induction in this
prover to reason with, not even that they are defined. `RecursionIsDefined` replaces it: of a recursion along which a
natural number falls, functions that obey it up to a bound agree, and one obeys it everywhere. After that, the place
where a claim fails with the least of that number is a contradiction (`FirstOf`).

**`WorkflowAuthoringProofs`**: any workflows, clients and bounds. A commit writes what it computed from a snapshot;
the argument is that history is a preorder. `Follows(s, d)` says what has become in `d` of the
versions of `s`: they stay of their workflow; a number is never changed; while a draft is a
draft nothing of its workflow gets numbered, so the number it will get is the one that
was next; a revision counts contents. Every commit takes the rows to rows that follow, so every open
snapshot is followed by the current rows (`AInv`), and with the unique indexes the numbers come out dense:
`RowsAlwaysAgree`, `AuthoringTyped`. For requests that do not overlap (the
hypothesis is the scenario of the run) a snapshot is current, a batch of node rows
belongs to one version, and what is registered points into published versions, one for each workflow:
`RequestsOneByOneAreSound`, `RequestsOneByOneArePermanent`.

**`TriggersProofs`** adds dispatchers and requests to that, beside any authoring: their snapshots are followed
as well, so the version a run is pinned to, published in a snapshot however old, is published still (`RunsArePinned`);
a dispatch writes due times only and no later than the next tick (`TriggersTyped`), and claims nothing
that was not due at its poll (`NothingFiresEarly`).
Two theorems assume `[]OneAtATime`, that the requests that *edit* do not overlap (their run has one client);
dispatchers and callers interleave with these and each other as they like. `TSerialInv` adds to the serial
invariant of authoring that a schedule row that is held is as it was when it was locked, and points at a scheduled
version (`IsClaimed`); that two dispatchers never hold one row (`HoldersApart`); that what a schedule fired
under the version it points at lies before its due time (`FiredBefore`); and that the version of a
delivery is the one resolved or numbered after it (`Delivered`), for the version a workflow runs is the one it
published last. Proved: `RunsAreAsked`, `OccurrencesMoveForward`. Where editing overlaps, a published graph may change
(finding 2), and with it what was asked.

Model-checked only:

- liveness (`RunSettles`, `TasksAreTaken`, `DueIsFired`): fairness and ENABLED.

Assumptions: the ASSUMEs of each module. Acyclic single-arity graphs are what publishing
establishes, which is proved (`ValidatedIsSupported`, of `ValidationIsAlwaysRight`); TTL and interval are checked
by `FixedLeasePolicy`, chunk size, overlap and snap are constants of the code; that the limiter's window is
within the retention is *not* checked (`RateLimitPolicy.parse` takes longer ones) and holds of the configured policies; a graph has finitely many nodes, and finitely many clients have requests
open at once.

## 5. Not modelled

- The HTTP edge, schemas, configuration, dependency wiring: they keep no state, translate
  requests and select the actor; the models start at the services. Token signing and
  hashing are the libraries'.
- The frontend: a client, whose view of a draft is `view` in `WorkflowAuthoring`.
- Reads that change nothing: listings, summaries, timelines, tenancy checks.
- Left out of modelled parts: payloads and values beyond the handles they travel on, the task's
  `attempts` counter (nothing reads it), logging, messages and field paths of issues, the warning about
  deprecated node types (no built-in type is one), the encoding of provider messages, expiry times of sessions and links (a client is simply never
  obliged to present one). One clock is shared by all processes.
- A worker's clean stop is a crash while idle. A resume request that matches no waiting node
  changes nothing and is not a step.
