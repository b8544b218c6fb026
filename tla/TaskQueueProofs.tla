-------------------------- MODULE TaskQueueProofs --------------------------
(***************************************************************************)
(* Proofs about TaskQueue, for any number of runs, workers and rows, any   *)
(* lease length and heartbeat interval.                                    *)
(***************************************************************************)
EXTENDS TaskQueue, TLAPS

USE QueueAssumption

\* A row that is not leased carries no deadline, and a row that is done is blank.
RowsAreSound ==
    \A t \in TaskIds :
        /\ tasks[t].status # "LEASED" => tasks[t].left = 0
        /\ tasks[t].status = "DONE" => tasks[t] = DoneRow

\* Row locks are exclusive; a claim in progress is on an outstanding row whose
\* lease, if it had one, has lapsed; only a process in those phases refers to a row.
ClaimsAreSound ==
    \A w \in Workers :
        /\ held[w].phase = "claiming" =>
            /\ held[w].task \in TaskIds
            /\ IsOutstanding(held[w].task)
            /\ tasks[held[w].task].left = 0
            /\ \A v \in Workers :
                held[v].phase = "claiming" /\ held[v].task = held[w].task => v = w
        /\ Working(w) => held[w].task \in TaskIds

QInv ==
    /\ QueueTypeOK
    /\ RowsAreSound
    /\ ClaimsAreSound
    /\ OneOutstandingPerRun
    /\ BeliefIsSound
    /\ LeaseExclusion
    /\ LostIsForGood

LEMMA DoneRowFacts ==
    /\ DoneRow \in Row /\ DoneRow.status = "DONE" /\ DoneRow.left = 0
    /\ DoneRow.owner = NoWorker /\ DoneRow.after = 0
BY DEF DoneRow, Row

LEMMA IdleFacts ==
    /\ Idle \in Holding /\ Idle.phase = "idle" /\ Idle.task = NoTask /\ Idle.left = 0
    /\ Dead \in Holding /\ Dead.phase = "dead" /\ Dead.task = NoTask /\ Dead.left = 0
BY DEF Idle, Dead, Holds, Holding

LEMMA InitQInv == QueueInit => QInv
<1> SUFFICES ASSUME QueueInit PROVE QInv
  OBVIOUS
<1>1. QueueTypeOK
  BY DoneRowFacts, IdleFacts DEF QueueInit, QueueTypeOK
<1>2. \A w \in Workers : held[w].phase = "idle"
  BY IdleFacts DEF QueueInit
<1>3. \A t \in TaskIds : tasks[t] = DoneRow
  BY DEF QueueInit
<1> QED  BY <1>1, <1>2, <1>3, DoneRowFacts DEF QInv, RowsAreSound, ClaimsAreSound,
              OneOutstandingPerRun, BeliefIsSound, LeaseExclusion, LostIsForGood, Working,
              IsOutstanding

(***************************************************************************)
(* Most steps leave the rows alone and change one process, or the reverse; *)
(* the first lemma is for a process that lets its task go.                 *)
(***************************************************************************)

\* A process that becomes idle or dies disturbs no one else.
LEMMA LetGo ==
    ASSUME QInv, NEW w \in Workers, tasks' = tasks,
           held' = [held EXCEPT ![w] = Idle] \/ held' = [held EXCEPT ![w] = Dead]
    PROVE  QInv'
<1>1. /\ held' \in [Workers -> Holding]
      /\ ~Working(w)' /\ held'[w].phase # "claiming" /\ held'[w].phase # "lost"
      /\ \A v \in Workers \ {w} : held'[v] = held[v]
  BY IdleFacts DEF QInv, QueueTypeOK, Working
<1> QED  BY <1>1 DEF QInv, QueueTypeOK, RowsAreSound, ClaimsAreSound, OneOutstandingPerRun,
              BeliefIsSound, LeaseExclusion, LostIsForGood, Working, IsOutstanding, Owns

LEMMA LockQInv == ASSUME QInv, NEW w \in Workers, NEW t \in TaskIds, Lock(w, t) PROVE QInv'
<1>1. /\ tasks' = tasks
      /\ held' = [held EXCEPT ![w] = [phase |-> "claiming", task |-> t, left |-> TTL]]
      /\ IsOutstanding(t) /\ ~Locked(t)
      /\ tasks[t].left = 0
  BY DEF Lock, Fresh, Lapsed, IsOutstanding, QInv, RowsAreSound, Holds
<1>2. /\ held' \in [Workers -> Holding]
      /\ held'[w].phase = "claiming" /\ held'[w].task = t
      /\ \A v \in Workers \ {w} : held'[v] = held[v]
  BY <1>1 DEF QInv, QueueTypeOK, Holding
<1>3. \A v \in Workers : held[v].phase = "claiming" => held[v].task # t
  BY <1>1 DEF Locked
<1>4. ClaimsAreSound'
  BY <1>1, <1>2, <1>3 DEF QInv, ClaimsAreSound, IsOutstanding, Working
<1> QED  BY <1>1, <1>2, <1>4 DEF QInv, QueueTypeOK, RowsAreSound, OneOutstandingPerRun,
              BeliefIsSound, LeaseExclusion, LostIsForGood, Working, IsOutstanding, Owns

LEMMA ClaimQInv == ASSUME QInv, NEW w \in Workers, Claim(w) PROVE QInv'
<1> DEFINE t == held[w].task
<1>1. /\ t \in TaskIds /\ IsOutstanding(t) /\ tasks[t].left = 0
      /\ held[w].left \in 0 .. TTL
      /\ \A v \in Workers : held[v].phase = "claiming" /\ held[v].task = t => v = w
  BY DEF Claim, QInv, ClaimsAreSound, QueueTypeOK, Holding
<1>2. /\ tasks' = [tasks EXCEPT ![t] = [tasks[t] EXCEPT !.status = "LEASED", !.owner = w,
                                                        !.left = held[w].left]]
      /\ held' = [held EXCEPT ![w] = [held[w] EXCEPT !.phase = "working"]]
  BY DEF Claim
<1>3. /\ tasks' \in [TaskIds -> Row]
      /\ tasks'[t].status = "LEASED" /\ tasks'[t].owner = w /\ tasks'[t].left = held[w].left
      /\ tasks'[t].run = tasks[t].run
      /\ \A u \in TaskIds \ {t} : tasks'[u] = tasks[u]
  <2> DEFINE row == [tasks[t] EXCEPT !.status = "LEASED", !.owner = w, !.left = held[w].left]
  <2>1. tasks \in [TaskIds -> Row] /\ tasks[t] \in Row
    BY <1>1 DEF QInv, QueueTypeOK
  <2>2. /\ row \in Row /\ row.status = "LEASED" /\ row.owner = w /\ row.left = held[w].left
        /\ row.run = tasks[t].run
    BY <1>1, <2>1 DEF Row
  <2>3. tasks' = [tasks EXCEPT ![t] = row]
    BY <1>2
  <2> HIDE DEF row
  <2> QED  BY <1>1, <2>1, <2>2, <2>3
<1>4. /\ held' \in [Workers -> Holding]
      /\ held'[w].phase = "working" /\ held'[w].task = t /\ held'[w].left = held[w].left
      /\ \A v \in Workers \ {w} : held'[v] = held[v]
  BY <1>1, <1>2 DEF QInv, QueueTypeOK, Holding
<1>5. \A v \in Workers : Working(v) /\ held[v].task = t => held[v].left = 0
  BY <1>1, DoneRowFacts DEF QInv, QueueTypeOK, Holding, BeliefIsSound, IsOutstanding
<1>6. QueueTypeOK'
  BY <1>3, <1>4 DEF QueueTypeOK
<1>7. RowsAreSound'
  BY <1>3 DEF QInv, RowsAreSound
<1>8. ClaimsAreSound'
  BY <1>1, <1>3, <1>4 DEF QInv, ClaimsAreSound, Working, IsOutstanding
<1>9. OneOutstandingPerRun'
  BY <1>1, <1>3 DEF QInv, OneOutstandingPerRun, IsOutstanding
<1>10. BeliefIsSound'
  <2>1. ASSUME NEW v \in Workers \ {w}, Working(v)', held'[v].left > 0
        PROVE  held[v].task \in TaskIds \ {t}
    <3>1. Working(v) /\ held[v].left > 0 /\ held'[v] = held[v]
      BY <1>4, <2>1 DEF Working
    <3> QED  BY <1>5, <3>1 DEF QInv, ClaimsAreSound
  <2> QED  BY <1>1, <1>3, <1>4, <2>1 DEF QInv, BeliefIsSound, Working, Owns
<1>12. LeaseExclusion'
  BY <1>4, <1>5 DEF QInv, LeaseExclusion, Working
<1>11. LostIsForGood'
  BY <1>1, <1>3, <1>4 DEF QInv, LostIsForGood, ClaimsAreSound, Working, Owns
<1> QED  BY <1>6, <1>7, <1>8, <1>9, <1>10, <1>11, <1>12 DEF QInv

LEMMA HeartbeatQInv == ASSUME QInv, NEW w \in Workers, Heartbeat(w) PROVE QInv'
<1> DEFINE t == held[w].task
<1>1. t \in TaskIds /\ held[w].phase = "working" /\ ~Locked(t)
  BY DEF Heartbeat, QInv, ClaimsAreSound, Working
<1>2. CASE Owns(w, t) /\ tasks[t].left <= TTL
  <2>1. /\ tasks' = [tasks EXCEPT ![t] = [tasks[t] EXCEPT !.left = TTL]]
        /\ held' = [held EXCEPT ![w] = [held[w] EXCEPT !.left = TTL]]
    BY <1>2 DEF Heartbeat
  <2>2. /\ tasks' \in [TaskIds -> Row]
        /\ tasks'[t].status = "LEASED" /\ tasks'[t].owner = w /\ tasks'[t].left = TTL
        /\ tasks'[t].run = tasks[t].run
        /\ \A u \in TaskIds \ {t} : tasks'[u] = tasks[u]
    BY <1>1, <1>2, <2>1 DEF QInv, QueueTypeOK, Row, Owns
  <2>3. /\ held' \in [Workers -> Holding]
        /\ held'[w].phase = "working" /\ held'[w].task = t /\ held'[w].left = TTL
        /\ \A v \in Workers \ {w} : held'[v] = held[v]
    BY <1>1, <2>1 DEF QInv, QueueTypeOK, Holding
  <2>4. ASSUME NEW v \in Workers \ {w}, Working(v), held[v].task = t  PROVE held[v].left = 0
    <3>1. tasks[t] # DoneRow /\ ~Owns(v, t)
      BY <1>2, DoneRowFacts DEF Owns
    <3>2. held[v].left \in 0 .. TTL
      BY DEF QInv, QueueTypeOK, Holding
    <3> QED  BY <2>4, <3>1, <3>2 DEF QInv, BeliefIsSound
  <2>5. RowsAreSound' /\ QueueTypeOK'
    BY <2>2, <2>3 DEF QInv, RowsAreSound, QueueTypeOK
  <2>6. ClaimsAreSound'
    <3>1. \A v \in Workers : held[v].phase = "claiming" => held[v].task # t
      BY <1>1 DEF Locked
    <3> QED  BY <1>1, <2>2, <2>3, <3>1 DEF QInv, ClaimsAreSound, Working, IsOutstanding
  <2>7. OneOutstandingPerRun'
    BY <1>2, <2>2 DEF QInv, OneOutstandingPerRun, IsOutstanding, Owns
  <2>8. LeaseExclusion'
    BY <2>3, <2>4 DEF QInv, LeaseExclusion, Working
  <2>10. BeliefIsSound'
    <3>1. ASSUME NEW v \in Workers \ {w}, Working(v)', held'[v].left > 0
          PROVE  held[v].task \in TaskIds \ {t}
      <4>1. Working(v) /\ held[v].left > 0 /\ held'[v] = held[v]
        BY <2>3, <3>1 DEF Working
      <4> QED  BY <2>4, <4>1 DEF QInv, ClaimsAreSound
    <3> QED  BY <1>1, <2>2, <2>3, <3>1 DEF QInv, BeliefIsSound, Working, Owns
  <2>9. LostIsForGood'
    BY <1>1, <1>2, <2>2, <2>3 DEF QInv, LostIsForGood, ClaimsAreSound, Working, Owns
  <2> QED  BY <2>5, <2>6, <2>7, <2>8, <2>9, <2>10 DEF QInv
<1>3. CASE ~(Owns(w, t) /\ tasks[t].left <= TTL)
  <2>1. tasks' = tasks /\ held' = [held EXCEPT ![w] = [held[w] EXCEPT !.phase = "lost"]]
    BY <1>3 DEF Heartbeat
  <2>2. ~Owns(w, t)
    BY <1>1, <1>3 DEF QInv, QueueTypeOK, Row
  <2>3. /\ held' \in [Workers -> Holding]
        /\ held'[w].phase = "lost" /\ held'[w].task = t /\ held'[w].left = held[w].left
        /\ \A v \in Workers \ {w} : held'[v] = held[v]
    BY <1>1, <2>1 DEF QInv, QueueTypeOK, Holding
  <2> QED  BY <1>1, <2>1, <2>2, <2>3 DEF QInv, QueueTypeOK, RowsAreSound, ClaimsAreSound,
              OneOutstandingPerRun, BeliefIsSound, LeaseExclusion, LostIsForGood, Working,
              IsOutstanding, Owns
<1> QED  BY <1>2, <1>3

\* A set of unlocked rows becoming done disturbs nothing.
LEMMA RowsDone ==
    ASSUME QInv, held' = held, NEW S \in SUBSET TaskIds, \A t \in S : ~Locked(t),
           tasks' = [t \in TaskIds |-> IF t \in S THEN DoneRow ELSE tasks[t]]
    PROVE  QInv'
<1>1. /\ \A t \in TaskIds : tasks'[t] = IF t \in S THEN DoneRow ELSE tasks[t]
      /\ tasks' \in [TaskIds -> Row]
  BY DoneRowFacts DEF QInv, QueueTypeOK
<1>2. \A v \in Workers : held[v].phase = "claiming" => held[v].task \notin S
  BY DEF Locked
<1>3. QueueTypeOK' /\ RowsAreSound' /\ OneOutstandingPerRun' /\ LeaseExclusion'
  BY <1>1, DoneRowFacts DEF QInv, QueueTypeOK, RowsAreSound, OneOutstandingPerRun, IsOutstanding,
     LeaseExclusion, Working
<1>4. ClaimsAreSound'
  BY <1>1, <1>2 DEF QInv, ClaimsAreSound, IsOutstanding, Working
<1>5. BeliefIsSound' /\ LostIsForGood'
  BY <1>1, DoneRowFacts DEF QInv, BeliefIsSound, LostIsForGood, ClaimsAreSound, Owns, Working
<1> QED  BY <1>3, <1>4, <1>5 DEF QInv


\* A process lets its task go and closes the row, if the row is still its own.
LEMMA ReleaseQInv == ASSUME QInv, NEW w \in Workers, Release(w) PROVE QInv'
<1> DEFINE t == held[w].task
<1>1. t \in TaskIds /\ held' = [held EXCEPT ![w] = Idle]
  BY DEF Release, QInv, ClaimsAreSound
<1>2. CASE tasks' = tasks
  BY <1>1, <1>2, LetGo
<1>3. CASE tasks' # tasks
  <2>1. /\ Owns(w, t) /\ ~Locked(t)
        /\ tasks' = [tasks EXCEPT ![t] = DoneRow]
    BY <1>3 DEF Release
  <2>2. /\ \A u \in TaskIds : tasks'[u] = IF u = t THEN DoneRow ELSE tasks[u]
        /\ tasks' \in [TaskIds -> Row]
    BY <1>1, <2>1, DoneRowFacts DEF QInv, QueueTypeOK
  <2>3. /\ held' \in [Workers -> Holding]
        /\ ~Working(w)' /\ held'[w].phase # "claiming" /\ held'[w].phase # "lost"
        /\ \A v \in Workers \ {w} : held'[v] = held[v]
    BY <1>1, IdleFacts DEF QInv, QueueTypeOK, Working
  <2>4. \A v \in Workers : held[v].phase = "claiming" => held[v].task # t
    BY <2>1 DEF Locked
  <2>5. QueueTypeOK' /\ RowsAreSound' /\ OneOutstandingPerRun' /\ LeaseExclusion'
    BY <2>2, <2>3, DoneRowFacts DEF QInv, QueueTypeOK, RowsAreSound, OneOutstandingPerRun,
       IsOutstanding, LeaseExclusion, Working
  <2>6. ClaimsAreSound'
    BY <2>2, <2>3, <2>4 DEF QInv, ClaimsAreSound, IsOutstanding, Working
  <2>7. BeliefIsSound' /\ LostIsForGood'
    BY <2>2, <2>3, DoneRowFacts DEF QInv, BeliefIsSound, LostIsForGood, ClaimsAreSound, Owns, Working
  <2> QED  BY <2>5, <2>6, <2>7 DEF QInv
<1> QED  BY <1>2, <1>3

LEMMA RequeueQInv ==
    ASSUME QInv, NEW w \in Workers, NEW delay \in 0 .. MaxDelay, Requeue(w, delay) PROVE QInv'
<1> DEFINE t == held[w].task
<1>1. t \in TaskIds /\ held' = [held EXCEPT ![w] = Idle]
  BY DEF Requeue, QInv, ClaimsAreSound
<1>2. CASE tasks' = tasks
  BY <1>1, <1>2, LetGo
<1>3. CASE tasks' # tasks
  <2>1. /\ Owns(w, t) /\ ~Locked(t)
        /\ tasks' = [tasks EXCEPT ![t] = QueuedRow(tasks[t].run, delay)]
    BY <1>3 DEF Requeue
  <2>2. /\ tasks' \in [TaskIds -> Row]
        /\ tasks'[t].status = "QUEUED" /\ tasks'[t].left = 0 /\ tasks'[t].run = tasks[t].run
        /\ \A u \in TaskIds \ {t} : tasks'[u] = tasks[u]
    BY <1>1, <2>1 DEF QInv, QueueTypeOK, Row, QueuedRow
  <2>3. /\ held' \in [Workers -> Holding]
        /\ ~Working(w)' /\ held'[w].phase # "claiming" /\ held'[w].phase # "lost"
        /\ \A v \in Workers \ {w} : held'[v] = held[v]
    BY <1>1, IdleFacts DEF QInv, QueueTypeOK, Working
  <2>4. \A v \in Workers : held[v].phase = "claiming" => held[v].task # t
    BY <2>1 DEF Locked
  <2>5. \A v \in Workers \ {w} : Working(v) /\ held[v].task = t => ~(held[v].left > 0)
    BY <1>1, <2>1, DoneRowFacts DEF QInv, BeliefIsSound, Owns
  <2>6. QueueTypeOK' /\ RowsAreSound'
    BY <2>2, <2>3 DEF QInv, QueueTypeOK, RowsAreSound
  <2>7. OneOutstandingPerRun' /\ LeaseExclusion'
    <3>1. IsOutstanding(t) /\ \A u \in TaskIds : IsOutstanding(u)' => IsOutstanding(u)
      BY <2>1, <2>2 DEF IsOutstanding, Owns
    <3>2. OneOutstandingPerRun'
      BY <2>2, <3>1 DEF QInv, OneOutstandingPerRun
    <3>3. \A v \in Workers : Working(v)' => Working(v) /\ held'[v] = held[v]
      BY <2>3 DEF Working
    <3>4. LeaseExclusion'
      BY <2>2, <3>3 DEF QInv, LeaseExclusion
    <3> QED  BY <3>2, <3>4
  <2>8. ClaimsAreSound'
    BY <2>2, <2>3, <2>4 DEF QInv, ClaimsAreSound, IsOutstanding, Working
  <2>9. BeliefIsSound'
    BY <2>2, <2>3, <2>5 DEF QInv, BeliefIsSound, ClaimsAreSound, Owns, Working
  <2>10. LostIsForGood'
    BY <2>2, <2>3 DEF QInv, LostIsForGood, ClaimsAreSound, Owns, Working
  <2> QED  BY <2>6, <2>7, <2>8, <2>9, <2>10 DEF QInv
<1> QED  BY <1>2, <1>3

\* A clock that runs down keeps its range and its order.
LEMMA LessFacts ==
    /\ \A m \in Nat : \A n \in 0 .. m : Less(n) \in 0 .. m /\ Less(n) <= n
    /\ \A m, n \in Nat : m <= n => Less(m) <= Less(n)
    /\ Less(0) = 0
BY DEF Less

LEMMA PassTimeQInv == ASSUME QInv, PassTime PROVE QInv'
<1>4. ASSUME NEW t \in TaskIds
      PROVE  /\ tasks'[t] \in Row
             /\ tasks'[t].status = tasks[t].status /\ tasks'[t].owner = tasks[t].owner
             /\ tasks'[t].run = tasks[t].run /\ tasks'[t].left = Less(tasks[t].left)
             /\ tasks[t] = DoneRow => tasks'[t] = DoneRow
             /\ tasks[t].left \in 0 .. TTL
  <2>1. tasks[t] \in Row /\ tasks[t].left \in 0 .. TTL
    BY DEF QInv, QueueTypeOK, Row
  <2>2. CASE IsOutstanding(t)
    <3>1. tasks'[t] = [tasks[t] EXCEPT !.left = Less(tasks[t].left), !.after = Less(tasks[t].after)]
      BY <2>2 DEF PassTime
    <3>2. Less(tasks[t].left) \in 0 .. TTL /\ Less(tasks[t].after) \in 0 .. MaxDelay
      BY <2>1, LessFacts DEF Row
    <3>3. tasks[t] # DoneRow
      BY <2>2, DoneRowFacts DEF IsOutstanding
    <3> QED  BY <2>1, <3>1, <3>2, <3>3 DEF Row
  <2>3. CASE ~IsOutstanding(t)
    <3>1. tasks'[t] = tasks[t]
      BY <2>3 DEF PassTime
    <3>2. tasks[t].left = 0
      BY <2>1, <2>3 DEF IsOutstanding, QInv, RowsAreSound
    <3> QED  BY <2>1, <3>1, <3>2, LessFacts
  <2> QED  BY <2>2, <2>3
<1>6. ASSUME NEW w \in Workers
      PROVE  /\ held'[w] \in Holding
             /\ held'[w].phase = held[w].phase /\ held'[w].task = held[w].task
             /\ held'[w].left = Less(held[w].left)
             /\ held[w].left \in 0 .. TTL
  <2>1. held[w] \in Holding /\ held'[w] = [held[w] EXCEPT !.left = Less(held[w].left)]
    BY DEF PassTime, QInv, QueueTypeOK
  <2>2. Less(held[w].left) \in 0 .. TTL /\ held[w].left \in 0 .. TTL
    BY <2>1, LessFacts DEF Holding
  <2> QED  BY <2>1, <2>2 DEF Holding
<1>7. /\ \A t \in TaskIds : tasks[t].left \in Nat
      /\ \A w \in Workers : held[w].left \in Nat
  BY <1>4, <1>6
<1>8. QueueTypeOK'
  BY <1>4, <1>6 DEF QueueTypeOK, PassTime
<1>9. RowsAreSound' /\ ClaimsAreSound'
  BY LessFacts, <1>4, <1>6 DEF QInv, RowsAreSound, ClaimsAreSound, IsOutstanding, Working
<1>10. OneOutstandingPerRun' /\ LostIsForGood'
  BY <1>4, <1>6 DEF QInv, OneOutstandingPerRun, IsOutstanding, LostIsForGood, ClaimsAreSound,
     Owns, Working
<1>11. BeliefIsSound'
  <2> SUFFICES ASSUME NEW w \in Workers, Working(w)', held'[w].left > 0
               PROVE  \/ Owns(w, held[w].task)' /\ held'[w].left <= tasks'[held[w].task].left
                      \/ tasks'[held[w].task] = DoneRow
    BY <1>6 DEF BeliefIsSound, Owns
  <2>1. Working(w) /\ held[w].left > 0 /\ held[w].task \in TaskIds
    BY <1>6 DEF Working, Less, QInv, ClaimsAreSound
  <2>2. \/ Owns(w, held[w].task) /\ held[w].left <= tasks[held[w].task].left
        \/ tasks[held[w].task] = DoneRow
    BY <2>1 DEF QInv, BeliefIsSound
  <2> QED  BY LessFacts, <1>4, <1>6, <1>7, <2>1, <2>2 DEF Owns
<1>12. LeaseExclusion'
  BY LessFacts, <1>6 DEF QInv, LeaseExclusion, Working
<1> QED  BY <1>8, <1>9, <1>10, <1>11, <1>12 DEF QInv

LEMMA EnqueueQInv ==
    ASSUME QInv, NEW r \in Runs, NEW delay \in 0 .. MaxDelay, Enqueue(r, delay) PROVE QInv'
<1>1. CASE UNCHANGED tasks
  BY <1>1 DEF Enqueue, QInv, QueueTypeOK, RowsAreSound, ClaimsAreSound, OneOutstandingPerRun,
     BeliefIsSound, LeaseExclusion, LostIsForGood, Working, IsOutstanding, Owns
<1>2. CASE tasks' # tasks
  <2>1. /\ Outstanding(r) = {} /\ held' = held
        /\ \E t \in TaskIds :
              /\ tasks[t] = DoneRow
              /\ \A w \in Workers : ~Refers(w, t)
              /\ tasks' = [tasks EXCEPT ![t] = QueuedRow(r, delay)]
    BY <1>2 DEF Enqueue, Insert
  <2>2. PICK t \in TaskIds :
              /\ \A w \in Workers : held[w].task # t
              /\ tasks' = [tasks EXCEPT ![t] = QueuedRow(r, delay)]
    BY <2>1 DEF Refers
  <2>3. /\ tasks' \in [TaskIds -> Row]
        /\ tasks'[t].status = "QUEUED" /\ tasks'[t].left = 0 /\ tasks'[t].run = r
        /\ \A u \in TaskIds \ {t} : tasks'[u] = tasks[u]
    BY <2>2 DEF QInv, QueueTypeOK, Row, QueuedRow
  <2>4. QueueTypeOK' /\ RowsAreSound' /\ LeaseExclusion'
    BY <2>1, <2>3 DEF QInv, QueueTypeOK, RowsAreSound, LeaseExclusion, Working
  <2>5. OneOutstandingPerRun'
    BY <2>1, <2>3 DEF QInv, OneOutstandingPerRun, IsOutstanding, Outstanding
  <2>6. ClaimsAreSound'
    BY <2>1, <2>2, <2>3 DEF QInv, ClaimsAreSound, IsOutstanding, Working
  <2>7. BeliefIsSound' /\ LostIsForGood'
    BY <2>1, <2>2, <2>3 DEF QInv, BeliefIsSound, LostIsForGood, ClaimsAreSound, Owns, Working
  <2> QED  BY <2>4, <2>5, <2>6, <2>7 DEF QInv
<1> QED  BY <1>1, <1>2

LEMMA FinishQInv == ASSUME QInv, NEW r \in Runs, FinishOutstanding(r) PROVE QInv'
<1>1. Outstanding(r) \in SUBSET TaskIds
  BY DEF Outstanding
<1> QED  BY <1>1, RowsDone DEF FinishOutstanding, Finish

LEMMA NextQInv == ASSUME QInv, [QueueNext]_queueVars PROVE QInv'
<1>1. CASE UNCHANGED queueVars
  BY <1>1 DEF queueVars, QInv, QueueTypeOK, RowsAreSound, ClaimsAreSound, OneOutstandingPerRun,
     BeliefIsSound, LeaseExclusion, LostIsForGood, Working, IsOutstanding, Owns
<1>2. ASSUME NEW w \in Workers, Abandon(w) \/ Crash(w)  PROVE QInv'
  BY <1>2, LetGo DEF Abandon, Crash
<1>3. ASSUME NEW w \in Workers, NEW delay \in 0 .. MaxDelay, Requeue(w, delay)  PROVE QInv'
  BY <1>3, RequeueQInv
<1>4. ASSUME NEW w \in Workers, NEW t \in TaskIds, Lock(w, t)  PROVE QInv'
  BY <1>4, LockQInv
<1>5. ASSUME NEW w \in Workers, Claim(w) \/ Heartbeat(w) \/ Release(w)  PROVE QInv'
  BY <1>5, ClaimQInv, HeartbeatQInv, ReleaseQInv
<1>6. CASE PassTime
  BY <1>6, PassTimeQInv
<1>7. ASSUME NEW r \in Runs, NEW delay \in 0 .. MaxDelay, Enqueue(r, delay)  PROVE QInv'
  BY <1>7, EnqueueQInv
<1>8. ASSUME NEW r \in Runs, FinishOutstanding(r)  PROVE QInv'
  BY <1>8, FinishQInv
<1> QED  BY <1>1, <1>2, <1>3, <1>4, <1>5, <1>6, <1>7, <1>8 DEF QueueNext

\* The inductive invariant holds of every behaviour.
THEOREM QueueInvariant == QueueSpec => []QInv
BY InitQInv, NextQInv, PTL DEF QueueSpec

\* However claims, heartbeats, requeues, crashes and time interleave: a run has
\* one outstanding task at most, a lease is exclusive, a worker's own copy of
\* its lease is never too generous, and a lost lease is lost for good.
THEOREM QueueSafety ==
    QueueSpec => [](QueueTypeOK /\ OneOutstandingPerRun /\ LeasesAreSound)
<1>1. QInv => QueueTypeOK /\ OneOutstandingPerRun /\ LeasesAreSound
  BY DEF QInv, LeasesAreSound
<1> QED  BY <1>1, QueueInvariant, PTL


\* A live lease leaves its owner only by the owner's act or because the run
\* settled.
THEOREM QueueLiveLease == QueueSpec => LiveLeaseIsRespected
<1> DEFINE Respected ==
        \A t \in TaskIds, w \in Workers :
            Owns(w, t) /\ tasks[t].left > 0 =>
                \/ tasks'[t].status = "LEASED" /\ tasks'[t].owner = w
                \/ held'[w] = Idle
                \/ tasks'[t] = DoneRow /\ held' = held
<1>1. ASSUME QInv, [QueueNext]_queueVars  PROVE [Respected]_queueVars
  <2> SUFFICES ASSUME QueueNext, NEW t \in TaskIds, NEW w \in Workers,
                      Owns(w, t), tasks[t].left > 0
               PROVE  \/ tasks'[t].status = "LEASED" /\ tasks'[t].owner = w
                      \/ held'[w] = Idle
                      \/ tasks'[t] = DoneRow /\ held' = held
    BY <1>1
  <2>1. /\ tasks \in [TaskIds -> Row] /\ held \in [Workers -> Holding]
        /\ tasks[t].status = "LEASED" /\ tasks[t].owner = w
    BY <1>1 DEF QInv, QueueTypeOK, Owns
  <2>2. ASSUME NEW v \in Workers, \/ Abandon(v) \/ Crash(v) \/ \E u \in TaskIds : Lock(v, u)
        PROVE  tasks' = tasks
    BY <2>2 DEF Abandon, Crash, Lock
  <2>3. ASSUME NEW v \in Workers, Claim(v)  PROVE tasks'[t] = tasks[t]
    <3>1. tasks[held[v].task].left = 0
      BY <1>1, <2>3 DEF QInv, ClaimsAreSound, Claim
    <3> QED  BY <2>1, <2>3, <3>1 DEF Claim
  <2>4. ASSUME NEW v \in Workers, Heartbeat(v)
        PROVE  tasks'[t].status = "LEASED" /\ tasks'[t].owner = w
    <3>1. tasks' = tasks \/ tasks' = [tasks EXCEPT ![held[v].task].left = TTL]
      BY <2>4 DEF Heartbeat
    <3> QED  BY <2>1, <3>1 DEF Row
  <2>5. ASSUME NEW v \in Workers,
               Release(v) \/ \E delay \in 0 .. MaxDelay : Requeue(v, delay)
        PROVE  tasks'[t] = tasks[t] \/ held'[w] = Idle
    <3>1. CASE v = w
      BY <2>1, <2>5, <3>1 DEF Release, Requeue
    <3>2. CASE v # w
      <4>1. ~Owns(v, t)
        BY <2>1, <3>2 DEF Owns
      <4> QED  BY <2>1, <2>5, <4>1 DEF Release, Requeue, Owns
    <3> QED  BY <3>1, <3>2
  <2>6. ASSUME PassTime
        PROVE  tasks'[t].status = "LEASED" /\ tasks'[t].owner = w
    <3>1. tasks'[t] = [tasks[t] EXCEPT !.left = Less(tasks[t].left), !.after = Less(tasks[t].after)]
      BY <2>1, <2>6 DEF PassTime, IsOutstanding
    <3> QED  BY <2>1, <3>1 DEF Row
  <2>7. ASSUME NEW r \in Runs, NEW delay \in 0 .. MaxDelay, Enqueue(r, delay)
        PROVE  tasks'[t] = tasks[t]
    BY <2>1, <2>7, DoneRowFacts DEF Enqueue, Insert
  <2>8. ASSUME NEW r \in Runs, FinishOutstanding(r)
        PROVE  tasks'[t] = tasks[t] \/ (tasks'[t] = DoneRow /\ held' = held)
    BY <2>8 DEF FinishOutstanding, Finish
  <2> QED  BY <2>1, <2>2, <2>3, <2>4, <2>5, <2>6, <2>7, <2>8 DEF QueueNext
<1>2. QueueSpec => [][Respected]_queueVars
  BY <1>1, QueueInvariant, PTL DEF QueueSpec
<1> QED  BY <1>2 DEF LiveLeaseIsRespected

(***************************************************************************)
(* With processes scheduled in time, the heartbeat keeps every lease alive.*)
(***************************************************************************)

TimelyInv ==
    Timely => \A w \in Workers :
        /\ held[w].phase = "claiming" => held[w].left = TTL
        /\ held[w].phase = "working" =>
              /\ held[w].left > 0
              /\ Owns(w, held[w].task) \/ tasks[held[w].task] = DoneRow
        /\ held[w].phase = "lost" => tasks[held[w].task] = DoneRow

LEMMA TimelyStep == ASSUME QInv, TimelyInv, Timely, [QueueNext]_queueVars PROVE TimelyInv'
<1> USE DEF Working
<1>1. /\ tasks \in [TaskIds -> Row] /\ held \in [Workers -> Holding]
      /\ \A w \in Workers : held[w].phase \in {"claiming", "working", "lost"} => held[w].task \in TaskIds
      /\ \A w \in Workers : held[w].left \in 0 .. TTL
  BY DEF QInv, QueueTypeOK, ClaimsAreSound, Holding
<1>2. CASE UNCHANGED queueVars
  BY <1>2 DEF queueVars, TimelyInv, Owns
<1>3. ASSUME NEW v \in Workers, Abandon(v) \/ Crash(v)  PROVE TimelyInv'
  <2>1. /\ tasks' = tasks /\ held'[v].phase \in {"idle", "dead"}
        /\ \A w \in Workers \ {v} : held'[w] = held[w]
    BY <1>1, <1>3, IdleFacts DEF Abandon, Crash
  <2> QED  BY <2>1 DEF TimelyInv, Owns
<1>4. ASSUME NEW v \in Workers, NEW t \in TaskIds, Lock(v, t)  PROVE TimelyInv'
  <2>1. /\ tasks' = tasks /\ held'[v].phase = "claiming" /\ held'[v].left = TTL
        /\ \A w \in Workers \ {v} : held'[w] = held[w]
    BY <1>1, <1>4 DEF Lock, Holds
  <2> QED  BY <2>1 DEF TimelyInv, Owns
<1>5. ASSUME NEW v \in Workers, Claim(v)  PROVE TimelyInv'
  <2> DEFINE t == held[v].task
  <2>1. /\ t \in TaskIds /\ IsOutstanding(t) /\ tasks[t].left = 0 /\ held[v].left = TTL
    BY <1>5 DEF Claim, QInv, ClaimsAreSound, TimelyInv
  <2>2. /\ tasks'[t].status = "LEASED" /\ tasks'[t].owner = v
        /\ \A u \in TaskIds \ {t} : tasks'[u] = tasks[u]
    BY <1>1, <1>5, <2>1 DEF Claim, Row
  <2>3. /\ held'[v].phase = "working" /\ held'[v].left = TTL /\ held'[v].task = t
        /\ \A w \in Workers \ {v} : held'[w] = held[w]
    BY <1>1, <1>5, <2>1 DEF Claim, Holding
  <2>4. tasks[t] # DoneRow
    BY <2>1, DoneRowFacts DEF IsOutstanding
  <2>5. ASSUME NEW w \in Workers \ {v}, held[w].phase \in {"working", "lost"}  PROVE held[w].task # t
    <3> SUFFICES ASSUME held[w].task = t PROVE FALSE
      OBVIOUS
    <3>1. held[w].left > 0
      BY <2>4, <2>5 DEF TimelyInv
    <3> QED  BY <1>1, <2>1, <2>4, <2>5, <3>1 DEF QInv, BeliefIsSound
  <2> QED  BY <1>1, <2>2, <2>3, <2>5 DEF TimelyInv, Owns
<1>6. ASSUME NEW v \in Workers, Heartbeat(v)  PROVE TimelyInv'
  <2> DEFINE t == held[v].task
  <2>1. t \in TaskIds /\ held[v].phase = "working"
    BY <1>1, <1>6 DEF Heartbeat
  <2>2. CASE Owns(v, t)
    <3>1. tasks' = [tasks EXCEPT ![t].left = TTL] /\ held' = [held EXCEPT ![v].left = TTL]
      BY <1>1, <1>6, <2>1, <2>2 DEF Heartbeat, Row
    <3>2. /\ tasks'[t].status = "LEASED" /\ tasks'[t].owner = v
          /\ \A u \in TaskIds \ {t} : tasks'[u] = tasks[u]
      BY <1>1, <2>1, <2>2, <3>1 DEF Owns, Row
    <3>3. /\ held'[v].phase = "working" /\ held'[v].left = TTL /\ held'[v].task = t
          /\ \A w \in Workers \ {v} : held'[w] = held[w]
      BY <1>1, <2>1, <3>1 DEF Holding
    <3>4. tasks[t] # DoneRow
      BY <2>2, DoneRowFacts DEF Owns
    <3>5. ASSUME NEW w \in Workers \ {v}, held[w].phase \in {"working", "lost"}
          PROVE  held[w].task # t
      BY <2>2, <3>4, <3>5 DEF TimelyInv, Owns
    <3> QED  BY <1>1, <3>2, <3>3, <3>5 DEF TimelyInv, Owns
  <2>3. CASE ~Owns(v, t)
    <3>1. tasks' = tasks /\ held' = [held EXCEPT ![v].phase = "lost"]
      BY <1>6, <2>3 DEF Heartbeat
    <3>2. tasks[t] = DoneRow
      BY <2>1, <2>3 DEF TimelyInv
    <3>3. /\ held'[v].phase = "lost" /\ held'[v].task = t
          /\ \A w \in Workers \ {v} : held'[w] = held[w]
      BY <1>1, <3>1 DEF Holding
    <3> QED  BY <3>1, <3>2, <3>3 DEF TimelyInv, Owns
  <2> QED  BY <2>2, <2>3
<1>7. ASSUME NEW v \in Workers, Release(v) \/ \E delay \in 0 .. MaxDelay : Requeue(v, delay)
      PROVE  TimelyInv'
  <2> DEFINE t == held[v].task
  <2>1. t \in TaskIds /\ held' = [held EXCEPT ![v] = Idle]
    BY <1>1, <1>7 DEF Release, Requeue
  <2>2. held'[v].phase = "idle" /\ \A w \in Workers \ {v} : held'[w] = held[w]
    BY <1>1, <2>1, IdleFacts
  <2>3. CASE Owns(v, t)
    <3>1. \A u \in TaskIds \ {t} : tasks'[u] = tasks[u]
      BY <1>1, <1>7, <2>1 DEF Release, Requeue
    <3>2. tasks[t] # DoneRow
      BY <2>3, DoneRowFacts DEF Owns
    <3>3. ASSUME NEW w \in Workers \ {v}, held[w].phase \in {"working", "lost"}
          PROVE  held[w].task # t
      BY <2>3, <3>2, <3>3 DEF TimelyInv, Owns
    <3> QED  BY <1>1, <2>2, <3>1, <3>3 DEF TimelyInv, Owns
  <2>4. CASE ~Owns(v, t)
    <3>1. tasks' = tasks
      BY <1>7, <2>4 DEF Release, Requeue
    <3> QED  BY <2>2, <3>1 DEF TimelyInv, Owns
  <2> QED  BY <2>3, <2>4
<1>8. CASE PassTime
  <2>1. \A w \in Workers :
          /\ held[w].phase # "claiming"
          /\ held[w].phase = "working" => held[w].left > TTL - Interval
    <3>1. \A w \in Workers : held[w].phase # "claiming" /\ (held[w].phase = "working" => ~RenewalDue(w))
      BY <1>8, Zenon DEF PassTime
    <3>2. \A w \in Workers : ~RenewalDue(w) => held[w].left > TTL - Interval
      BY <1>1 DEF RenewalDue
    <3> QED  BY <3>1, <3>2
  <2>2. \A w \in Workers :
          /\ held'[w].phase = held[w].phase /\ held'[w].task = held[w].task
          /\ held'[w].left = Less(held[w].left)
    BY <1>1, <1>8 DEF PassTime, Holding
  <2>3. \A t \in TaskIds :
          /\ tasks'[t].status = tasks[t].status /\ tasks'[t].owner = tasks[t].owner
          /\ tasks[t] = DoneRow => tasks'[t] = DoneRow
    <3> TAKE t \in TaskIds
    <3>1. CASE IsOutstanding(t)
      BY <1>1, <1>8, <3>1, DoneRowFacts DEF PassTime, Row, IsOutstanding
    <3>2. CASE ~IsOutstanding(t)
      BY <1>8, <3>2 DEF PassTime
    <3> QED  BY <3>1, <3>2
  <2>4. \A w \in Workers : held[w].phase = "working" => Less(held[w].left) > 0
    BY <1>1, <2>1 DEF Less
  <2> QED  BY <1>1, <2>1, <2>2, <2>3, <2>4 DEF TimelyInv, Owns
<1>9. ASSUME NEW r \in Runs, NEW delay \in 0 .. MaxDelay, Enqueue(r, delay)  PROVE TimelyInv'
  <2>1. /\ held' = held
        /\ \A t \in TaskIds : tasks'[t] = tasks[t] \/ \A w \in Workers : held[w].task # t
    BY <1>1, <1>9 DEF Enqueue, Insert, Refers
  <2> QED  BY <1>1, <2>1 DEF TimelyInv, Owns
<1>10. ASSUME NEW r \in Runs, FinishOutstanding(r)  PROVE TimelyInv'
  <2>1. held' = held /\ \A t \in TaskIds : tasks'[t] = tasks[t] \/ tasks'[t] = DoneRow
    BY <1>10 DEF FinishOutstanding, Finish
  <2> QED  BY <1>1, <2>1 DEF TimelyInv, Owns
<1> QED  BY <1>2, <1>3, <1>4, <1>5, <1>6, <1>7, <1>8, <1>9, <1>10 DEF QueueNext

\* Renewing once an interval of a lease longer than that is enough: no worker
\* that is scheduled in time ever loses its task to another.
THEOREM QueueTimely == QueueSpec => []TimelyKeepsLease
<1>1. QueueInit => TimelyInv
  BY IdleFacts DEF QueueInit, TimelyInv
<1>2. ASSUME QInv, TimelyInv, [QueueNext]_queueVars  PROVE TimelyInv'
  BY <1>2, TimelyStep DEF TimelyInv
<1>3. QInv /\ TimelyInv => TimelyKeepsLease
  BY DEF TimelyInv, TimelyKeepsLease, Working
<1> QED  BY <1>1, <1>2, <1>3, QueueInvariant, PTL DEF QueueSpec
=============================================================================
