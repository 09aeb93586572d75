----------------------------- MODULE IngestProofs -----------------------------
(****************************************************************************)
(* Proofs about the ingest queue and the scheduler, for every number of     *)
(* shards, crawls, workers, ingests, tasks and crashes.                     *)
(****************************************************************************)
EXTENDS IngestScheduler, FiniteSetTheorems, TLAPS

USE QueueAssumption DEF QueueAssumption

-----------------------------------------------------------------------------
(* Types *)

\* Rows of the table are rows, and their ids within the bound.
LEMMA InTheTable == ASSUME QueueTypeOK, NEW i \in DOMAIN queue
                    PROVE  i \in 1..MaxTasks /\ queue[i] \in TaskRow
  BY DEF QueueTypeOK

Status == {"PENDING", "RUNNING", "DONE", "FAILED"}

\* A row with another status is the same row otherwise.
LEMMA RowTypes ==
  ASSUME NEW row \in TaskRow, NEW status \in Status
  PROVE  As(row, status) \in TaskRow /\ As(row, status).shard = row.shard
         /\ As(row, status).status = status
  BY DEF TaskRow, As, Status

\* Marking a task changes the status of that task only.
LEMMA MarkTypes ==
  ASSUME QueueTypeOK, NEW i \in DOMAIN queue, NEW status \in Status, Mark(i, status)
  PROVE  /\ queue' \in Seq(TaskRow) /\ Len(queue') <= MaxTasks
         /\ DOMAIN queue' = DOMAIN queue
         /\ \A j \in DOMAIN queue : queue'[j].shard = queue[j].shard
         /\ queue'[i].status = status
         /\ \A j \in DOMAIN queue \ {i} : queue'[j] = queue[j]
<1>1. queue[i] \in TaskRow /\ queue \in Seq(TaskRow)
  BY DEF QueueTypeOK
<1>2. queue' = [queue EXCEPT ![i] = As(queue[i], status)]
  BY DEF Mark
<1>3. As(queue[i], status) \in TaskRow
  BY <1>1, RowTypes
<1>4. queue' \in Seq(TaskRow) /\ Len(queue') = Len(queue)
  BY <1>1, <1>2, <1>3
<1> QED
  BY <1>1, <1>2, <1>4, RowTypes DEF QueueTypeOK

JobRow == [task : 0..MaxTasks, step : Step]

\* A worker that moves on keeps its task.
LEMMA GotoTypes ==
  ASSUME QueueTypeOK, NEW w \in DOMAIN jobs, NEW step \in Step, Goto(w, step)
  PROVE  /\ DOMAIN jobs' = DOMAIN jobs
         /\ jobs' \in [DOMAIN jobs -> JobRow]
         /\ \A v \in DOMAIN jobs : jobs'[v].task = jobs[v].task
         /\ jobs'[w].step = step
<1>1. jobs \in [DOMAIN jobs -> JobRow]
  BY DEF QueueTypeOK, JobRow
<1>2. PICK row \in JobRow : row.task = jobs[w].task /\ row.step = step /\ jobs' = [jobs EXCEPT ![w] = row]
  <2>1. PICK job \in JobRow : job = jobs[w]
    BY <1>1
  <2>2. /\ [job EXCEPT !.step = step] \in JobRow
        /\ [job EXCEPT !.step = step].task = job.task /\ [job EXCEPT !.step = step].step = step
    BY DEF JobRow
  <2>3. jobs' = [jobs EXCEPT ![w] = [job EXCEPT !.step = step]]
    BY <2>1 DEF Goto
  <2> QED
    BY <2>1, <2>2, <2>3
<1> QED
  BY <1>1, <1>2

\* The table stays a table when a task is enqueued.
LEMMA EnqueueTypes ==
  ASSUME QueueTypeOK, NEW s \in Shard, NEW kind \in Kind, Enqueue(s, kind)
  PROVE  queue' \in Seq(TaskRow) /\ Len(queue') <= MaxTasks
<1>1. CASE UNCHANGED queue
  BY <1>1 DEF QueueTypeOK
<1>2. CASE Len(queue) < MaxTasks
           /\ queue' = Append(queue, [shard |-> s, kind |-> kind, status |-> "PENDING"])
  <2>1. [shard |-> s, kind |-> kind, status |-> "PENDING"] \in TaskRow
    BY DEF TaskRow
  <2>2. queue \in Seq(TaskRow) /\ Len(queue) \in Nat
    BY DEF QueueTypeOK
  <2>3. PICK row \in TaskRow : queue' = Append(queue, row)
    BY <1>2, <2>1
  <2> QED
    BY <1>2, <2>2, <2>3
<1> QED
  BY <1>1, <1>2 DEF Enqueue

\* Recovery keeps every row and leaves none RUNNING.
LEMMA RecoverTypes ==
  ASSUME QueueTypeOK, RecoverQueue
  PROVE  /\ queue' \in Seq(TaskRow) /\ Len(queue') = Len(queue)
         /\ \A i \in DOMAIN queue : queue'[i] \in TaskRow /\ queue'[i].shard = queue[i].shard
                                    /\ queue'[i].status # "RUNNING"
<1>1. queue \in Seq(TaskRow) /\ Len(queue) \in Nat /\ DOMAIN queue = 1..Len(queue)
  BY DEF QueueTypeOK
<1>2. \A i \in DOMAIN queue : queue'[i] \in TaskRow /\ queue'[i].shard = queue[i].shard
                              /\ queue'[i].status # "RUNNING"
  <2> SUFFICES ASSUME NEW i \in DOMAIN queue
               PROVE  queue'[i] \in TaskRow /\ queue'[i].shard = queue[i].shard
                      /\ queue'[i].status # "RUNNING"
    OBVIOUS
  <2>1. queue[i] \in TaskRow
    BY <1>1
  <2>2. queue'[i] = IF i \in Running THEN As(queue[i], "PENDING") ELSE queue[i]
    BY DEF RecoverQueue
  <2> QED
    BY <2>1, <2>2, RowTypes DEF Status, Running, InStatus
<1>3. DOMAIN queue' = DOMAIN queue
  BY DEF RecoverQueue
<1>4. queue' \in Seq(TaskRow) /\ Len(queue') = Len(queue)
  <2>1. queue' = [i \in 1..Len(queue) |-> queue'[i]]
    BY <1>1 DEF RecoverQueue
  <2>2. queue' \in [1..Len(queue) -> TaskRow]
    BY <1>1, <1>2, <2>1
  <2> QED
    BY <1>1, <2>2
<1> QED
  BY <1>2, <1>4

CrawlRow == [at : Process, known : SUBSET Shard, todo : SUBSET Shard, drains : BOOLEAN]

\* The types under a worker's step, a crawl's and any step of the queue.
LEMMA WorkerTypes == ASSUME QueueTypeOK, NEW c \in Crawl, NEW w \in Workers(c), WorkerStep(w)
                     PROVE  QueueTypeOK'
<1>0. w \in Worker
  BY DEF Workers
<1>1. CASE ClaimNext(w)
  <2>1. PICK i \in Claimable : Mark(i, "RUNNING")
          /\ jobs' = [jobs EXCEPT ![w] = [task |-> i, step |-> FirstStep(w, i)]]
    BY <1>1 DEF ClaimNext
  <2>2. i \in DOMAIN queue
    BY DEF Claimable, Pending, InStatus
  <2>3. i \in 1..MaxTasks
    BY <2>2, InTheTable
  <2>4. queue' \in Seq(TaskRow) /\ Len(queue') <= MaxTasks
    BY <2>1, <2>2, MarkTypes DEF Status
  <2>5. FirstStep(w, i) \in Step
    BY DEF FirstStep, Step
  <2>6. [task |-> i, step |-> FirstStep(w, i)] \in JobRow
    BY <2>3, <2>5 DEF JobRow
  <2>7. jobs' \in [DOMAIN jobs -> JobRow]
    <3>1. PICK job \in JobRow : jobs' = [jobs EXCEPT ![w] = job]
      BY <2>1, <2>6
    <3> QED
      BY <3>1 DEF QueueTypeOK, JobRow
  <2> QED
    BY <1>1, <2>4, <2>7 DEF ClaimNext, QueueTypeOK, JobRow
<1>2. CASE LeaveQueue(w)
  BY <1>2 DEF LeaveQueue, Without, QueueTypeOK
<1>3. CASE StartTask(w) \/ CrawlThrows(w) \/ CrawlEnds(w) \/ SettleTask(w)
  <2>1. PICK step \in Step : Goto(w, step)
    BY <1>3 DEF StartTask, CrawlThrows, CrawlEnds, SettleTask, Step
  <2>2. w \in DOMAIN jobs
    BY <1>3 DEF StartTask, CrawlThrows, CrawlEnds, SettleTask, At
  <2>3. DOMAIN jobs' = DOMAIN jobs /\ jobs' \in [DOMAIN jobs -> JobRow]
    BY <2>1, <2>2, GotoTypes
  <2>4. shardStatus' \in [Shard -> {"ACTIVE", "INGESTING", "SPLIT"}]
    BY <1>3 DEF StartTask, CrawlThrows, CrawlEnds, SettleTask, QueueTypeOK,
                Ingesting, GiveUp, RollUp, SettleShard
  <2>5. UNCHANGED <<queue, open, crawls, crashes>>
    BY <1>3 DEF StartTask, CrawlThrows, CrawlEnds, SettleTask
  <2> QED
    BY <2>3, <2>4, <2>5 DEF QueueTypeOK, JobRow
<1>4. CASE CompleteTask(w)
  <2>1. PICK status \in Status : Mark(jobs[w].task, status)
    BY <1>4 DEF CompleteTask, Status
  <2>2. queue' \in Seq(TaskRow) /\ Len(queue') <= MaxTasks
    <3>1. CASE jobs[w].task \in DOMAIN queue
      BY <2>1, <3>1, MarkTypes
    <3>2. CASE jobs[w].task \notin DOMAIN queue
      <4>1. queue' = queue
        BY <2>1, <3>2 DEF Mark, QueueTypeOK
      <4> QED
        BY <4>1 DEF QueueTypeOK
    <3> QED
      BY <3>1, <3>2
  <2>3. [task |-> None, step |-> "claim"] \in JobRow
    BY DEF JobRow, Step, None
  <2>4. jobs' \in [DOMAIN jobs -> JobRow]
    <3>1. PICK job \in JobRow : jobs' = [jobs EXCEPT ![w] = job]
      BY <1>4, <2>3 DEF CompleteTask
    <3> QED
      BY <3>1 DEF QueueTypeOK, JobRow
  <2> QED
    BY <1>4, <2>2, <2>4 DEF CompleteTask, QueueTypeOK, JobRow
<1> QED
  BY <1>1, <1>2, <1>3, <1>4 DEF WorkerStep

LEMMA CrawlTypes == ASSUME QueueTypeOK, NEW c \in Crawl, CrawlStep(c)
                    PROVE  QueueTypeOK'
<1>1. CASE \E s \in Shard, kind \in Kind : Discover(c, s, kind)
  <2>1. PICK s \in Shard, kind \in Kind : Discover(c, s, kind)
    BY <1>1
  <2>2. queue' \in Seq(TaskRow) /\ Len(queue') <= MaxTasks
    BY <2>1, EnqueueTypes DEF Discover
  <2>3. crawls' \in [DOMAIN crawls -> CrawlRow]
    BY <2>1 DEF Discover, QueueTypeOK, CrawlRow
  <2> QED
    BY <2>1, <2>2, <2>3 DEF Discover, QueueTypeOK, CrawlRow
<1>2. CASE Drain(c)
  <2>1. crawls' \in [DOMAIN crawls -> CrawlRow]
    BY <1>2, ZenonT(60) DEF Drain, QueueTypeOK, CrawlRow
  <2>2. [task |-> None, step |-> "claim"] \in JobRow
    BY DEF JobRow, Step, None
  <2>3. jobs' \in [DOMAIN jobs \cup Workers(c) -> JobRow]
    <3>1. PICK job \in JobRow : jobs' = [w \in DOMAIN jobs \cup Workers(c) |->
                                           IF w \in Workers(c) THEN job ELSE jobs[w]]
      BY <1>2, <2>2 DEF Drain
    <3> QED
      BY <3>1 DEF QueueTypeOK, JobRow
  <2>4. Workers(c) \subseteq Worker
    BY DEF Workers
  <2> QED
    BY <1>2, <2>1, <2>3, <2>4 DEF Drain, QueueTypeOK, JobRow, CrawlRow
<1>3. CASE \E w \in Workers(c) : WorkerStep(w)
  BY <1>3, WorkerTypes
<1>4. CASE DiscoveryFails(c) \/ Return(c)
  BY <1>4 DEF DiscoveryFails, Return, Without, QueueTypeOK
<1> QED
  BY <1>1, <1>2, <1>3, <1>4 DEF CrawlStep

LEMMA QueueTypes == QueueTypeOK /\ [QueueNext]_queueVars => QueueTypeOK'
<1> SUFFICES ASSUME QueueTypeOK, [QueueNext]_queueVars PROVE QueueTypeOK'
  OBVIOUS
<1>1. ASSUME NEW p \in Process, Open(p) PROVE QueueTypeOK'
  BY <1>1, RecoverTypes DEF Open, QueueTypeOK
<1>2. ASSUME NEW p \in Process, Crash(p) PROVE QueueTypeOK'
  BY <1>2 DEF Crash, Without, QueueTypeOK
<1>3. ASSUME NEW c \in Crawl, NEW p \in Process, NEW known \in SUBSET Shard, StartCrawl(c, p, known)
      PROVE  QueueTypeOK'
  <2>1. [at |-> p, known |-> known, todo |-> known, drains |-> FALSE] \in CrawlRow
    BY DEF CrawlRow
  <2>2. PICK row \in CrawlRow : crawls' = With(crawls, c, row)
    BY <1>3, <2>1 DEF StartCrawl
  <2>3. crawls' \in [DOMAIN crawls \cup {c} -> CrawlRow]
    BY <2>2 DEF With, QueueTypeOK, CrawlRow
  <2> QED
    BY <1>3, <2>3 DEF StartCrawl, QueueTypeOK, CrawlRow
<1>4. ASSUME NEW c \in Crawl, CrawlStep(c) PROVE QueueTypeOK'
  BY <1>4, CrawlTypes
<1>5. CASE UNCHANGED queueVars
  BY <1>5 DEF queueVars, QueueTypeOK
<1> QED
  BY <1>1, <1>2, <1>3, <1>4, <1>5 DEF QueueNext

-----------------------------------------------------------------------------
(* One task per shard, in a single process *)

\* One process at a time has the catalog open.
OneProcess == \A p, q \in Process : p = q

\* The types, and where the parts of a crawl live.
Placed ==
  /\ QueueTypeOK
  /\ \A c \in DOMAIN crawls : crawls[c].at \in open
  /\ \A w \in DOMAIN jobs : w[1] \in DOMAIN crawls /\ crawls[w[1]].drains

\* A worker past its claim has a task, and that task says RUNNING.
TasksInHand ==
  \A w \in DOMAIN jobs :
    \/ jobs[w].step = "claim" /\ jobs[w].task = None
    \/ jobs[w].step # "claim" /\ jobs[w].task \in Running

\* No task is in two hands, and no two running tasks are of one shard.
HandsApart == \A v, w \in DOMAIN jobs : jobs[v].task # None /\ jobs[v].task = jobs[w].task => v = w
RunningApart == \A i, j \in Running : queue[i].shard = queue[j].shard => i = j

\* Where a single process runs and is up, what runs is in somebody's hands.  Beside
\* a second process the rows of one that crashed say RUNNING until a catalog is opened.
RunningInHand ==
  (\A p, q \in Process : p = q) /\ open # {} =>
    \A i \in Running : \E w \in DOMAIN jobs : jobs[w].task = i

QueueInv == Placed /\ TasksInHand /\ HandsApart /\ RunningApart /\ RunningInHand

\* The invariant gives both properties.
LEMMA QueueInvSuffices == QueueInv => OneTaskPerShard /\ (OneProcess => RunningIsHeld)
<1> SUFFICES ASSUME QueueInv PROVE OneTaskPerShard /\ (OneProcess => RunningIsHeld)
  OBVIOUS
<1>1. OneTaskPerShard
  <2> SUFFICES ASSUME NEW v \in DOMAIN jobs, NEW w \in DOMAIN jobs,
                      jobs[v].task # None, jobs[w].task # None, ShardOf(v) = ShardOf(w)
               PROVE  v = w
    BY DEF OneTaskPerShard
  <2>1. jobs[v].task \in Running /\ jobs[w].task \in Running
    BY DEF QueueInv, TasksInHand
  <2>2. jobs[v].task = jobs[w].task
    BY <2>1 DEF QueueInv, RunningApart, ShardOf
  <2> QED
    BY <2>2 DEF QueueInv, HandsApart
<1>2. ASSUME OneProcess PROVE RunningIsHeld
  <2>1. \A i \in Running : i # None
    BY DEF Running, InStatus, QueueInv, Placed, QueueTypeOK, None
  <2> QED
    BY <1>2, <2>1 DEF OneProcess, RunningIsHeld, Held, QueueInv, TasksInHand, RunningInHand
<1> QED
  BY <1>1, <1>2

\* A worker is about to claim or has a task, never both.
LEMMA HandsFull ==
  ASSUME QueueInv
  PROVE  \A w \in DOMAIN jobs :
           \/ jobs[w].step = "claim" /\ jobs[w].task = None
           \/ jobs[w].step # "claim" /\ jobs[w].task # None
<1>1. \A i \in Running : i # None
  BY DEF Running, InStatus, QueueInv, Placed, QueueTypeOK, None
<1> QED
  BY <1>1 DEF QueueInv, TasksInHand

\* A step that leaves the tasks of the table and the hands alone.
LEMMA HandsUntouched ==
  ASSUME QueueInv, Placed', queue' = queue, open' = open,
         \A w \in DOMAIN jobs : jobs[w].task # None => w \in DOMAIN jobs' /\ jobs'[w].task = jobs[w].task,
         \A w \in DOMAIN jobs' :
           \/ jobs'[w].step = "claim" /\ jobs'[w].task = None
           \/ jobs'[w].step # "claim" /\ w \in DOMAIN jobs
              /\ jobs'[w].task = jobs[w].task /\ jobs[w].task # None
  PROVE  QueueInv'
<1>0. Running' = Running
  BY DEF Running, InStatus
<1>2. TasksInHand'
  BY <1>0 DEF QueueInv, TasksInHand
<1>3. HandsApart'
  BY DEF QueueInv, HandsApart
<1>4. RunningApart'
  BY <1>0 DEF QueueInv, RunningApart
<1>5. RunningInHand'
  <2>1. \A i \in Running : i # None
    BY DEF Running, InStatus, QueueInv, Placed, QueueTypeOK, None
  <2> QED
    BY <1>0, <2>1 DEF QueueInv, RunningInHand
<1> QED
  BY <1>2, <1>3, <1>4, <1>5 DEF QueueInv

\* Opening the catalog while nobody has a task in hand.
LEMMA OpenKeeps == ASSUME Held = {}, QueueInv, QueueTypeOK', NEW p \in Process, Open(p)
                   PROVE  QueueInv'
<1>1. \A w \in DOMAIN jobs : jobs[w].step = "claim" /\ jobs[w].task = None
  BY HandsFull DEF Held
<1>2. jobs' = jobs /\ crawls' = crawls /\ open \subseteq open'
  BY DEF Open
<1>3. Running' = {}
  <2>1. RecoverQueue /\ QueueTypeOK
    BY DEF Open, QueueInv, Placed
  <2>2. DOMAIN queue' = DOMAIN queue
    BY <2>1 DEF RecoverQueue
  <2> QED
    BY <2>1, <2>2, RecoverTypes DEF Running, InStatus
<1> QED
  BY <1>1, <1>2, <1>3 DEF QueueInv, Placed, TasksInHand, HandsApart, RunningApart, RunningInHand

\* A single process opens the catalog while nobody is at work.
LEMMA AloneAtRest == ASSUME OneProcess, QueueInv, NEW p \in Process, Open(p) PROVE Held = {}
<1>1. open = {}
  BY DEF Open, OneProcess, QueueInv, Placed, QueueTypeOK
<1> QED
  BY <1>1 DEF Held, QueueInv, Placed

\* A crash takes hands away; a single process leaves its rows to the next opening.
LEMMA CrashKeeps == ASSUME QueueInv, QueueTypeOK', NEW p \in Process, Crash(p)
                    PROVE  QueueInv'
<1> DEFINE lost == {c \in DOMAIN crawls : crawls[c].at = p}
<1>1. /\ crawls' = Without(crawls, lost) /\ open' = open \ {p}
      /\ jobs' = Without(jobs, {w \in DOMAIN jobs : w[1] \in lost})
      /\ queue' = queue
  BY DEF Crash
<1>2. /\ DOMAIN jobs' \subseteq DOMAIN jobs /\ \A w \in DOMAIN jobs' : jobs'[w] = jobs[w] /\ w[1] \notin lost
      /\ DOMAIN crawls' = DOMAIN crawls \ lost /\ \A c \in DOMAIN crawls' : crawls'[c] = crawls[c]
  BY <1>1 DEF Without
<1>3. Running' = Running
  BY <1>1 DEF Running, InStatus
<1>4. Placed'
  BY <1>1, <1>2 DEF QueueInv, Placed
<1>5. TasksInHand' /\ HandsApart' /\ RunningApart'
  <2>1. TasksInHand'
    BY <1>2, <1>3 DEF QueueInv, TasksInHand
  <2>2. HandsApart'
    BY <1>2 DEF QueueInv, HandsApart
  <2>3. RunningApart'
    BY <1>1, <1>3 DEF QueueInv, RunningApart
  <2> QED
    BY <2>1, <2>2, <2>3
<1>6. RunningInHand'
  BY <1>1 DEF RunningInHand, QueueInv, Placed, QueueTypeOK
<1> QED
  BY <1>4, <1>5, <1>6 DEF QueueInv

\* The steps of a crawl.
LEMMA StartKeeps ==
  ASSUME QueueInv, QueueTypeOK', NEW c \in Crawl, NEW p \in Process, NEW known \in SUBSET Shard,
         StartCrawl(c, p, known)
  PROVE  QueueInv'
<1>1. Placed'
  BY DEF StartCrawl, With, QueueInv, Placed
<1>2. queue' = queue /\ open' = open /\ jobs' = jobs
  BY DEF StartCrawl
<1> QED
  BY <1>1, <1>2, HandsFull, HandsUntouched

LEMMA DiscoverKeeps ==
  ASSUME QueueInv, QueueTypeOK', NEW c \in Crawl, NEW s \in Shard, NEW kind \in Kind, Discover(c, s, kind)
  PROVE  QueueInv'
<1>1. Placed'
  <2>1. \A d \in DOMAIN crawls : crawls'[d].at = crawls[d].at /\ crawls'[d].drains = crawls[d].drains
    BY DEF Discover, QueueInv, Placed, QueueTypeOK
  <2> QED
    BY <2>1 DEF Discover, QueueInv, Placed
<1>2. queue \in Seq(TaskRow) /\ Len(queue) \in Nat /\ DOMAIN queue = 1..Len(queue)
  BY DEF QueueInv, Placed, QueueTypeOK
<1>3. DOMAIN queue \subseteq DOMAIN queue' /\ \A i \in DOMAIN queue : queue'[i] = queue[i]
  BY <1>2 DEF Discover, Enqueue
<1>4. \A i \in DOMAIN queue' \ DOMAIN queue : queue'[i].status = "PENDING"
  BY <1>2 DEF Discover, Enqueue
<1>5. Running' = Running
  BY <1>3, <1>4 DEF Running, InStatus
<1>6. RunningApart'
  <2>1. Running \subseteq DOMAIN queue
    BY DEF Running, InStatus
  <2> QED
    BY <1>3, <1>5, <2>1 DEF RunningApart, QueueInv
<1> QED
  BY <1>1, <1>5, <1>6 DEF Discover, QueueInv, TasksInHand, HandsApart, RunningInHand

LEMMA DrainKeeps == ASSUME QueueInv, QueueTypeOK', NEW c \in Crawl, Drain(c) PROVE QueueInv'
<1>1. \A w \in Workers(c) : w \notin DOMAIN jobs
  BY DEF Drain, Workers, QueueInv, Placed
<1>2. \A w \in DOMAIN jobs : w \in DOMAIN jobs' /\ jobs'[w] = jobs[w]
  BY <1>1 DEF Drain
<1>3. \A w \in DOMAIN jobs' \ DOMAIN jobs : jobs'[w].task = None /\ jobs'[w].step = "claim" /\ w \in Workers(c)
  BY DEF Drain
<1>4. Placed'
  <2>1. \A d \in DOMAIN crawls : crawls'[d].at = crawls[d].at
    BY DEF Drain, QueueInv, Placed, QueueTypeOK
  <2>2. \A d \in DOMAIN crawls : crawls[d].drains => crawls'[d].drains
    BY DEF Drain, QueueInv, Placed, QueueTypeOK
  <2>3. c \in DOMAIN crawls /\ crawls'[c].drains
    BY DEF Drain, QueueInv, Placed, QueueTypeOK
  <2>4. DOMAIN crawls' = DOMAIN crawls /\ open' = open
    BY DEF Drain
  <2>5. \A w \in DOMAIN jobs' : w[1] \in DOMAIN crawls /\ crawls'[w[1]].drains
    BY <1>3, <2>2, <2>3 DEF Workers, QueueInv, Placed
  <2> QED
    BY <2>1, <2>4, <2>5 DEF QueueInv, Placed
<1>5. queue' = queue /\ open' = open
  BY DEF Drain
<1>6. \A w \in DOMAIN jobs' :
        \/ jobs'[w].step = "claim" /\ jobs'[w].task = None
        \/ jobs'[w].step # "claim" /\ w \in DOMAIN jobs
           /\ jobs'[w].task = jobs[w].task /\ jobs[w].task # None
  BY <1>2, <1>3, HandsFull
<1> QED
  BY <1>2, <1>4, <1>5, <1>6, HandsUntouched

LEMMA ReturnKeeps ==
  ASSUME QueueInv, QueueTypeOK', NEW c \in Crawl, DiscoveryFails(c) \/ Return(c)
  PROVE  QueueInv'
<1>1. \A w \in DOMAIN jobs : w[1] # c
  <2>1. CASE DiscoveryFails(c)
    BY <2>1 DEF DiscoveryFails, QueueInv, Placed
  <2>2. CASE Return(c)
    BY <2>2 DEF Return, Idle, Workers, QueueInv, Placed, QueueTypeOK
  <2> QED
    BY <2>1, <2>2
<1>2. /\ queue' = queue /\ open' = open /\ jobs' = jobs
      /\ crawls' = Without(crawls, {c})
  BY DEF DiscoveryFails, Return
<1>3. Placed'
  BY <1>1, <1>2 DEF Without, QueueInv, Placed
<1> QED
  BY <1>2, <1>3, HandsFull, HandsUntouched

\* The steps of a worker.
LEMMA WorkerKeeps ==
  ASSUME QueueInv, QueueTypeOK', NEW c \in Crawl, NEW w \in Workers(c), WorkerStep(w)
  PROVE  QueueInv'
<1>1. Placed'
  <2>1. DOMAIN jobs' \subseteq DOMAIN jobs /\ open' = open /\ crawls' = crawls
    BY DEF WorkerStep, ClaimNext, LeaveQueue, StartTask, CrawlThrows, CrawlEnds, SettleTask,
           CompleteTask, Goto, Without
  <2> QED
    BY <2>1 DEF QueueInv, Placed
<1>2. \A i \in Running : i # None
  BY DEF Running, InStatus, QueueInv, Placed, QueueTypeOK, None
<1>3. CASE ClaimNext(w)
  <2>1. PICK i \in Claimable, job \in JobRow :
          Mark(i, "RUNNING") /\ job.task = i /\ job.step # "claim" /\ jobs' = [jobs EXCEPT ![w] = job]
    <3>1. PICK i \in Claimable : Mark(i, "RUNNING")
            /\ jobs' = [jobs EXCEPT ![w] = [task |-> i, step |-> FirstStep(w, i)]]
      BY <1>3 DEF ClaimNext
    <3>2. i \in 1..MaxTasks /\ FirstStep(w, i) \in Step \ {"claim"}
      BY InTheTable DEF Claimable, Pending, InStatus, FirstStep, Step, QueueInv, Placed
    <3>3. [task |-> i, step |-> FirstStep(w, i)] \in JobRow
          /\ [task |-> i, step |-> FirstStep(w, i)].task = i
          /\ [task |-> i, step |-> FirstStep(w, i)].step # "claim"
      BY <3>2 DEF JobRow
    <3> QED
      BY <3>1, <3>3
  <2>2. i \in DOMAIN queue /\ i \notin Running /\ \A r \in Running : queue[r].shard # queue[i].shard
    BY DEF Claimable, Pending, Running, InStatus
  <2>3. /\ DOMAIN queue' = DOMAIN queue
        /\ \A j \in DOMAIN queue : queue'[j].shard = queue[j].shard
        /\ queue'[i].status = "RUNNING"
        /\ \A j \in DOMAIN queue \ {i} : queue'[j] = queue[j]
    BY <2>1, <2>2, MarkTypes DEF Status, QueueInv, Placed
  <2>4. Running' = Running \cup {i}
    BY <2>2, <2>3 DEF Running, InStatus
  <2>5. /\ w \in DOMAIN jobs /\ jobs[w].task = None /\ DOMAIN jobs' = DOMAIN jobs
        /\ jobs'[w].task = i /\ jobs'[w].step # "claim"
        /\ \A v \in DOMAIN jobs \ {w} : jobs'[v] = jobs[v]
    <3>1. w \in DOMAIN jobs /\ jobs[w].step = "claim" /\ jobs \in [DOMAIN jobs -> JobRow]
      BY <1>3 DEF ClaimNext, At, QueueInv, Placed, QueueTypeOK, JobRow
    <3>2. jobs[w].task = None
      BY <3>1 DEF QueueInv, TasksInHand
    <3> QED
      BY <2>1, <3>1, <3>2
  <2>6. \A j \in Running : j \in DOMAIN queue
    BY DEF Running, InStatus
  <2>7. TasksInHand'
    BY <2>4, <2>5 DEF QueueInv, TasksInHand
  <2>8. HandsApart'
    BY <2>2, <2>5, HandsFull DEF QueueInv, TasksInHand, HandsApart
  <2>9. RunningApart'
    BY <2>2, <2>3, <2>4, <2>6 DEF QueueInv, RunningApart
  <2>10. RunningInHand'
    <3>1. open' = open
      BY <1>3 DEF ClaimNext
    <3> QED
      BY <1>2, <2>4, <2>5, <3>1 DEF QueueInv, RunningInHand
  <2> QED
    BY <1>1, <2>7, <2>8, <2>9, <2>10 DEF QueueInv
<1>4. CASE LeaveQueue(w)
  <2>1. jobs[w].task = None
    BY <1>4 DEF LeaveQueue, At, QueueInv, TasksInHand
  <2>2. queue' = queue /\ open' = open /\ jobs' = Without(jobs, {w})
    BY <1>4 DEF LeaveQueue
  <2>3. DOMAIN jobs' = DOMAIN jobs \ {w} /\ \A v \in DOMAIN jobs' : jobs'[v] = jobs[v]
    BY <2>2 DEF Without
    <2> QED
    BY <1>1, <2>1, <2>2, <2>3, HandsFull, HandsUntouched
<1>5. CASE StartTask(w) \/ CrawlThrows(w) \/ CrawlEnds(w) \/ SettleTask(w)
  <2>1. PICK step \in Step \ {"claim"} : Goto(w, step)
    BY <1>5 DEF StartTask, CrawlThrows, CrawlEnds, SettleTask, Step
  <2>2. w \in DOMAIN jobs /\ jobs[w].step # "claim"
    BY <1>5 DEF StartTask, CrawlThrows, CrawlEnds, SettleTask, At
  <2>3. queue' = queue /\ open' = open
    BY <1>5 DEF StartTask, CrawlThrows, CrawlEnds, SettleTask
  <2>4. /\ DOMAIN jobs' = DOMAIN jobs
        /\ \A v \in DOMAIN jobs : jobs'[v].task = jobs[v].task
        /\ jobs'[w].step = step
    BY <2>1, <2>2, GotoTypes DEF QueueInv, Placed
  <2>5. \A v \in DOMAIN jobs \ {w} : jobs'[v] = jobs[v]
    BY <2>1 DEF Goto, QueueInv, Placed, QueueTypeOK
  <2>6. jobs[w].task # None
    BY <1>2, <2>2 DEF QueueInv, TasksInHand
    <2> QED
    BY <1>1, <2>3, <2>4, <2>5, <2>6, HandsFull, HandsUntouched
<1>6. CASE CompleteTask(w)
  <2>1. w \in DOMAIN jobs /\ jobs[w].step # "claim"
    BY <1>6 DEF CompleteTask, At
  <2>2. PICK i \in Running : jobs[w].task = i
    BY <2>1 DEF QueueInv, TasksInHand
  <2>3. i \in DOMAIN queue
    BY DEF Running, InStatus
  <2>4. PICK status \in {"DONE", "FAILED"} : Mark(i, status)
    BY <1>6, <2>2 DEF CompleteTask
  <2>5. /\ DOMAIN queue' = DOMAIN queue
        /\ \A j \in DOMAIN queue : queue'[j].shard = queue[j].shard
        /\ queue'[i].status = status
        /\ \A j \in DOMAIN queue \ {i} : queue'[j] = queue[j]
    BY <2>3, <2>4, MarkTypes DEF Status, QueueInv, Placed
  <2>6. Running' = Running \ {i}
    BY <2>3, <2>4, <2>5 DEF Running, InStatus
  <2>7. /\ DOMAIN jobs' = DOMAIN jobs /\ jobs'[w].task = None /\ jobs'[w].step = "claim"
        /\ \A v \in DOMAIN jobs \ {w} : jobs'[v] = jobs[v]
    BY <1>6, <2>1 DEF CompleteTask, QueueInv, Placed, QueueTypeOK
  <2>8. open' = open
    BY <1>6 DEF CompleteTask
  <2>9. \A j \in Running : j \in DOMAIN queue
    BY DEF Running, InStatus
  <2>10. TasksInHand'
    BY <1>2, <2>1, <2>2, <2>6, <2>7 DEF QueueInv, TasksInHand, HandsApart
  <2>11. HandsApart'
    BY <2>1, <2>7 DEF QueueInv, HandsApart
  <2>12. RunningApart'
    BY <2>5, <2>6, <2>9 DEF QueueInv, RunningApart
  <2>13. RunningInHand'
    BY <1>2, <2>2, <2>6, <2>7, <2>8 DEF QueueInv, RunningInHand
  <2> QED
    BY <1>1, <2>10, <2>11, <2>12, <2>13 DEF QueueInv
<1> QED
  BY <1>3, <1>4, <1>5, <1>6 DEF WorkerStep

\* Only the opening of a catalog over tasks that somebody has in hand could break it.
LEMMA QueueStep == QueueInv /\ [QueueNext]_queueVars /\ (OneProcess \/ OpensAtRest) => QueueInv'
<1> SUFFICES ASSUME QueueInv, [QueueNext]_queueVars, OneProcess \/ OpensAtRest PROVE QueueInv'
  OBVIOUS
<1>0. QueueTypeOK'
  BY QueueTypes DEF QueueInv, Placed
<1>1. ASSUME NEW p \in Process, Open(p) PROVE QueueInv'
  <2>1. Held = {}
    BY <1>1, AloneAtRest DEF OpensAtRest, Open
  <2> QED
    BY <1>0, <1>1, <2>1, OpenKeeps
<1>2. ASSUME NEW p \in Process, Crash(p) PROVE QueueInv'
  BY <1>0, <1>2, CrashKeeps
<1>3. ASSUME NEW c \in Crawl, NEW p \in Process, NEW known \in SUBSET Shard, StartCrawl(c, p, known)
      PROVE  QueueInv'
  BY <1>0, <1>3, StartKeeps
<1>4. ASSUME NEW c \in Crawl, CrawlStep(c) PROVE QueueInv'
  BY <1>0, <1>4, DiscoverKeeps, DrainKeeps, WorkerKeeps, ReturnKeeps DEF CrawlStep
<1>5. CASE UNCHANGED queueVars
  <2>1. queue' = queue /\ open' = open /\ jobs' = jobs /\ crawls' = crawls
    BY <1>5 DEF queueVars
  <2>2. Placed'
    BY <1>0, <2>1 DEF QueueInv, Placed
  <2> QED
    BY <2>1, <2>2, HandsFull, HandsUntouched
<1> QED
  BY <1>1, <1>2, <1>3, <1>4, <1>5 DEF QueueNext

LEMMA QueueStart == QueueInit => QueueInv
<1> SUFFICES ASSUME QueueInit PROVE QueueInv
  OBVIOUS
<1>1. QueueTypeOK
  BY DEF QueueInit, QueueTypeOK
<1> QED
  BY <1>1 DEF QueueInit, QueueInv, Placed, TasksInHand, HandsApart, RunningApart, RunningInHand,
              Running, InStatus

\* The queue keeps to its types, whoever opens the catalog.
THEOREM QueueTyped == QueueSpec => []QueueTypeOK
<1>1. QueueInit => QueueTypeOK
  BY QueueStart DEF QueueInv, Placed
<1> QED
  BY <1>1, QueueTypes, PTL DEF QueueSpec

\* Where catalogs are opened while no task is in anybody's hand, no two workers, of
\* however many crawls and processes, ever have tasks of one shard in hand: claimNext
\* and completeTask in catalog.ts, also after crashes.
THEOREM ShardsHaveOneTask == RestSpec => []OneTaskPerShard
<1>1. QueueInv /\ [QueueNext /\ OpensAtRest]_queueVars => QueueInv'
  <2> SUFFICES ASSUME QueueInv, [QueueNext /\ OpensAtRest]_queueVars PROVE QueueInv'
    OBVIOUS
  <2>1. [QueueNext]_queueVars
    OBVIOUS
  <2>2. OpensAtRest
    BY DEF OpensAtRest, queueVars
  <2> QED
    BY <2>1, <2>2, QueueStep
<1> QED
  BY <1>1, QueueStart, QueueInvSuffices, PTL DEF RestSpec

-----------------------------------------------------------------------------
(* The end of a drain, for one crawl after the other *)

\* One crawl is under way at a time.  A second one that only enqueues may break off
\* and leave its tasks to the next.
OneCrawl == \A c, d \in Crawl : c = d

\* Whoever drains has listed its shards; and once its workers have gone, the last
\* of them left nothing behind.
ListsDone == \A c \in DOMAIN crawls : crawls[c].drains => crawls[c].todo = {}
IdleIsDrained == \A c \in DOMAIN crawls : crawls[c].drains /\ Idle(c) => Pending \cup Running = {}

DrainInv == QueueInv /\ ListsDone /\ IdleIsDrained

\* A worker returns when what is pending is blocked by what runs, and what runs is
\* in the hands of a worker that has not returned.
LEMMA LastOneDrains ==
  ASSUME OneProcess, OneCrawl, QueueInv, NEW c \in Crawl, NEW w \in Workers(c), LeaveQueue(w), Idle(c)'
  PROVE  (Pending \cup Running)' = {}
<1>1. DOMAIN jobs' = DOMAIN jobs \ {w} /\ w \in DOMAIN jobs /\ jobs[w].step = "claim" /\ c \in DOMAIN crawls
  BY DEF LeaveQueue, At, Without, QueueInv, Placed, Workers
<1>2. \A v \in DOMAIN jobs : v \in Workers(c)
  BY DEF OneCrawl, QueueInv, Placed, QueueTypeOK, Workers, Worker
<1>3. DOMAIN jobs = {w}
  BY <1>1, <1>2 DEF Idle
<1>4. jobs[w].task = None
  BY <1>1 DEF QueueInv, TasksInHand
<1>5. open # {}
  BY <1>1 DEF QueueInv, Placed
<1>6. \A i \in Running : i # None
  BY DEF Running, InStatus, QueueInv, Placed, QueueTypeOK, None
<1>7. Running = {}
  BY <1>3, <1>4, <1>5, <1>6 DEF OneProcess, QueueInv, RunningInHand
<1>8. Pending = {}
  BY <1>7 DEF LeaveQueue, Claimable
<1>9. queue' = queue
  BY DEF LeaveQueue
<1> QED
  BY <1>7, <1>8, <1>9 DEF Pending, Running, InStatus

LEMMA DrainStep ==
  ASSUME OneProcess, OneCrawl, DrainInv, [QueueNext]_queueVars
  PROVE  DrainInv'
<1>0. QueueInv' /\ QueueInv /\ QueueTypeOK
  BY QueueStep DEF DrainInv, QueueInv, Placed
<1>1. ASSUME DOMAIN crawls' = {} PROVE DrainInv'
  BY <1>0, <1>1 DEF DrainInv, ListsDone, IdleIsDrained
<1>2. ASSUME NEW c \in DOMAIN crawls', crawls'[c].drains = FALSE PROVE DrainInv'
  <2>1. \A d \in DOMAIN crawls' : d = c
    BY <1>0 DEF OneCrawl, QueueInv, Placed, QueueTypeOK
  <2> QED
    BY <1>0, <1>2, <2>1 DEF DrainInv, ListsDone, IdleIsDrained
<1>3. ASSUME NEW c \in Crawl, DOMAIN crawls' = DOMAIN crawls, crawls'[c].todo = crawls[c].todo,
             crawls[c].drains \/ crawls[c].todo = {}, Idle(c)' => (Pending \cup Running)' = {}
      PROVE  DrainInv'
  <2>1. \A d \in DOMAIN crawls' : d = c
    BY <1>0 DEF OneCrawl, QueueInv, Placed, QueueTypeOK
  <2> QED
    BY <1>0, <1>3, <2>1 DEF DrainInv, ListsDone, IdleIsDrained
<1>4. ASSUME NEW p \in Process, Open(p) PROVE DrainInv'
  <2>1. open = {}
    BY <1>0, <1>4 DEF Open, OneProcess, QueueTypeOK
  <2> QED
    BY <1>0, <1>1, <1>4, <2>1 DEF Open, QueueInv, Placed
<1>5. ASSUME NEW p \in Process, Crash(p) PROVE DrainInv'
  <2>1. \A c \in DOMAIN crawls : crawls[c].at = p
    BY <1>0, <1>5 DEF Crash, OneProcess, QueueTypeOK
  <2> QED
    BY <1>1, <1>5, <2>1 DEF Crash, Without
<1>6. ASSUME NEW c \in Crawl, NEW p \in Process, NEW known \in SUBSET Shard, StartCrawl(c, p, known)
      PROVE  DrainInv'
  BY <1>2, <1>6 DEF StartCrawl, With
<1>7. ASSUME NEW c \in Crawl, NEW s \in Shard, NEW kind \in Kind, Discover(c, s, kind) PROVE DrainInv'
  <2>1. c \in DOMAIN crawls /\ crawls[c].drains = FALSE
    BY <1>0, <1>7 DEF Discover, DrainInv, ListsDone, QueueTypeOK
  <2>2. c \in DOMAIN crawls' /\ crawls'[c].drains = FALSE
    BY <1>0, <1>7, <2>1 DEF Discover, QueueTypeOK
  <2> QED
    BY <1>2, <2>2
<1>8. ASSUME NEW c \in Crawl, DiscoveryFails(c) \/ Return(c) PROVE DrainInv'
  <2>1. DOMAIN crawls' = {}
    BY <1>0, <1>8 DEF DiscoveryFails, Return, Without, OneCrawl, QueueTypeOK
  <2> QED
    BY <1>1, <2>1
<1>9. ASSUME NEW c \in Crawl, Drain(c) PROVE DrainInv'
  <2>1. <<c, 1>> \in Workers(c) /\ <<c, 1>> \in DOMAIN jobs'
    BY <1>9 DEF Drain, Workers, Worker
  <2>2. ~Idle(c)'
    BY <2>1 DEF Idle
  <2>3. DOMAIN crawls' = DOMAIN crawls /\ crawls'[c].todo = crawls[c].todo /\ crawls[c].todo = {}
    BY <1>0, <1>9 DEF Drain, QueueTypeOK
  <2> QED
    BY <1>3, <2>2, <2>3
<1>10. ASSUME NEW c \in Crawl, NEW w \in Workers(c), WorkerStep(w) PROVE DrainInv'
  <2>1. w \in DOMAIN jobs /\ crawls' = crawls
    BY <1>10 DEF WorkerStep, ClaimNext, LeaveQueue, StartTask, CrawlThrows, CrawlEnds, SettleTask,
                 CompleteTask, At
  <2>2. crawls[c].drains
    BY <1>0, <2>1 DEF QueueInv, Placed, Workers
  <2>3. CASE LeaveQueue(w)
    <3>1. Idle(c)' => (Pending \cup Running)' = {}
      BY <1>0, <2>3, LastOneDrains
    <3> QED
      BY <1>3, <2>1, <2>2, <3>1
  <2>4. CASE ~LeaveQueue(w)
    <3>1. DOMAIN jobs' = DOMAIN jobs
      BY <1>10, <2>4 DEF WorkerStep, ClaimNext, StartTask, CrawlThrows, CrawlEnds, SettleTask,
                         CompleteTask, Goto
    <3>2. ~Idle(c)'
      BY <2>1, <3>1 DEF Idle
    <3> QED
      BY <1>3, <2>1, <2>2, <3>2
  <2> QED
    BY <2>3, <2>4
<1>11. CASE UNCHANGED queueVars
  <2>1. UNCHANGED <<queue, crawls, jobs>>
    BY <1>11 DEF queueVars
  <2>2. ListsDone' /\ IdleIsDrained'
    BY <2>1 DEF DrainInv, ListsDone, IdleIsDrained, Idle, Pending, Running, InStatus
  <2> QED
    BY <1>0, <2>2 DEF DrainInv
<1>12. ASSUME NEW c \in Crawl, CrawlStep(c) PROVE DrainInv'
  BY <1>7, <1>8, <1>9, <1>10, <1>12 DEF CrawlStep
<1> QED
  BY <1>4, <1>5, <1>6, <1>11, <1>12 DEF QueueNext

\* A crawl that drains goes from the table by its return, unless its process goes down.
LEMMA GoneIsReturned ==
  ASSUME DrainInv, [QueueNext]_queueVars, NEW c \in DOMAIN crawls \ DOMAIN crawls',
         crawls[c].drains, open' = open
  PROVE  Pending \cup Running = {}
<1>1. QueueTypeOK
  BY DEF DrainInv, QueueInv, Placed
<1>2. \A p \in Process : ~Open(p) /\ ~Crash(p)
  BY DEF Open, Crash
<1>3. \A d \in Crawl, p \in Process, known \in SUBSET Shard : ~StartCrawl(d, p, known)
  BY DEF StartCrawl, With
<1>4. ~UNCHANGED queueVars
  BY DEF queueVars
<1>5. PICK d \in Crawl : CrawlStep(d)
  BY <1>2, <1>3, <1>4 DEF QueueNext
<1>6. Return(d)
  <2>1. \A s \in Shard, kind \in Kind : ~Discover(d, s, kind)
    BY DEF Discover
  <2>2. ~Drain(d)
    BY DEF Drain
  <2>3. \A w \in Workers(d) : ~WorkerStep(w)
    BY DEF WorkerStep, ClaimNext, LeaveQueue, StartTask, CrawlThrows, CrawlEnds, SettleTask, CompleteTask
  <2>4. ~DiscoveryFails(d)
    BY DEF DiscoveryFails, Without
  <2> QED
    BY <1>5, <2>1, <2>2, <2>3, <2>4 DEF CrawlStep
<1>7. d \in DOMAIN crawls /\ crawls[d].drains /\ Idle(d)
  BY <1>6 DEF Return
<1> QED
  BY <1>7 DEF DrainInv, IdleIsDrained

-----------------------------------------------------------------------------
(* The lock of a shard *)

IngestRow == [at : Process, shard : Shard, step : IngestStep]

LockTypes ==
  /\ DOMAIN ingests \subseteq Ingest
  /\ ingests \in [DOMAIN ingests -> IngestRow]
  /\ lockQueue \in [Process -> [Shard -> Seq(Ingest)]]

\* Whoever works is at the head of the chain of its shard.
Inside(i) == ingests[i].step \in {"work", "rolled"}
HoldersLead == \A i \in DOMAIN ingests : Inside(i) => Chain(i) # << >> /\ Head(Chain(i)) = i

LockInv == LockTypes /\ HoldersLead

\* Two at the head of one chain are the same.
LEMMA LockInvSuffices == LockInv => IngestsSerialized
<1> SUFFICES ASSUME LockInv, NEW i \in DOMAIN ingests, NEW j \in DOMAIN ingests,
                    {ingests[i].step, ingests[j].step} \subseteq {"work", "rolled"},
                    Here(i) = Here(j), Goal(i) = Goal(j)
             PROVE  i = j
  BY DEF IngestsSerialized
<1>1. Inside(i) /\ Inside(j) /\ Chain(i) = Chain(j)
  BY DEF Inside, Chain
<1> QED
  BY <1>1 DEF LockInv, HoldersLead

\* Where an ingest is, and the chain it is in.
LEMMA ChainTypes ==
  ASSUME LockTypes, NEW i \in DOMAIN ingests
  PROVE  Here(i) \in Process /\ Goal(i) \in Shard /\ Chain(i) \in Seq(Ingest)
<1>1. Here(i) \in Process /\ Goal(i) \in Shard
  BY DEF LockTypes, Here, Goal, IngestRow
<1> QED
  BY <1>1 DEF LockTypes, Chain

\* An ingest that moves on stays in its process and its shard.
LEMMA MoveTypes ==
  ASSUME LockTypes, NEW i \in DOMAIN ingests, NEW step \in IngestStep, Move(i, step)
  PROVE  /\ DOMAIN ingests' = DOMAIN ingests
         /\ ingests' \in [DOMAIN ingests -> IngestRow]
         /\ ingests'[i].step = step
         /\ \A j \in DOMAIN ingests : /\ ingests'[j].at = ingests[j].at
                                      /\ ingests'[j].shard = ingests[j].shard
         /\ \A j \in DOMAIN ingests \ {i} : ingests'[j] = ingests[j]
<1>1. ingests \in [DOMAIN ingests -> IngestRow]
  BY DEF LockTypes
<1>2. PICK row \in IngestRow :
        /\ row.at = ingests[i].at /\ row.shard = ingests[i].shard /\ row.step = step
        /\ ingests' = [ingests EXCEPT ![i] = row]
  <2>1. PICK old \in IngestRow : old = ingests[i]
    BY <1>1
  <2>2. /\ [old EXCEPT !.step = step] \in IngestRow
        /\ [old EXCEPT !.step = step].at = old.at
        /\ [old EXCEPT !.step = step].shard = old.shard
        /\ [old EXCEPT !.step = step].step = step
    BY DEF IngestRow
  <2>3. ingests' = [ingests EXCEPT ![i] = [old EXCEPT !.step = step]]
    BY <2>1 DEF Move
  <2> QED
    BY <2>1, <2>2, <2>3
<1> QED
  BY <1>1, <1>2

\* Ingests that are where they were, with the chains as they were, except that
\* some are no longer inside.
LEMMA LockUntouched ==
  ASSUME LockInv, LockTypes',
         \A i \in DOMAIN ingests' : Inside(i)' =>
           /\ i \in DOMAIN ingests /\ Inside(i)
           /\ ingests'[i].at = ingests[i].at /\ ingests'[i].shard = ingests[i].shard,
         lockQueue' = lockQueue
  PROVE  LockInv'
<1>1. ASSUME NEW i \in DOMAIN ingests', Inside(i)' PROVE (Chain(i) # << >> /\ Head(Chain(i)) = i)'
  <2>1. Chain(i)' = Chain(i)
    BY <1>1 DEF Chain, Here, Goal
  <2> QED
    BY <1>1, <2>1 DEF LockInv, HoldersLead
<1> QED
  BY <1>1 DEF LockInv, HoldersLead

\* The steps of an ingest: joining a chain keeps its head, and leaving it is for the head.
LEMMA QueueForShardKeeps == ASSUME LockInv, NEW i \in Ingest, QueueForShard(i) PROVE LockInv'
<1>1. i \in DOMAIN ingests /\ ingests[i].step = "granted" /\ LockTypes
  BY DEF QueueForShard, Is, LockInv
<1>2. PICK chain \in Seq(Ingest) : chain = Append(Chain(i), i)
  <2>1. Chain(i) \in Seq(Ingest)
    BY <1>1, ChainTypes
  <2>2. Append(Chain(i), i) \in Seq(Ingest)
    BY <2>1
  <2> QED
    BY <2>2
<1>3. /\ DOMAIN ingests' = DOMAIN ingests
      /\ ingests' \in [DOMAIN ingests -> IngestRow]
      /\ ingests'[i].step = "lock"
      /\ \A j \in DOMAIN ingests : ingests'[j].at = ingests[j].at /\ ingests'[j].shard = ingests[j].shard
      /\ \A j \in DOMAIN ingests \ {i} : ingests'[j] = ingests[j]
  BY <1>1, MoveTypes DEF QueueForShard, IngestStep
<1>4. lockQueue' = [lockQueue EXCEPT ![Here(i)][Goal(i)] = chain]
  BY <1>2 DEF QueueForShard, Chain
<1>5. Here(i) \in Process /\ Goal(i) \in Shard
  BY <1>1 DEF LockTypes, Here, Goal, IngestRow
<1>6. LockTypes'
  BY <1>1, <1>3, <1>4, <1>5 DEF LockTypes
<1>7. ASSUME NEW j \in DOMAIN ingests', Inside(j)' PROVE (Chain(j) # << >> /\ Head(Chain(j)) = j)'
  <2>1. j \in DOMAIN ingests /\ Inside(j) /\ Here(j) \in Process /\ Goal(j) \in Shard
    BY <1>1, <1>3, <1>7 DEF Inside, LockTypes, Here, Goal, IngestRow
  <2>2. Chain(j) # << >> /\ Head(Chain(j)) = j /\ Chain(j) \in Seq(Ingest)
    BY <1>1, <2>1 DEF LockInv, HoldersLead, Chain, LockTypes
  <2>3. Chain(j)' = lockQueue'[Here(j)][Goal(j)]
    BY <1>3, <2>1 DEF Chain, Here, Goal
  <2>4. CASE Here(j) = Here(i) /\ Goal(j) = Goal(i)
    <3>1. Chain(j)' = Append(Chain(j), i)
      BY <1>1, <1>2, <1>4, <1>5, <2>3, <2>4 DEF LockTypes, Chain
    <3> QED
      BY <2>2, <3>1
  <2>5. CASE ~(Here(j) = Here(i) /\ Goal(j) = Goal(i))
    <3>1. Chain(j)' = Chain(j)
      BY <1>1, <1>4, <1>5, <2>1, <2>3, <2>5 DEF LockTypes, Chain
    <3> QED
      BY <2>2, <3>1
  <2> QED
    BY <2>4, <2>5
<1> QED
  BY <1>6, <1>7 DEF LockInv, HoldersLead

LEMMA UnlockKeeps ==
  ASSUME LockInv, NEW i \in DOMAIN ingests, Inside(i), Unlock(i)
  PROVE  LockInv'
<1>1. LockTypes /\ Here(i) \in Process /\ Goal(i) \in Shard
  BY ChainTypes DEF LockInv
<1>2. Chain(i) # << >> /\ Head(Chain(i)) = i /\ Chain(i) \in Seq(Ingest)
  BY ChainTypes DEF LockInv, HoldersLead
<1>3. PICK chain \in Seq(Ingest) : chain = Tail(Chain(i))
  <2>1. Tail(Chain(i)) \in Seq(Ingest)
    BY <1>2
  <2> QED
    BY <2>1
<1>4. /\ DOMAIN ingests' = DOMAIN ingests
      /\ ingests' \in [DOMAIN ingests -> IngestRow]
      /\ ingests'[i].step = "leaving"
      /\ \A j \in DOMAIN ingests : ingests'[j].at = ingests[j].at /\ ingests'[j].shard = ingests[j].shard
      /\ \A j \in DOMAIN ingests \ {i} : ingests'[j] = ingests[j]
  BY <1>1, MoveTypes DEF Unlock, IngestStep
<1>5. lockQueue' = [lockQueue EXCEPT ![Here(i)][Goal(i)] = chain]
  BY <1>3 DEF Unlock, Chain
<1>6. LockTypes'
  BY <1>1, <1>4, <1>5 DEF LockTypes
<1>7. ASSUME NEW j \in DOMAIN ingests', Inside(j)' PROVE (Chain(j) # << >> /\ Head(Chain(j)) = j)'
  <2>1. j # i /\ j \in DOMAIN ingests /\ Inside(j)
    BY <1>4, <1>7 DEF Inside
  <2>2. Chain(j) # << >> /\ Head(Chain(j)) = j /\ Here(j) \in Process /\ Goal(j) \in Shard
    BY <1>1, <2>1, ChainTypes DEF LockInv, HoldersLead
  <2>3. ~(Here(j) = Here(i) /\ Goal(j) = Goal(i))
    BY <1>2, <2>1, <2>2 DEF Chain
  <2>4. Chain(j)' = lockQueue'[Here(j)][Goal(j)]
    BY <1>4, <2>1 DEF Chain, Here, Goal
  <2>5. Chain(j)' = Chain(j)
    BY <1>1, <1>5, <2>2, <2>3, <2>4 DEF LockTypes, Chain
  <2> QED
    BY <2>2, <2>5
<1> QED
  BY <1>6, <1>7 DEF LockInv, HoldersLead

LEMMA BeginKeeps == ASSUME LockInv, NEW i \in Ingest, BeginIngest(i) PROVE LockInv'
<1>1. i \in DOMAIN ingests /\ LockTypes /\ Chain(i) # << >> /\ Head(Chain(i)) = i
  BY DEF BeginIngest, Is, LockInv
<1>2. /\ DOMAIN ingests' = DOMAIN ingests
      /\ ingests' \in [DOMAIN ingests -> IngestRow]
      /\ \A j \in DOMAIN ingests : ingests'[j].at = ingests[j].at /\ ingests'[j].shard = ingests[j].shard
      /\ \A j \in DOMAIN ingests \ {i} : ingests'[j] = ingests[j]
  BY <1>1, MoveTypes DEF BeginIngest, IngestStep
<1>3. lockQueue' = lockQueue
  BY DEF BeginIngest
<1>4. LockTypes'
  BY <1>1, <1>2, <1>3 DEF LockTypes
<1>5. ASSUME NEW j \in DOMAIN ingests', Inside(j)' PROVE (Chain(j) # << >> /\ Head(Chain(j)) = j)'
  <2>1. Chain(j)' = Chain(j)
    BY <1>2, <1>3, <1>5 DEF Chain, Here, Goal
  <2>2. j # i => Inside(j)
    BY <1>2, <1>5 DEF Inside
  <2> QED
    BY <1>1, <1>2, <1>5, <2>1, <2>2 DEF LockInv, HoldersLead
<1> QED
  BY <1>4, <1>5 DEF LockInv, HoldersLead

LEMMA EndsKeeps == ASSUME LockInv, NEW i \in Ingest, IngestEnds(i) PROVE LockInv'
<1>1. i \in DOMAIN ingests /\ Inside(i) /\ LockTypes
  BY DEF IngestEnds, Is, LockInv, Inside
<1>2. /\ DOMAIN ingests' = DOMAIN ingests
      /\ ingests' \in [DOMAIN ingests -> IngestRow]
      /\ \A j \in DOMAIN ingests : ingests'[j].at = ingests[j].at /\ ingests'[j].shard = ingests[j].shard
      /\ \A j \in DOMAIN ingests \ {i} : ingests'[j] = ingests[j]
  BY <1>1, MoveTypes DEF IngestEnds, IngestStep
<1>3. lockQueue' = lockQueue
  BY DEF IngestEnds
<1>4. LockTypes'
  BY <1>1, <1>2, <1>3 DEF LockTypes
<1>5. \A j \in DOMAIN ingests' : Inside(j)' => j \in DOMAIN ingests /\ Inside(j)
  BY <1>1, <1>2 DEF Inside
<1> QED
  BY <1>2, <1>3, <1>4, <1>5, LockUntouched

LEMMA ArriveKeeps ==
  ASSUME LockInv, NEW i \in Ingest, NEW p \in Process, NEW s \in Shard, IngestDocs(i, p, s)
  PROVE  LockInv'
<1>1. PICK step \in {"granted", "slot"} :
        ingests' = With(ingests, i, [at |-> p, shard |-> s, step |-> step])
  BY DEF IngestDocs
<1>2. PICK row \in IngestRow : row.step \in {"granted", "slot"} /\ ingests' = With(ingests, i, row)
  <2>1. [at |-> p, shard |-> s, step |-> step] \in IngestRow
        /\ [at |-> p, shard |-> s, step |-> step].step = step
    BY DEF IngestRow, IngestStep
  <2> QED
    BY <1>1, <2>1
<1>3. /\ DOMAIN ingests' = DOMAIN ingests \cup {i} /\ ingests'[i] = row
      /\ \A j \in DOMAIN ingests \ {i} : ingests'[j] = ingests[j]
  BY <1>2 DEF With
<1>4. lockQueue' = lockQueue
  BY DEF IngestDocs
<1>5. LockTypes'
  BY <1>2, <1>4 DEF LockInv, LockTypes, With
<1>6. \A j \in DOMAIN ingests' : Inside(j)' => j \in DOMAIN ingests \ {i}
  BY <1>2, <1>3 DEF Inside
<1>7. \A j \in DOMAIN ingests' : Inside(j)' => Inside(j) /\ ingests'[j] = ingests[j]
  BY <1>3, <1>6 DEF Inside
<1> QED
  BY <1>4, <1>5, <1>6, <1>7, LockUntouched

LEMMA ReleaseKeeps == ASSUME LockInv, NEW i \in Ingest, Release(i) PROVE LockInv'
<1>1. LockTypes /\ lockQueue' = lockQueue
  BY DEF Release, LockInv
<1>2. CASE ingests' = Without(ingests, {i})
  <2>1. /\ DOMAIN ingests' = DOMAIN ingests \ {i}
        /\ \A j \in DOMAIN ingests' : ingests'[j] = ingests[j]
    BY <1>2 DEF Without
  <2>2. LockTypes'
    BY <1>1, <1>2 DEF LockTypes, Without
  <2>3. \A j \in DOMAIN ingests' : Inside(j)' => Inside(j) /\ j \in DOMAIN ingests
    BY <2>1 DEF Inside
  <2> QED
    BY <1>1, <2>1, <2>2, <2>3, LockUntouched
<1>3. ASSUME NEW next, ingests' = [Without(ingests, {i}) EXCEPT ![next].step = "granted"]
      PROVE  LockInv'
  <2>1. PICK rest : rest = Without(ingests, {i})
    OBVIOUS
  <2>2. /\ DOMAIN rest = DOMAIN ingests \ {i} /\ rest \in [DOMAIN rest -> IngestRow]
        /\ \A j \in DOMAIN rest : rest[j] = ingests[j]
    BY <1>1, <2>1 DEF Without, LockTypes
  <2>3. ingests' = [rest EXCEPT ![next].step = "granted"]
    BY <1>3, <2>1
  <2>4. /\ DOMAIN ingests' = DOMAIN rest
        /\ \A j \in DOMAIN rest \ {next} : ingests'[j] = rest[j]
    BY <2>3
  <2>5. next \in DOMAIN rest =>
          /\ ingests'[next] \in IngestRow
          /\ ingests'[next].step = "granted"
    <3>1. SUFFICES ASSUME next \in DOMAIN rest
                   PROVE  ingests'[next] \in IngestRow /\ ingests'[next].step = "granted"
      OBVIOUS
    <3>2. PICK old \in IngestRow : old = rest[next]
      BY <2>2, <3>1
    <3>3. [old EXCEPT !.step = "granted"] \in IngestRow
          /\ [old EXCEPT !.step = "granted"].step = "granted"
      BY DEF IngestRow, IngestStep
    <3>4. ingests'[next] = [old EXCEPT !.step = "granted"]
      BY <2>3, <3>1, <3>2
    <3> QED
      BY <3>3, <3>4
  <2>6. ingests' \in [DOMAIN rest -> IngestRow]
    <3>1. \A j \in DOMAIN rest : ingests'[j] \in IngestRow
      BY <2>2, <2>4, <2>5
    <3>2. ingests' = [j \in DOMAIN rest |-> ingests'[j]]
      BY <2>3
    <3> QED
      BY <3>1, <3>2
  <2>7. LockTypes'
    BY <1>1, <2>2, <2>4, <2>6 DEF LockTypes
  <2>8. \A j \in DOMAIN ingests' : Inside(j)' => j # next /\ j \in DOMAIN ingests /\ ingests'[j] = ingests[j]
    BY <2>2, <2>4, <2>5 DEF Inside
  <2>9. \A j \in DOMAIN ingests' : Inside(j)' => Inside(j)
    BY <2>8 DEF Inside
  <2> QED
    BY <1>1, <2>7, <2>8, <2>9, LockUntouched
<1> QED
  BY <1>2, <1>3 DEF Release

\* A crash empties the chains of its process and no others.
LEMMA DownKeeps == ASSUME LockInv, NEW p \in Process, Down(p) PROVE LockInv'
<1>1. LockTypes
  BY DEF LockInv
<1>2. PICK gone : gone = {i \in DOMAIN ingests : ingests[i].at = p}
  OBVIOUS
<1>3. /\ DOMAIN ingests' = DOMAIN ingests \ gone
      /\ \A i \in DOMAIN ingests' : ingests'[i] = ingests[i] /\ ingests[i].at # p
  BY <1>2 DEF Down, Without
<1>4. lockQueue' = [lockQueue EXCEPT ![p] = [s \in Shard |-> << >>]]
  BY DEF Down, NewScheduler
<1>5. ingests' \in [DOMAIN ingests' -> IngestRow]
  BY <1>1, <1>2 DEF Down, Without, LockTypes
<1>6. lockQueue' \in [Process -> [Shard -> Seq(Ingest)]]
  <2>1. << >> \in Seq(Ingest)
    OBVIOUS
  <2>2. [s \in Shard |-> << >>] \in [Shard -> Seq(Ingest)]
    BY <2>1
  <2> QED
    BY <1>1, <1>4, <2>2 DEF LockTypes
<1>7. LockTypes'
  BY <1>1, <1>3, <1>5, <1>6 DEF LockTypes
<1>8. ASSUME NEW i \in DOMAIN ingests', Inside(i)' PROVE (Chain(i) # << >> /\ Head(Chain(i)) = i)'
  <2>1. i \in DOMAIN ingests /\ Inside(i) /\ Here(i) # p /\ Here(i) \in Process
    BY <1>1, <1>3, <1>8, ChainTypes DEF Inside, Here
  <2>2. Chain(i)' = lockQueue'[Here(i)][Goal(i)]
    BY <1>3, <1>8 DEF Chain, Here, Goal
  <2>3. Chain(i)' = Chain(i)
    BY <1>1, <1>4, <2>1, <2>2 DEF Chain, LockTypes
  <2> QED
    BY <2>1, <2>3 DEF LockInv, HoldersLead
<1> QED
  BY <1>7, <1>8 DEF LockInv, HoldersLead

LEMMA LockStep == LockInv /\ [Next]_vars => LockInv'
<1> SUFFICES ASSUME LockInv, [Next]_vars PROVE LockInv'
  OBVIOUS
<1>1. CASE UNCHANGED ingestVars
  <2>1. ingests' = ingests /\ lockQueue' = lockQueue
    BY <1>1 DEF ingestVars
  <2>2. LockTypes'
    BY <2>1 DEF LockInv, LockTypes
  <2> QED
    BY <2>1, <2>2, LockUntouched DEF Inside
<1>2. ASSUME NEW i \in Ingest, StepOfIngest(i) PROVE LockInv'
  <2>1. CASE IngestThrows(i) \/ SettleIngest(i)
    BY <2>1, UnlockKeeps DEF IngestThrows, SettleIngest, Is, Inside
  <2> QED
    BY <1>2, <2>1, QueueForShardKeeps, BeginKeeps, EndsKeeps, ReleaseKeeps DEF StepOfIngest
<1>3. CASE UNCHANGED vars
  BY <1>1, <1>3 DEF vars
<1> QED
  BY <1>1, <1>2, <1>3, DownKeeps, ArriveKeeps DEF Next

LEMMA LockStart == Init => LockInv
<1> SUFFICES ASSUME Init PROVE LockInv
  OBVIOUS
<1>1. DOMAIN ingests = {} /\ ingests \in [DOMAIN ingests -> IngestRow]
  BY DEF Init
<1>2. lockQueue \in [Process -> [Shard -> Seq(Ingest)]]
  BY DEF Init
<1> QED
  BY <1>1, <1>2 DEF LockInv, LockTypes, HoldersLead

\* withShardLock in scheduler.ts: of the direct ingests into a shard from one
\* process, at most one is between its first write of the shard's status and its
\* last, however many wait, throw or are lost in a crash.
THEOREM IngestsTakeTurns == Spec => []IngestsSerialized
  BY LockStart, LockStep, LockInvSuffices, PTL DEF Spec

-----------------------------------------------------------------------------
(* The slots *)

\* Those of a process that have a slot.
Holding(p) == {i \in DOMAIN ingests : Here(i) = p /\ ingests[i].step # "slot"}

SlotTypes ==
  /\ slots \in [Process -> Nat]
  /\ slotQueue \in [Process -> Seq(Ingest)]

\* In line are ingests of the process that have no slot, each of them once.
LineIsTrue ==
  \A p \in Process : \A k \in DOMAIN slotQueue[p] :
    /\ slotQueue[p][k] \in DOMAIN ingests
    /\ Here(slotQueue[p][k]) = p /\ ingests[slotQueue[p][k]].step = "slot"
    /\ \A l \in DOMAIN slotQueue[p] : slotQueue[p][k] = slotQueue[p][l] => k = l

SlotsAddUp == \A p \in Process : slots[p] + Cardinality(Holding(p)) = Slots

SlotInv == LockInv /\ SlotTypes /\ LineIsTrue /\ SlotsAddUp

LEMMA SlotInvSuffices == SlotInv => TypeOK /\ SlotsKept
<1> SUFFICES ASSUME SlotInv PROVE TypeOK /\ SlotsKept
  OBVIOUS
<1>1. ASSUME NEW p \in Process PROVE slots[p] \in 0..Slots
  <2>1. Holding(p) \subseteq Ingest
    BY DEF SlotInv, LockInv, LockTypes, Holding
  <2>2. Cardinality(Holding(p)) \in Nat
    BY <2>1, IngestAssumption, FS_Subset, FS_CardinalityType
  <2>3. slots[p] + Cardinality(Holding(p)) = Slots /\ slots[p] \in Nat
    BY DEF SlotInv, SlotsAddUp, SlotTypes
  <2> QED
    BY <2>2, <2>3, QueueAssumption
<1>2. TypeOK
  BY <1>1 DEF SlotInv, SlotTypes, LockInv, LockTypes, IngestRow, TypeOK
<1> QED
  BY <1>2 DEF SlotInv, SlotsAddUp, SlotsKept, Holding

LEMMA HoldingCounts ==
  ASSUME LockInv, NEW p
  PROVE  /\ Holding(p) \subseteq DOMAIN ingests /\ Cardinality(Holding(p)) \in Nat
         /\ \A i \in Holding(p) : Cardinality(Holding(p) \ {i}) = Cardinality(Holding(p)) - 1
         /\ \A i : i \notin Holding(p) => Cardinality(Holding(p) \cup {i}) = Cardinality(Holding(p)) + 1
         /\ \A i \in Holding(p) : \A j : j \notin Holding(p) =>
              Cardinality((Holding(p) \ {i}) \cup {j}) = Cardinality(Holding(p))
<1>1. Holding(p) \subseteq DOMAIN ingests /\ Holding(p) \subseteq Ingest
  BY DEF LockInv, LockTypes, Holding
<1>2. IsFiniteSet(Holding(p)) /\ Cardinality(Holding(p)) \in Nat
  BY <1>1, IngestAssumption, FS_Subset, FS_CardinalityType
<1>3. ASSUME NEW i \in Holding(p), NEW j, j \notin Holding(p)
      PROVE  Cardinality((Holding(p) \ {i}) \cup {j}) = Cardinality(Holding(p))
  <2>1. IsFiniteSet(Holding(p) \ {i}) /\ Cardinality(Holding(p) \ {i}) = Cardinality(Holding(p)) - 1
    BY <1>2, FS_RemoveElement
  <2>2. Cardinality((Holding(p) \ {i}) \cup {j}) = Cardinality(Holding(p) \ {i}) + 1
    BY <1>3, <2>1, FS_AddElement
  <2> QED
    BY <1>2, <2>1, <2>2
<1> QED
  BY <1>1, <1>2, <1>3, FS_AddElement, FS_RemoveElement

\* A line with somebody behind it, and without its first.
LEMMA Lines ==
  ASSUME NEW S, NEW line \in Seq(S)
  PROVE  /\ DOMAIN line = 1..Len(line) /\ Len(line) \in Nat
         /\ \A e \in S : /\ Append(line, e) \in Seq(S)
                        /\ DOMAIN Append(line, e) = DOMAIN line \cup {Len(line) + 1}
                        /\ Append(line, e)[Len(line) + 1] = e
                        /\ \A k \in DOMAIN line : Append(line, e)[k] = line[k]
         /\ line # << >> => /\ Tail(line) \in Seq(S) /\ 1 \in DOMAIN line /\ line[1] = Head(line)
                            /\ \A k \in DOMAIN Tail(line) :
                                 k \in Nat \ {0} /\ k + 1 \in DOMAIN line /\ Tail(line)[k] = line[k + 1]
  OBVIOUS

\* Who is in line where.
LEMMA InLine ==
  ASSUME LineIsTrue, NEW p \in Process, NEW k \in DOMAIN slotQueue[p]
  PROVE  /\ slotQueue[p][k] \in DOMAIN ingests
         /\ ingests[slotQueue[p][k]].at = p /\ ingests[slotQueue[p][k]].step = "slot"
         /\ \A l \in DOMAIN slotQueue[p] : slotQueue[p][k] = slotQueue[p][l] => k = l
  BY DEF LineIsTrue, Here

\* Who has a slot keeps it, and who waits goes on waiting.
LEMMA SlotsUntouched ==
  ASSUME SlotInv, LockInv', slots' = slots, slotQueue' = slotQueue, DOMAIN ingests' = DOMAIN ingests,
         \A i \in DOMAIN ingests : /\ ingests'[i].at = ingests[i].at
                                   /\ ingests'[i].step = "slot" <=> ingests[i].step = "slot"
  PROVE  SlotInv'
<1>1. \A p : Holding(p)' = Holding(p)
  BY DEF Holding, Here
<1>2. SlotsAddUp'
  BY <1>1 DEF SlotInv, SlotsAddUp
<1>3. LineIsTrue'
  BY DEF SlotInv, LineIsTrue, Here
<1> QED
  BY <1>2, <1>3 DEF SlotInv, SlotTypes

LEMMA MoveKeepsSlots ==
  ASSUME SlotInv, LockInv', NEW i \in DOMAIN ingests, ingests[i].step # "slot",
         NEW step \in IngestStep \ {"slot"}, Move(i, step), UNCHANGED <<slots, slotQueue>>
  PROVE  SlotInv'
<1>1. /\ DOMAIN ingests' = DOMAIN ingests /\ ingests'[i].step = step
      /\ \A j \in DOMAIN ingests : ingests'[j].at = ingests[j].at
      /\ \A j \in DOMAIN ingests \ {i} : ingests'[j] = ingests[j]
  BY MoveTypes DEF SlotInv, LockInv
<1> QED
  BY <1>1, SlotsUntouched

LEMMA ArriveKeepsSlots ==
  ASSUME SlotInv, LockInv', NEW i \in Ingest, NEW p \in Process, NEW s \in Shard, IngestDocs(i, p, s)
  PROVE  SlotInv'
<1>0. /\ i \notin DOMAIN ingests /\ LockInv /\ slots \in [Process -> Nat]
      /\ slotQueue \in [Process -> Seq(Ingest)] /\ LineIsTrue /\ SlotsAddUp
  BY DEF IngestDocs, SlotInv, SlotTypes
<1>1. ASSUME NEW step, ingests' = With(ingests, i, [at |-> p, shard |-> s, step |-> step])
      PROVE  /\ DOMAIN ingests' = DOMAIN ingests \cup {i}
             /\ ingests'[i].at = p /\ ingests'[i].step = step
             /\ \A j \in DOMAIN ingests : ingests'[j] = ingests[j]
  BY <1>0, <1>1 DEF With
<1>2. i \notin Holding(p)
  BY <1>0 DEF Holding
<1>3. CASE slots[p] > 0
  <2>1. /\ slots' = [slots EXCEPT ![p] = @ - 1] /\ slotQueue' = slotQueue
        /\ ingests' = With(ingests, i, [at |-> p, shard |-> s, step |-> "granted"])
    BY <1>3 DEF IngestDocs
  <2>2. Holding(p)' = Holding(p) \cup {i} /\ \A q : q # p => Holding(q)' = Holding(q)
    BY <1>0, <1>1, <2>1 DEF Holding, Here
  <2>3. slots' \in [Process -> Nat] /\ slots'[p] = slots[p] - 1 /\ \A q \in Process : q # p => slots'[q] = slots[q]
    BY <1>0, <1>3, <2>1
  <2>4. slots'[p] + Cardinality(Holding(p)') = Slots
    <3>1. slots[p] + Cardinality(Holding(p)) = Slots /\ slots[p] \in Nat
      BY <1>0 DEF SlotsAddUp
    <3>2. Cardinality(Holding(p)') = Cardinality(Holding(p)) + 1 /\ Cardinality(Holding(p)) \in Nat
      BY <1>0, <1>2, <2>2, HoldingCounts
    <3> QED
      BY <2>3, <3>1, <3>2
  <2>5. SlotsAddUp'
    BY <1>0, <2>2, <2>3, <2>4 DEF SlotsAddUp
  <2>6. LineIsTrue'
    BY <1>0, <1>1, <2>1 DEF LineIsTrue, Here
  <2> QED
    BY <1>0, <2>1, <2>3, <2>5, <2>6 DEF SlotInv, SlotTypes
<1>4. CASE slots[p] = 0
  <2>1. /\ slots' = slots /\ slotQueue' = [slotQueue EXCEPT ![p] = Append(slotQueue[p], i)]
        /\ ingests' = With(ingests, i, [at |-> p, shard |-> s, step |-> "slot"])
    BY <1>4 DEF IngestDocs
  <2>2. \A q : Holding(q)' = Holding(q)
    BY <1>0, <1>1, <2>1 DEF Holding, Here
  <2>3. SlotsAddUp'
    BY <1>0, <2>1, <2>2 DEF SlotsAddUp
  <2>4. PICK line : line = Append(slotQueue[p], i)
    OBVIOUS
  <2> DEFINE n == Len(slotQueue[p]) + 1
  <2>9. /\ line \in Seq(Ingest) /\ DOMAIN line = DOMAIN slotQueue[p] \cup {n} /\ n \notin DOMAIN slotQueue[p]
        /\ line[n] = i /\ \A k \in DOMAIN slotQueue[p] : line[k] = slotQueue[p][k]
    <3>1. slotQueue[p] \in Seq(Ingest)
      BY <1>0
    <3>2. DOMAIN slotQueue[p] = 1..Len(slotQueue[p]) /\ Len(slotQueue[p]) \in Nat
      BY <3>1, Lines
    <3>3. n \notin DOMAIN slotQueue[p]
      BY <3>2
    <3> QED
      BY <2>4, <3>1, <3>3, Lines
  <2>5. /\ slotQueue' \in [Process -> Seq(Ingest)] /\ slotQueue'[p] = line
        /\ \A q \in Process : q # p => slotQueue'[q] = slotQueue[q]
    BY <1>0, <2>1, <2>4, <2>9
  <2>6. \A k \in DOMAIN slotQueue[p] : slotQueue[p][k] \in DOMAIN ingests
    BY <1>0 DEF LineIsTrue
  <2>7. ASSUME NEW q \in Process, NEW k \in DOMAIN slotQueue'[q]
        PROVE  /\ slotQueue'[q][k] \in DOMAIN ingests'
               /\ ingests'[slotQueue'[q][k]].at = q /\ ingests'[slotQueue'[q][k]].step = "slot"
               /\ \A l \in DOMAIN slotQueue'[q] : slotQueue'[q][k] = slotQueue'[q][l] => k = l
    <3>1. CASE q # p
      <4>1. slotQueue'[q] = slotQueue[q] /\ k \in DOMAIN slotQueue[q]
        BY <2>5, <3>1
      <4>2. /\ slotQueue[q][k] \in DOMAIN ingests
            /\ ingests[slotQueue[q][k]].at = q /\ ingests[slotQueue[q][k]].step = "slot"
            /\ \A l \in DOMAIN slotQueue[q] : slotQueue[q][k] = slotQueue[q][l] => k = l
        BY <1>0, <4>1, InLine
      <4> QED
        BY <1>1, <2>1, <4>1, <4>2
    <3>2. CASE q = p /\ k \in DOMAIN slotQueue[p]
      <4>1. /\ slotQueue[p][k] \in DOMAIN ingests
            /\ ingests[slotQueue[p][k]].at = p /\ ingests[slotQueue[p][k]].step = "slot"
            /\ \A l \in DOMAIN slotQueue[p] : slotQueue[p][k] = slotQueue[p][l] => k = l
        BY <1>0, <3>2, InLine
      <4>2. slotQueue[p][k] # i
        BY <1>0, <4>1
      <4>3. \A l \in DOMAIN line : line[k] = line[l] => k = l
        BY <2>9, <3>2, <4>1, <4>2
      <4> QED
        BY <1>1, <2>1, <2>5, <2>9, <3>2, <4>1, <4>3
    <3>3. CASE q = p /\ k \notin DOMAIN slotQueue[p]
      <4>1. k = n /\ line[k] = i
        BY <2>5, <2>9, <3>3
      <4>2. \A l \in DOMAIN line : line[l] = i => l = n
        BY <1>0, <2>6, <2>9
      <4> QED
        BY <1>1, <2>1, <2>5, <3>3, <4>1, <4>2
    <3> QED
      BY <3>1, <3>2, <3>3
  <2>8. LineIsTrue'
    BY <2>7 DEF LineIsTrue, Here
  <2> QED
    BY <1>0, <2>1, <2>3, <2>5, <2>8 DEF SlotInv, SlotTypes
<1> QED
  BY <1>0, <1>3, <1>4

LEMMA ReleaseKeepsSlots ==
  ASSUME SlotInv, LockInv', NEW i \in Ingest, Release(i)
  PROVE  SlotInv'
<1>0. /\ i \in DOMAIN ingests /\ ingests[i].step = "leaving" /\ LockInv /\ slots \in [Process -> Nat]
      /\ slotQueue \in [Process -> Seq(Ingest)] /\ LineIsTrue /\ SlotsAddUp
  BY DEF Release, Is, SlotInv, SlotTypes
<1>1. PICK p \in Process : p = Here(i)
  BY <1>0, ChainTypes DEF LockInv
<1>2. i \in Holding(p) /\ \A q : q # p => i \notin Holding(q)
  BY <1>0, <1>1 DEF Holding
<1>3. PICK rest : rest = Without(ingests, {i})
  OBVIOUS
<1>7. DOMAIN rest = DOMAIN ingests \ {i} /\ \A j \in DOMAIN rest : rest[j] = ingests[j]
  BY <1>3 DEF Without
<1>4. slots[p] + Cardinality(Holding(p)) = Slots /\ slots[p] \in Nat /\ Cardinality(Holding(p)) \in Nat
  BY <1>0, HoldingCounts DEF SlotsAddUp
<1>5. CASE slotQueue[p] = << >>
  <2>1. slots' = [slots EXCEPT ![p] = @ + 1] /\ ingests' = rest /\ slotQueue' = slotQueue
    BY <1>1, <1>3, <1>5 DEF Release
  <2>2. Holding(p)' = Holding(p) \ {i} /\ \A q : q # p => Holding(q)' = Holding(q)
    BY <1>1, <1>7, <2>1 DEF Holding, Here
  <2>3. slots' \in [Process -> Nat] /\ slots'[p] = slots[p] + 1 /\ \A q \in Process : q # p => slots'[q] = slots[q]
    BY <1>0, <1>4, <2>1
  <2>4. Cardinality(Holding(p)') = Cardinality(Holding(p)) - 1
    BY <1>0, <1>2, <2>2, HoldingCounts
  <2>5. slots'[p] + Cardinality(Holding(p)') = Slots
    BY <1>4, <2>3, <2>4
  <2>6. SlotsAddUp'
    BY <1>0, <2>2, <2>3, <2>5 DEF SlotsAddUp
  <2>7. ASSUME NEW q \in Process, NEW k \in DOMAIN slotQueue[q]
        PROVE  /\ slotQueue[q][k] \in DOMAIN ingests'
               /\ ingests'[slotQueue[q][k]].at = q /\ ingests'[slotQueue[q][k]].step = "slot"
               /\ \A l \in DOMAIN slotQueue[q] : slotQueue[q][k] = slotQueue[q][l] => k = l
    <3>1. /\ slotQueue[q][k] \in DOMAIN ingests
          /\ ingests[slotQueue[q][k]].at = q /\ ingests[slotQueue[q][k]].step = "slot"
          /\ \A l \in DOMAIN slotQueue[q] : slotQueue[q][k] = slotQueue[q][l] => k = l
      BY <1>0, InLine
    <3>2. slotQueue[q][k] # i
      BY <1>0, <3>1
    <3> QED
      BY <1>7, <2>1, <3>1, <3>2
  <2>8. LineIsTrue'
    BY <2>1, <2>7 DEF LineIsTrue, Here
  <2> QED
    BY <1>0, <2>1, <2>3, <2>6, <2>8 DEF SlotInv, SlotTypes
<1>6. CASE slotQueue[p] # << >>
  <2>1. PICK next : /\ next = Head(slotQueue[p]) /\ slots' = slots
                    /\ slotQueue' = [slotQueue EXCEPT ![p] = Tail(slotQueue[p])]
                    /\ ingests' = [rest EXCEPT ![next].step = "granted"]
    BY <1>1, <1>3, <1>6 DEF Release
  <2>2. PICK line : line = Tail(slotQueue[p])
    OBVIOUS
  <2>14. /\ line \in Seq(Ingest) /\ 1 \in DOMAIN slotQueue[p] /\ slotQueue[p][1] = next
         /\ \A k \in DOMAIN line :
              k \in Nat \ {0} /\ k + 1 \in DOMAIN slotQueue[p] /\ line[k] = slotQueue[p][k + 1]
    <3>1. slotQueue[p] \in Seq(Ingest)
      BY <1>0
    <3> QED
      BY <1>6, <2>1, <2>2, <3>1, Lines, SMTT(30)
  <2>3. /\ next \in DOMAIN ingests /\ ingests[next].at = p /\ ingests[next].step = "slot"
    BY <1>0, <2>14, InLine
  <2>4. next # i /\ next \in DOMAIN rest
    BY <1>0, <1>7, <2>3
  <2>5. /\ DOMAIN ingests' = DOMAIN ingests \ {i}
        /\ ingests'[next].at = p /\ ingests'[next].step = "granted"
        /\ \A j \in DOMAIN ingests \ {i, next} : ingests'[j] = ingests[j]
    <3>1. PICK row \in IngestRow : row = rest[next]
      BY <1>0, <1>7, <2>3, <2>4 DEF LockInv, LockTypes
    <3>2. /\ [row EXCEPT !.step = "granted"].at = row.at
          /\ [row EXCEPT !.step = "granted"].step = "granted"
      BY DEF IngestRow
    <3>3. ingests' = [rest EXCEPT ![next] = [row EXCEPT !.step = "granted"]]
      BY <2>1, <3>1
    <3> QED
      BY <1>7, <2>3, <2>4, <3>1, <3>2, <3>3
  <2>6. next \notin Holding(p)
    BY <2>3 DEF Holding
  <2>7. Holding(p)' = (Holding(p) \ {i}) \cup {next}
    BY <1>1, <2>3, <2>4, <2>5 DEF Holding, Here
  <2>8. \A q : q # p => Holding(q)' = Holding(q)
    BY <1>1, <2>3, <2>4, <2>5 DEF Holding, Here
  <2>9. Cardinality(Holding(p)') = Cardinality(Holding(p))
    <3>1. \A j \in Holding(p) : \A k : k \notin Holding(p) =>
            Cardinality((Holding(p) \ {j}) \cup {k}) = Cardinality(Holding(p))
      BY <1>0, HoldingCounts
    <3> QED
      BY <1>2, <2>6, <2>7, <3>1
  <2>10. SlotsAddUp'
    BY <1>0, <2>1, <2>8, <2>9 DEF SlotsAddUp
  <2>11. /\ slotQueue' \in [Process -> Seq(Ingest)] /\ slotQueue'[p] = line
         /\ \A q \in Process : q # p => slotQueue'[q] = slotQueue[q]
    BY <1>0, <2>1, <2>2, <2>14
  <2>12. ASSUME NEW q \in Process, NEW k \in DOMAIN slotQueue'[q]
         PROVE  /\ slotQueue'[q][k] \in DOMAIN ingests \ {i, next}
                /\ ingests[slotQueue'[q][k]].at = q /\ ingests[slotQueue'[q][k]].step = "slot"
                /\ \A l \in DOMAIN slotQueue'[q] : slotQueue'[q][k] = slotQueue'[q][l] => k = l
    <3>1. CASE q # p
      <4>1. slotQueue'[q] = slotQueue[q] /\ k \in DOMAIN slotQueue[q]
        BY <2>11, <3>1
      <4>2. /\ slotQueue[q][k] \in DOMAIN ingests
            /\ ingests[slotQueue[q][k]].at = q /\ ingests[slotQueue[q][k]].step = "slot"
            /\ \A l \in DOMAIN slotQueue[q] : slotQueue[q][k] = slotQueue[q][l] => k = l
        BY <1>0, <4>1, InLine
      <4> QED
        BY <1>0, <2>3, <3>1, <4>1, <4>2
    <3>2. CASE q = p
      <4>1. slotQueue'[q] = line /\ k \in DOMAIN line
        BY <2>11, <3>2
      <4>2. k \in Nat \ {0} /\ k + 1 \in DOMAIN slotQueue[p] /\ line[k] = slotQueue[p][k + 1]
        BY <2>14, <4>1
      <4>3. /\ line[k] \in DOMAIN ingests /\ ingests[line[k]].at = p /\ ingests[line[k]].step = "slot"
            /\ \A l \in DOMAIN slotQueue[p] : line[k] = slotQueue[p][l] => k + 1 = l
        BY <1>0, <4>2, InLine
      <4>4. line[k] # next
        BY <2>14, <4>2, <4>3
      <4>5. line[k] # i
        BY <1>0, <4>3
      <4>6. ASSUME NEW l \in DOMAIN line, line[k] = line[l] PROVE k = l
        <5>1. l \in Nat /\ l + 1 \in DOMAIN slotQueue[p] /\ line[l] = slotQueue[p][l + 1]
          BY <2>14
        <5>2. k + 1 = l + 1
          BY <4>3, <4>6, <5>1
        <5> QED
          BY <4>2, <5>1, <5>2
      <4> QED
        BY <3>2, <4>1, <4>3, <4>4, <4>5, <4>6
    <3> QED
      BY <3>1, <3>2
  <2>13. LineIsTrue'
    BY <2>5, <2>12 DEF LineIsTrue, Here
  <2> QED
    BY <1>0, <2>1, <2>10, <2>11, <2>13 DEF SlotInv, SlotTypes
<1> QED
  BY <1>5, <1>6

LEMMA DownKeepsSlots ==
  ASSUME SlotInv, LockInv', NEW p \in Process, Down(p)
  PROVE  SlotInv'
<1>0. LockInv /\ slots \in [Process -> Nat] /\ slotQueue \in [Process -> Seq(Ingest)] /\ LineIsTrue /\ SlotsAddUp
  BY DEF SlotInv, SlotTypes
<1>1. /\ DOMAIN ingests' = DOMAIN ingests \ {i \in DOMAIN ingests : ingests[i].at = p}
      /\ \A i \in DOMAIN ingests' : ingests'[i] = ingests[i]
  BY DEF Down, Without
<1>2. /\ slots' = [slots EXCEPT ![p] = Slots] /\ slotQueue' = [slotQueue EXCEPT ![p] = << >>]
  BY DEF Down, NewScheduler
<1>3. slots' \in [Process -> Nat] /\ slotQueue' \in [Process -> Seq(Ingest)]
  <2>1. << >> \in Seq(Ingest) /\ Slots \in Nat
    BY QueueAssumption
  <2> QED
    BY <1>0, <1>2, <2>1
<1>4. Holding(p)' = {} /\ \A q : q # p => Holding(q)' = Holding(q)
  BY <1>1 DEF Holding, Here
<1>5. SlotsAddUp'
  <2>1. Cardinality({}) = 0
    BY FS_EmptySet
  <2>2. slots'[p] + Cardinality(Holding(p)') = Slots
    BY <1>0, <1>2, <1>4, <2>1, QueueAssumption
  <2> QED
    BY <1>0, <1>2, <1>4, <2>2 DEF SlotsAddUp
<1>6. LineIsTrue'
  <2>1. DOMAIN slotQueue'[p] = {}
    BY <1>0, <1>2
  <2>2. \A q \in Process : q # p => slotQueue'[q] = slotQueue[q]
    BY <1>0, <1>2
  <2> QED
    BY <1>0, <1>1, <2>1, <2>2 DEF LineIsTrue, Here
<1> QED
  BY <1>3, <1>5, <1>6 DEF SlotInv, SlotTypes

LEMMA SlotStep == SlotInv /\ [Next]_vars => SlotInv'
<1> SUFFICES ASSUME SlotInv, [Next]_vars PROVE SlotInv'
  OBVIOUS
<1>0. LockInv'
  BY LockStep DEF SlotInv
<1>1. CASE UNCHANGED ingestVars
  BY <1>0, <1>1, SlotsUntouched DEF ingestVars
<1>2. ASSUME NEW i \in Ingest, StepOfIngest(i) PROVE SlotInv'
  <2>1. CASE Release(i)
    BY <1>0, <2>1, ReleaseKeepsSlots
  <2>2. CASE ~Release(i)
    <3>1. PICK step \in IngestStep \ {"slot"} :
            /\ i \in DOMAIN ingests /\ ingests[i].step # "slot" /\ Move(i, step)
            /\ UNCHANGED <<slots, slotQueue>>
      BY <1>2, <2>2 DEF StepOfIngest, QueueForShard, BeginIngest, IngestThrows, IngestEnds, SettleIngest,
                        Unlock, Is, IngestStep
    <3> QED
      BY <1>0, <3>1, MoveKeepsSlots
  <2> QED
    BY <2>1, <2>2
<1>3. CASE UNCHANGED vars
  BY <1>1, <1>3 DEF vars
<1> QED
  BY <1>0, <1>1, <1>2, <1>3, DownKeepsSlots, ArriveKeepsSlots DEF Next

LEMMA SlotStart == Init => SlotInv
<1> SUFFICES ASSUME Init PROVE SlotInv
  OBVIOUS
<1>1. /\ DOMAIN ingests = {} /\ slots = [p \in Process |-> Slots]
      /\ slotQueue = [p \in Process |-> << >>]
  BY DEF Init
<1>2. \A p : Holding(p) = {}
  BY <1>1 DEF Holding
<1>3. SlotTypes
  <2>1. << >> \in Seq(Ingest) /\ Slots \in Nat
    BY QueueAssumption
  <2> QED
    BY <1>1, <2>1 DEF SlotTypes
<1>4. SlotsAddUp
  <2>1. Cardinality({}) = 0
    BY FS_EmptySet
  <2>2. ASSUME NEW p \in Process
        PROVE  slots[p] + Cardinality(Holding(p)) = Slots
    <3>1. slots[p] = Slots
      BY <1>1
    <3>2. Cardinality(Holding(p)) = 0
      BY <1>2, <2>1
    <3>3. Slots + 0 = Slots
      BY QueueAssumption
    <3> QED
      BY <3>1, <3>2, <3>3
  <2> QED
    BY <2>2 DEF SlotsAddUp
<1>5. LineIsTrue
  BY <1>1 DEF LineIsTrue
<1> QED
  BY <1>3, <1>4, <1>5, LockStart DEF SlotInv

\* The scheduler's book-keeping keeps its types: the free slots are between none
\* and maxConcurrentShardIngests, the lines and chains hold ingests.
THEOREM SchedulerTyped == Spec => []TypeOK
  BY SlotInvSuffices, SlotStart, SlotStep, PTL DEF Spec

\* No slot of the semaphore is lost or handed out twice (Semaphore in
\* scheduler.ts), for any number of ingests that wait, throw or die.
THEOREM SlotsComeBack == Spec => []SlotsKept
  BY SlotInvSuffices, SlotStart, SlotStep, PTL DEF Spec

-----------------------------------------------------------------------------
(* The status of a shard *)

\* A worker past its claim has a task of the table, whatever the row says.
TasksAreRows == \A w \in DOMAIN jobs : jobs[w].step # "claim" => jobs[w].task \in DOMAIN queue

BusyInv == SlotInv /\ Placed /\ TasksAreRows /\ IngestingIsBusy

\* Who ingests into a shard: the two disjuncts of IngestingIsBusy.
Crawling(w) == jobs[w].step \in {"crawl", "rolled"}
Busy(s) == \/ \E w \in DOMAIN jobs : Crawling(w) /\ ShardOf(w) = s
           \/ \E i \in DOMAIN ingests : Inside(i) /\ Goal(i) = s

LEMMA BusyMeans ==
  /\ IngestingIsBusy <=> \A s \in Shard : shardStatus[s] = "INGESTING" /\ crashes = 0 => Busy(s)
  /\ IngestingIsBusy' <=> \A s \in Shard : shardStatus'[s] = "INGESTING" /\ crashes' = 0 => Busy(s)'
  BY DEF IngestingIsBusy, Busy, Crawling, Inside

\* However many processes have the catalog open, crawls live in open ones and
\* workers in crawls that drain.
LEMMA PlacedStep == Placed /\ [QueueNext]_queueVars => Placed'
<1> SUFFICES ASSUME Placed, [QueueNext]_queueVars PROVE Placed'
  OBVIOUS
<1>0. QueueTypeOK /\ QueueTypeOK'
  BY QueueTypes DEF Placed
<1>1. ASSUME NEW p \in Process, Open(p) PROVE Placed'
  BY <1>0, <1>1 DEF Open, Placed
<1>2. ASSUME NEW p \in Process, Crash(p) PROVE Placed'
  BY <1>0, <1>2 DEF Crash, Without, Placed
<1>3. ASSUME NEW c \in Crawl, NEW p \in Process, NEW known \in SUBSET Shard, StartCrawl(c, p, known)
      PROVE  Placed'
  BY <1>0, <1>3 DEF StartCrawl, With, Placed
<1>4. ASSUME NEW c \in Crawl, CrawlStep(c) PROVE Placed'
  <2>1. ASSUME NEW s \in Shard, NEW kind \in Kind, Discover(c, s, kind) PROVE Placed'
    <3>1. \A d \in DOMAIN crawls : crawls'[d].at = crawls[d].at /\ crawls'[d].drains = crawls[d].drains
      BY <1>0, <2>1 DEF Discover, QueueTypeOK
    <3> QED
      BY <1>0, <2>1, <3>1 DEF Discover, Placed
  <2>2. CASE Drain(c)
    <3>1. \A d \in DOMAIN crawls : crawls'[d].at = crawls[d].at /\ (crawls[d].drains => crawls'[d].drains)
      BY <1>0, <2>2 DEF Drain, QueueTypeOK
    <3>2. c \in DOMAIN crawls /\ crawls'[c].drains /\ DOMAIN crawls' = DOMAIN crawls /\ open' = open
      BY <1>0, <2>2 DEF Drain, QueueTypeOK
    <3>3. \A w \in DOMAIN jobs' : w \in DOMAIN jobs \/ w[1] = c
      BY <2>2 DEF Drain, Workers
    <3> QED
      BY <1>0, <3>1, <3>2, <3>3 DEF Placed
  <2>3. ASSUME NEW w \in Workers(c), WorkerStep(w) PROVE Placed'
    <3>1. DOMAIN jobs' \subseteq DOMAIN jobs /\ open' = open /\ crawls' = crawls
      BY <2>3 DEF WorkerStep, ClaimNext, LeaveQueue, StartTask, CrawlThrows, CrawlEnds, SettleTask,
                  CompleteTask, Goto, Without
    <3> QED
      BY <1>0, <3>1 DEF Placed
  <2>4. CASE DiscoveryFails(c) \/ Return(c)
    <3>1. \A w \in DOMAIN jobs : w[1] # c
      BY <1>0, <2>4 DEF DiscoveryFails, Return, Idle, Workers, Placed, QueueTypeOK
    <3>2. open' = open /\ jobs' = jobs /\ crawls' = Without(crawls, {c})
      BY <2>4 DEF DiscoveryFails, Return
    <3> QED
      BY <1>0, <3>1, <3>2 DEF Without, Placed
  <2> QED
    BY <1>4, <2>1, <2>2, <2>3, <2>4 DEF CrawlStep
<1>5. CASE UNCHANGED queueVars
  BY <1>0, <1>5 DEF queueVars, Placed
<1> QED
  BY <1>1, <1>2, <1>3, <1>4, <1>5 DEF QueueNext

\* No row leaves the table or changes its shard.
RowsStay == \A i \in DOMAIN queue : i \in DOMAIN queue' /\ queue'[i].shard = queue[i].shard

LEMMA EveryRowStays == ASSUME QueueTypeOK, [QueueNext]_queueVars PROVE RowsStay
<1>0. queue \in Seq(TaskRow) /\ Len(queue) \in Nat /\ DOMAIN queue = 1..Len(queue)
  BY DEF QueueTypeOK
<1>1. ASSUME NEW p \in Process, Open(p) PROVE RowsStay
  <2>1. DOMAIN queue' = DOMAIN queue
    BY <1>1 DEF Open, RecoverQueue
  <2> QED
    BY <1>1, <2>1, RecoverTypes DEF Open, RowsStay
<1>2. ASSUME NEW c \in Crawl, NEW s \in Shard, NEW kind \in Kind, Discover(c, s, kind) PROVE RowsStay
  BY <1>0, <1>2 DEF Discover, Enqueue, RowsStay
<1>3. CASE queue' = queue
  BY <1>3 DEF RowsStay
<1>4. ASSUME NEW i, NEW status \in Status, Mark(i, status) PROVE RowsStay
  <2>1. CASE i \in DOMAIN queue
    BY <1>4, <2>1, MarkTypes DEF RowsStay
  <2>2. CASE i \notin DOMAIN queue
    BY <1>3, <1>0, <1>4, <2>2 DEF Mark
  <2> QED
    BY <2>1, <2>2
<1>5. ASSUME NEW w, WorkerStep(w) PROVE RowsStay
  <2>1. CASE ClaimNext(w) \/ CompleteTask(w)
    <3>1. \E i : \E status \in Status : Mark(i, status)
      BY <2>1 DEF ClaimNext, CompleteTask, Status
    <3> QED
      BY <1>4, <3>1
  <2>2. CASE ~(ClaimNext(w) \/ CompleteTask(w))
    BY <1>3, <1>5, <2>2 DEF WorkerStep, LeaveQueue, StartTask, CrawlThrows, CrawlEnds, SettleTask
  <2> QED
    BY <2>1, <2>2
<1>6. ASSUME NEW c \in Crawl, CrawlStep(c) PROVE RowsStay
  <2>1. CASE DiscoveryFails(c) \/ Drain(c) \/ Return(c)
    BY <1>3, <2>1 DEF DiscoveryFails, Drain, Return
  <2> QED
    BY <1>2, <1>5, <1>6, <2>1 DEF CrawlStep
<1>7. ASSUME NEW p \in Process, Crash(p) PROVE RowsStay
  BY <1>3, <1>7 DEF Crash
<1>8. ASSUME NEW c \in Crawl, NEW p \in Process, NEW known \in SUBSET Shard, StartCrawl(c, p, known)
      PROVE  RowsStay
  BY <1>3, <1>8 DEF StartCrawl
<1>9. CASE UNCHANGED queueVars
  BY <1>3, <1>9 DEF queueVars
<1> QED
  BY <1>1, <1>6, <1>7, <1>8, <1>9 DEF QueueNext
\* A worker moves on by one of these, and leaves the others as they are.
LEMMA OthersStay ==
  ASSUME QueueTypeOK, NEW w, WorkerStep(w)
  PROVE  /\ w \in DOMAIN jobs
         /\ \A v \in DOMAIN jobs \ {w} : v \in DOMAIN jobs' /\ jobs'[v] = jobs[v]
         /\ DOMAIN jobs' \subseteq DOMAIN jobs
<1>1. w \in DOMAIN jobs
  BY DEF WorkerStep, ClaimNext, LeaveQueue, StartTask, CrawlThrows, CrawlEnds, SettleTask, CompleteTask, At
<1>2. CASE LeaveQueue(w)
  BY <1>1, <1>2 DEF LeaveQueue, Without
<1>3. CASE ~LeaveQueue(w)
  <2>1. \E job : jobs' = [jobs EXCEPT ![w] = job]
    BY <1>3 DEF WorkerStep, ClaimNext, StartTask, CrawlThrows, CrawlEnds, SettleTask, CompleteTask, Goto
  <2> QED
    BY <1>1, <2>1 DEF QueueTypeOK
<1> QED
  BY <1>1, <1>2, <1>3

LEMMA TasksStayRows ==
  ASSUME Placed, TasksAreRows, [QueueNext]_queueVars
  PROVE  TasksAreRows'
<1>0. QueueTypeOK /\ RowsStay
  BY EveryRowStays DEF Placed
<1>1. ASSUME \A w \in DOMAIN jobs' : jobs'[w].step = "claim" \/ (w \in DOMAIN jobs /\ jobs'[w] = jobs[w])
      PROVE  TasksAreRows'
  BY <1>0, <1>1 DEF TasksAreRows, RowsStay
<1>2. ASSUME NEW w, WorkerStep(w) PROVE TasksAreRows'
  <2>0. w \in DOMAIN jobs /\ DOMAIN jobs' \subseteq DOMAIN jobs
        /\ \A v \in DOMAIN jobs \ {w} : v \in DOMAIN jobs' /\ jobs'[v] = jobs[v]
    BY <1>0, <1>2, OthersStay
  <2>1. CASE ClaimNext(w)
    <3>1. PICK i \in Claimable : jobs' = [jobs EXCEPT ![w] = [task |-> i, step |-> FirstStep(w, i)]]
      BY <2>1 DEF ClaimNext
    <3>2. jobs'[w].task \in DOMAIN queue
      BY <2>0, <3>1 DEF Claimable, Pending, InStatus, QueueTypeOK
    <3> QED
      BY <1>0, <2>0, <3>2 DEF TasksAreRows, RowsStay
  <2>2. CASE LeaveQueue(w)
    BY <1>1, <2>0, <2>2 DEF LeaveQueue, Without
  <2>3. CASE StartTask(w) \/ CrawlThrows(w) \/ CrawlEnds(w) \/ SettleTask(w)
    <3>1. PICK step \in Step : Goto(w, step)
      BY <2>3 DEF StartTask, CrawlThrows, CrawlEnds, SettleTask, Step
    <3>2. jobs[w].step # "claim"
      BY <2>3 DEF StartTask, CrawlThrows, CrawlEnds, SettleTask, At
    <3>3. jobs'[w].task = jobs[w].task
      BY <1>0, <2>0, <3>1, GotoTypes
    <3> QED
      BY <1>0, <2>0, <3>2, <3>3 DEF TasksAreRows, RowsStay
  <2>4. CASE CompleteTask(w)
    <3>1. jobs'[w].step = "claim"
      BY <1>0, <2>0, <2>4 DEF CompleteTask, QueueTypeOK
    <3> QED
      BY <1>1, <2>0, <3>1
  <2> QED
    BY <1>2, <2>1, <2>2, <2>3, <2>4 DEF WorkerStep
<1>3. ASSUME NEW c \in Crawl, CrawlStep(c) PROVE TasksAreRows'
  <2>1. CASE Drain(c)
    <3>1. \A w \in DOMAIN jobs' : jobs'[w].step = "claim" \/ (w \in DOMAIN jobs /\ jobs'[w] = jobs[w])
      BY <2>1 DEF Drain
    <3> QED
      BY <1>1, <3>1
  <2>2. CASE (\E s \in Shard, kind \in Kind : Discover(c, s, kind)) \/ DiscoveryFails(c) \/ Return(c)
    BY <1>1, <2>2 DEF Discover, DiscoveryFails, Return
  <2> QED
    BY <1>2, <1>3, <2>1, <2>2 DEF CrawlStep
<1>4. ASSUME NEW p \in Process, Crash(p) PROVE TasksAreRows'
  BY <1>1, <1>4 DEF Crash, Without
<1>5. ASSUME jobs' = jobs PROVE TasksAreRows'
  BY <1>1, <1>5
<1> QED
  BY <1>3, <1>4, <1>5 DEF QueueNext, Open, StartCrawl, queueVars

\* A shard that says INGESTING after a step is busy after it, or was busy before
\* and whoever ingests into it still does.
LEMMA BusyStays ==
  ASSUME BusyInv, RowsStay, crashes' = 0 => crashes = 0,
         \A s \in Shard : shardStatus'[s] = "INGESTING" /\ crashes' = 0 =>
           \/ Busy(s)'
           \/ /\ shardStatus[s] = "INGESTING"
              /\ \A w \in DOMAIN jobs : Crawling(w) /\ ShardOf(w) = s =>
                   w \in DOMAIN jobs' /\ Crawling(w)' /\ jobs'[w].task = jobs[w].task
              /\ \A i \in DOMAIN ingests : Inside(i) /\ Goal(i) = s =>
                   i \in DOMAIN ingests' /\ Inside(i)' /\ Goal(i)' = s
  PROVE  IngestingIsBusy'
<1> SUFFICES ASSUME NEW s \in Shard, shardStatus'[s] = "INGESTING", crashes' = 0 PROVE Busy(s)'
  BY BusyMeans
<1> SUFFICES ASSUME ~Busy(s)' PROVE FALSE
  OBVIOUS
<1>1. Busy(s)
  BY BusyMeans DEF BusyInv
<1>2. ASSUME NEW w \in DOMAIN jobs, Crawling(w), ShardOf(w) = s PROVE FALSE
  <2>1. jobs[w].task \in DOMAIN queue
    BY <1>2 DEF Crawling, BusyInv, TasksAreRows
  <2>2. w \in DOMAIN jobs' /\ Crawling(w)' /\ jobs'[w].task = jobs[w].task
    BY <1>2
  <2>3. ShardOf(w)' = s
    BY <1>2, <2>1, <2>2 DEF ShardOf, RowsStay
  <2> QED
    BY <2>2, <2>3 DEF Busy
<1>3. ASSUME NEW i \in DOMAIN ingests, Inside(i), Goal(i) = s PROVE FALSE
  BY <1>3 DEF Busy
<1> QED
  BY <1>1, <1>2, <1>3 DEF Busy

\* The steps of a worker.
LEMMA WorkerKeepsBusy ==
  ASSUME BusyInv, RowsStay, NEW w, WorkerStep(w), UNCHANGED ingestVars
  PROVE  IngestingIsBusy'
<1>0. QueueTypeOK /\ UNCHANGED ingests
  BY DEF BusyInv, Placed, ingestVars
<1>1. /\ w \in DOMAIN jobs
      /\ \A v \in DOMAIN jobs \ {w} : v \in DOMAIN jobs' /\ jobs'[v] = jobs[v]
  BY <1>0, OthersStay
<1>2. \A v \in DOMAIN jobs \ {w} :
        v \in DOMAIN jobs' /\ (Crawling(v) => Crawling(v)') /\ jobs'[v].task = jobs[v].task
  BY <1>1 DEF Crawling
<1>3. \A i \in DOMAIN ingests : i \in DOMAIN ingests' /\ (Inside(i) => Inside(i)') /\ Goal(i)' = Goal(i)
  BY <1>0 DEF Inside, Goal
<1>4. crashes' = crashes
  BY DEF WorkerStep, ClaimNext, LeaveQueue, StartTask, CrawlThrows, CrawlEnds, SettleTask, CompleteTask
<1>5. CASE ClaimNext(w) \/ LeaveQueue(w) \/ CompleteTask(w)
  <2>1. ~Crawling(w) /\ shardStatus' = shardStatus
    BY <1>5 DEF ClaimNext, LeaveQueue, CompleteTask, At, Crawling
  <2>2. \A v \in DOMAIN jobs : Crawling(v) =>
          v \in DOMAIN jobs' /\ Crawling(v)' /\ jobs'[v].task = jobs[v].task
    BY <1>2, <2>1
  <2> QED
    BY <1>3, <1>4, <2>1, <2>2, BusyStays
<1>6. CASE StartTask(w) \/ CrawlEnds(w)
  <2>1. PICK step \in {"crawl", "rolled"} : Goto(w, step)
    BY <1>6 DEF StartTask, CrawlEnds
  <2>2. w \in DOMAIN jobs' /\ jobs'[w].task = jobs[w].task /\ jobs'[w].step \in {"crawl", "rolled"}
    BY <1>0, <1>1, <2>1, GotoTypes DEF Step
  <2>3. Crawling(w)'
    BY <2>2 DEF Crawling
  <2>4. jobs[w].task \in DOMAIN queue
    BY <1>6 DEF StartTask, CrawlEnds, At, BusyInv, TasksAreRows
  <2>5. ShardOf(w)' = ShardOf(w)
    BY <2>2, <2>4 DEF ShardOf, RowsStay
  <2>6. \A s \in Shard : s # ShardOf(w) /\ shardStatus'[s] = "INGESTING" => shardStatus[s] = "INGESTING"
    BY <1>0, <1>6 DEF StartTask, CrawlEnds, Ingesting, RollUp, QueueTypeOK
  <2>7. \A s \in Shard : s = ShardOf(w) => Busy(s)'
    BY <2>2, <2>3, <2>5 DEF Busy
  <2>8. \A v \in DOMAIN jobs : Crawling(v) =>
          v \in DOMAIN jobs' /\ Crawling(v)' /\ jobs'[v].task = jobs[v].task
    BY <1>2, <2>2, <2>3
  <2> QED
    BY <1>3, <1>4, <2>6, <2>7, <2>8, BusyStays
<1>7. CASE CrawlThrows(w) \/ SettleTask(w)
  <2>1. shardStatus'[ShardOf(w)] # "INGESTING" \/ ShardOf(w) \notin Shard
    BY <1>0, <1>7 DEF CrawlThrows, SettleTask, GiveUp, SettleShard, QueueTypeOK
  <2>2. \A s \in Shard : s # ShardOf(w) => shardStatus'[s] = shardStatus[s]
    BY <1>0, <1>7 DEF CrawlThrows, SettleTask, GiveUp, SettleShard, QueueTypeOK
  <2> QED
    BY <1>2, <1>3, <1>4, <2>1, <2>2, BusyStays
<1> QED
  BY <1>5, <1>6, <1>7 DEF WorkerStep

\* The steps of the queue that are no worker's.
LEMMA QueueKeepsBusy ==
  ASSUME BusyInv, [QueueNext]_queueVars, UNCHANGED ingestVars
  PROVE  IngestingIsBusy'
<1>0. QueueTypeOK /\ RowsStay /\ UNCHANGED ingests
  BY EveryRowStays DEF BusyInv, Placed, ingestVars
<1>1. ASSUME shardStatus' = shardStatus, crashes' = crashes,
             \A w \in DOMAIN jobs : w \in DOMAIN jobs' /\ jobs'[w] = jobs[w]
      PROVE  IngestingIsBusy'
  <2>1. \A w \in DOMAIN jobs : w \in DOMAIN jobs' /\ (Crawling(w) => Crawling(w)') /\ jobs'[w].task = jobs[w].task
    BY <1>1 DEF Crawling
  <2>2. \A i \in DOMAIN ingests : i \in DOMAIN ingests' /\ (Inside(i) => Inside(i)') /\ Goal(i)' = Goal(i)
    BY <1>0 DEF Inside, Goal
  <2> QED
    BY <1>0, <1>1, <2>1, <2>2, BusyStays
<1>2. ASSUME NEW p \in Process, Crash(p) PROVE IngestingIsBusy'
  <2>1. crashes' # 0
    BY <1>0, <1>2 DEF Crash, QueueTypeOK
  <2> QED
    BY <2>1 DEF IngestingIsBusy
<1>3. ASSUME NEW c \in Crawl, CrawlStep(c) PROVE IngestingIsBusy'
  <2>1. CASE Drain(c)
    <3>1. \A w \in DOMAIN jobs : w \notin Workers(c)
      BY <2>1 DEF Drain, Workers, BusyInv, Placed
    <3>2. \A w \in DOMAIN jobs : w \in DOMAIN jobs' /\ jobs'[w] = jobs[w]
      BY <2>1, <3>1 DEF Drain
    <3> QED
      BY <1>1, <2>1, <3>2 DEF Drain
  <2>2. CASE (\E s \in Shard, kind \in Kind : Discover(c, s, kind)) \/ DiscoveryFails(c) \/ Return(c)
    BY <1>1, <2>2 DEF Discover, DiscoveryFails, Return
  <2> QED
    BY <1>0, <1>3, <2>1, <2>2, WorkerKeepsBusy DEF CrawlStep
<1> QED
  BY <1>1, <1>2, <1>3 DEF QueueNext, Open, StartCrawl, queueVars

\* An ingest that waits for a slot does not ingest.
LEMMA FirstInLineWaits ==
  ASSUME SlotInv, NEW p \in Process, slotQueue[p] # << >>
  PROVE  ~Inside(Head(slotQueue[p]))
<1>1. 1 \in DOMAIN slotQueue[p] /\ slotQueue[p][1] = Head(slotQueue[p])
  BY Lines DEF SlotInv, SlotTypes
<1>2. ingests[Head(slotQueue[p])].step = "slot"
  BY <1>1, InLine DEF SlotInv
<1> QED
  BY <1>2 DEF Inside

\* The steps of a direct ingest.
LEMMA IngestKeepsBusy ==
  ASSUME BusyInv, NEW i \in Ingest, StepOfIngest(i)
  PROVE  BusyInv'
<1>0. /\ LockTypes /\ QueueTypeOK /\ SlotInv'
      /\ UNCHANGED <<queue, open, crawls, jobs, crashes>>
  BY SlotStep DEF StepOfIngest, QueueForShard, BeginIngest, IngestThrows, IngestEnds, SettleIngest, Release,
         queueVars, BusyInv, Placed, SlotInv, LockInv, Next
<1>1. RowsStay /\ \A w \in DOMAIN jobs : /\ w \in DOMAIN jobs' /\ (Crawling(w) => Crawling(w)')
                                         /\ jobs'[w].task = jobs[w].task
  BY <1>0 DEF RowsStay, Crawling
<1>2. Placed' /\ TasksAreRows'
  <2>1. shardStatus' \in [Shard -> {"ACTIVE", "INGESTING", "SPLIT"}]
    BY <1>0 DEF StepOfIngest, QueueForShard, BeginIngest, IngestThrows, IngestEnds, SettleIngest, Release,
           queueVars, Ingesting, RollUp, GiveUp, SettleShard, QueueTypeOK
  <2> QED
    BY <1>0, <2>1 DEF BusyInv, Placed, QueueTypeOK, TasksAreRows
<1>3. CASE Release(i)
  <2>1. /\ ingests[i].step = "leaving" /\ i \in DOMAIN ingests /\ Here(i) \in Process
        /\ slotQueue[Here(i)] # << >> => ~Inside(Head(slotQueue[Here(i)]))
    BY <1>0, <1>3, ChainTypes, FirstInLineWaits DEF Release, Is, BusyInv
  <2>2. ASSUME NEW j \in DOMAIN ingests, Inside(j)
        PROVE  j \in DOMAIN ingests' /\ ingests'[j] = ingests[j]
    <3>1. /\ j # i /\ j \in DOMAIN Without(ingests, {i}) /\ Without(ingests, {i})[j] = ingests[j]
      BY <2>1, <2>2 DEF Inside, Without
    <3>2. CASE ingests' = Without(ingests, {i})
      BY <3>1, <3>2
    <3>3. CASE /\ slotQueue[Here(i)] # << >>
               /\ ingests' = [Without(ingests, {i}) EXCEPT ![Head(slotQueue[Here(i)])].step = "granted"]
      <4>1. j # Head(slotQueue[Here(i)])
        BY <2>1, <2>2, <3>3
      <4>2. DOMAIN ingests' = DOMAIN Without(ingests, {i})
        BY <3>3
      <4> QED
        BY <3>1, <3>3, <4>1, <4>2
    <3> QED
      BY <1>3, <3>2, <3>3 DEF Release
  <2>3. shardStatus' = shardStatus
    BY <1>3 DEF Release, queueVars
  <2>4. \A j \in DOMAIN ingests : Inside(j) => j \in DOMAIN ingests' /\ Inside(j)' /\ Goal(j)' = Goal(j)
    BY <2>2 DEF Inside, Goal
  <2>5. IngestingIsBusy'
    BY <1>0, <1>1, <2>3, <2>4, BusyStays
  <2> QED
    BY <1>0, <1>2, <2>5 DEF BusyInv
<1>4. CASE ~Release(i)
  <2>1. PICK step \in IngestStep : i \in DOMAIN ingests /\ Move(i, step)
    BY <1>4 DEF StepOfIngest, QueueForShard, BeginIngest, IngestThrows, IngestEnds, SettleIngest,
                Unlock, Is, IngestStep
  <2>2. /\ DOMAIN ingests' = DOMAIN ingests /\ ingests'[i].step = step
        /\ \A j \in DOMAIN ingests : Goal(j)' = Goal(j)
        /\ \A j \in DOMAIN ingests \ {i} : Inside(j) => Inside(j)'
    BY <1>0, <2>1, MoveTypes DEF Goal, Inside
  <2>3. CASE QueueForShard(i)
    <3>1. ~Inside(i) /\ shardStatus' = shardStatus
      BY <2>3 DEF QueueForShard, Is, Inside, queueVars
    <3>2. \A j \in DOMAIN ingests : Inside(j) => Inside(j)'
      BY <2>2, <3>1
    <3>3. IngestingIsBusy'
      BY <1>0, <1>1, <2>2, <3>1, <3>2, BusyStays
    <3> QED
      BY <1>0, <1>2, <3>3 DEF BusyInv
  <2>4. CASE BeginIngest(i) \/ IngestEnds(i)
    <3>1. ingests'[i].step \in {"work", "rolled"}
      BY <1>0, <2>1, <2>4, MoveTypes DEF BeginIngest, IngestEnds, IngestStep
    <3>2. \A j \in DOMAIN ingests : Inside(j) => Inside(j)'
      BY <2>2, <3>1 DEF Inside
    <3>3. \A s \in Shard : s = Goal(i) => Busy(s)'
      BY <2>1, <2>2, <3>1 DEF Busy, Inside
    <3>4. \A s \in Shard : s # Goal(i) /\ shardStatus'[s] = "INGESTING" => shardStatus[s] = "INGESTING"
      BY <1>0, <2>4 DEF BeginIngest, IngestEnds, Ingesting, RollUp, QueueTypeOK
    <3>5. IngestingIsBusy'
      BY <1>0, <1>1, <2>2, <3>2, <3>3, <3>4, BusyStays
    <3> QED
      BY <1>0, <1>2, <3>5 DEF BusyInv
  <2>5. CASE IngestThrows(i) \/ SettleIngest(i)
    <3>1. shardStatus'[Goal(i)] # "INGESTING" \/ Goal(i) \notin Shard
      BY <1>0, <2>5 DEF IngestThrows, SettleIngest, GiveUp, SettleShard, QueueTypeOK
    <3>2. \A s \in Shard : s # Goal(i) => shardStatus'[s] = shardStatus[s]
      BY <1>0, <2>5 DEF IngestThrows, SettleIngest, GiveUp, SettleShard, QueueTypeOK
    <3>3. IngestingIsBusy'
      BY <1>0, <1>1, <2>2, <3>1, <3>2, BusyStays
    <3> QED
      BY <1>0, <1>2, <3>3 DEF BusyInv
  <2> QED
    BY <1>4, <2>3, <2>4, <2>5 DEF StepOfIngest
<1> QED
  BY <1>3, <1>4

LEMMA BusyStep == BusyInv /\ [Next]_vars => BusyInv'
<1> SUFFICES ASSUME BusyInv, [Next]_vars PROVE BusyInv'
  OBVIOUS
<1>1. SlotInv'
  BY SlotStep DEF BusyInv
<1>2. ASSUME [QueueNext]_queueVars PROVE Placed' /\ TasksAreRows'
  BY <1>2, PlacedStep, TasksStayRows DEF BusyInv
<1>3. ASSUME [QueueNext]_queueVars, UNCHANGED ingestVars PROVE BusyInv'
  BY <1>1, <1>2, <1>3, QueueKeepsBusy DEF BusyInv
<1>4. ASSUME NEW p \in Process, Down(p) PROVE BusyInv'
  <2>1. [QueueNext]_queueVars /\ crashes' # 0
    <3>1. Crash(p)
      BY <1>4 DEF Down
    <3>2. crashes \in Nat /\ crashes' = crashes + 1
      BY <3>1 DEF Crash, BusyInv, Placed, QueueTypeOK
    <3> QED
      BY <3>1, <3>2 DEF QueueNext
  <2>2. IngestingIsBusy'
    BY <2>1 DEF IngestingIsBusy
  <2> QED
    BY <1>1, <1>2, <2>1, <2>2 DEF BusyInv
<1>5. ASSUME NEW i \in Ingest, NEW p \in Process, NEW s \in Shard, IngestDocs(i, p, s) PROVE BusyInv'
  <2>1. UNCHANGED queueVars
    BY <1>5 DEF IngestDocs
  <2>2. \A j \in DOMAIN ingests : j \in DOMAIN ingests' /\ ingests'[j] = ingests[j]
    BY <1>5 DEF IngestDocs, With
  <2>3. Placed' /\ TasksAreRows'
    BY <1>2, <2>1
  <2>4. RowsStay /\ \A w \in DOMAIN jobs : /\ w \in DOMAIN jobs' /\ (Crawling(w) => Crawling(w)')
                                           /\ jobs'[w].task = jobs[w].task
    BY <2>1 DEF queueVars, RowsStay, Crawling
  <2>5. \A j \in DOMAIN ingests : Inside(j) => j \in DOMAIN ingests' /\ Inside(j)' /\ Goal(j)' = Goal(j)
    BY <2>2 DEF Inside, Goal
  <2>6. shardStatus' = shardStatus /\ crashes' = crashes
    BY <2>1 DEF queueVars
  <2>7. IngestingIsBusy'
    BY <2>4, <2>5, <2>6, BusyStays
  <2> QED
    BY <1>1, <2>3, <2>7 DEF BusyInv
<1>6. CASE UNCHANGED vars
  BY <1>3, <1>6 DEF vars
<1>7. CASE UNCHANGED ingestVars /\ QueueNext
  BY <1>3, <1>7
<1> QED
  BY <1>4, <1>5, <1>6, <1>7, IngestKeepsBusy DEF Next, QueueNext

LEMMA BusyStart == Init => BusyInv
<1> SUFFICES ASSUME Init PROVE BusyInv
  OBVIOUS
<1>1. QueueInv /\ SlotInv
  BY QueueStart, SlotStart DEF Init
<1>2. TasksAreRows /\ IngestingIsBusy
  BY DEF Init, QueueInit, TasksAreRows, IngestingIsBusy
<1> QED
  BY <1>1, <1>2 DEF BusyInv, QueueInv

\* Until something crashes, a shard says INGESTING only while a worker or a
\* direct ingest is in it, with however many processes, crawls and ingests of one
\* shard at a time: each way out of ingestDocs and of runCrawl resets the status
\* (federation/scheduler.ts, connectors/runner.ts).
THEOREM IngestingHasIngest == Spec => []IngestingIsBusy
<1>1. BusyInv => IngestingIsBusy
  BY DEF BusyInv
<1> QED
  BY <1>1, BusyStart, BusyStep, PTL DEF Spec

-----------------------------------------------------------------------------
(* The queue beside the ingests *)

\* Of the queue's variables an ingest writes a shard's status only.
LEMMA StatusApart ==
  ASSUME QueueTypeOK, [Next]_vars
  PROVE  \/ [QueueNext]_queueVars
         \/ UNCHANGED <<queue, open, crawls, jobs, crashes>> /\ QueueTypeOK'
<1>1. ASSUME NEW p \in Process, Down(p) PROVE [QueueNext]_queueVars
  BY <1>1 DEF Down, QueueNext
<1>2. ASSUME UNCHANGED <<queue, open, crawls, jobs, crashes>>,
             shardStatus' \in [Shard -> {"ACTIVE", "INGESTING", "SPLIT"}]
      PROVE  QueueTypeOK'
  BY <1>2 DEF QueueTypeOK
<1>3. ASSUME NEW i \in Ingest, StepOfIngest(i)
      PROVE  UNCHANGED <<queue, open, crawls, jobs, crashes>> /\ QueueTypeOK'
  <2>1. UNCHANGED <<queue, open, crawls, jobs, crashes>>
    BY <1>3 DEF StepOfIngest, QueueForShard, BeginIngest, IngestThrows, IngestEnds, SettleIngest, Release,
                queueVars
  <2>2. shardStatus \in [Shard -> {"ACTIVE", "INGESTING", "SPLIT"}]
    BY DEF QueueTypeOK
  <2>3. CASE QueueForShard(i) \/ Release(i)
    BY <1>2, <2>1, <2>2, <2>3 DEF QueueForShard, Release, queueVars
  <2>4. CASE BeginIngest(i) \/ IngestThrows(i) \/ IngestEnds(i) \/ SettleIngest(i)
    BY <1>2, <2>1, <2>2, <2>4 DEF BeginIngest, IngestThrows, IngestEnds, SettleIngest,
                                  Ingesting, RollUp, SettleShard, GiveUp
  <2> QED
    BY <1>3, <2>1, <2>3, <2>4 DEF StepOfIngest
<1>4. ASSUME NEW i \in Ingest, NEW p \in Process, NEW s \in Shard, IngestDocs(i, p, s)
      PROVE  [QueueNext]_queueVars
  BY <1>4 DEF IngestDocs
<1>5. CASE UNCHANGED vars
  BY <1>5 DEF vars
<1> QED
  BY <1>1, <1>3, <1>4, <1>5 DEF Next, QueueNext

LEMMA QueueInvStep == OneProcess /\ QueueInv /\ [Next]_vars => QueueInv'
<1> SUFFICES ASSUME OneProcess, QueueInv, [Next]_vars PROVE QueueInv'
  OBVIOUS
<1>1. CASE [QueueNext]_queueVars
  BY <1>1, QueueStep
<1>2. CASE UNCHANGED <<queue, open, crawls, jobs, crashes>> /\ QueueTypeOK'
  BY <1>2 DEF QueueInv, Placed, TasksInHand, HandsApart, RunningApart, RunningInHand, Running, InStatus,
              Workers, ShardOf
<1> QED
  BY <1>1, <1>2, StatusApart DEF QueueInv, Placed

\* Where one process has the catalog open, a task is RUNNING exactly while some
\* worker has it in hand: no crash, failed crawl or abandoned loop leaves a task
\* RUNNING for good (claimNext, completeTask and recoverQueue in catalog.ts).
THEOREM RunningHasWorker ==
  ASSUME OneProcess
  PROVE  Spec => []RunningIsHeld
<1>1. QueueInv /\ [Next]_vars => QueueInv'
  BY QueueInvStep
<1>2. Init => QueueInv
  BY QueueStart DEF Init
<1> QED
  BY <1>1, <1>2, QueueInvSuffices, PTL DEF Spec

\* "Returns when the queue is drained" (drainQueue, scheduler.ts:277), although a
\* worker whose tasks are all blocked returns early: the worker that blocks them
\* looks again.  In one process, for crawls that follow each other.
THEOREM ReturnsDrained ==
  ASSUME OneProcess, OneCrawl
  PROVE  Spec => DrainedOnReturn
<1>1. Init => DrainInv
  <2>1. QueueInit => ListsDone /\ IdleIsDrained
    BY DEF QueueInit, ListsDone, IdleIsDrained
  <2> QED
    BY <2>1, QueueStart DEF DrainInv, Init
<1>2. DrainInv /\ [Next]_vars => DrainInv'
  <2> SUFFICES ASSUME DrainInv, [Next]_vars PROVE DrainInv'
    OBVIOUS
  <2>1. QueueInv'
    BY QueueInvStep DEF DrainInv
  <2>2. CASE [QueueNext]_queueVars
    BY <2>2, DrainStep
  <2>3. CASE UNCHANGED <<queue, open, crawls, jobs, crashes>>
    BY <2>1, <2>3 DEF DrainInv, ListsDone, IdleIsDrained, Idle, Workers, Pending, Running, InStatus
  <2> QED
    BY <2>2, <2>3, StatusApart DEF DrainInv, QueueInv, Placed
<1>3. DrainInv /\ [Next]_vars =>
        [\A c \in DOMAIN crawls \ DOMAIN crawls' :
           crawls[c].drains /\ open' = open /\ DOMAIN crawls' = {} => Pending \cup Running = {}]_queueVars
  <2> SUFFICES ASSUME DrainInv, [Next]_vars, NEW c \in DOMAIN crawls \ DOMAIN crawls',
                      crawls[c].drains, open' = open
               PROVE  Pending \cup Running = {}
    OBVIOUS
  <2>1. [QueueNext]_queueVars
    BY StatusApart DEF DrainInv, QueueInv, Placed
  <2> QED
    BY <2>1, GoneIsReturned
<1> QED
  BY <1>1, <1>2, <1>3, PTL DEF Spec, DrainedOnReturn
=============================================================================
