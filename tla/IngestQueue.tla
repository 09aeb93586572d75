------------------------------ MODULE IngestQueue ------------------------------
(****************************************************************************)
(* The persistent work queue of an organisation: the ingest_queue table and *)
(* the status column of the shards table (federation/catalog.ts), crawls    *)
(* that enqueue a task per shard and drain the queue with a few workers     *)
(* (connectors/runner.ts, federation/scheduler.ts), and the processes they  *)
(* run in, which crash and open the catalog again.                          *)
(*                                                                          *)
(* Every catalog call is one BEGIN IMMEDIATE transaction and so one step.   *)
(* Rows of the queue are never deleted: the table is a sequence, the id of  *)
(* a task is its place.  No caller gives a priority, so the queue is FIFO.  *)
(****************************************************************************)
EXTENDS Integers, Sequences, FiniteSets

CONSTANTS
  Process,      \* processes that open the catalog
  Shard,        \* shards, registered by ensureShard
  Crawl,        \* calls of runOrgCrawl
  Slots,        \* maxConcurrentShardIngests
  MaxTasks,     \* bound: tasks ever enqueued
  MaxCrashes    \* bound: crashes

ASSUME QueueAssumption ==
  /\ Slots \in Nat \ {0}
  /\ MaxTasks \in Nat
  /\ MaxCrashes \in Nat

VARIABLES
  queue,        \* the ingest_queue table
  shardStatus,  \* the status column of the shards table
  open,         \* the processes that have the catalog open
  crawls,       \* crawls under way: crawl |-> where, what it knows, what is left to enqueue
  jobs,         \* workers of drainQueue: <<crawl, k>> |-> its task and where it is
  crashes

queueVars == <<queue, shardStatus, open, crawls, jobs, crashes>>

Kind   == {"full", "delta"}
Worker == Crawl \X (1..Slots)

\* A worker that holds no task.
None == 0

TaskRow == [shard : Shard, kind : Kind, status : {"PENDING", "RUNNING", "DONE", "FAILED"}]

\* claim: about to claim.  start, crawl, rolled: runCrawl before it marks the
\* shard, while it writes documents, after the rollup.  done, failed: back in
\* drainQueue with the outcome.
Step == {"claim", "start", "crawl", "rolled", "done", "failed"}

QueueTypeOK ==
  /\ queue \in Seq(TaskRow) /\ Len(queue) <= MaxTasks
  /\ shardStatus \in [Shard -> {"ACTIVE", "INGESTING", "SPLIT"}]
  /\ open \subseteq Process
  /\ DOMAIN crawls \subseteq Crawl
  /\ crawls \in [DOMAIN crawls ->
       [at : Process, known : SUBSET Shard, todo : SUBSET Shard, drains : BOOLEAN]]
  /\ DOMAIN jobs \subseteq Worker
  /\ jobs \in [DOMAIN jobs -> [task : 0..MaxTasks, step : Step]]
  /\ crashes \in 0..MaxCrashes

QueueInit ==
  /\ queue = << >>
  /\ shardStatus = [s \in Shard |-> "ACTIVE"]
  /\ open = {}
  /\ crawls = [c \in {} |-> c]
  /\ jobs = [w \in {} |-> w]
  /\ crashes = 0

Without(f, gone) == [x \in DOMAIN f \ gone |-> f[x]]
With(f, x, v)    == [y \in DOMAIN f \cup {x} |-> IF y = x THEN v ELSE f[y]]

-----------------------------------------------------------------------------
(* The catalog *)

InStatus(status) == {i \in DOMAIN queue : queue[i].status = status}
Pending == InStatus("PENDING")
Running == InStatus("RUNNING")

\* enqueue: an identical pending task stands for the new one.
Enqueue(s, kind) ==
  IF \E i \in Pending : queue[i].shard = s /\ queue[i].kind = kind
  THEN UNCHANGED queue
  ELSE /\ Len(queue) < MaxTasks
       /\ queue' = Append(queue, [shard |-> s, kind |-> kind, status |-> "PENDING"])

\* The pending tasks whose shard is not running.
Claimable == {i \in Pending : \A r \in Running : queue[r].shard # queue[i].shard}

As(row, status) == [row EXCEPT !.status = status]
Mark(i, status) == queue' = [queue EXCEPT ![i] = As(queue[i], status)]

\* A variant of recoverQueue that leaves the table alone: RunningIsHeld rules
\* it out.
RecoverNothing == UNCHANGED queue

\* recoverQueue: whatever was running when the catalog was closed is pending.
RecoverQueue ==
  queue' = [i \in DOMAIN queue |->
    IF i \in Running THEN As(queue[i], "PENDING") ELSE queue[i]]

\* Catalog.open, in a new process or after a crash.
Open(p) ==
  /\ p \notin open
  /\ open' = open \cup {p}
  /\ RecoverQueue
  /\ UNCHANGED <<shardStatus, crawls, jobs, crashes>>

\* What an ingest or a crawl does to the status of its shard: setShardStatus
\* at its start, updateShardStats with the split signal, and the last look.
Ingesting(s)   == shardStatus' = [shardStatus EXCEPT ![s] = "INGESTING"]
RollUp(s)      == \/ UNCHANGED shardStatus
                  \/ shardStatus' = [shardStatus EXCEPT ![s] = "SPLIT"]
SettleShard(s) == shardStatus' = [shardStatus EXCEPT ![s] = IF @ = "SPLIT" THEN @ ELSE "ACTIVE"]
GiveUp(s)      == shardStatus' = [shardStatus EXCEPT ![s] = "ACTIVE"]

-----------------------------------------------------------------------------
(* runOrgCrawl *)

StartCrawl(c, p, known) ==
  /\ c \notin DOMAIN crawls /\ p \in open
  /\ crawls' = With(crawls, c, [at |-> p, known |-> known, todo |-> known, drains |-> FALSE])
  /\ UNCHANGED <<queue, shardStatus, open, jobs, crashes>>

\* One discovered shard; its checkpoint decides on the kind.
Discover(c, s, kind) ==
  /\ c \in DOMAIN crawls /\ s \in crawls[c].todo
  /\ Enqueue(s, kind)
  /\ crawls' = [crawls EXCEPT ![c].todo = @ \ {s}]
  /\ UNCHANGED <<shardStatus, open, jobs, crashes>>

\* The source fails while its shards are listed; what it enqueued stays.
DiscoveryFails(c) ==
  /\ c \in DOMAIN crawls /\ ~crawls[c].drains
  /\ crawls' = Without(crawls, {c})
  /\ UNCHANGED <<queue, shardStatus, open, jobs, crashes>>

Workers(c) == {w \in Worker : w[1] = c}

\* drainQueue starts its workers.
Drain(c) ==
  /\ c \in DOMAIN crawls /\ crawls[c].todo = {} /\ ~crawls[c].drains
  /\ crawls' = [crawls EXCEPT ![c].drains = TRUE]
  /\ jobs' = [w \in DOMAIN jobs \cup Workers(c) |->
       IF w \in Workers(c) THEN [task |-> None, step |-> "claim"] ELSE jobs[w]]
  /\ UNCHANGED <<queue, shardStatus, open, crashes>>

At(w, step) == w \in DOMAIN jobs /\ jobs[w].step = step
Goto(w, step) == jobs' = [jobs EXCEPT ![w].step = step]
ShardOf(w) == queue[jobs[w].task].shard

\* The executor throws at once when the crawl does not know the shard, as for
\* a task that another crawl left behind.
FirstStep(w, i) == IF queue[i].shard \in crawls[w[1]].known THEN "start" ELSE "failed"

ClaimNext(w) ==
  /\ At(w, "claim")
  /\ \E i \in Claimable :
       /\ \A j \in Claimable : i <= j
       /\ Mark(i, "RUNNING")
       /\ jobs' = [jobs EXCEPT ![w] = [task |-> i, step |-> FirstStep(w, i)]]
  /\ UNCHANGED <<shardStatus, open, crawls, crashes>>

\* A worker that finds nothing to claim returns.
LeaveQueue(w) ==
  /\ At(w, "claim")
  /\ Claimable = {}
  /\ jobs' = Without(jobs, {w})
  /\ UNCHANGED <<queue, shardStatus, open, crawls, crashes>>

StartTask(w) ==
  /\ At(w, "start")
  /\ Ingesting(ShardOf(w))
  /\ Goto(w, "crawl")
  /\ UNCHANGED <<queue, open, crawls, crashes>>

CrawlThrows(w) ==
  /\ At(w, "crawl") \/ At(w, "rolled")
  /\ GiveUp(ShardOf(w))
  /\ Goto(w, "failed")
  /\ UNCHANGED <<queue, open, crawls, crashes>>

CrawlEnds(w) ==
  /\ At(w, "crawl")
  /\ RollUp(ShardOf(w))
  /\ Goto(w, "rolled")
  /\ UNCHANGED <<queue, open, crawls, crashes>>

SettleTask(w) ==
  /\ At(w, "rolled")
  /\ SettleShard(ShardOf(w))
  /\ Goto(w, "done")
  /\ UNCHANGED <<queue, open, crawls, crashes>>

\* A variant of the loop that returns after its first task: DrainedOnReturn
\* rules it out.
CompleteAndReturn(w) ==
  /\ At(w, "done") \/ At(w, "failed")
  /\ Mark(jobs[w].task, IF At(w, "done") THEN "DONE" ELSE "FAILED")
  /\ jobs' = Without(jobs, {w})
  /\ UNCHANGED <<shardStatus, open, crawls, crashes>>

\* A variant that puts a failed task back: DrainsReturn rules it out.
CompleteOrRetry(w) ==
  /\ At(w, "done") \/ At(w, "failed")
  /\ Mark(jobs[w].task, IF At(w, "done") THEN "DONE" ELSE "PENDING")
  /\ jobs' = [jobs EXCEPT ![w] = [task |-> None, step |-> "claim"]]
  /\ UNCHANGED <<shardStatus, open, crawls, crashes>>

\* completeTask, whatever the row says by now.
CompleteTask(w) ==
  /\ At(w, "done") \/ At(w, "failed")
  /\ Mark(jobs[w].task, IF At(w, "done") THEN "DONE" ELSE "FAILED")
  /\ jobs' = [jobs EXCEPT ![w] = [task |-> None, step |-> "claim"]]
  /\ UNCHANGED <<shardStatus, open, crawls, crashes>>

Idle(c) == DOMAIN jobs \cap Workers(c) = {}

\* All workers have returned.
Return(c) ==
  /\ c \in DOMAIN crawls /\ crawls[c].drains /\ Idle(c)
  /\ crawls' = Without(crawls, {c})
  /\ UNCHANGED <<queue, shardStatus, open, jobs, crashes>>

\* A process goes down with its crawls; the tables stay.
Crash(p) ==
  /\ p \in open /\ crashes < MaxCrashes
  /\ crashes' = crashes + 1
  /\ open' = open \ {p}
  /\ LET lost == {c \in DOMAIN crawls : crawls[c].at = p} IN
     /\ crawls' = Without(crawls, lost)
     /\ jobs' = Without(jobs, {w \in DOMAIN jobs : w[1] \in lost})
  /\ UNCHANGED <<queue, shardStatus>>

-----------------------------------------------------------------------------
(* The queue *)

WorkerStep(w) ==
  \/ ClaimNext(w) \/ LeaveQueue(w)
  \/ StartTask(w) \/ CrawlThrows(w) \/ CrawlEnds(w) \/ SettleTask(w)
  \/ CompleteTask(w)

CrawlStep(c) ==
  \/ \E s \in Shard, kind \in Kind : Discover(c, s, kind)
  \/ DiscoveryFails(c)
  \/ Drain(c)
  \/ \E w \in Workers(c) : WorkerStep(w)
  \/ Return(c)

QueueNext ==
  \/ \E p \in Process : Open(p) \/ Crash(p)
  \/ \E c \in Crawl, p \in Process, known \in SUBSET Shard : StartCrawl(c, p, known)
  \/ \E c \in Crawl : CrawlStep(c)

\* A worker goes on when its promise settles; a crawl ends or throws.
QueueFairness ==
  \A c \in Crawl : WF_queueVars(Return(c)) /\ \A w \in Workers(c) : WF_queueVars(WorkerStep(w))

QueueSpec == QueueInit /\ [][QueueNext]_queueVars

\* The tasks that workers have in hand.
Held == {jobs[w].task : w \in DOMAIN jobs} \ {None}

\* The same system where a catalog is opened only while no worker has a task in
\* hand: processes that open it at their start and then crawl side by side.
OpensAtRest == open' \subseteq open \/ Held = {}
RestSpec == QueueInit /\ [][QueueNext /\ OpensAtRest]_queueVars

-----------------------------------------------------------------------------
(* Properties *)

\* "a shard never has two ingest tasks running ..., enforced both in-process
\* (mutex) and cross-process (catalog claim)" (scheduler.ts:8-10): no two workers,
\* of whichever process, have tasks of one shard in hand.
OneTaskPerShard ==
  \A v, w \in DOMAIN jobs :
    jobs[v].task # None /\ jobs[w].task # None /\ ShardOf(v) = ShardOf(w) => v = w

\* A task that says RUNNING is in the hands of a worker, so that none blocks
\* its shard for ever after a crash; and a worker's task says RUNNING.
RunningIsHeld == open # {} => Running = Held

\* "Returns when the queue is drained" (drainQueue): when a crawl returns and no
\* other is under way, no task is pending or running.
DrainedOnReturn ==
  [][\A c \in DOMAIN crawls \ DOMAIN crawls' :
       crawls[c].drains /\ open' = open /\ DOMAIN crawls' = {} => Pending \cup Running = {}]_queueVars

\* Every drainQueue comes to an end, although workers whose tasks are blocked
\* return early: the last one finds nothing left.
Draining(c)  == c \in DOMAIN crawls /\ crawls[c].drains
DrainsReturn == \A c \in Crawl : []<>~Draining(c)
=============================================================================
