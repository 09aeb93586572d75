---------------------------- MODULE IngestScheduler ----------------------------
(****************************************************************************)
(* Direct ingests beside the queue: IngestScheduler.ingestDocs, which holds *)
(* one of maxConcurrentShardIngests slots and then the in-process lock of   *)
(* its shard (federation/scheduler.ts).  Crawls go through neither; the two *)
(* meet in the status column of the shard.                                  *)
(****************************************************************************)
EXTENDS IngestQueue

CONSTANTS
  Ingest        \* calls of ingestDocs

ASSUME IngestAssumption == IsFiniteSet(Ingest)

VARIABLES
  ingests,      \* calls under way: call |-> where, which shard, how far
  slots,        \* Semaphore.slots of each process
  slotQueue,    \* Semaphore.queue
  lockQueue     \* the promise chain of each shard: its holder, then who waits

ingestVars == <<ingests, slots, slotQueue, lockQueue>>
vars == <<queueVars, ingestVars>>

\* slot: waits for a slot.  granted: has one.  lock: in the chain of its shard.
\* work, rolled: holds the lock, before and after the rollup.  leaving: has
\* released the lock.
IngestStep == {"slot", "granted", "lock", "work", "rolled", "leaving"}

TypeOK ==
  /\ DOMAIN ingests \subseteq Ingest
  /\ ingests \in [DOMAIN ingests -> [at : Process, shard : Shard, step : IngestStep]]
  /\ slots \in [Process -> 0..Slots]
  /\ slotQueue \in [Process -> Seq(Ingest)]
  /\ lockQueue \in [Process -> [Shard -> Seq(Ingest)]]

NewScheduler(p) ==
  /\ slots' = [slots EXCEPT ![p] = Slots]
  /\ slotQueue' = [slotQueue EXCEPT ![p] = << >>]
  /\ lockQueue' = [lockQueue EXCEPT ![p] = [s \in Shard |-> << >>]]

Init ==
  /\ QueueInit
  /\ ingests = [i \in {} |-> i]
  /\ slots = [p \in Process |-> Slots]
  /\ slotQueue = [p \in Process |-> << >>]
  /\ lockQueue = [p \in Process |-> [s \in Shard |-> << >>]]

-----------------------------------------------------------------------------
(* ingestDocs *)

Is(i, step) == i \in DOMAIN ingests /\ ingests[i].step = step
Here(i)  == ingests[i].at
Goal(i)  == ingests[i].shard
Chain(i) == lockQueue[Here(i)][Goal(i)]
Move(i, step) == ingests' = [ingests EXCEPT ![i].step = step]

\* Semaphore.acquire.
IngestDocs(i, p, s) ==
  /\ i \notin DOMAIN ingests /\ p \in open
  /\ \/ /\ slots[p] > 0
        /\ slots' = [slots EXCEPT ![p] = @ - 1]
        /\ ingests' = With(ingests, i, [at |-> p, shard |-> s, step |-> "granted"])
        /\ UNCHANGED slotQueue
     \/ /\ slots[p] = 0
        /\ slotQueue' = [slotQueue EXCEPT ![p] = Append(@, i)]
        /\ ingests' = With(ingests, i, [at |-> p, shard |-> s, step |-> "slot"])
        /\ UNCHANGED slots
  /\ UNCHANGED <<queueVars, lockQueue>>

\* withShardLock: behind whoever is in the chain.
QueueForShard(i) ==
  /\ Is(i, "granted")
  /\ lockQueue' = [lockQueue EXCEPT ![Here(i)][Goal(i)] = Append(@, i)]
  /\ Move(i, "lock")
  /\ UNCHANGED <<queueVars, slots, slotQueue>>

\* A variant that does not wait for its predecessor: IngestsSerialized rules
\* it out.
BeginAtOnce(i) ==
  /\ Is(i, "lock")
  /\ Ingesting(Goal(i))
  /\ Move(i, "work")
  /\ UNCHANGED <<queue, open, crawls, jobs, crashes, slots, slotQueue, lockQueue>>

BeginIngest(i) ==
  /\ Is(i, "lock") /\ Chain(i) # << >> /\ Head(Chain(i)) = i
  /\ Ingesting(Goal(i))
  /\ Move(i, "work")
  /\ UNCHANGED <<queue, open, crawls, jobs, crashes, slots, slotQueue, lockQueue>>

Unlock(i) ==
  /\ lockQueue' = [lockQueue EXCEPT ![Here(i)][Goal(i)] = Tail(@)]
  /\ Move(i, "leaving")

\* A variant that skips the reset of the status: IngestingIsBusy rules it out.
IngestThrowsSilently(i) ==
  /\ Is(i, "work") \/ Is(i, "rolled")
  /\ Unlock(i)
  /\ UNCHANGED <<queueVars, slots, slotQueue>>

IngestThrows(i) ==
  /\ Is(i, "work") \/ Is(i, "rolled")
  /\ GiveUp(Goal(i))
  /\ Unlock(i)
  /\ UNCHANGED <<queue, open, crawls, jobs, crashes, slots, slotQueue>>

IngestEnds(i) ==
  /\ Is(i, "work")
  /\ RollUp(Goal(i))
  /\ Move(i, "rolled")
  /\ UNCHANGED <<queue, open, crawls, jobs, crashes, slots, slotQueue, lockQueue>>

SettleIngest(i) ==
  /\ Is(i, "rolled")
  /\ SettleShard(Goal(i))
  /\ Unlock(i)
  /\ UNCHANGED <<queue, open, crawls, jobs, crashes, slots, slotQueue>>

\* A variant of release that hands its slot on and frees it as well: SlotsKept
\* rules it out.
ReleaseTwice(i) ==
  /\ Is(i, "leaving")
  /\ slots' = [slots EXCEPT ![Here(i)] = @ + 1]
  /\ IF slotQueue[Here(i)] = << >>
     THEN ingests' = Without(ingests, {i}) /\ UNCHANGED slotQueue
     ELSE LET next == Head(slotQueue[Here(i)]) IN
          /\ slotQueue' = [slotQueue EXCEPT ![Here(i)] = Tail(@)]
          /\ ingests' = [Without(ingests, {i}) EXCEPT ![next].step = "granted"]
  /\ UNCHANGED <<queueVars, lockQueue>>

\* A variant of release that wakes nobody: IngestsReturn rules it out.
ReleaseToNobody(i) ==
  /\ Is(i, "leaving")
  /\ slots' = [slots EXCEPT ![Here(i)] = @ + 1]
  /\ ingests' = Without(ingests, {i})
  /\ UNCHANGED <<queueVars, slotQueue, lockQueue>>

\* Semaphore.release: the slot goes to the first in line, or back.
Release(i) ==
  /\ Is(i, "leaving")
  /\ IF slotQueue[Here(i)] = << >>
     THEN /\ slots' = [slots EXCEPT ![Here(i)] = @ + 1]
          /\ ingests' = Without(ingests, {i})
          /\ UNCHANGED slotQueue
     ELSE LET next == Head(slotQueue[Here(i)]) IN
          /\ slotQueue' = [slotQueue EXCEPT ![Here(i)] = Tail(@)]
          /\ ingests' = [Without(ingests, {i}) EXCEPT ![next].step = "granted"]
          /\ UNCHANGED slots
  /\ UNCHANGED <<queueVars, lockQueue>>

\* A process goes down with its calls and comes up with a new scheduler.
Down(p) ==
  /\ Crash(p)
  /\ ingests' = Without(ingests, {i \in DOMAIN ingests : ingests[i].at = p})
  /\ NewScheduler(p)

-----------------------------------------------------------------------------
(* The system *)

StepOfIngest(i) ==
  \/ QueueForShard(i) \/ BeginIngest(i)
  \/ IngestThrows(i) \/ IngestEnds(i) \/ SettleIngest(i)
  \/ Release(i)

Next ==
  \/ \E p \in Process : Down(p)
  \/ /\ \/ \E p \in Process : Open(p)
        \/ \E c \in Crawl, p \in Process, known \in SUBSET Shard : StartCrawl(c, p, known)
        \/ \E c \in Crawl : CrawlStep(c)
     /\ UNCHANGED ingestVars
  \/ \E i \in Ingest, p \in Process, s \in Shard : IngestDocs(i, p, s)
  \/ \E i \in Ingest : StepOfIngest(i)

\* Promises that can go on do, and a shard engine answers.
Fairness == \A i \in Ingest : WF_vars(StepOfIngest(i))

Spec == Init /\ [][Next]_vars
FairSpec == Spec /\ Fairness /\ QueueFairness

-----------------------------------------------------------------------------
(* Properties *)

\* The in-process lock: of the direct ingests of a shard in one process at most
\* one is past its predecessor.
IngestsSerialized ==
  \A i, j \in DOMAIN ingests :
    {ingests[i].step, ingests[j].step} \subseteq {"work", "rolled"}
      /\ Here(i) = Here(j) /\ Goal(i) = Goal(j) => i = j

\* "bounded global concurrency: maxConcurrentShardIngests" (scheduler.ts): no
\* slot is lost or handed out twice, whichever ingest fails.
SlotsKept ==
  \A p \in Process :
    slots[p] + Cardinality({i \in DOMAIN ingests : Here(i) = p /\ ingests[i].step # "slot"}) = Slots

\* Nobody waits for ever: neither for a slot that a waiter for a lock holds,
\* nor for a lock whose holder waits.
IngestsReturn == \A i \in Ingest : []<>(i \notin DOMAIN ingests)

\* As long as nothing has crashed, a shard says INGESTING only while somebody
\* ingests into it.
IngestingIsBusy ==
  \A s \in Shard : shardStatus[s] = "INGESTING" /\ crashes = 0 =>
    \/ \E w \in DOMAIN jobs : jobs[w].step \in {"crawl", "rolled"} /\ ShardOf(w) = s
    \/ \E i \in DOMAIN ingests : ingests[i].step \in {"work", "rolled"} /\ Goal(i) = s
=============================================================================
