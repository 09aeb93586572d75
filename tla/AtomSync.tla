------------------------------- MODULE AtomSync -------------------------------
(****************************************************************************)
(* The sync pipeline of a shard beside its store: the background worker     *)
(* (sync/sync-worker.ts), which reads the outbox over its own connection    *)
(* and merges, and the main-thread pipeline (sync/pipeline.ts), which sends *)
(* every round of merges to the singleton writer and tells the worker when  *)
(* it has landed.  Between a poll and its commit the writer goes on serving *)
(* other calls: that window is what this module is about.                   *)
(*                                                                          *)
(* The threads talk over FIFO message ports.  A round goes from the worker  *)
(* through the pipeline to the writer's queue; an answered round goes back  *)
(* to the pipeline, which posts 'committed' and resolves the caller.        *)
(****************************************************************************)
EXTENDS AtomStore, Sequences

CONSTANTS
  Caller,       \* callers of syncNow, each with one call at a time
  Timer,        \* the token of interval polls (-1)
  TimerOn,      \* syncIntervalMs > 0
  PollLimit,    \* the LIMIT of dirtyOutbox (1000)
  MaxRestarts   \* bound: crashes and reopens of the engine

ASSUME SyncAssumption ==
  /\ Timer \notin Caller
  /\ TimerOn \in BOOLEAN
  /\ PollLimit \in Nat \ {0}
  /\ MaxRestarts \in Nat

VARIABLES
  inflight,     \* worker: nodes whose merge is posted, not yet acknowledged
  toWorker,     \* port to the worker: polls and acknowledgements
  rounds,       \* rounds on their way to the writer or in its queue
  answers,      \* rounds the writer has committed, not yet seen by the pipeline
  waiting,      \* callers whose syncNow is not resolved
  abandoned,    \* callers whose waiter belongs to a pipeline that was closed
  restarts

syncVars == <<inflight, toWorker, rounds, answers, waiting, abandoned, restarts>>
vars == <<storeVars, syncVars>>

Merge == [blob : SUBSET Update, text : SUBSET Update, rows : SUBSET RowId]
RoundOf(ns) == [token : Caller \cup {Timer}, merges : [ns -> Merge]]
IsRound(r) == DOMAIN r.merges \subseteq NodeId /\ r \in RoundOf(DOMAIN r.merges)
RoundQueue(q) == q \in Seq({q[i] : i \in DOMAIN q}) /\ \A i \in DOMAIN q : IsRound(q[i])

PollMsg(token)   == [type |-> "poll", token |-> token, ids |-> {}]
CommittedMsg(ns) == [type |-> "committed", token |-> Timer, ids |-> ns]
Message == [type : {"poll", "committed"}, token : Caller \cup {Timer}, ids : SUBSET NodeId]

SyncInit ==
  /\ inflight = {}
  /\ toWorker = << >> /\ rounds = << >> /\ answers = << >>
  /\ waiting = {} /\ abandoned = {}
  /\ restarts = 0

Init == StoreInit /\ SyncInit

-----------------------------------------------------------------------------
(* The worker *)

\* dirtyOutbox without its LIMIT: the events that wait to be merged.
Pending ==
  {o \in DOMAIN outbox : /\ outbox[o].status # "SYNCED"
                         /\ outbox[o].type # "remote.stale"
                         /\ outbox[o].node \in DOMAIN nodes}

\* ORDER BY id LIMIT PollLimit.
Batch == {o \in Pending : Cardinality({p \in Pending : p < o}) < PollLimit}

\* A variant that polls without a look at the inflight set: OneMergePerNode
\* rules it out.
DueAgain == {outbox[o].node : o \in Batch}

\* The nodes of a poll's batch that have no merge in flight, and their events.
Due == {outbox[o].node : o \in Batch} \ inflight
DueRows(n) == {o \in Batch : outbox[o].node = n}

\* The nodes at which the merge throws: an event of theirs does not decode.
Broken == {n \in Due : \E o \in DueRows(n) : outbox[o].payload \in garbled}

\* The loop takes the nodes in the order of their first event.
Before(n, b) == \E o \in DueRows(n) : \A p \in DueRows(b) : o < p

MergeOf(n) ==
  LET merged == nodes[n].blob \cup {outbox[o].payload : o \in DueRows(n)}
  IN [blob |-> merged, text |-> Content(merged), rows |-> DueRows(n)]

\* A caller whose round has come through is resolved.
Resolve(token) == waiting' = waiting \ {token}

\* The merge throws: the nodes already passed stay in flight, and the 'error'
\* message names no token.
PollFails ==
  /\ Broken # {}
  /\ inflight' = inflight \cup {n \in Due : \A b \in Broken : Before(n, b)}
  /\ UNCHANGED <<rounds, waiting>>

\* A variant that returns from an empty round before it looks for a waiter:
\* SyncNowReturns rules it out.
PollFindsNothingAndReturns(token) ==
  /\ Due = {}
  /\ UNCHANGED <<waiting, inflight, rounds>>

\* An empty round: the pipeline has nothing to commit and resolves its caller
\* whatever is still on the way to the writer.
PollFindsNothing(token) ==
  /\ Due = {}
  /\ Resolve(token)
  /\ UNCHANGED <<inflight, rounds>>

PollMerges(token) ==
  /\ Due # {} /\ Broken = {}
  /\ inflight' = inflight \cup Due
  /\ rounds' = Append(rounds, [token |-> token, merges |-> [n \in Due |-> MergeOf(n)]])
  /\ UNCHANGED waiting

Poll(token) ==
  /\ PollFails \/ PollFindsNothing(token) \/ PollMerges(token)
  /\ UNCHANGED <<storeVars, answers, abandoned, restarts>>

TimerPoll ==
  /\ TimerOn
  /\ Poll(Timer)
  /\ UNCHANGED toWorker

HandlePoll ==
  /\ toWorker # << >> /\ Head(toWorker).type = "poll"
  /\ Poll(Head(toWorker).token)
  /\ toWorker' = Tail(toWorker)

\* A variant in which the worker keeps an acknowledged node in flight:
\* EventuallyMerged rules it out.
HandleCommittedKeeping ==
  /\ toWorker # << >> /\ Head(toWorker).type = "committed"
  /\ toWorker' = Tail(toWorker)
  /\ UNCHANGED <<storeVars, inflight, rounds, answers, waiting, abandoned, restarts>>

HandleCommitted ==
  /\ toWorker # << >> /\ Head(toWorker).type = "committed"
  /\ inflight' = inflight \ Head(toWorker).ids
  /\ toWorker' = Tail(toWorker)
  /\ UNCHANGED <<storeVars, rounds, answers, waiting, abandoned, restarts>>

-----------------------------------------------------------------------------
(* The pipeline and the writer *)

\* syncNow().  A caller whose call was left behind by a close awaits it still.
SyncNow(c) ==
  /\ c \notin waiting \cup abandoned
  /\ waiting' = waiting \cup {c}
  /\ toWorker' = Append(toWorker, PollMsg(c))
  /\ UNCHANGED <<storeVars, inflight, rounds, answers, abandoned, restarts>>

\* The rows a round has merged.
MergedRows(merges) == UNION {merges[n].rows : n \in DOMAIN merges}

\* A variant that marks every event of a merged node, the ones that were saved
\* after the poll included: SyncedEventsShown rules it out.
CommitMergesWholeNodes ==
  /\ rounds # << >>
  /\ LET merges == Head(rounds).merges IN
     /\ nodes' = [n \in DOMAIN nodes |->
          IF n \in DOMAIN merges
          THEN Rewrite(nodes[n], merges[n].blob, merges[n].text, "SYNCED")
          ELSE nodes[n]]
     /\ outbox' = [o \in DOMAIN outbox |->
          IF outbox[o].node \in DOMAIN merges
          THEN Flagged(outbox[o], "SYNCED")
          ELSE outbox[o]]
  /\ rounds' = Tail(rounds)
  /\ answers' = Append(answers, Head(rounds))
  /\ UNCHANGED <<docs, authorVars, drafts, mail, inflight, toWorker, waiting, abandoned, restarts>>

\* commitMerges: one transaction for the whole round.  It overwrites the blob
\* without a look at what has become of the atom since the poll.
CommitMerges ==
  /\ rounds # << >>
  /\ LET merges == Head(rounds).merges IN
     /\ nodes' = [n \in DOMAIN nodes |->
          IF n \in DOMAIN merges
          THEN Rewrite(nodes[n], merges[n].blob, merges[n].text, "SYNCED")
          ELSE nodes[n]]
     /\ outbox' = [o \in DOMAIN outbox |->
          IF o \in MergedRows(merges)
          THEN Flagged(outbox[o], "SYNCED")
          ELSE outbox[o]]
  /\ rounds' = Tail(rounds)
  /\ answers' = Append(answers, Head(rounds))
  /\ UNCHANGED <<docs, authorVars, drafts, mail, inflight, toWorker, waiting, abandoned, restarts>>

\* The writer's answer reaches the pipeline.
CommitAnswered ==
  /\ answers # << >>
  /\ toWorker' = Append(toWorker, CommittedMsg(DOMAIN Head(answers).merges))
  /\ Resolve(Head(answers).token)
  /\ answers' = Tail(answers)
  /\ UNCHANGED <<storeVars, inflight, rounds, abandoned, restarts>>

\* What is in no table is gone when the engine is opened again.
Reopen ==
  /\ restarts < MaxRestarts
  /\ restarts' = restarts + 1
  /\ inflight' = {} /\ toWorker' = << >> /\ rounds' = << >> /\ answers' = << >>
  /\ waiting' = {}
  /\ drafts' = {}
  /\ UNCHANGED <<nodes, docs, outbox, authorVars, mail>>

\* The process goes down, its callers with it.
Crash ==
  /\ Reopen
  /\ abandoned' = {}

\* The engine is closed while the process lives on.  A waiter is resolved by
\* close() only if its poll result, or its round's answer, still comes in; the
\* others nobody ever resolves or rejects.
CloseEngine ==
  /\ Reopen
  /\ \E late \in SUBSET waiting : abandoned' = abandoned \cup (waiting \ late)

Restart == Crash \/ CloseEngine

-----------------------------------------------------------------------------
(* The system *)

SyncStep ==
  \/ TimerPoll
  \/ HandlePoll
  \/ HandleCommitted
  \/ CommitMerges
  \/ CommitAnswered

\* Calls that add atoms and edit them, and peers that do.
EditCall ==
  /\ \/ \E k \in 0..MaxBatch : InsertNodes(k)
     \/ \E n \in NodeId : LoadForUpdate(n)
     \/ \E d \in drafts : SaveAtomic(d)
     \/ \E n \in NodeId : PeerEdit(n)
     \/ \E m \in mail, labelled \in BOOLEAN : ApplyRemoteUpdate(m, labelled)
  /\ UNCHANGED syncVars

\* Calls that start a new epoch of an atom.
EpochCall ==
  /\ \/ \E n \in NodeId : PeerCompact(n)
     \/ \E n \in NodeId : CompactAtom(n)
  /\ UNCHANGED syncVars

\* Calls that take atoms away.
DeleteCall ==
  /\ \/ \E key \in SourceKey, hash \in Hash, k \in 0..MaxBatch : ReplaceDocument(key, hash, k)
     \/ \E key \in SourceKey : DeleteDocument(key)
     \/ \E n \in NodeId : DeleteNode(n)
  /\ UNCHANGED syncVars

EditNext == EditCall \/ SyncStep \/ (\E c \in Caller : SyncNow(c)) \/ Restart

Next == EditNext \/ EpochCall \/ DeleteCall

\* The interval timer fires, message ports deliver, the writer drains its queue.
Fairness ==
  /\ WF_vars(TimerPoll)
  /\ WF_vars(HandlePoll)
  /\ WF_vars(HandleCommitted)
  /\ WF_vars(CommitMerges)
  /\ WF_vars(CommitAnswered)

Spec     == Init /\ [][Next]_vars
FairSpec == Spec /\ Fairness

\* The same system while every atom stays in its first epoch and none is deleted.
EditSpec     == Init /\ [][EditNext]_vars
FairEditSpec == EditSpec /\ Fairness

-----------------------------------------------------------------------------
(* Properties *)

\* The tables, the ports and the rounds hold what their types say.
SyncTypeOK ==
  /\ inflight \subseteq NodeId
  /\ toWorker \in Seq(Message)
  /\ RoundQueue(rounds)
  /\ RoundQueue(answers)
  /\ waiting \subseteq Caller
  /\ abandoned \subseteq Caller
  /\ restarts \in 0..MaxRestarts
TypeOK == StoreTypeOK /\ SyncTypeOK

\* The title and body columns, which both FTS indexes are fed from, are what
\* the CRDT blob beside them reads as, whatever writer op touched the row last
\* and however old the merge was that a commit brought.
ViewAgrees == \A n \in DOMAIN nodes : nodes[n].text = Content(nodes[n].blob)

\* A node has at most one merge between the worker's poll and the writer's
\* commit (the inflight set of sync-worker.ts): no commit ever overwrites the
\* blob of an earlier commit with a merge that was computed without it.
OneMergePerNode ==
  \A i, j \in 1..Len(rounds) :
    DOMAIN rounds[i].merges \cap DOMAIN rounds[j].merges # {} => i = j

\* An event marked SYNCED is in the text of its atom, with every edit it was
\* written on top of that is marked SYNCED too: the saves that a commit
\* overwrites in its window are still DIRTY and come back with a later poll.
SyncedEvents(n) == {outbox[o].payload : o \in {x \in EventsOf({n}) : outbox[x].status = "SYNCED"}}
SyncedEventsShown ==
  \A o \in DOMAIN outbox :
    outbox[o].status = "SYNCED" /\ anc[outbox[o].payload] \subseteq SyncedEvents(outbox[o].node)
      => covers[outbox[o].payload] \subseteq nodes[outbox[o].node].text

\* The outbox drains: an event that waits to be merged does not wait forever.
EventuallyMerged == \A o \in RowId : (o \in Pending) ~> (o \notin Pending)

\* A syncNow does not hang at a pipeline that stays open: each call is resolved,
\* also when its round turns out empty, unless the process goes down or the
\* engine is closed first (a call that a close leaves behind is abandoned).
SyncNowReturns == \A c \in Caller : (c \in waiting) ~> (c \notin waiting)

\* "resolves when commits have landed" (pipeline.ts:72): a call to syncNow is
\* resolved in the end, unless the process itself goes down.
SyncNowResolves == \A c \in Caller : (c \in waiting) ~> (c \notin waiting \cup abandoned)

\* "a NEWER-epoch update is a compacted snapshot: adopt it as the new baseline
\* genesis state", "never silent merge of pre-compaction history"
\* (write-ops.ts): the blob of an atom holds the baseline of its last change of
\* epoch, and none of the edits that this baseline has collapsed.
EpochEvents(n) == {o \in EventsOf({n}) : outbox[o].type \in {"node.compacted", "remote.adopt"}}
BaselineKept ==
  \A n \in DOMAIN nodes : \A o \in EpochEvents(n) :
    (\A p \in EpochEvents(n) : p <= o) =>
      LET baseline == outbox[o].payload
      IN nodes[n].blob \cap (covers[baseline] \cup {baseline}) = {baseline}
=============================================================================
