---------------------------- MODULE AtomSyncProofs ----------------------------
(****************************************************************************)
(* Proofs about AtomSync, for every value of its constants.                 *)
(****************************************************************************)
EXTENDS AtomSync, TLAPS

USE StoreAssumption, SyncAssumption DEF StoreAssumption, SyncAssumption

-----------------------------------------------------------------------------
(* Facts about the operators of the model *)

\* A blob shows only edits.
LEMMA ContentType ==
  ASSUME covers \in [Update -> SUBSET Update], NEW blob \in SUBSET Update
  PROVE  Content(blob) \in SUBSET Update
  BY DEF Content, Visible

\* FIFO ports: what Head, Tail and Append do to a queue.
LEMMA QueueFacts ==
  ASSUME NEW S, NEW q \in Seq(S)
  PROVE  /\ q # << >> => /\ Head(q) = q[1] /\ Head(q) \in S /\ 1 \in 1..Len(q)
                         /\ Tail(q) \in Seq(S) /\ Len(Tail(q)) = Len(q) - 1
                         /\ \A i \in 1..Len(Tail(q)) : i + 1 \in 1..Len(q) /\ Tail(q)[i] = q[i + 1]
         /\ \A x \in S : /\ Append(q, x) \in Seq(S) /\ Len(Append(q, x)) = Len(q) + 1
                         /\ \A i \in 1..Len(q) : Append(q, x)[i] = q[i]
                         /\ Append(q, x)[Len(q) + 1] = x
  OBVIOUS

\* The rounds of merges are tables of merges.
MergeTable == UNION {[ns -> Merge] : ns \in SUBSET NodeId}
Round == [token : Caller \cup {Timer}, merges : MergeTable]

LEMMA MergeTableFacts ==
  ASSUME NEW f
  PROVE  f \in MergeTable <=> (f \in [DOMAIN f -> Merge] /\ DOMAIN f \subseteq NodeId)
  BY DEF MergeTable

\* The queues of rounds that SyncTypeOK speaks of are sequences of rounds.
LEMMA RoundQueueFacts ==
  ASSUME NEW q
  PROVE  RoundQueue(q) <=> q \in Seq(Round)
<1>1. \A r : IsRound(r) => r \in Round
  BY MergeTableFacts DEF IsRound, RoundOf, Round
<1>2. \A r \in Round : IsRound(r)
  BY MergeTableFacts DEF IsRound, RoundOf, Round
<1>3. ASSUME RoundQueue(q) PROVE q \in Seq(Round)
  BY <1>1, <1>3 DEF RoundQueue
<1>4. ASSUME q \in Seq(Round) PROVE RoundQueue(q)
  BY <1>2, <1>4 DEF RoundQueue
<1> QED
  BY <1>3, <1>4

\* The types in terms of these sequences.
SyncTyped ==
  /\ inflight \subseteq NodeId
  /\ toWorker \in Seq(Message)
  /\ rounds \in Seq(Round)
  /\ answers \in Seq(Round)
  /\ waiting \subseteq Caller
  /\ abandoned \subseteq Caller
  /\ restarts \in 0..MaxRestarts
Typed == StoreTypeOK /\ SyncTyped

LEMMA TypedIsTypeOK == Typed <=> TypeOK
  BY RoundQueueFacts DEF Typed, SyncTyped, TypeOK, SyncTypeOK

-----------------------------------------------------------------------------
(* Type correctness *)

\* The writer's row updates keep a row a row.
LEMMA RowUpdateType ==
  ASSUME NEW row \in NodeRow
  PROVE  /\ \A blob, text \in SUBSET Update, status \in {"DIRTY", "SYNCED", "CONFLICT"} :
              Rewrite(row, blob, text, status) \in NodeRow
         /\ \A epoch \in Epoch : AtEpoch(row, epoch) \in NodeRow
         /\ \A status \in {"DIRTY", "SYNCED", "CONFLICT"} : Flagged(row, status) \in NodeRow
         /\ \A baseline \in SUBSET Update :
              row.epoch + 1 \in Epoch => Collapsed(row, baseline) \in NodeRow
<1>1. ASSUME NEW blob \in SUBSET Update, NEW text \in SUBSET Update,
             NEW status \in {"DIRTY", "SYNCED", "CONFLICT"}
      PROVE  Rewrite(row, blob, text, status) \in NodeRow
  <2> DEFINE version == row.version + 1
  <2>1. version \in Nat
    BY DEF NodeRow
  <2>2. Rewrite(row, blob, text, status) =
          [row EXCEPT !.blob = blob, !.text = text, !.version = version, !.status = status]
    BY DEF Rewrite
  <2> HIDE DEF version
  <2> QED
    BY <2>1, <2>2 DEF NodeRow
<1>2. ASSUME NEW epoch \in Epoch PROVE AtEpoch(row, epoch) \in NodeRow
  BY DEF NodeRow, AtEpoch
<1>3. ASSUME NEW status \in {"DIRTY", "SYNCED", "CONFLICT"} PROVE Flagged(row, status) \in NodeRow
  BY DEF NodeRow, Flagged
<1>4. ASSUME NEW baseline \in SUBSET Update, row.epoch + 1 \in Epoch
      PROVE  Collapsed(row, baseline) \in NodeRow
  <2> DEFINE epoch == row.epoch + 1
  <2>1. Collapsed(row, baseline) = [row EXCEPT !.blob = baseline, !.epoch = epoch]
    BY DEF Collapsed
  <2> HIDE DEF epoch
  <2> QED
    BY <1>4, <2>1 DEF NodeRow, epoch
<1> QED
  BY <1>1, <1>2, <1>3, <1>4

\* A logged event leaves the outbox a table of events.
LEMMA LogType ==
  ASSUME StoreTypeOK, NEW n \in NodeId, NEW type \in EventType,
         NEW update \in Update, NEW status \in {"DIRTY", "SYNCED"},
         Log(n, type, update, status)
  PROVE  DOMAIN outbox' \subseteq RowId /\ outbox' \in [DOMAIN outbox' -> EventRow]
  BY DEF Log, Insert, EventRow, StoreTypeOK

\* Ingested rows are typed rows, whichever atoms and events were deleted before.
LEMMA InsertNodeRowsType ==
  ASSUME StoreTypeOK, NEW table, NEW log, NEW doc \in SourceKey \cup {NoDoc}, NEW k \in 0..MaxBatch,
         table \in [DOMAIN table -> NodeRow], DOMAIN table \subseteq NodeId,
         log \in [DOMAIN log -> EventRow], DOMAIN log \subseteq RowId,
         InsertNodeRows(table, log, doc, k)
  PROVE  /\ DOMAIN nodes' \subseteq NodeId /\ nodes' \in [DOMAIN nodes' -> NodeRow]
         /\ DOMAIN outbox' \subseteq RowId /\ outbox' \in [DOMAIN outbox' -> EventRow]
         /\ used' \in 0..MaxUpdates
<1>1. PICK i \in 1..(MaxNodeId + 1), o \in 1..(MaxRowId + 1) :
        /\ i + k - 1 <= MaxNodeId /\ o + k - 1 <= MaxRowId /\ used + k <= MaxUpdates
        /\ nodes' = Insert(table, [x \in i..(i + k - 1) |-> NewNode(doc, used + 1 + x - i)])
        /\ outbox' = Insert(log, [x \in o..(o + k - 1) |-> NewEvent(i + x - o, used + 1 + x - o)])
        /\ used' = used + k
  BY DEF InsertNodeRows
<1>2. /\ k \in Nat /\ i \in Nat \ {0} /\ o \in Nat \ {0} /\ used \in Nat
      /\ i + k - 1 <= MaxNodeId /\ o + k - 1 <= MaxRowId /\ used + k <= MaxUpdates
      /\ MaxNodeId \in Nat /\ MaxRowId \in Nat /\ MaxUpdates \in Nat
  <2>1. /\ MaxBatch \in Nat /\ MaxNodeId \in Nat /\ MaxRowId \in Nat /\ MaxUpdates \in Nat
        /\ used \in 0..MaxUpdates
    BY StoreAssumption DEF StoreTypeOK
  <2>2. k \in Nat /\ i \in Nat \ {0} /\ o \in Nat \ {0} /\ used \in Nat
    BY <2>1
  <2> QED
    BY <1>1, <2>1, <2>2
<1> HIDE StoreAssumption, SyncAssumption
<1>3. i..(i + k - 1) \subseteq NodeId /\ o..(o + k - 1) \subseteq RowId
  BY <1>2 DEF NodeId, RowId
<1>4. \A u \in Update : NewNode(doc, u) \in NodeRow
  BY StoreAssumption DEF NewNode, NodeRow, Epoch
<1>5. \A n \in NodeId, u \in Update : NewEvent(n, u) \in EventRow
  BY DEF NewEvent, EventRow, EventType
<1>6. ASSUME NEW x \in i..(i + k - 1) PROVE used + 1 + x - i \in Update
  BY <1>2 DEF Update
<1>7. ASSUME NEW x \in o..(o + k - 1) PROVE used + 1 + x - o \in Update /\ i + x - o \in NodeId
  BY <1>2 DEF Update, NodeId
<1>8. DOMAIN nodes' \subseteq NodeId /\ nodes' \in [DOMAIN nodes' -> NodeRow]
  BY <1>1, <1>3, <1>4, <1>6 DEF Insert
<1>9. DOMAIN outbox' \subseteq RowId /\ outbox' \in [DOMAIN outbox' -> EventRow]
  BY <1>1, <1>3, <1>5, <1>7 DEF Insert
<1> QED
  BY <1>1, <1>2, <1>8, <1>9

\* The tables keep their types under every call on the store.
LEMMA StoreTypeStep ==
  ASSUME StoreTypeOK, (EditCall \/ EpochCall \/ DeleteCall)
  PROVE  StoreTypeOK'
<1>1. ASSUME NEW k \in 0..MaxBatch, InsertNodes(k) PROVE StoreTypeOK'
  <2>1. /\ DOMAIN nodes' \subseteq NodeId /\ nodes' \in [DOMAIN nodes' -> NodeRow]
        /\ DOMAIN outbox' \subseteq RowId /\ outbox' \in [DOMAIN outbox' -> EventRow]
        /\ used' \in 0..MaxUpdates
    BY <1>1, InsertNodeRowsType DEF InsertNodes, StoreTypeOK
  <2> QED
    BY <1>1, <2>1 DEF InsertNodes, InsertNodeRows, StoreTypeOK
<1>2. ASSUME NEW n \in NodeId, LoadForUpdate(n) PROVE StoreTypeOK'
  <2>1. used + 1 \in Update /\ used' \in 0..MaxUpdates
    BY <1>2 DEF LoadForUpdate, Author, StoreTypeOK, Update
  <2>2. PICK parent \in Tips(nodes[n].blob) : anc' = [anc EXCEPT ![used + 1] = anc[parent] \cup {used + 1}]
    BY <1>2 DEF LoadForUpdate, Author
  <2>3. parent \in Update
    BY <1>2, <2>2 DEF LoadForUpdate, Tips, Visible, StoreTypeOK, NodeRow
  <2>4. anc' \in [Update -> SUBSET Update]
    BY <2>1, <2>2, <2>3 DEF StoreTypeOK
  <2> QED
    BY <1>2, <2>1, <2>4 DEF LoadForUpdate, StoreTypeOK
<1>3. ASSUME NEW d \in drafts, SaveAtomic(d) PROVE StoreTypeOK'
  <2>1. d.node \in NodeId /\ d.update \in Update
    BY DEF StoreTypeOK
  <2>2. ASSUME d.node \in DOMAIN nodes
        PROVE  /\ DOMAIN nodes' \subseteq NodeId /\ nodes' \in [DOMAIN nodes' -> NodeRow]
               /\ DOMAIN outbox' \subseteq RowId /\ outbox' \in [DOMAIN outbox' -> EventRow]
    <3> DEFINE merged == nodes[d.node].blob \cup {d.update}
    <3>1. merged \in SUBSET Update
      BY <2>1, <2>2 DEF StoreTypeOK, NodeRow
    <3>2. Content(merged) \in SUBSET Update
      BY <3>1, ContentType DEF StoreTypeOK
    <3>3. /\ nodes' = [nodes EXCEPT ![d.node] =
               Rewrite(@, merged, Content(merged), "DIRTY")]
          /\ Log(d.node, "node.updated", d.update, "DIRTY")
      BY <1>3, <2>2 DEF SaveAtomic
    <3>4. DOMAIN outbox' \subseteq RowId /\ outbox' \in [DOMAIN outbox' -> EventRow]
      BY <2>1, <3>3, LogType DEF EventType
    <3>5. nodes[d.node] \in NodeRow
      BY <2>2 DEF StoreTypeOK
    <3> HIDE DEF merged
    <3>6. Rewrite(nodes[d.node], merged, Content(merged), "DIRTY") \in NodeRow
      BY <3>1, <3>2, <3>5, RowUpdateType
    <3> QED
      BY <3>3, <3>4, <3>6 DEF StoreTypeOK
  <2> QED
    BY <1>3, <2>2 DEF SaveAtomic, StoreTypeOK, authorVars
<1>4. ASSUME NEW n \in NodeId, PeerEdit(n) PROVE StoreTypeOK'
  <2>1. used + 1 \in Update /\ used' \in 0..MaxUpdates /\ nodes[n].epoch \in Epoch
    BY <1>4 DEF PeerEdit, Author, StoreTypeOK, Update, NodeRow
  <2>2. PICK parent \in Tips(nodes[n].blob \cup (Received(n) \ garbled)) :
          anc' = [anc EXCEPT ![used + 1] = anc[parent] \cup {used + 1}]
    BY <1>4 DEF PeerEdit, Author
  <2>3. nodes[n].blob \subseteq Update /\ Received(n) \subseteq Update
    BY <1>4 DEF PeerEdit, Received, StoreTypeOK, NodeRow
  <2>4. parent \in Update
    BY <2>2, <2>3 DEF Tips, Visible
  <2>5. anc' \in [Update -> SUBSET Update]
    BY <2>1, <2>2, <2>4 DEF StoreTypeOK
  <2>6. mail' \subseteq [node : NodeId, update : Update, epoch : Epoch]
    BY <1>4, <2>1 DEF PeerEdit, PeerSend, StoreTypeOK
  <2>7. garbled' \subseteq Update
    BY <1>4, <2>1 DEF PeerEdit, StoreTypeOK
  <2> QED
    BY <1>4, <2>1, <2>5, <2>6, <2>7 DEF PeerEdit, StoreTypeOK
<1>5. ASSUME NEW m \in mail, NEW labelled \in BOOLEAN, ApplyRemoteUpdate(m, labelled)
      PROVE  StoreTypeOK'
  <2>1. m.node \in NodeId /\ m.update \in Update /\ m.epoch \in Epoch /\ m.node \in DOMAIN nodes
    BY <1>5 DEF StoreTypeOK, ApplyRemoteUpdate
  <2>2. Content({m.update}) \in SUBSET Update
    BY <2>1, ContentType DEF StoreTypeOK
  <2>3. DOMAIN outbox' \subseteq RowId /\ outbox' \in [DOMAIN outbox' -> EventRow]
    <3>1. CASE RemoteStale(m, labelled)
      BY <2>1, <3>1, LogType DEF RemoteStale, EventType
    <3>2. CASE RemoteAdopt(m, labelled)
      BY <2>1, <3>2, LogType DEF RemoteAdopt, EventType
    <3>3. CASE RemoteQueue(m, labelled)
      BY <2>1, <3>3, LogType DEF RemoteQueue, EventType
    <3> QED
      BY <1>5, <3>1, <3>2, <3>3 DEF ApplyRemoteUpdate
  <2>4. DOMAIN nodes' \subseteq NodeId /\ nodes' \in [DOMAIN nodes' -> NodeRow]
    <3> DEFINE adopted == Rewrite(nodes[m.node], {m.update}, Content({m.update}), "SYNCED")
    <3>a. nodes[m.node] \in NodeRow
      BY <2>1 DEF StoreTypeOK
    <3>b. Flagged(nodes[m.node], "CONFLICT") \in NodeRow
      BY <3>a, RowUpdateType
    <3>c. adopted \in NodeRow
      BY <2>1, <2>2, <3>a, RowUpdateType
    <3>d. nodes' = [nodes EXCEPT ![m.node] = AtEpoch(adopted, m.epoch)]
            \/ nodes' = [nodes EXCEPT ![m.node] = Flagged(nodes[m.node], "CONFLICT")]
      BY <1>5 DEF ApplyRemoteUpdate, RemoteStale, RemoteAdopt, RemoteQueue
    <3> HIDE DEF adopted
    <3>e. AtEpoch(adopted, m.epoch) \in NodeRow
      BY <2>1, <3>c, RowUpdateType
    <3> QED
      BY <3>b, <3>d, <3>e DEF StoreTypeOK
  <2> QED
    BY <1>5, <2>3, <2>4 DEF ApplyRemoteUpdate, StoreTypeOK, authorVars
<1>6. ASSUME NEW n \in NodeId, PeerCompact(n) PROVE StoreTypeOK'
  <2>1. used + 1 \in Update /\ used' \in 0..MaxUpdates /\ nodes[n].epoch + 1 \in Epoch
    BY <1>6, SMTT(30) DEF PeerCompact, StoreTypeOK, Update, NodeRow, Epoch
  <2>2. Content(nodes[n].blob) \in SUBSET Update
    BY <1>6, ContentType DEF PeerCompact, StoreTypeOK, NodeRow
  <2>3. mail' \subseteq [node : NodeId, update : Update, epoch : Epoch]
    BY <1>6, <2>1 DEF PeerCompact, PeerSend, StoreTypeOK
  <2> QED
    BY <1>6, <2>1, <2>2, <2>3 DEF PeerCompact, StoreTypeOK
<1>7. ASSUME NEW n \in NodeId, CompactAtom(n) PROVE StoreTypeOK'
  <2>1. used + 1 \in Update /\ used' \in 0..MaxUpdates /\ nodes[n].epoch + 1 \in Epoch
    BY <1>7, SMTT(30) DEF CompactAtom, StoreTypeOK, Update, NodeRow, Epoch
  <2>2. Content(nodes[n].blob) \in SUBSET Update
    BY <1>7, ContentType DEF CompactAtom, StoreTypeOK, NodeRow
  <2>3. DOMAIN outbox' \subseteq RowId /\ outbox' \in [DOMAIN outbox' -> EventRow]
    BY <1>7, <2>1, LogType DEF CompactAtom, EventType
  <2>4. DOMAIN nodes' \subseteq NodeId /\ nodes' \in [DOMAIN nodes' -> NodeRow]
    <3>1. nodes[n] \in NodeRow
      BY <1>7 DEF CompactAtom, StoreTypeOK
    <3>2. Collapsed(nodes[n], {used + 1}) \in NodeRow
      BY <2>1, <3>1, RowUpdateType
    <3> QED
      BY <1>7, <3>2 DEF CompactAtom, StoreTypeOK
  <2> QED
    BY <1>7, <2>1, <2>2, <2>3, <2>4 DEF CompactAtom, StoreTypeOK
<1>8. ASSUME NEW key \in SourceKey, NEW hash \in Hash, NEW k \in 0..MaxBatch,
             ReplaceDocument(key, hash, k)
      PROVE  StoreTypeOK'
  <2> DEFINE ns == AtomsOf(key)
  <2>1. /\ NodesWithout(ns) \in [DOMAIN NodesWithout(ns) -> NodeRow]
        /\ DOMAIN NodesWithout(ns) \subseteq NodeId
        /\ OutboxWithout(ns) \in [DOMAIN OutboxWithout(ns) -> EventRow]
        /\ DOMAIN OutboxWithout(ns) \subseteq RowId
    BY DEF NodesWithout, OutboxWithout, Only, StoreTypeOK
  <2>2. /\ DOMAIN nodes' \subseteq NodeId /\ nodes' \in [DOMAIN nodes' -> NodeRow]
        /\ DOMAIN outbox' \subseteq RowId /\ outbox' \in [DOMAIN outbox' -> EventRow]
        /\ used' \in 0..MaxUpdates
    BY <1>8, <2>1, InsertNodeRowsType DEF ReplaceDocument
  <2>3. docs' \in [SourceKey -> Hash \cup {NoHash}]
    BY <1>8 DEF ReplaceDocument, StoreTypeOK
  <2> QED
    BY <1>8, <2>2, <2>3 DEF ReplaceDocument, InsertNodeRows, StoreTypeOK
<1>9. ASSUME NEW ns \in SUBSET DOMAIN nodes, DeleteAtoms(ns),
             docs' \in [SourceKey -> Hash \cup {NoHash}]
      PROVE  StoreTypeOK'
  <2>1. /\ DOMAIN nodes' \subseteq NodeId /\ nodes' \in [DOMAIN nodes' -> NodeRow]
        /\ DOMAIN outbox' \subseteq RowId /\ outbox' \in [DOMAIN outbox' -> EventRow]
    BY <1>9 DEF DeleteAtoms, NodesWithout, OutboxWithout, Only, StoreTypeOK
  <2> QED
    BY <1>9, <2>1 DEF DeleteAtoms, StoreTypeOK
<1>10. ASSUME NEW key \in SourceKey, DeleteDocument(key) PROVE StoreTypeOK'
  BY <1>10, <1>9 DEF DeleteDocument, AtomsOf, StoreTypeOK
<1>11. ASSUME NEW n \in NodeId, DeleteNode(n) PROVE StoreTypeOK'
  BY <1>11, <1>9 DEF DeleteNode, StoreTypeOK
<1> QED
  BY <1>1, <1>2, <1>3, <1>4, <1>5, <1>6, <1>7, <1>8, <1>10, <1>11
     DEF EditCall, EpochCall, DeleteCall

\* What a poll computes are merges.
LEMMA MergeOfType ==
  ASSUME StoreTypeOK, NEW n \in Due
  PROVE  MergeOf(n) \in Merge /\ n \in NodeId /\ n \in DOMAIN nodes
<1> DEFINE merged == nodes[n].blob \cup {outbox[o].payload : o \in DueRows(n)}
<1>1. DueRows(n) \subseteq DOMAIN outbox
  BY DEF DueRows, Batch, Pending
<1>2. n \in DOMAIN nodes /\ n \in NodeId
  BY DEF Due, Batch, Pending, StoreTypeOK
<1>3. merged \in SUBSET Update
  BY <1>1, <1>2 DEF StoreTypeOK, NodeRow, EventRow
<1>4. Content(merged) \in SUBSET Update
  BY <1>3, ContentType DEF StoreTypeOK
<1>5. DueRows(n) \in SUBSET RowId
  BY <1>1 DEF StoreTypeOK
<1>6. MergeOf(n) = [blob |-> merged, text |-> Content(merged), rows |-> DueRows(n)]
  BY DEF MergeOf
<1> HIDE DEF merged
<1> QED
  BY <1>2, <1>3, <1>4, <1>5, <1>6 DEF Merge

\* A poll leaves the worker's state and its rounds well typed.
LEMMA PollType ==
  ASSUME StoreTypeOK, SyncTyped, NEW token \in Caller \cup {Timer}, Poll(token)
  PROVE  /\ inflight' \subseteq NodeId /\ rounds' \in Seq(Round)
         /\ waiting' \subseteq Caller
<1>1. Due \subseteq NodeId
  BY MergeOfType
<1>2. CASE PollFails
  BY <1>1, <1>2 DEF PollFails, SyncTyped
<1>3. CASE PollFindsNothing(token)
  BY <1>3 DEF PollFindsNothing, Resolve, Only, SyncTyped
<1>4. CASE PollMerges(token)
  <2> DEFINE round == [token |-> token, merges |-> [n \in Due |-> MergeOf(n)]]
  <2>1. [n \in Due |-> MergeOf(n)] \in MergeTable
    BY <1>1, MergeOfType, MergeTableFacts
  <2>2. round \in Round
    BY <2>1 DEF Round
  <2>3. rounds' = Append(rounds, round)
    BY <1>4 DEF PollMerges
  <2> HIDE DEF round
  <2>4. rounds' \in Seq(Round)
    BY <2>2, <2>3 DEF SyncTyped
  <2> QED
    BY <1>1, <1>4, <2>4 DEF PollMerges, SyncTyped
<1> QED
  BY <1>2, <1>3, <1>4 DEF Poll

\* A crash and a close alike begin with empty ports.
LEMMA RestartReopens ==
  ASSUME Restart
  PROVE  Reopen /\ abandoned' \subseteq abandoned \cup waiting
  BY DEF Restart, Crash, CloseEngine

\* No step of the pipeline, the worker or a restart breaks a type.
LEMMA SyncTypeStep ==
  ASSUME Typed, SyncStep \/ (\E c \in Caller : SyncNow(c)) \/ Restart
  PROVE  Typed'
<1> USE DEF Typed
<1>1. CASE TimerPoll
  <2>1. Poll(Timer) /\ UNCHANGED toWorker
    BY <1>1 DEF TimerPoll
  <2> QED
    BY <2>1, PollType DEF Poll, SyncTyped, StoreTypeOK, storeVars
<1>2. CASE HandlePoll
  <2>1. /\ Poll(Head(toWorker).token) /\ toWorker' = Tail(toWorker) /\ toWorker # << >>
    BY <1>2 DEF HandlePoll
  <2>2. Head(toWorker) \in Message /\ toWorker' \in Seq(Message)
    BY <2>1, QueueFacts DEF SyncTyped
  <2>3. Head(toWorker).token \in Caller \cup {Timer}
    BY <2>2 DEF Message
  <2> QED
    BY <2>1, <2>2, <2>3, PollType DEF Poll, SyncTyped, StoreTypeOK, storeVars
<1>3. CASE HandleCommitted
  <2>1. toWorker' \in Seq(Message)
    BY <1>3, QueueFacts DEF HandleCommitted, SyncTyped
  <2> QED
    BY <1>3, <2>1 DEF HandleCommitted, SyncTyped, StoreTypeOK, storeVars
<1>4. CASE CommitMerges
  <2> DEFINE merges == Head(rounds).merges
  <2>1. Head(rounds) \in Round /\ rounds' \in Seq(Round) /\ answers' \in Seq(Round)
    BY <1>4, QueueFacts DEF CommitMerges, SyncTyped
  <2>2. merges \in [DOMAIN merges -> Merge] /\ DOMAIN merges \subseteq NodeId
    BY <2>1, MergeTableFacts DEF Round
  <2>3. \A n \in DOMAIN merges : merges[n].blob \in SUBSET Update /\ merges[n].text \in SUBSET Update
    BY <2>2 DEF Merge
  <2>4. /\ nodes' = [n \in DOMAIN nodes |->
              IF n \in DOMAIN merges
              THEN Rewrite(nodes[n], merges[n].blob, merges[n].text, "SYNCED")
              ELSE nodes[n]]
        /\ outbox' = [o \in DOMAIN outbox |->
              IF o \in MergedRows(merges) THEN Flagged(outbox[o], "SYNCED") ELSE outbox[o]]
    BY <1>4 DEF CommitMerges
  <2> HIDE DEF merges
  <2>5. \A n \in DOMAIN nodes \cap DOMAIN merges :
          Rewrite(nodes[n], merges[n].blob, merges[n].text, "SYNCED") \in NodeRow
    BY <2>3, RowUpdateType DEF StoreTypeOK
  <2>6. \A o \in DOMAIN outbox : Flagged(outbox[o], "SYNCED") \in EventRow
    BY DEF StoreTypeOK, Flagged, EventRow
  <2>7. /\ DOMAIN nodes' \subseteq NodeId /\ nodes' \in [DOMAIN nodes' -> NodeRow]
        /\ DOMAIN outbox' \subseteq RowId /\ outbox' \in [DOMAIN outbox' -> EventRow]
    BY <2>4, <2>5, <2>6 DEF StoreTypeOK
  <2> QED
    BY <1>4, <2>1, <2>7 DEF CommitMerges, SyncTyped, StoreTypeOK, authorVars
<1>5. CASE CommitAnswered
  <2>1. Head(answers) \in Round /\ answers' \in Seq(Round)
    BY <1>5, QueueFacts DEF CommitAnswered, SyncTyped
  <2>2. DOMAIN Head(answers).merges \subseteq NodeId
    BY <2>1, MergeTableFacts DEF Round
  <2>3. CommittedMsg(DOMAIN Head(answers).merges) \in Message
    BY <2>2 DEF CommittedMsg, Message
  <2>4. toWorker' \in Seq(Message)
    BY <1>5, <2>3 DEF CommitAnswered, SyncTyped
  <2>5. waiting' \subseteq Caller
    BY <1>5 DEF CommitAnswered, Resolve, Only, SyncTyped
  <2> QED
    BY <1>5, <2>1, <2>4, <2>5 DEF CommitAnswered, SyncTyped, StoreTypeOK, storeVars
<1>6. ASSUME NEW c \in Caller, SyncNow(c) PROVE Typed'
  <2>1. PollMsg(c) \in Message
    BY DEF PollMsg, Message
  <2>2. toWorker' \in Seq(Message)
    BY <1>6, <2>1 DEF SyncNow, SyncTyped
  <2>3. waiting' \subseteq Caller
    BY <1>6 DEF SyncNow, SyncTyped
  <2> QED
    BY <1>6, <2>2, <2>3 DEF SyncNow, SyncTyped, StoreTypeOK, storeVars
<1>7. CASE Restart
  <2>1. << >> \in Seq(Message) /\ << >> \in Seq(Round)
    OBVIOUS
  <2>2. restarts' \in 0..MaxRestarts
    BY <1>7, RestartReopens DEF Reopen, SyncTyped
  <2> QED
    BY <1>7, <2>1, <2>2, RestartReopens DEF Reopen, SyncTyped, StoreTypeOK, authorVars
<1> QED
  BY <1>1, <1>2, <1>3, <1>4, <1>5, <1>6, <1>7 DEF SyncStep

\* The types are invariant.
LEMMA TypeInvariant == Spec => []Typed
<1>1. Init => Typed
  <2> SUFFICES ASSUME Init PROVE Typed
    OBVIOUS
  <2>1. StoreTypeOK
    BY DEF Init, StoreInit, StoreTypeOK, Update
  <2>2. SyncTyped
    BY DEF Init, SyncInit, SyncTyped
  <2> QED
    BY <2>1, <2>2 DEF Typed
<1>2. Typed /\ [Next]_vars => Typed'
  <2> SUFFICES ASSUME Typed, [Next]_vars PROVE Typed'
    OBVIOUS
  <2>1. CASE UNCHANGED vars
    BY <2>1 DEF vars, storeVars, syncVars, Typed, StoreTypeOK, SyncTyped
  <2>2. CASE EditCall \/ EpochCall \/ DeleteCall
    <3>1. StoreTypeOK'
      BY <2>2, StoreTypeStep DEF Typed
    <3>2. UNCHANGED syncVars
      BY <2>2 DEF EditCall, EpochCall, DeleteCall
    <3> QED
      BY <3>1, <3>2 DEF Typed, SyncTyped, syncVars
  <2>3. CASE SyncStep \/ (\E c \in Caller : SyncNow(c)) \/ Restart
    BY <2>3, SyncTypeStep
  <2> QED
    BY <2>1, <2>2, <2>3 DEF Next, EditNext
<1> QED
  BY <1>1, <1>2, PTL DEF Spec

\* Every state of the shard and its pipeline is well typed: rows, blobs and
\* rounds stay within the tables, and no id, epoch or update leaves its range,
\* whatever the writer, the worker, the peers and restarts do.
THEOREM TypeCorrect == Spec => []TypeOK
  BY TypeInvariant, TypedIsTypeOK, PTL

-----------------------------------------------------------------------------
(* One merge per node *)

Nodes(r) == DOMAIN r.merges

\* Where a node in flight can be: in a round, in an answered round or in an
\* acknowledgement on its way back; never in two of them.
InFlight ==
  /\ \A i \in 1..Len(rounds) : Nodes(rounds[i]) \subseteq inflight
  /\ \A i \in 1..Len(answers) : Nodes(answers[i]) \subseteq inflight
  /\ \A i \in 1..Len(toWorker) : toWorker[i].ids \subseteq inflight
Apart ==
  /\ \A i, j \in 1..Len(rounds) : i # j => Nodes(rounds[i]) \cap Nodes(rounds[j]) = {}
  /\ \A i, j \in 1..Len(answers) : i # j => Nodes(answers[i]) \cap Nodes(answers[j]) = {}
  /\ \A i, j \in 1..Len(toWorker) : i # j => toWorker[i].ids \cap toWorker[j].ids = {}
  /\ \A i \in 1..Len(rounds), j \in 1..Len(answers) : Nodes(rounds[i]) \cap Nodes(answers[j]) = {}
  /\ \A i \in 1..Len(rounds), j \in 1..Len(toWorker) : Nodes(rounds[i]) \cap toWorker[j].ids = {}
  /\ \A i \in 1..Len(answers), j \in 1..Len(toWorker) : Nodes(answers[i]) \cap toWorker[j].ids = {}
FlightInv == InFlight /\ Apart

\* A poll sends out only nodes that are not in flight, whether it takes its
\* request off the port (s = 1) or the timer makes it (s = 0).
LEMMA PollFlight ==
  ASSUME Typed, FlightInv, NEW token \in Caller \cup {Timer}, Poll(token), NEW s \in {0, 1},
         \A j \in 1..Len(toWorker') : j + s \in 1..Len(toWorker) /\ toWorker'[j] = toWorker[j + s],
         Len(toWorker') \in Nat
  PROVE  FlightInv'
<1>0. \A i, j \in 1..Len(toWorker') : i # j => i + s # j + s
  OBVIOUS
<1>1. CASE PollFails
  BY <1>0, <1>1, ZenonT(60) DEF PollFails, Poll, FlightInv, InFlight, Apart, Nodes
<1>2. CASE PollFindsNothing(token)
  BY <1>0, <1>2, ZenonT(60) DEF PollFindsNothing, Poll, FlightInv, InFlight, Apart, Nodes
<1>3. CASE PollMerges(token)
  <2> DEFINE round == [token |-> token, merges |-> [n \in Due |-> MergeOf(n)]]
  <2>1. /\ rounds' = Append(rounds, round) /\ inflight' = inflight \cup Due
        /\ answers' = answers
    BY <1>3 DEF PollMerges, Poll
  <2>2. Nodes(round) = Due
    BY DEF Nodes
  <2>3. Due \cap inflight = {}
    BY DEF Due
  <2> HIDE DEF round
  <2>4. rounds \in Seq(Round)
    BY DEF Typed, SyncTyped
  <2>5. Len(rounds') = Len(rounds) + 1 /\ rounds'[Len(rounds) + 1] = round
        /\ \A i \in 1..Len(rounds) : rounds'[i] = rounds[i]
    BY <2>1, <2>4
  <2>6. \A i \in 1..Len(rounds') : i \in 1..Len(rounds) \/ i = Len(rounds) + 1
    BY <2>4, <2>5
  <2>7. InFlight'
    BY <2>1, <2>2, <2>5, <2>6 DEF FlightInv, InFlight, Nodes
  <2>8. Apart'
    <3>a. \A i, j \in 1..Len(rounds') : i # j => Nodes(rounds'[i]) \cap Nodes(rounds'[j]) = {}
      BY <2>1, <2>2, <2>3, <2>5, <2>6 DEF FlightInv, InFlight, Apart, Nodes
    <3>b. \A i, j \in 1..Len(answers') : i # j => Nodes(answers'[i]) \cap Nodes(answers'[j]) = {}
      BY <2>1 DEF FlightInv, InFlight, Apart, Nodes
    <3>c. \A i, j \in 1..Len(toWorker') : i # j => toWorker'[i].ids \cap toWorker'[j].ids = {}
      BY <1>0 DEF FlightInv, InFlight, Apart, Nodes
    <3>d. \A i \in 1..Len(rounds'), j \in 1..Len(answers') : Nodes(rounds'[i]) \cap Nodes(answers'[j]) = {}
      BY <2>1, <2>2, <2>3, <2>5, <2>6 DEF FlightInv, InFlight, Apart, Nodes
    <3>e. \A i \in 1..Len(rounds'), j \in 1..Len(toWorker') : Nodes(rounds'[i]) \cap toWorker'[j].ids = {}
      BY <2>1, <2>2, <2>3, <2>5, <2>6 DEF FlightInv, InFlight, Apart, Nodes
    <3>f. \A i \in 1..Len(answers'), j \in 1..Len(toWorker') : Nodes(answers'[i]) \cap toWorker'[j].ids = {}
      BY <2>1 DEF FlightInv, InFlight, Apart, Nodes
    <3> QED
      BY <3>a, <3>b, <3>c, <3>d, <3>e, <3>f DEF Apart, Nodes
  <2> QED
    BY <2>7, <2>8 DEF FlightInv
<1> QED
  BY <1>1, <1>2, <1>3 DEF Poll

\* The in-flight discipline survives every step.
LEMMA FlightStep ==
  ASSUME Typed, FlightInv, [Next]_vars
  PROVE  FlightInv'
<1> USE DEF Nodes
<1>0. rounds \in Seq(Round) /\ answers \in Seq(Round) /\ toWorker \in Seq(Message)
  BY DEF Typed, SyncTyped
<1>1. CASE TimerPoll
  <2>1. Poll(Timer) /\ toWorker' = toWorker
    BY <1>1 DEF TimerPoll
  <2>2. \A j \in 1..Len(toWorker') : j + 0 \in 1..Len(toWorker) /\ toWorker'[j] = toWorker[j + 0]
    BY <1>0, <2>1
  <2> QED
    BY <1>0, <2>1, <2>2, PollFlight
<1>2. CASE HandlePoll
  <2>1. Poll(Head(toWorker).token) /\ toWorker' = Tail(toWorker) /\ toWorker # << >>
    BY <1>2 DEF HandlePoll
  <2>2. Head(toWorker).token \in Caller \cup {Timer}
    <3>1. Head(toWorker) \in Message
      BY <1>0, <2>1, QueueFacts
    <3> QED
      BY <3>1 DEF Message
  <2>3. /\ Len(toWorker') \in Nat
        /\ \A j \in 1..Len(toWorker') : j + 1 \in 1..Len(toWorker) /\ toWorker'[j] = toWorker[j + 1]
    BY <1>0, <2>1, QueueFacts
  <2> QED
    BY <2>1, <2>2, <2>3, PollFlight
<1>3. CASE HandleCommitted
  <2>1. /\ toWorker' = Tail(toWorker) /\ toWorker # << >> /\ rounds' = rounds /\ answers' = answers
        /\ inflight' = inflight \ toWorker[1].ids
    BY <1>0, <1>3 DEF HandleCommitted
  <2>2. /\ 1 \in 1..Len(toWorker) /\ Len(toWorker') \in Nat
        /\ \A j \in 1..Len(toWorker') : /\ j + 1 \in 1..Len(toWorker) /\ j + 1 # 1
                                        /\ toWorker'[j] = toWorker[j + 1]
    BY <1>0, <2>1, QueueFacts
  <2>3. InFlight'
    BY <2>1, <2>2 DEF FlightInv, InFlight, Apart
  <2>4. Apart'
    <3>1. \A i, j \in 1..Len(toWorker') : i # j => i + 1 # j + 1
      BY <2>2
    <3> QED
      BY <2>1, <2>2, <3>1 DEF FlightInv, Apart
  <2> QED
    BY <2>3, <2>4 DEF FlightInv
<1>4. CASE CommitMerges
  <2>1. /\ rounds # << >> /\ rounds' = Tail(rounds) /\ answers' = Append(answers, rounds[1])
        /\ inflight' = inflight /\ toWorker' = toWorker
    BY <1>0, <1>4 DEF CommitMerges
  <2>2. /\ 1 \in 1..Len(rounds) /\ Len(rounds') \in Nat
        /\ \A j \in 1..Len(rounds') : j + 1 \in 1..Len(rounds) /\ j + 1 # 1 /\ rounds'[j] = rounds[j + 1]
    BY <1>0, <2>1, QueueFacts
  <2>3. /\ answers'[Len(answers) + 1] = rounds[1]
        /\ \A i \in 1..Len(answers') : i \in 1..Len(answers) \/ i = Len(answers) + 1
        /\ \A i \in 1..Len(answers) : answers'[i] = answers[i]
    <3>1. rounds[1] \in Round
      BY <1>0, <2>2
    <3> QED
      BY <1>0, <2>1, <3>1
  <2>4. InFlight'
    BY <2>1, <2>2, <2>3 DEF FlightInv, InFlight
  <2>5. Apart'
    <3>1. \A i, j \in 1..Len(rounds') : i # j => i + 1 # j + 1
      BY <2>2
    <3>a. \A i, j \in 1..Len(rounds') : i # j => Nodes(rounds'[i]) \cap Nodes(rounds'[j]) = {}
      BY <2>1, <2>2, <2>3, <3>1 DEF FlightInv, InFlight, Apart
    <3>b. \A i, j \in 1..Len(answers') : i # j => Nodes(answers'[i]) \cap Nodes(answers'[j]) = {}
      BY <2>1, <2>2, <2>3, <3>1 DEF FlightInv, InFlight, Apart
    <3>c. \A i, j \in 1..Len(toWorker') : i # j => toWorker'[i].ids \cap toWorker'[j].ids = {}
      BY <2>1, <2>2, <2>3, <3>1 DEF FlightInv, InFlight, Apart
    <3>d. \A i \in 1..Len(rounds'), j \in 1..Len(answers') : Nodes(rounds'[i]) \cap Nodes(answers'[j]) = {}
      BY <2>1, <2>2, <2>3, <3>1 DEF FlightInv, InFlight, Apart
    <3>e. \A i \in 1..Len(rounds'), j \in 1..Len(toWorker') : Nodes(rounds'[i]) \cap toWorker'[j].ids = {}
      BY <2>1, <2>2, <2>3, <3>1 DEF FlightInv, InFlight, Apart
    <3>f. \A i \in 1..Len(answers'), j \in 1..Len(toWorker') : Nodes(answers'[i]) \cap toWorker'[j].ids = {}
      BY <2>1, <2>2, <2>3, <3>1 DEF FlightInv, InFlight, Apart
    <3> QED
      BY <3>a, <3>b, <3>c, <3>d, <3>e, <3>f DEF Apart
  <2> QED
    BY <2>4, <2>5 DEF FlightInv
<1>5. CASE CommitAnswered
  <2> DEFINE msg == CommittedMsg(Nodes(answers[1]))
  <2>1. /\ answers # << >> /\ answers' = Tail(answers) /\ toWorker' = Append(toWorker, msg)
        /\ inflight' = inflight /\ rounds' = rounds
    BY <1>0, <1>5 DEF CommitAnswered
  <2>2. /\ 1 \in 1..Len(answers) /\ Len(answers') \in Nat
        /\ \A j \in 1..Len(answers') : j + 1 \in 1..Len(answers) /\ j + 1 # 1 /\ answers'[j] = answers[j + 1]
    BY <1>0, <2>1, QueueFacts
  <2>3. msg.ids = Nodes(answers[1])
    BY DEF CommittedMsg
  <2> HIDE DEF msg
  <2>4. /\ toWorker'[Len(toWorker) + 1] = msg
        /\ \A i \in 1..Len(toWorker') : i \in 1..Len(toWorker) \/ i = Len(toWorker) + 1
        /\ \A i \in 1..Len(toWorker) : toWorker'[i] = toWorker[i]
    BY <1>0, <2>1
  <2>5. InFlight'
    BY <2>1, <2>2, <2>3, <2>4 DEF FlightInv, InFlight
  <2>6. Apart'
    <3>1. \A i, j \in 1..Len(answers') : i # j => i + 1 # j + 1
      BY <2>2
    <3>a. \A i, j \in 1..Len(rounds') : i # j => Nodes(rounds'[i]) \cap Nodes(rounds'[j]) = {}
      BY <2>1, <2>2, <2>3, <2>4, <3>1 DEF FlightInv, InFlight, Apart
    <3>b. \A i, j \in 1..Len(answers') : i # j => Nodes(answers'[i]) \cap Nodes(answers'[j]) = {}
      BY <2>1, <2>2, <2>3, <2>4, <3>1 DEF FlightInv, InFlight, Apart
    <3>c. \A i, j \in 1..Len(toWorker') : i # j => toWorker'[i].ids \cap toWorker'[j].ids = {}
      BY <2>1, <2>2, <2>3, <2>4, <3>1 DEF FlightInv, InFlight, Apart
    <3>d. \A i \in 1..Len(rounds'), j \in 1..Len(answers') : Nodes(rounds'[i]) \cap Nodes(answers'[j]) = {}
      BY <2>1, <2>2, <2>3, <2>4, <3>1 DEF FlightInv, InFlight, Apart
    <3>e. \A i \in 1..Len(rounds'), j \in 1..Len(toWorker') : Nodes(rounds'[i]) \cap toWorker'[j].ids = {}
      BY <2>1, <2>2, <2>3, <2>4, <3>1 DEF FlightInv, InFlight, Apart
    <3>f. \A i \in 1..Len(answers'), j \in 1..Len(toWorker') : Nodes(answers'[i]) \cap toWorker'[j].ids = {}
      BY <2>1, <2>2, <2>3, <2>4, <3>1 DEF FlightInv, InFlight, Apart
    <3> QED
      BY <3>a, <3>b, <3>c, <3>d, <3>e, <3>f DEF Apart
  <2> QED
    BY <2>5, <2>6 DEF FlightInv
<1>6. ASSUME NEW c \in Caller, SyncNow(c) PROVE FlightInv'
  <2>1. /\ toWorker' = Append(toWorker, PollMsg(c)) /\ PollMsg(c).ids = {}
        /\ UNCHANGED <<rounds, answers, inflight>>
    BY <1>6 DEF SyncNow, PollMsg
  <2>2. /\ toWorker'[Len(toWorker) + 1] = PollMsg(c)
        /\ \A i \in 1..Len(toWorker') : i \in 1..Len(toWorker) \/ i = Len(toWorker) + 1
        /\ \A i \in 1..Len(toWorker) : toWorker'[i] = toWorker[i]
    BY <1>0, <2>1
  <2> QED
    BY <2>1, <2>2 DEF FlightInv, InFlight, Apart
<1>7. CASE Restart
  BY <1>7, RestartReopens DEF Reopen, FlightInv, InFlight, Apart
<1>8. CASE EditCall \/ EpochCall \/ DeleteCall \/ UNCHANGED vars
  <2>1. UNCHANGED <<rounds, answers, toWorker, inflight>>
    BY <1>8 DEF EditCall, EpochCall, DeleteCall, vars, syncVars
  <2> QED
    BY <2>1 DEF FlightInv, InFlight, Apart
<1> QED
  BY <1>1, <1>2, <1>3, <1>4, <1>5, <1>6, <1>7, <1>8 DEF Next, EditNext, SyncStep

\* The inflight set of the sync worker does what it is for: in every state at
\* most one merge of a node is between its poll and its commit, although
\* acknowledgements travel behind further polls.
THEOREM MergesDoNotOverlap == Spec => []OneMergePerNode
<1>1. Init => FlightInv
  BY DEF Init, SyncInit, FlightInv, InFlight, Apart
<1>2. Typed /\ FlightInv /\ [Next]_vars => FlightInv'
  BY FlightStep
<1>3. FlightInv => OneMergePerNode
  BY DEF FlightInv, Apart, OneMergePerNode, Nodes
<1> QED
  BY <1>1, <1>2, <1>3, TypeInvariant, PTL DEF Spec

-----------------------------------------------------------------------------
(* The text columns of an atom are what its blob reads as.                  *)
(*                                                                          *)
(* ViewAgrees alone is not inductive.  A commit brings text that was read   *)
(* from a blob when the worker polled, so the merges in flight must agree   *)
(* as well; and what a blob reads as must not change when somebody authors  *)
(* an update, so everything in circulation has been authored before.        *)

\* A row, or a merge of one, is made of authored updates and shows its blob.
Fits(row) == row.blob \subseteq 1..used /\ row.text = Content(row.blob)

NodesFit  == \A n \in DOMAIN nodes : Fits(nodes[n])
RoundsFit == \A i \in 1..Len(rounds) : \A n \in DOMAIN rounds[i].merges : Fits(rounds[i].merges[n])

Authored ==
  /\ \A o \in DOMAIN outbox : outbox[o].payload <= used
  /\ \A d \in drafts : d.update <= used
  /\ \A m \in mail : m.update <= used

\* An update that nobody has authored follows nothing and carries itself.
Untouched == \A u \in Update : u > used => anc[u] = {u} /\ covers[u] = {u}

ViewInv == NodesFit /\ RoundsFit /\ Authored /\ Untouched

\* What a step does to the updates that exist: nothing.
Grows ==
  /\ used \in Nat /\ used' \in Nat /\ used <= used'
  /\ \A u \in 1..used : anc'[u] = anc[u] /\ covers'[u] = covers[u]

-----------------------------------------------------------------------------
(* What a blob reads as *)

\* A blob of authored updates goes on reading the same.
LEMMA FitsStable ==
  ASSUME NEW row, Fits(row), Grows
  PROVE  Fits(row)'
<1>1. row.blob \subseteq 1..used'
  BY DEF Fits, Grows
<1>2. Visible(row.blob)' = Visible(row.blob)
  BY DEF Visible, Fits, Grows
<1>3. Content(row.blob)' = Content(row.blob)
  <2>1. \A u \in Visible(row.blob) : covers'[u] = covers[u]
    BY DEF Visible, Fits, Grows
  <2> QED
    BY <1>2, <2>1 DEF Content
<1> QED
  BY <1>1, <1>3 DEF Fits

\* A genesis update reads as itself, and a snapshot as what it covers.
LEMMA ContentOfOne ==
  ASSUME NEW u, anc[u] = {u}
  PROVE  Content({u}) = covers[u]
  BY DEF Content, Visible

\* The updates to come are the same in the next state.
LEMMA UntouchedStable ==
  ASSUME StoreTypeOK, Untouched, used' \in Nat, used <= used', UNCHANGED <<anc, covers>>
  PROVE  Untouched' /\ Grows
<1>1. used \in Nat
  BY DEF StoreTypeOK
<1>2. ASSUME NEW u \in Update, u > used' PROVE anc'[u] = {u} /\ covers'[u] = {u}
  <2>1. u > used
    BY <1>1, <1>2 DEF Update
  <2> QED
    BY <2>1 DEF Untouched
<1> QED
  BY <1>1, <1>2 DEF Untouched, Grows

-----------------------------------------------------------------------------
(* The operations of the writer *)

\* What each of them has to keep.
Kept == Grows /\ Untouched' /\ NodesFit' /\ Authored'

\* A new event of an authored update leaves the outbox authored.
LEMMA LogAuthored ==
  ASSUME Authored, NEW n, NEW type, NEW update, NEW status,
         Log(n, type, update, status), update <= used', used \in Nat, used' \in Nat, used <= used',
         StoreTypeOK
  PROVE  \A o \in DOMAIN outbox' : outbox'[o].payload <= used'
<1>1. \A o \in DOMAIN outbox : outbox[o].payload \in Int /\ outbox[o].payload <= used
  BY DEF Authored, StoreTypeOK, EventRow, Update
<1>2. PICK o \in RowId : outbox' = Insert(outbox, [x \in {o} |->
        [node |-> n, type |-> type, payload |-> update, status |-> status]])
  BY DEF Log
<1>3. \A x \in DOMAIN outbox' : x = o \/ (x \in DOMAIN outbox /\ outbox'[x] = outbox[x])
  BY <1>2 DEF Insert
<1>4. outbox'[o].payload = update
  BY <1>2 DEF Insert
<1> QED
  BY <1>1, <1>3, <1>4

\* The table after a step, row by row.
LEMMA NodesFitNext ==
  ASSUME \A n \in DOMAIN nodes' : \E row : nodes'[n] = row /\ Fits(row)'
  PROVE  NodesFit'
<1> SUFFICES ASSUME NEW n \in DOMAIN nodes' PROVE Fits(nodes[n])'
  BY DEF NodesFit
<1>1. PICK row : nodes'[n] = row /\ Fits(row)'
  OBVIOUS
<1> QED
  BY <1>1 DEF Fits, Content, Visible

\* Rows that stay as they were go on fitting, and a rewritten row fits.
LEMMA OneRowFits ==
  ASSUME NodesFit, Grows, NEW ns,
         \A x \in DOMAIN nodes' \ ns : x \in DOMAIN nodes /\ nodes'[x] = nodes[x],
         \A x \in DOMAIN nodes' \cap ns : \E row : nodes'[x] = row /\ Fits(row)'
  PROVE  NodesFit'
<1>1. ASSUME NEW x \in DOMAIN nodes' PROVE \E row : nodes'[x] = row /\ Fits(row)'
  <2>1. CASE x \in ns
    BY <2>1
  <2>2. CASE x \notin ns
    <3>1. PICK row : row = nodes[x]
      OBVIOUS
    <3>2. Fits(row)
      BY <2>2, <3>1 DEF NodesFit, Fits, Content, Visible
    <3>3. Fits(row)'
      BY <3>2, FitsStable
    <3> QED
      BY <2>2, <3>1, <3>3
  <2> QED
    BY <2>1, <2>2
<1> QED
  BY <1>1, NodesFitNext

LEMMA SameRowsFit ==
  ASSUME NodesFit, Grows, \A x \in DOMAIN nodes' : x \in DOMAIN nodes /\ nodes'[x] = nodes[x]
  PROVE  NodesFit'
<1> DEFINE ns == {}
<1>1. /\ \A x \in DOMAIN nodes' \ ns : x \in DOMAIN nodes /\ nodes'[x] = nodes[x]
      /\ \A x \in DOMAIN nodes' \cap ns : \E row : nodes'[x] = row /\ Fits(row)'
  OBVIOUS
<1> HIDE DEF ns
<1> QED
  BY <1>1, OneRowFits

\* Ingested atoms fit: each has a genesis update of its own.
LEMMA InsertNodeRowsKept ==
  ASSUME StoreTypeOK, Untouched, NEW table, NEW log, NEW doc, NEW k \in 0..MaxBatch,
         \A n \in DOMAIN table : n \in DOMAIN nodes /\ table[n] = nodes[n],
         \A o \in DOMAIN log : o \in DOMAIN outbox /\ log[o] = outbox[o],
         InsertNodeRows(table, log, doc, k), NodesFit, Authored, UNCHANGED <<drafts, mail>>
  PROVE  Kept
<1>1. PICK i \in 1..(MaxNodeId + 1), o \in 1..(MaxRowId + 1) :
        /\ nodes' = Insert(table, [x \in i..(i + k - 1) |-> NewNode(doc, used + 1 + x - i)])
        /\ outbox' = Insert(log, [x \in o..(o + k - 1) |-> NewEvent(i + x - o, used + 1 + x - o)])
        /\ used' = used + k /\ used + k <= MaxUpdates
  BY DEF InsertNodeRows
<1>2. /\ k \in Nat /\ i \in Nat /\ o \in Nat /\ used \in Nat /\ used' \in Nat
      /\ used <= used' /\ MaxUpdates \in Nat
  <2>1. used \in 0..MaxUpdates
    BY DEF StoreTypeOK
  <2>2. k \in Nat /\ i \in Nat /\ o \in Nat
    OBVIOUS
  <2>3. used' = used + k
    BY <1>1
  <2> QED
    BY <2>1, <2>2, <2>3
<1>3. UNCHANGED <<anc, covers>>
  BY DEF InsertNodeRows
<1>4. Untouched' /\ Grows
  BY <1>2, <1>3, UntouchedStable
<1>5. NodesFit'
  <2> DEFINE ns == i..(i + k - 1)
  <2>1. \A x \in DOMAIN nodes' \ ns : x \in DOMAIN nodes /\ nodes'[x] = nodes[x]
    BY <1>1 DEF Insert
  <2>2. ASSUME NEW x \in ns PROVE \E row : nodes'[x] = row /\ Fits(row)'
    <3> DEFINE u == used + 1 + x - i
    <3>1. u \in Update /\ u > used /\ u \in 1..used'
      BY <1>1, <1>2 DEF Update
    <3> HIDE DEF u
    <3>2. anc'[u] = {u} /\ covers'[u] = {u}
      BY <1>3, <3>1 DEF Untouched
    <3>3. nodes'[x].blob = {u} /\ nodes'[x].text = {u}
      BY <1>1 DEF Insert, NewNode, u
    <3>4. PICK row : row = nodes'[x]
      OBVIOUS
    <3>5. Visible(row.blob)' = {u}
      BY <3>2, <3>3, <3>4 DEF Visible
    <3>6. Content(row.blob)' = {u}
      BY <3>2, <3>5 DEF Content
    <3> QED
      BY <3>1, <3>3, <3>4, <3>6 DEF Fits
  <2> HIDE DEF ns
  <2> QED
    BY <1>4, <2>1, <2>2, OneRowFits
<1>6. \A x \in DOMAIN outbox' : outbox'[x].payload <= used'
  <2>1. ASSUME NEW x \in o..(o + k - 1) PROVE outbox'[x].payload <= used'
    <3>1. outbox'[x].payload = used + 1 + x - o
      BY <1>1 DEF Insert, NewEvent
    <3> QED
      BY <1>1, <1>2, <3>1
  <2>2. ASSUME NEW x \in DOMAIN outbox', x \notin o..(o + k - 1) PROVE outbox'[x].payload <= used'
    <3>1. x \in DOMAIN outbox /\ outbox'[x] = outbox[x]
      BY <1>1, <2>2 DEF Insert
    <3>2. outbox[x].payload \in Int
      BY <3>1 DEF StoreTypeOK, EventRow, Update
    <3> QED
      BY <1>2, <3>1, <3>2 DEF Authored
  <2> QED
    BY <2>1, <2>2
<1>7. /\ \A d \in drafts : d.update \in Int /\ d.update <= used
      /\ \A m \in mail : m.update \in Int /\ m.update <= used
  BY DEF StoreTypeOK, Update, Authored
<1>8. /\ \A d \in drafts' : d.update <= used'
      /\ \A m \in mail' : m.update <= used'
  BY <1>2, <1>7
<1>9. Authored'
  BY <1>6, <1>8 DEF Authored
<1> QED
  BY <1>4, <1>5, <1>9 DEF Kept

\* Deletions take rows away.
LEMMA DeleteAtomsKept ==
  ASSUME StoreTypeOK, Untouched, NodesFit, Authored, NEW ns, DeleteAtoms(ns)
  PROVE  Kept
<1>1. UNCHANGED <<used, anc, covers, drafts, mail>> /\ used \in Nat
  BY DEF DeleteAtoms, StoreTypeOK
<1>2. Untouched' /\ Grows
  BY <1>1, UntouchedStable
<1>3. NodesFit'
  <2>1. \A x \in DOMAIN nodes' : x \in DOMAIN nodes /\ nodes'[x] = nodes[x]
    BY DEF DeleteAtoms, NodesWithout, Only
  <2> QED
    BY <1>2, <2>1, SameRowsFit
<1>4. \A o \in DOMAIN outbox' : o \in DOMAIN outbox /\ outbox'[o] = outbox[o]
  BY DEF DeleteAtoms, OutboxWithout, Only
<1> QED
  BY <1>1, <1>2, <1>3, <1>4 DEF Kept, Authored

\* What is in circulation, with its types.
LEMMA AuthoredTyped ==
  ASSUME StoreTypeOK, Authored
  PROVE  /\ used \in Nat
         /\ \A o \in DOMAIN outbox : outbox[o].payload \in Int /\ outbox[o].payload <= used
         /\ \A d \in drafts : d.update \in Int /\ d.update <= used
         /\ \A m \in mail : m.update \in Int /\ m.update <= used
  BY DEF StoreTypeOK, Update, Authored, EventRow

\* Authoring an update leaves those that exist as they were.
LEMMA AuthorKept ==
  ASSUME StoreTypeOK, Untouched, NEW parent, Author(parent), UNCHANGED covers
  PROVE  Grows /\ Untouched' /\ used' = used + 1
<1>1. used \in Nat
  BY DEF StoreTypeOK
<1>2. used' = used + 1 /\ used < MaxUpdates /\ \A u \in Update : u # used + 1 => anc'[u] = anc[u]
  BY DEF Author, StoreTypeOK
<1>3. Grows
  BY <1>1, <1>2 DEF Grows, Update
<1>4. ASSUME NEW u \in Update, u > used' PROVE anc'[u] = {u} /\ covers'[u] = {u}
  <2>1. u > used /\ u # used + 1
    BY <1>1, <1>2, <1>4 DEF Update
  <2> QED
    BY <1>2, <2>1 DEF Untouched
<1> QED
  BY <1>2, <1>3, <1>4 DEF Untouched

\* So does building a snapshot.
LEMMA SnapshotKept ==
  ASSUME StoreTypeOK, Untouched, NEW content, used < MaxUpdates, used' = used + 1, UNCHANGED anc,
         covers' = [covers EXCEPT ![used + 1] = content]
  PROVE  Grows /\ Untouched' /\ covers'[used'] = content /\ anc'[used'] = {used'}
<1>1. used \in Nat /\ used + 1 \in Update
  BY DEF StoreTypeOK, Update
<1>2. \A u \in Update : u # used + 1 => covers'[u] = covers[u]
  BY DEF StoreTypeOK
<1>3. Grows
  BY <1>1, <1>2 DEF Grows, Update
<1>4. ASSUME NEW u \in Update, u > used' PROVE anc'[u] = {u} /\ covers'[u] = {u}
  <2>1. u > used /\ u # used + 1
    BY <1>1, <1>4 DEF Update
  <2> QED
    BY <1>2, <2>1 DEF Untouched
<1>5. used + 1 > used
  BY <1>1
<1> QED
  BY <1>1, <1>3, <1>4, <1>5 DEF Untouched, StoreTypeOK

LEMMA LoadForUpdateKept ==
  ASSUME StoreTypeOK, Untouched, NodesFit, Authored, NEW n, LoadForUpdate(n)
  PROVE  Kept
<1>1. PICK parent : Author(parent)
  BY DEF LoadForUpdate
<1>2. Grows /\ Untouched' /\ used' = used + 1
  BY <1>1, AuthorKept DEF LoadForUpdate
<1>3. NodesFit'
  BY <1>2, SameRowsFit DEF LoadForUpdate
<1>4. Authored'
  BY <1>2, AuthoredTyped DEF LoadForUpdate, Authored
<1> QED
  BY <1>2, <1>3, <1>4 DEF Kept

LEMMA PeerEditKept ==
  ASSUME StoreTypeOK, Untouched, NodesFit, Authored, NEW n, PeerEdit(n)
  PROVE  Kept
<1>1. PICK parent : Author(parent)
  BY DEF PeerEdit
<1>2. Grows /\ Untouched' /\ used' = used + 1
  BY <1>1, AuthorKept DEF PeerEdit
<1>3. NodesFit'
  BY <1>2, SameRowsFit DEF PeerEdit
<1>4. Authored'
  BY <1>2, AuthoredTyped DEF PeerEdit, PeerSend, Authored
<1> QED
  BY <1>2, <1>3, <1>4 DEF Kept

LEMMA PeerCompactKept ==
  ASSUME StoreTypeOK, Untouched, NodesFit, Authored, NEW n, PeerCompact(n)
  PROVE  Kept
<1>1. Grows /\ Untouched' /\ used' = used + 1
  BY SnapshotKept DEF PeerCompact
<1>2. NodesFit'
  BY <1>1, SameRowsFit DEF PeerCompact
<1>3. Authored'
  BY <1>1, AuthoredTyped DEF PeerCompact, PeerSend, Authored
<1> QED
  BY <1>1, <1>2, <1>3 DEF Kept

\* A writer op that authors nothing and puts the row r at one atom.
LEMMA OneRowWritten ==
  ASSUME StoreTypeOK, Untouched, NodesFit, UNCHANGED <<used, anc, covers>>,
         NEW n \in DOMAIN nodes, NEW r, Fits(r), nodes' = [nodes EXCEPT ![n] = r]
  PROVE  Grows /\ Untouched' /\ NodesFit'
<1>1. Grows /\ Untouched'
  <2>1. used \in Nat /\ used' = used
    BY DEF StoreTypeOK
  <2> QED
    BY <2>1, UntouchedStable
<1>2. Fits(r)'
  BY <1>1, FitsStable
<1> DEFINE ns == {n}
<1>3. \A x \in DOMAIN nodes' \ ns : x \in DOMAIN nodes /\ nodes'[x] = nodes[x]
  OBVIOUS
<1>4. \A x \in DOMAIN nodes' \cap ns : \E row : nodes'[x] = row /\ Fits(row)'
  BY <1>2
<1> HIDE DEF ns
<1> QED
  BY <1>1, <1>3, <1>4, OneRowFits

LEMMA SaveAtomicKept ==
  ASSUME StoreTypeOK, Untouched, NodesFit, Authored, NEW d \in drafts, SaveAtomic(d)
  PROVE  Kept
<1>1. UNCHANGED <<used, anc, covers, mail>> /\ drafts' \subseteq drafts
  BY DEF SaveAtomic, authorVars
<1>2. /\ used \in Nat /\ d.update \in 1..used
      /\ \A m \in drafts : m.update <= used
      /\ \A m \in mail : m.update <= used
  BY AuthoredTyped DEF StoreTypeOK, Update
<1>3. CASE d.node \in DOMAIN nodes
  <2> DEFINE n == d.node
             merged == nodes[n].blob \cup {d.update}
             r == Rewrite(nodes[n], merged, Content(merged), "DIRTY")
  <2>1. nodes' = [nodes EXCEPT ![n] = r] /\ Log(n, "node.updated", d.update, "DIRTY")
    BY <1>3 DEF SaveAtomic
  <2>2. nodes[n].blob \subseteq 1..used
    BY <1>3 DEF NodesFit, Fits
  <2>3. merged \subseteq 1..used
    BY <1>2, <2>2
  <2>4. r.blob = merged /\ r.text = Content(merged)
    BY <1>3 DEF Rewrite, StoreTypeOK, NodeRow
  <2> HIDE DEF merged, r
  <2>5. Fits(r)
    BY <2>3, <2>4 DEF Fits
  <2>6. Grows /\ Untouched' /\ NodesFit'
    BY <1>1, <1>3, <2>1, <2>5, OneRowWritten
  <2> HIDE DEF n
  <2>7. \A o \in DOMAIN outbox' : outbox'[o].payload <= used'
    BY <1>1, <1>2, <2>1, LogAuthored
  <2> QED
    BY <1>1, <1>2, <2>6, <2>7 DEF Kept, Authored
<1>4. CASE d.node \notin DOMAIN nodes
  <2>1. UNCHANGED <<nodes, outbox>>
    BY <1>4 DEF SaveAtomic
  <2>2. Grows /\ Untouched'
    BY <1>1, <1>2, UntouchedStable
  <2>3. NodesFit'
    BY <2>1, <2>2, SameRowsFit
  <2> QED
    BY <1>1, <1>2, <2>1, <2>2, <2>3 DEF Kept, Authored
<1> QED
  BY <1>3, <1>4

LEMMA ApplyRemoteUpdateKept ==
  ASSUME StoreTypeOK, Untouched, NodesFit, Authored, NEW m \in mail, NEW labelled,
         ApplyRemoteUpdate(m, labelled)
  PROVE  Kept
<1> DEFINE n == m.node
           flagged == Flagged(nodes[n], "CONFLICT")
           adopted == AtEpoch(Rewrite(nodes[n], {m.update}, Content({m.update}), "SYNCED"), m.epoch)
<1>1. UNCHANGED <<used, anc, covers, mail, drafts>> /\ n \in DOMAIN nodes
  BY DEF ApplyRemoteUpdate, authorVars
<1>2. /\ used \in Nat /\ m.update \in 1..used
      /\ \A d \in drafts : d.update <= used
      /\ \A x \in mail : x.update <= used
  BY AuthoredTyped DEF StoreTypeOK, Update
<1>3. /\ nodes' = [nodes EXCEPT ![n] = flagged] \/ nodes' = [nodes EXCEPT ![n] = adopted]
      /\ \E type, status : Log(n, type, m.update, status)
  BY DEF ApplyRemoteUpdate, RemoteStale, RemoteAdopt, RemoteQueue
<1>4. Fits(flagged)
  <2>1. flagged.blob = nodes[n].blob /\ flagged.text = nodes[n].text
    BY <1>1 DEF Flagged, StoreTypeOK, NodeRow
  <2>2. Fits(nodes[n])
    BY <1>1 DEF NodesFit
  <2> HIDE DEF flagged
  <2> QED
    BY <2>1, <2>2 DEF Fits
<1>5. Fits(adopted)
  <2>1. adopted.blob = {m.update} /\ adopted.text = Content({m.update})
    BY <1>1 DEF AtEpoch, Rewrite, StoreTypeOK, NodeRow
  <2> HIDE DEF adopted
  <2> QED
    BY <1>2, <2>1 DEF Fits
<1> HIDE DEF flagged, adopted, n
<1>6. Grows /\ Untouched' /\ NodesFit'
  BY <1>1, <1>3, <1>4, <1>5, OneRowWritten
<1>7. \A o \in DOMAIN outbox' : outbox'[o].payload <= used'
  BY <1>1, <1>2, <1>3, LogAuthored
<1> QED
  BY <1>1, <1>2, <1>6, <1>7 DEF Kept, Authored

\* The text stays while the blob becomes a baseline: the baseline covers what
\* the blob showed.
LEMMA CompactAtomKept ==
  ASSUME StoreTypeOK, Untouched, NodesFit, Authored, NEW n, CompactAtom(n)
  PROVE  Kept
<1> DEFINE content == Content(nodes[n].blob)
<1>r. PICK r : r = Collapsed(nodes[n], {used + 1})
  OBVIOUS
<1>1. Grows /\ Untouched' /\ covers'[used'] = content /\ anc'[used'] = {used'} /\ used' = used + 1
  BY SnapshotKept DEF CompactAtom
<1>2. n \in DOMAIN nodes /\ nodes' = [nodes EXCEPT ![n] = r] /\ Log(n, "node.compacted", used', "DIRTY")
      /\ UNCHANGED <<drafts, mail>>
  BY <1>r DEF CompactAtom
<1>3. r.blob = {used'} /\ r.text = nodes[n].text
  BY <1>r, <1>1, <1>2 DEF Collapsed, StoreTypeOK, NodeRow
<1>4. nodes[n].text = content
  BY <1>2 DEF NodesFit, Fits, Content, Visible
<1>5. used' \in 1..used'
  BY <1>1 DEF Grows, StoreTypeOK
<1> HIDE DEF content
<1>6. Visible(r.blob)' = {used'}
  BY <1>1, <1>3 DEF Visible
<1>7. Content(r.blob)' = content
  BY <1>1, <1>6 DEF Content
<1>8. Fits(r)'
  BY <1>3, <1>4, <1>5, <1>7 DEF Fits
<1>9. NodesFit'
  <2> DEFINE ns == {n}
  <2>1. \A x \in DOMAIN nodes' \ ns : x \in DOMAIN nodes /\ nodes'[x] = nodes[x]
    BY <1>2
  <2>2. \A x \in DOMAIN nodes' \cap ns : \E row : nodes'[x] = row /\ Fits(row)'
    BY <1>2, <1>8
  <2> HIDE DEF ns
  <2> QED
    BY <1>1, <2>1, <2>2, OneRowFits
<1>10. \A o \in DOMAIN outbox' : outbox'[o].payload <= used'
  <2>1. used \in Nat /\ used' \in Nat /\ used <= used' /\ used' <= used'
    BY <1>1 DEF Grows
  <2> QED
    BY <1>2, <2>1, LogAuthored
<1>11. /\ \A d \in drafts' : d.update <= used'
       /\ \A m \in mail' : m.update <= used'
  BY <1>1, <1>2, AuthoredTyped
<1> QED
  BY <1>1, <1>9, <1>10, <1>11 DEF Kept, Authored

\* Every call on the store.
LEMMA StoreCallKept ==
  ASSUME StoreTypeOK, Untouched, NodesFit, Authored, EditCall \/ EpochCall \/ DeleteCall
  PROVE  Kept
<1>1. ASSUME NEW k \in 0..MaxBatch, InsertNodes(k) PROVE Kept
  BY <1>1, InsertNodeRowsKept DEF InsertNodes
<1>2. ASSUME NEW key \in SourceKey, NEW hash \in Hash, NEW k \in 0..MaxBatch,
             ReplaceDocument(key, hash, k)
      PROVE  Kept
  <2> DEFINE table == NodesWithout(AtomsOf(key))
             log == OutboxWithout(AtomsOf(key))
  <2>1. /\ \A n \in DOMAIN table : n \in DOMAIN nodes /\ table[n] = nodes[n]
        /\ \A o \in DOMAIN log : o \in DOMAIN outbox /\ log[o] = outbox[o]
    BY DEF NodesWithout, OutboxWithout, Only
  <2>2. InsertNodeRows(table, log, key, k) /\ UNCHANGED <<drafts, mail>>
    BY <1>2 DEF ReplaceDocument
  <2> HIDE DEF table, log
  <2> QED
    BY <2>1, <2>2, InsertNodeRowsKept
<1> QED
  BY <1>1, <1>2, LoadForUpdateKept, SaveAtomicKept, PeerEditKept, ApplyRemoteUpdateKept,
     PeerCompactKept, CompactAtomKept, DeleteAtomsKept
     DEF EditCall, EpochCall, DeleteCall, DeleteDocument, DeleteNode

-----------------------------------------------------------------------------
(* The rounds of merges *)

\* The queue after a step, merge by merge.
LEMMA RoundsFitNext ==
  ASSUME \A i \in 1..Len(rounds') : \A n \in DOMAIN rounds'[i].merges :
           \E row : rounds'[i].merges[n] = row /\ Fits(row)'
  PROVE  RoundsFit'
<1> SUFFICES ASSUME NEW i \in 1..Len(rounds'), NEW n \in DOMAIN rounds'[i].merges
             PROVE  Fits(rounds[i].merges[n])'
  BY DEF RoundsFit
<1>1. PICK row : rounds'[i].merges[n] = row /\ Fits(row)'
  OBVIOUS
<1> QED
  BY <1>1 DEF Fits, Content, Visible

\* The merges on their way go on fitting.
LEMMA RoundStable ==
  ASSUME RoundsFit, Grows, NEW i \in 1..Len(rounds), NEW n \in DOMAIN rounds[i].merges
  PROVE  \E row : rounds[i].merges[n] = row /\ Fits(row)'
<1>1. PICK row : row = rounds[i].merges[n]
  OBVIOUS
<1>2. Fits(row)
  BY <1>1 DEF RoundsFit, Fits, Content, Visible
<1> QED
  BY <1>1, <1>2, FitsStable

LEMMA SameRoundsFit ==
  ASSUME RoundsFit, Grows, rounds' = rounds
  PROVE  RoundsFit'
  BY RoundStable, RoundsFitNext

\* The worker merges authored events into an authored blob, and reads the
\* text from what comes out.
LEMMA MergeOfFits ==
  ASSUME StoreTypeOK, NodesFit, Authored, NEW n \in Due
  PROVE  Fits(MergeOf(n))
<1> DEFINE merged == nodes[n].blob \cup {outbox[o].payload : o \in DueRows(n)}
<1>1. nodes[n].blob \subseteq 1..used
  BY MergeOfType DEF NodesFit, Fits
<1>2. \A o \in DueRows(n) : outbox[o].payload \in 1..used
  <2>1. DueRows(n) \subseteq DOMAIN outbox
    BY DEF DueRows, Batch, Pending
  <2> QED
    BY <2>1 DEF StoreTypeOK, EventRow, Update, Authored
<1>3. merged \subseteq 1..used
  BY <1>1, <1>2
<1>4. MergeOf(n).blob = merged /\ MergeOf(n).text = Content(merged)
  BY DEF MergeOf
<1> HIDE DEF merged
<1> QED
  BY <1>3, <1>4 DEF Fits

\* A step that leaves the store alone.
LEMMA StoreAlone ==
  ASSUME StoreTypeOK, Untouched, NodesFit, Authored, UNCHANGED storeVars
  PROVE  Kept
<1>1. UNCHANGED <<nodes, outbox, used, anc, covers, drafts, mail>> /\ used \in Nat
  BY DEF storeVars, StoreTypeOK
<1>2. Grows /\ Untouched'
  BY <1>1, UntouchedStable
<1>3. NodesFit'
  BY <1>1, <1>2, SameRowsFit
<1> QED
  BY <1>1, <1>2, <1>3 DEF Kept, Authored

LEMMA PollKept ==
  ASSUME Typed, ViewInv, NEW token, Poll(token)
  PROVE  ViewInv'
<1>1. Kept
  BY StoreAlone DEF Poll, Typed, ViewInv
<1>2. CASE rounds' = rounds
  BY <1>1, <1>2, SameRoundsFit DEF Kept, ViewInv
<1>3. CASE PollMerges(token)
  <2> DEFINE merges == [n \in Due |-> MergeOf(n)]
  <2>1. PICK round : round = [token |-> token, merges |-> merges]
    OBVIOUS
  <2>2. rounds' = Append(rounds, round)
    BY <1>3, <2>1 DEF PollMerges
  <2>3. rounds \in Seq(Round)
    BY DEF Typed, SyncTyped
  <2>4. ASSUME NEW n \in Due PROVE \E row : merges[n] = row /\ Fits(row)'
    <3>1. PICK row : row = MergeOf(n)
      OBVIOUS
    <3>2. Fits(row)
      BY <3>1, MergeOfFits DEF Typed, ViewInv, Fits, Content, Visible
    <3> QED
      BY <1>1, <3>1, <3>2, FitsStable DEF Kept
  <2>5. round.merges = merges /\ DOMAIN merges = Due
    BY <2>1
  <2> HIDE DEF merges
  <2>6. ASSUME NEW i \in 1..Len(rounds'), NEW n \in DOMAIN rounds'[i].merges
        PROVE  \E row : rounds'[i].merges[n] = row /\ Fits(row)'
    <3>1. CASE i \in 1..Len(rounds)
      <4>1. rounds'[i] = rounds[i]
        BY <2>2, <2>3, <3>1
      <4> QED
        BY <1>1, <2>6, <3>1, <4>1, RoundStable DEF Kept, ViewInv
    <3>2. CASE i \notin 1..Len(rounds)
      <4>1. rounds'[i] = round
        BY <2>2, <2>3, <2>6, <3>2
      <4> QED
        BY <2>4, <2>5, <2>6, <4>1
    <3> QED
      BY <3>1, <3>2
  <2>7. RoundsFit'
    BY <2>6, RoundsFitNext
  <2> QED
    BY <1>1, <2>7 DEF Kept, ViewInv
<1> QED
  BY <1>2, <1>3 DEF Poll, PollFails, PollFindsNothing

\* A commit brings fitting rows, and takes the round they came in away.
LEMMA CommitMergesKept ==
  ASSUME Typed, ViewInv, CommitMerges
  PROVE  ViewInv'
<1> DEFINE merges == rounds[1].merges
<1>1. /\ 1 \in 1..Len(rounds) /\ Head(rounds) = rounds[1]
      /\ \A i \in 1..Len(rounds') : i + 1 \in 1..Len(rounds) /\ rounds'[i] = rounds[i + 1]
  <2>1. rounds \in Seq(Round) /\ rounds # << >> /\ rounds' = Tail(rounds)
    BY DEF Typed, SyncTyped, CommitMerges
  <2> QED
    BY <2>1, QueueFacts
<1>2. UNCHANGED <<used, anc, covers, drafts, mail>> /\ used \in Nat
  BY DEF CommitMerges, authorVars, Typed, StoreTypeOK
<1>3. Grows /\ Untouched'
  BY <1>2, UntouchedStable DEF Typed, ViewInv
<1>4. nodes' = [n \in DOMAIN nodes |->
          IF n \in DOMAIN merges
          THEN Rewrite(nodes[n], merges[n].blob, merges[n].text, "SYNCED")
          ELSE nodes[n]]
  BY <1>1 DEF CommitMerges
<1>5. NodesFit'
  <2> DEFINE ns == DOMAIN merges
  <2>1. \A x \in DOMAIN nodes' \ ns : x \in DOMAIN nodes /\ nodes'[x] = nodes[x]
    BY <1>4
  <2>2. ASSUME NEW x \in DOMAIN nodes', x \in ns PROVE \E row : nodes'[x] = row /\ Fits(row)'
    <3>1. PICK merge : merge = merges[x] /\ Fits(merge)'
      BY <1>1, <1>3, <2>2, RoundStable DEF ViewInv
    <3>2. PICK row : row = Rewrite(nodes[x], merge.blob, merge.text, "SYNCED")
      OBVIOUS
    <3>3. nodes'[x] = row /\ nodes[x] \in NodeRow
      BY <1>4, <2>2, <3>1, <3>2 DEF Typed, StoreTypeOK
    <3>4. row.blob = merge.blob /\ row.text = merge.text
      BY <3>2, <3>3 DEF Rewrite, NodeRow
    <3> QED
      BY <3>1, <3>3, <3>4 DEF Fits
  <2> HIDE DEF ns
  <2> QED
    BY <1>3, <2>1, <2>2, OneRowFits DEF ViewInv
<1>6. RoundsFit'
  <2>1. ASSUME NEW i \in 1..Len(rounds'), NEW n \in DOMAIN rounds'[i].merges
        PROVE  \E row : rounds'[i].merges[n] = row /\ Fits(row)'
    <3>1. PICK j \in 1..Len(rounds) : rounds'[i] = rounds[j]
      BY <1>1
    <3> QED
      BY <1>3, <2>1, <3>1, RoundStable DEF ViewInv
  <2> QED
    BY <2>1, RoundsFitNext
<1>7. \A o \in DOMAIN outbox' : outbox'[o].payload <= used'
  <2> HIDE DEF merges
  <2>1. \A o \in DOMAIN outbox : outbox[o].payload <= used /\ outbox[o] \in EventRow
    BY DEF ViewInv, Authored, Typed, StoreTypeOK
  <2>2. \A o \in DOMAIN outbox' :
          o \in DOMAIN outbox /\ outbox'[o] \in {outbox[o], Flagged(outbox[o], "SYNCED")}
    BY DEF CommitMerges
  <2>3. \A row \in EventRow : Flagged(row, "SYNCED").payload = row.payload
    BY DEF Flagged, EventRow
  <2> QED
    BY <1>2, <2>1, <2>2, <2>3
<1> QED
  BY <1>2, <1>3, <1>5, <1>6, <1>7 DEF ViewInv, Authored

\* Going down loses drafts and rounds, and no row.
LEMMA RestartKept ==
  ASSUME Typed, ViewInv, Restart
  PROVE  ViewInv'
<1>1. UNCHANGED <<nodes, outbox, used, anc, covers, mail>> /\ used \in Nat
      /\ drafts' = {} /\ rounds' = << >>
  BY RestartReopens DEF Reopen, authorVars, Typed, StoreTypeOK
<1>2. Grows /\ Untouched'
  BY <1>1, UntouchedStable DEF Typed, ViewInv
<1>3. NodesFit'
  BY <1>1, <1>2, SameRowsFit DEF ViewInv
<1>4. RoundsFit'
  BY <1>1 DEF RoundsFit
<1> QED
  BY <1>1, <1>2, <1>3, <1>4 DEF ViewInv, Authored

\* Every step of the system.
LEMMA ViewStep ==
  ASSUME Typed, ViewInv, [Next]_vars
  PROVE  ViewInv'
<1>1. CASE EditCall \/ EpochCall \/ DeleteCall
  <2>1. Kept
    BY <1>1, StoreCallKept DEF Typed, ViewInv
  <2>2. rounds' = rounds
    BY <1>1 DEF EditCall, EpochCall, DeleteCall, syncVars
  <2> QED
    BY <2>1, <2>2, SameRoundsFit DEF Kept, ViewInv
<1>2. CASE TimerPoll \/ HandlePoll
  BY <1>2, PollKept DEF TimerPoll, HandlePoll
<1>3. CASE HandleCommitted \/ CommitAnswered \/ (\E c \in Caller : SyncNow(c)) \/ UNCHANGED vars
  <2>1. UNCHANGED storeVars /\ rounds' = rounds
    BY <1>3 DEF HandleCommitted, CommitAnswered, SyncNow, vars, syncVars
  <2>2. Kept
    BY <2>1, StoreAlone DEF Typed, ViewInv
  <2> QED
    BY <2>1, <2>2, SameRoundsFit DEF Kept, ViewInv
<1> QED
  BY <1>1, <1>2, <1>3, CommitMergesKept, RestartKept DEF Next, EditNext, SyncStep

\* Nothing is ingested and nothing authored.
LEMMA ViewInit == Init => ViewInv
<1> SUFFICES ASSUME Init PROVE ViewInv
  OBVIOUS
<1> QED
  BY DEF Init, StoreInit, SyncInit, ViewInv, NodesFit, RoundsFit, Authored, Untouched

\* In every reachable state of the system, whatever the writer, the worker,
\* the peers and a restart did in whatever order, the title and body of every
\* atom are what its blob reads as (write-ops.ts: saveAtomic, commitMerges,
\* applyRemoteUpdate, compactAtom).
THEOREM TextIsBlob == Spec => []ViewAgrees
<1>1. ViewInv => ViewAgrees
  BY DEF ViewInv, NodesFit, Fits, ViewAgrees
<1> QED
  BY <1>1, ViewInit, ViewStep, TypeInvariant, PTL DEF Spec

-----------------------------------------------------------------------------
(* What is marked SYNCED is in the text, as long as atoms stay in their     *)
(* first epoch and none is deleted.  Neither condition can be dropped: see  *)
(* BaselineKept for the first; a row id that is given out again breaks it   *)
(* without the second.                                                      *)

\* Events are events of an atom.
Live == \A o \in DOMAIN outbox : outbox[o].node \in DOMAIN nodes

\* No atom has been compacted and no snapshot is under way.
FirstEpoch ==
  /\ \A n \in DOMAIN nodes : nodes[n].epoch = 0
  /\ \A m \in mail : m.epoch = 0

\* A synced update is in the blob of its atom.
SyncedInBlob ==
  \A o \in DOMAIN outbox :
    outbox[o].status = "SYNCED" => outbox[o].payload \in nodes[outbox[o].node].blob

\* A merge on its way holds what its atom has synced and what it will mark as
\* synced, although others have written to the atom since the poll.
MergeHolds(merge, n) ==
  /\ \A o \in merge.rows : o \in DOMAIN outbox /\ outbox[o].node = n
  /\ \A o \in DOMAIN outbox :
       outbox[o].node = n /\ (outbox[o].status = "SYNCED" \/ o \in merge.rows)
         => outbox[o].payload \in merge.blob
RoundsHold ==
  \A i \in 1..Len(rounds) : \A n \in DOMAIN rounds[i].merges : MergeHolds(rounds[i].merges[n], n)

ShownInv == Live /\ FirstEpoch /\ SyncedInBlob /\ RoundsHold

\* With ViewAgrees it is enough.
LEMMA ShownInvSuffices ==
  ASSUME ShownInv, ViewAgrees
  PROVE  SyncedEventsShown
<1> SUFFICES ASSUME NEW o \in DOMAIN outbox, outbox[o].status = "SYNCED",
                    anc[outbox[o].payload] \subseteq SyncedEvents(outbox[o].node)
             PROVE  covers[outbox[o].payload] \subseteq nodes[outbox[o].node].text
  BY DEF SyncedEventsShown
<1> DEFINE n == outbox[o].node
           u == outbox[o].payload
<1>1. n \in DOMAIN nodes /\ u \in nodes[n].blob
  BY DEF ShownInv, Live, SyncedInBlob
<1>2. SyncedEvents(n) \subseteq nodes[n].blob
  BY DEF ShownInv, SyncedInBlob, SyncedEvents, EventsOf
<1>3. nodes[n].text = Content(nodes[n].blob)
  BY <1>1 DEF ViewAgrees
<1> HIDE DEF n
<1>4. u \in Visible(nodes[n].blob)
  BY <1>1, <1>2 DEF Visible, n
<1> QED
  BY <1>3, <1>4 DEF Content, n

-----------------------------------------------------------------------------
(* Calls on the store *)

\* What an edit does to the tables: atoms and events are added, blobs grow,
\* and new events are DIRTY.
Adds ==
  /\ \A n \in DOMAIN nodes : n \in DOMAIN nodes' /\ nodes[n].blob \subseteq nodes'[n].blob
  /\ \A o \in DOMAIN outbox : o \in DOMAIN outbox' /\ outbox'[o] = outbox[o]
  /\ \A o \in DOMAIN outbox' \ DOMAIN outbox :
       outbox'[o].status = "DIRTY" /\ outbox'[o].node \in DOMAIN nodes'

LEMMA LogAdds ==
  ASSUME StoreTypeOK, NEW n \in DOMAIN nodes', NEW type, NEW update, Log(n, type, update, "DIRTY")
  PROVE  /\ \A o \in DOMAIN outbox : o \in DOMAIN outbox' /\ outbox'[o] = outbox[o]
         /\ \A o \in DOMAIN outbox' \ DOMAIN outbox :
              outbox'[o].status = "DIRTY" /\ outbox'[o].node \in DOMAIN nodes'
<1>1. PICK o \in RowId :
        /\ IsNextId(o, DOMAIN outbox)
        /\ outbox' = Insert(outbox, [x \in {o} |->
             [node |-> n, type |-> type, payload |-> update, status |-> "DIRTY"]])
  BY DEF Log
<1>2. o \notin DOMAIN outbox
  BY <1>1 DEF IsNextId, StoreTypeOK, RowId
<1> QED
  BY <1>1, <1>2 DEF Insert

LEMMA InsertNodesAdds ==
  ASSUME StoreTypeOK, NEW k \in 0..MaxBatch, InsertNodes(k)
  PROVE  Adds /\ \A n \in DOMAIN nodes' : nodes'[n].epoch = 0 \/ (n \in DOMAIN nodes /\ nodes'[n] = nodes[n])
<1>1. PICK i \in 1..(MaxNodeId + 1), o \in 1..(MaxRowId + 1) :
        /\ IsNextId(i, DOMAIN nodes) /\ IsNextId(o, DOMAIN outbox)
        /\ nodes' = Insert(nodes, [x \in i..(i + k - 1) |-> NewNode(NoDoc, used + 1 + x - i)])
        /\ outbox' = Insert(outbox, [x \in o..(o + k - 1) |-> NewEvent(i + x - o, used + 1 + x - o)])
  BY DEF InsertNodes, InsertNodeRows
<1> DEFINE ns == i..(i + k - 1)
           os == o..(o + k - 1)
<1>2. /\ i \in Nat /\ o \in Nat /\ k \in Nat
      /\ DOMAIN nodes \subseteq Nat /\ DOMAIN outbox \subseteq Nat
  BY DEF StoreTypeOK, NodeId, RowId
<1>3. ns \cap DOMAIN nodes = {} /\ os \cap DOMAIN outbox = {}
  BY <1>1, <1>2 DEF IsNextId
<1>4. \A x \in os : i + x - o \in ns
  BY <1>2
<1>5. /\ DOMAIN nodes' = DOMAIN nodes \cup ns
      /\ \A n \in DOMAIN nodes' : n \notin ns => nodes'[n] = nodes[n]
      /\ \A n \in ns : nodes'[n].epoch = 0
  BY <1>1 DEF Insert, NewNode
<1>6. /\ DOMAIN outbox' = DOMAIN outbox \cup os
      /\ \A x \in DOMAIN outbox' : x \notin os => outbox'[x] = outbox[x]
      /\ \A x \in os : outbox'[x].status = "DIRTY" /\ outbox'[x].node = i + x - o
  BY <1>1 DEF Insert, NewEvent
<1> HIDE DEF ns, os
<1> QED
  BY <1>3, <1>4, <1>5, <1>6 DEF Adds

\* An atom written to in place, with one event.
LEMMA EditAdds ==
  ASSUME StoreTypeOK, NEW n \in DOMAIN nodes, NEW r, nodes' = [nodes EXCEPT ![n] = r],
         nodes[n].blob \subseteq r.blob, NEW type, NEW update, Log(n, type, update, "DIRTY")
  PROVE  Adds
<1>1. n \in DOMAIN nodes'
  OBVIOUS
<1> QED
  BY <1>1, LogAdds DEF Adds

\* Edits add, and stay in the first epoch.
LEMMA EditCallAdds ==
  ASSUME StoreTypeOK, FirstEpoch, EditCall
  PROVE  Adds /\ FirstEpoch'
<1>1. ASSUME NEW k \in 0..MaxBatch, InsertNodes(k) PROVE Adds /\ FirstEpoch'
  BY <1>1, InsertNodesAdds DEF FirstEpoch, InsertNodes
<1>2. ASSUME NEW n \in NodeId, LoadForUpdate(n) PROVE Adds /\ FirstEpoch'
  BY <1>2 DEF LoadForUpdate, Adds, FirstEpoch
<1>3. ASSUME NEW d \in drafts, SaveAtomic(d) PROVE Adds /\ FirstEpoch'
  <2>1. CASE d.node \in DOMAIN nodes
    <3> DEFINE n == d.node
               merged == nodes[n].blob \cup {d.update}
    <3>1. PICK r : r = Rewrite(nodes[n], merged, Content(merged), "DIRTY")
      OBVIOUS
    <3>2. /\ nodes' = [nodes EXCEPT ![n] = r] /\ Log(n, "node.updated", d.update, "DIRTY")
          /\ mail' = mail
      BY <1>3, <2>1, <3>1 DEF SaveAtomic
    <3>3. r.blob = merged /\ r.epoch = nodes[n].epoch
      BY <2>1, <3>1 DEF Rewrite, StoreTypeOK, NodeRow
    <3>4. nodes[n].blob \subseteq r.blob
      BY <3>3
    <3> HIDE DEF merged
    <3>5. Adds
      BY <2>1, <3>2, <3>4, EditAdds
    <3>6. FirstEpoch'
      BY <2>1, <3>2, <3>3 DEF FirstEpoch
    <3> QED
      BY <3>5, <3>6
  <2>2. CASE d.node \notin DOMAIN nodes
    BY <1>3, <2>2 DEF SaveAtomic, Adds, FirstEpoch
  <2> QED
    BY <2>1, <2>2
<1>4. ASSUME NEW n \in NodeId, PeerEdit(n) PROVE Adds /\ FirstEpoch'
  BY <1>4 DEF PeerEdit, PeerSend, Adds, FirstEpoch
<1>5. ASSUME NEW m \in mail, NEW labelled \in BOOLEAN, ApplyRemoteUpdate(m, labelled)
      PROVE  Adds /\ FirstEpoch'
  <2> DEFINE n == m.node
  <2>1. n \in DOMAIN nodes /\ m.epoch = 0 /\ nodes[n].epoch = 0 /\ nodes[n] \in NodeRow
    BY <1>5 DEF ApplyRemoteUpdate, FirstEpoch, StoreTypeOK
  <2>2. RemoteQueue(m, labelled)
    BY <1>5, <2>1 DEF ApplyRemoteUpdate, RemoteStale, RemoteAdopt
  <2>3. PICK r : r = Flagged(nodes[n], "CONFLICT")
    OBVIOUS
  <2>4. /\ nodes' = [nodes EXCEPT ![n] = r] /\ Log(n, "remote.update", m.update, "DIRTY")
        /\ mail' = mail
    BY <1>5, <2>2, <2>3 DEF RemoteQueue, ApplyRemoteUpdate
  <2>5. r.blob = nodes[n].blob /\ r.epoch = nodes[n].epoch
    BY <2>1, <2>3 DEF Flagged, NodeRow
  <2>6. Adds
    BY <2>1, <2>4, <2>5, EditAdds
  <2>7. FirstEpoch'
    BY <2>1, <2>4, <2>5 DEF FirstEpoch
  <2> QED
    BY <2>6, <2>7
<1> QED
  BY <1>1, <1>2, <1>3, <1>4, <1>5 DEF EditCall

\* The queue after a step, merge by merge.
LEMMA RoundsHoldNext ==
  ASSUME \A i \in 1..Len(rounds') : \A n \in DOMAIN rounds'[i].merges :
           \E merge : rounds'[i].merges[n] = merge /\ MergeHolds(merge, n)'
  PROVE  RoundsHold'
<1> SUFFICES ASSUME NEW i \in 1..Len(rounds'), NEW n \in DOMAIN rounds'[i].merges
             PROVE  MergeHolds(rounds[i].merges[n], n)'
  BY DEF RoundsHold
<1>1. PICK merge : rounds'[i].merges[n] = merge /\ MergeHolds(merge, n)'
  OBVIOUS
<1> QED
  BY <1>1 DEF MergeHolds

\* What a merge holds it goes on holding while events are added.
LEMMA MergeHoldsStable ==
  ASSUME Adds, NEW merge, NEW n, MergeHolds(merge, n)
  PROVE  MergeHolds(merge, n)'
<1>1. \A o \in merge.rows : o \in DOMAIN outbox' /\ outbox'[o].node = n
  BY DEF MergeHolds, Adds
<1>2. ASSUME NEW o \in DOMAIN outbox', outbox'[o].node = n,
             outbox'[o].status = "SYNCED" \/ o \in merge.rows
      PROVE  outbox'[o].payload \in merge.blob
  <2>1. o \in DOMAIN outbox /\ outbox'[o] = outbox[o]
    BY <1>2 DEF MergeHolds, Adds
  <2> QED
    BY <1>2, <2>1 DEF MergeHolds
<1> QED
  BY <1>1, <1>2 DEF MergeHolds

\* A step that adds to the tables and leaves the rounds alone or drops them.
LEMMA AddsKept ==
  ASSUME ShownInv, Adds, FirstEpoch', rounds' = rounds \/ rounds' = << >>
  PROVE  ShownInv'
<1>1. Live'
  BY DEF ShownInv, Live, Adds
<1>2. SyncedInBlob'
  <2> SUFFICES ASSUME NEW o \in DOMAIN outbox', outbox'[o].status = "SYNCED"
               PROVE  outbox'[o].payload \in nodes'[outbox'[o].node].blob
    BY DEF SyncedInBlob
  <2>1. o \in DOMAIN outbox /\ outbox'[o] = outbox[o]
    BY DEF Adds
  <2> QED
    BY <2>1 DEF ShownInv, Live, SyncedInBlob, Adds
<1>3. RoundsHold'
  <2>1. CASE rounds' = rounds
    <3>1. ASSUME NEW i \in 1..Len(rounds'), NEW n \in DOMAIN rounds'[i].merges
          PROVE  \E merge : rounds'[i].merges[n] = merge /\ MergeHolds(merge, n)'
      <4>1. PICK merge : merge = rounds[i].merges[n]
        OBVIOUS
      <4>2. MergeHolds(merge, n)
        BY <2>1, <3>1, <4>1 DEF ShownInv, RoundsHold
      <4> QED
        BY <2>1, <4>1, <4>2, MergeHoldsStable
    <3> QED
      BY <3>1, RoundsHoldNext
  <2>2. CASE rounds' = << >>
    BY <2>2 DEF RoundsHold
  <2> QED
    BY <2>1, <2>2
<1> QED
  BY <1>1, <1>2, <1>3 DEF ShownInv

-----------------------------------------------------------------------------
(* The worker and the commit *)

\* What a poll sends out holds all that is synced: it starts from the blob.
LEMMA MergeOfHolds ==
  ASSUME ShownInv, NEW n \in Due
  PROVE  MergeHolds(MergeOf(n), n)
<1> DEFINE merged == nodes[n].blob \cup {outbox[o].payload : o \in DueRows(n)}
<1>1. MergeOf(n).blob = merged /\ MergeOf(n).rows = DueRows(n)
  BY DEF MergeOf
<1>2. \A o \in DueRows(n) : o \in DOMAIN outbox /\ outbox[o].node = n
  BY DEF DueRows, Batch, Pending
<1>3. \A o \in DOMAIN outbox :
        outbox[o].node = n /\ (outbox[o].status = "SYNCED" \/ o \in DueRows(n))
          => outbox[o].payload \in merged
  BY DEF ShownInv, SyncedInBlob
<1> HIDE DEF merged
<1> QED
  BY <1>1, <1>2, <1>3 DEF MergeHolds

LEMMA PollShown ==
  ASSUME Typed, ShownInv, NEW token, Poll(token)
  PROVE  ShownInv'
<1>1. UNCHANGED <<nodes, outbox, mail>>
  BY DEF Poll, storeVars
<1>2. Adds /\ FirstEpoch'
  BY <1>1 DEF Adds, ShownInv, FirstEpoch
<1>3. CASE rounds' = rounds
  BY <1>2, <1>3, AddsKept
<1>4. CASE PollMerges(token)
  <2> DEFINE merges == [n \in Due |-> MergeOf(n)]
  <2>1. PICK round : round = [token |-> token, merges |-> merges]
    OBVIOUS
  <2>2. rounds' = Append(rounds, round)
    BY <1>4, <2>1 DEF PollMerges
  <2>3. rounds \in Seq(Round)
    BY DEF Typed, SyncTyped
  <2>4. ASSUME NEW n \in Due PROVE \E merge : merges[n] = merge /\ MergeHolds(merge, n)'
    <3>1. PICK merge : merge = MergeOf(n)
      OBVIOUS
    <3>2. MergeHolds(merge, n)
      BY <3>1, MergeOfHolds
    <3> QED
      BY <1>2, <3>1, <3>2, MergeHoldsStable
  <2>5. round.merges = merges /\ DOMAIN merges = Due
    BY <2>1
  <2> HIDE DEF merges
  <2>6. ASSUME NEW i \in 1..Len(rounds'), NEW n \in DOMAIN rounds'[i].merges
        PROVE  \E merge : rounds'[i].merges[n] = merge /\ MergeHolds(merge, n)'
    <3>1. CASE i \in 1..Len(rounds)
      <4>1. rounds'[i] = rounds[i]
        BY <2>2, <2>3, <3>1
      <4>2. PICK merge : merge = rounds[i].merges[n]
        OBVIOUS
      <4>3. MergeHolds(merge, n)
        BY <2>6, <3>1, <4>1, <4>2 DEF ShownInv, RoundsHold
      <4> QED
        BY <1>2, <4>1, <4>2, <4>3, MergeHoldsStable
    <3>2. CASE i \notin 1..Len(rounds)
      <4>1. rounds'[i] = round
        BY <2>2, <2>3, <2>6, <3>2
      <4> QED
        BY <2>4, <2>5, <2>6, <4>1
    <3> QED
      BY <3>1, <3>2
  <2>7. RoundsHold'
    BY <2>6, RoundsHoldNext
  <2> QED
    BY <1>1, <1>2, <2>7 DEF ShownInv, Live, SyncedInBlob
<1> QED
  BY <1>3, <1>4 DEF Poll, PollFails, PollFindsNothing

\* A commit marks what its merges hold.  That no other round touches the same
\* atom is what lets the other merges go on holding all that is synced.
LEMMA CommitMergesShown ==
  ASSUME Typed, FlightInv, ShownInv, CommitMerges
  PROVE  ShownInv'
<1> DEFINE merges == rounds[1].merges
<1>1. /\ 1 \in 1..Len(rounds) /\ Head(rounds) = rounds[1]
      /\ \A i \in 1..Len(rounds') : i + 1 \in 1..Len(rounds) /\ i + 1 # 1 /\ rounds'[i] = rounds[i + 1]
  <2>1. rounds \in Seq(Round) /\ rounds # << >> /\ rounds' = Tail(rounds)
    BY DEF Typed, SyncTyped, CommitMerges
  <2> QED
    BY <2>1, QueueFacts
<1>2. /\ nodes' = [n \in DOMAIN nodes |->
            IF n \in DOMAIN merges
            THEN Rewrite(nodes[n], merges[n].blob, merges[n].text, "SYNCED")
            ELSE nodes[n]]
      /\ outbox' = [o \in DOMAIN outbox |->
            IF o \in MergedRows(merges) THEN Flagged(outbox[o], "SYNCED") ELSE outbox[o]]
      /\ mail' = mail
  BY <1>1 DEF CommitMerges
<1>3. \A n \in DOMAIN merges : MergeHolds(merges[n], n)
  BY <1>1 DEF ShownInv, RoundsHold
<1>4. \A i \in 2..Len(rounds) : DOMAIN rounds[i].merges \cap DOMAIN merges = {}
  BY <1>1 DEF FlightInv, Apart, Nodes
<1>5. \A i \in 2..Len(rounds) : i \in 1..Len(rounds)
  OBVIOUS
<1> HIDE DEF merges
<1>6. /\ DOMAIN outbox' = DOMAIN outbox
      /\ \A o \in DOMAIN outbox : outbox'[o].node = outbox[o].node /\ outbox'[o].payload = outbox[o].payload
      /\ \A o \in DOMAIN outbox : o \notin MergedRows(merges) => outbox'[o] = outbox[o]
  BY <1>2 DEF Flagged, Typed, StoreTypeOK, EventRow
<1>7. /\ DOMAIN nodes' = DOMAIN nodes
      /\ \A n \in DOMAIN nodes : nodes'[n].epoch = nodes[n].epoch
      /\ \A n \in DOMAIN nodes \cap DOMAIN merges : nodes'[n].blob = merges[n].blob
      /\ \A n \in DOMAIN nodes \ DOMAIN merges : nodes'[n] = nodes[n]
  <2>1. \A n \in DOMAIN nodes : \A blob, text :
          LET row == Rewrite(nodes[n], blob, text, "SYNCED")
          IN row.blob = blob /\ row.epoch = nodes[n].epoch
    BY DEF Rewrite, Typed, StoreTypeOK, NodeRow
  <2> QED
    BY <1>2, <2>1
<1>8. \A o \in MergedRows(merges) : outbox[o].node \in DOMAIN merges /\ o \in merges[outbox[o].node].rows
  BY <1>3 DEF MergedRows, MergeHolds
<1>9. Live' /\ FirstEpoch'
  BY <1>2, <1>6, <1>7 DEF ShownInv, Live, FirstEpoch
<1>10. SyncedInBlob'
  <2> SUFFICES ASSUME NEW o \in DOMAIN outbox, outbox'[o].status = "SYNCED"
               PROVE  outbox[o].payload \in nodes'[outbox[o].node].blob
    BY <1>6 DEF SyncedInBlob
  <2>1. PICK n \in DOMAIN nodes : n = outbox[o].node
    BY DEF ShownInv, Live
  <2>2. CASE n \in DOMAIN merges
    <3>1. outbox[o].status = "SYNCED" \/ o \in merges[n].rows
      BY <1>6, <1>8, <2>1
    <3> QED
      BY <1>3, <1>7, <2>1, <2>2, <3>1 DEF MergeHolds
  <2>3. CASE n \notin DOMAIN merges
    <3>1. o \notin MergedRows(merges)
      BY <1>8, <2>1, <2>3
    <3> QED
      BY <1>6, <1>7, <2>1, <2>3, <3>1 DEF ShownInv, SyncedInBlob
  <2> QED
    BY <2>2, <2>3
<1>11. RoundsHold'
  <2>1. ASSUME NEW i \in 1..Len(rounds'), NEW n \in DOMAIN rounds'[i].merges
        PROVE  \E merge : rounds'[i].merges[n] = merge /\ MergeHolds(merge, n)'
    <3>1. PICK j \in 2..Len(rounds) : rounds'[i] = rounds[j]
      BY <1>1
    <3>2. PICK merge : merge = rounds[j].merges[n]
      OBVIOUS
    <3>3. MergeHolds(merge, n) /\ n \notin DOMAIN merges
      BY <1>4, <1>5, <2>1, <3>1, <3>2 DEF ShownInv, RoundsHold
    <3>4. \A o \in DOMAIN outbox : outbox[o].node = n => outbox'[o] = outbox[o]
      BY <1>6, <1>8, <3>3
    <3>5. \A o \in merge.rows : o \in DOMAIN outbox' /\ outbox'[o].node = n
      BY <1>6, <3>3 DEF MergeHolds
    <3>6. \A o \in DOMAIN outbox' :
            outbox'[o].node = n /\ (outbox'[o].status = "SYNCED" \/ o \in merge.rows)
              => outbox'[o].payload \in merge.blob
      BY <1>6, <3>3, <3>4 DEF MergeHolds
    <3> QED
      BY <3>1, <3>2, <3>5, <3>6 DEF MergeHolds
  <2> QED
    BY <2>1, RoundsHoldNext
<1> QED
  BY <1>9, <1>10, <1>11 DEF ShownInv

\* Every step of the system without deletions and new epochs.
LEMMA ShownStep ==
  ASSUME Typed, FlightInv, ShownInv, [EditNext]_vars
  PROVE  ShownInv'
<1>1. CASE EditCall
  <2>1. Adds /\ FirstEpoch'
    BY <1>1, EditCallAdds DEF Typed, ShownInv
  <2>2. rounds' = rounds
    BY <1>1 DEF EditCall, syncVars
  <2> QED
    BY <2>1, <2>2, AddsKept
<1>2. CASE TimerPoll \/ HandlePoll
  BY <1>2, PollShown DEF TimerPoll, HandlePoll
<1>3. CASE HandleCommitted \/ CommitAnswered \/ (\E c \in Caller : SyncNow(c)) \/ Restart \/ UNCHANGED vars
  <2>1. UNCHANGED <<nodes, outbox, mail>> /\ (rounds' = rounds \/ rounds' = << >>)
    BY <1>3, RestartReopens DEF HandleCommitted, CommitAnswered, SyncNow, Reopen, vars, storeVars, syncVars
  <2>2. Adds /\ FirstEpoch'
    BY <2>1 DEF Adds, ShownInv, FirstEpoch
  <2> QED
    BY <2>1, <2>2, AddsKept
<1> QED
  BY <1>1, <1>2, <1>3, CommitMergesShown DEF EditNext, SyncStep

\* While atoms are neither deleted nor compacted, an event is marked SYNCED
\* only when the text of its atom shows it, once the events it was written on
\* top of are marked too (commitMerges, write-ops.ts): in every reachable state,
\* although a commit overwrites the blob with a merge that was computed before.
THEOREM SyncedIsShown == EditSpec => []SyncedEventsShown
<1>1. EditSpec => Spec
  <2>1. [EditNext]_vars => [Next]_vars
    BY DEF Next
  <2> QED
    BY <2>1, PTL DEF EditSpec, Spec
<1>2. Init => ShownInv /\ FlightInv
  <2> SUFFICES ASSUME Init PROVE ShownInv /\ FlightInv
    OBVIOUS
  <2> QED
    BY DEF Init, StoreInit, SyncInit, ShownInv, Live, FirstEpoch, SyncedInBlob, RoundsHold,
           FlightInv, InFlight, Apart
<1>3. ASSUME Typed, FlightInv, ShownInv, [EditNext]_vars PROVE FlightInv' /\ ShownInv'
  BY <1>3, ShownStep, FlightStep DEF Next
<1>4. ShownInv /\ ViewAgrees => SyncedEventsShown
  BY ShownInvSuffices
<1> QED
  BY <1>1, <1>2, <1>3, <1>4, TypeInvariant, TextIsBlob, PTL DEF EditSpec
================================================================================
