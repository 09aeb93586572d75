------------------------------ MODULE AtomStore ------------------------------
(****************************************************************************)
(* One shard of the memory engine as its singleton writer sees it: the      *)
(* nodes (atoms), documents and outbox tables, and the write operations of  *)
(* workers/write-ops.ts, each of them one BEGIN IMMEDIATE transaction and   *)
(* so one action.                                                           *)
(*                                                                          *)
(* A Yjs update is a number.  A blob (crdt_blob) is the set of updates      *)
(* merged into it.  An update is written against what its author saw: it    *)
(* takes effect in a blob only when the updates it follows (anc) are there  *)
(* too, and until then Yjs keeps it as a pending struct that readers do not *)
(* see.  A compacted snapshot follows nothing and stands for the edits it   *)
(* was built from (covers).  The text of an atom (title, body) is the set   *)
(* of edits that took effect; which of two concurrent edits of one key      *)
(* wins is a function of that set and is not modelled.                      *)
(*                                                                          *)
(* Node and outbox ids are INTEGER PRIMARY KEYs without AUTOINCREMENT, so   *)
(* an INSERT takes one more than the largest id in the table: the id of a   *)
(* deleted last row is given out again.                                     *)
(****************************************************************************)
EXTENDS Integers, FiniteSets

CONSTANTS
  SourceKey,    \* the source keys of documents
  Hash,         \* the content hashes a document can have
  NoDoc,        \* the document_id of an atom ingested without a source key
  NoHash,       \* no documents row
  MaxUpdates,   \* bound: updates ever authored
  MaxNodeId,    \* bound: largest node id
  MaxRowId,     \* bound: largest outbox id
  MaxBatch,     \* bound: atoms in one ingested document
  MaxEpoch,     \* bound: largest epoch
  MaxGarbled    \* bound: updates that arrive undecodable

ASSUME StoreAssumption ==
  /\ MaxUpdates \in Nat /\ MaxNodeId \in Nat /\ MaxRowId \in Nat
  /\ MaxBatch \in Nat /\ MaxEpoch \in Nat /\ MaxGarbled \in Nat
  /\ NoDoc \notin SourceKey /\ NoHash \notin Hash

VARIABLES
  nodes,        \* the nodes table: id |-> row
  docs,         \* the documents table: source key |-> content hash
  outbox,       \* the outbox table: id |-> row
  used,         \* the updates authored so far are 1..used
  anc,          \* update |-> the updates it follows, itself included
  covers,       \* update |-> the edits it carries
  garbled,      \* the updates that do not decode
  drafts,       \* updateFields calls between load() and saveAtomic()
  mail          \* what remote peers have sent; it may arrive late, twice or never

storeVars == <<nodes, docs, outbox, used, anc, covers, garbled, drafts, mail>>
authorVars == <<used, anc, covers, garbled>>

Update  == 1..MaxUpdates
NodeId  == 1..MaxNodeId
RowId   == 1..MaxRowId
Epoch   == 0..MaxEpoch

NodeRow == [doc : SourceKey \cup {NoDoc}, epoch : Epoch, version : Nat,
            status : {"DIRTY", "SYNCED", "CONFLICT"},
            blob : SUBSET Update, text : SUBSET Update]

EventType == {"node.created", "node.updated", "node.compacted",
              "remote.update", "remote.adopt", "remote.stale"}

EventRow == [node : NodeId, type : EventType, payload : Update,
             status : {"DIRTY", "SYNCED"}]

StoreTypeOK ==
  /\ DOMAIN nodes \subseteq NodeId /\ nodes \in [DOMAIN nodes -> NodeRow]
  /\ docs \in [SourceKey -> Hash \cup {NoHash}]
  /\ DOMAIN outbox \subseteq RowId /\ outbox \in [DOMAIN outbox -> EventRow]
  /\ used \in 0..MaxUpdates
  /\ anc \in [Update -> SUBSET Update]
  /\ covers \in [Update -> SUBSET Update]
  /\ garbled \subseteq Update
  /\ drafts \subseteq [node : NodeId, update : Update]
  /\ mail \subseteq [node : NodeId, update : Update, epoch : Epoch]

-----------------------------------------------------------------------------
(* Blobs *)

\* The updates of a blob that have taken effect.
Visible(blob) == {u \in blob : anc[u] \subseteq blob}

\* readAtomFields: the edits a reader of the blob sees.
Content(blob) == UNION {covers[u] : u \in Visible(blob)}

\* The entries a new map.set() can overwrite: an update it is written on top of.
Tips(blob) == {u \in Visible(blob) : \A v \in Visible(blob) : u \in anc[v] => v = u}

-----------------------------------------------------------------------------
(* Tables *)

\* The rowid SQLite gives to the next row of a table with these ids.
IsNextId(i, ids) ==
  /\ \A j \in ids : j < i
  /\ i = 1 \/ i - 1 \in ids

Insert(table, rows) ==
  [x \in DOMAIN table \cup DOMAIN rows |->
     IF x \in DOMAIN rows THEN rows[x] ELSE table[x]]

Only(table, ids) == [x \in DOMAIN table \cap ids |-> table[x]]

\* The state of the store: nothing ingested, no update authored.  An update
\* that nobody has authored yet is a genesis update in waiting: it follows
\* nothing and carries itself.
StoreInit ==
  /\ nodes = [n \in {} |-> n]
  /\ docs = [k \in SourceKey |-> NoHash]
  /\ outbox = [o \in {} |-> o]
  /\ used = 0
  /\ anc = [u \in Update |-> {u}]
  /\ covers = [u \in Update |-> {u}]
  /\ garbled = {} /\ drafts = {} /\ mail = {}

\* One event appended to the outbox.
Log(n, type, update, status) ==
  \E o \in RowId :
    /\ IsNextId(o, DOMAIN outbox)
    /\ outbox' = Insert(outbox, [x \in {o} |->
         [node |-> n, type |-> type, payload |-> update, status |-> status]])

\* insertNodeRows over what is left of the tables after a delete: k atoms,
\* each with a genesis blob of its own, and one node.created event for each.
NewNode(doc, update) ==
  [doc |-> doc, epoch |-> 0, version |-> 1, status |-> "DIRTY",
   blob |-> {update}, text |-> {update}]

NewEvent(n, update) ==
  [node |-> n, type |-> "node.created", payload |-> update, status |-> "DIRTY"]

InsertNodeRows(table, log, doc, k) ==
  \E i \in 1..(MaxNodeId + 1), o \in 1..(MaxRowId + 1) :
    /\ IsNextId(i, DOMAIN table) /\ i + k - 1 <= MaxNodeId
    /\ IsNextId(o, DOMAIN log)   /\ o + k - 1 <= MaxRowId
    /\ used + k <= MaxUpdates
    /\ nodes' = Insert(table, [x \in i..(i + k - 1) |-> NewNode(doc, used + 1 + x - i)])
    /\ outbox' = Insert(log, [x \in o..(o + k - 1) |-> NewEvent(i + x - o, used + 1 + x - o)])
    /\ used' = used + k
    /\ UNCHANGED <<anc, covers, garbled>>

\* insertNodes: engine.ingestDocument, which skips an empty batch.
InsertNodes(k) ==
  /\ k > 0
  /\ InsertNodeRows(nodes, outbox, NoDoc, k)
  /\ UNCHANGED <<docs, drafts, mail>>

AtomsOf(key) == {n \in DOMAIN nodes : nodes[n].doc = key}
EventsOf(ns) == {o \in DOMAIN outbox : outbox[o].node \in ns}

\* The tables without the atoms ns and their events.
NodesWithout(ns)  == Only(nodes, DOMAIN nodes \ ns)
OutboxWithout(ns) == Only(outbox, DOMAIN outbox \ EventsOf(ns))

\* replaceDocument with k new atoms; a known hash is a no-op.
ReplaceDocument(key, hash, k) ==
  /\ docs[key] # hash
  /\ docs' = [docs EXCEPT ![key] = hash]
  /\ InsertNodeRows(NodesWithout(AtomsOf(key)), OutboxWithout(AtomsOf(key)), key, k)
  /\ UNCHANGED <<drafts, mail>>

DeleteAtoms(ns) ==
  /\ nodes' = NodesWithout(ns)
  /\ outbox' = OutboxWithout(ns)
  /\ UNCHANGED <<used, anc, covers, garbled, drafts, mail>>

DeleteDocument(key) ==
  /\ docs[key] # NoHash
  /\ docs' = [docs EXCEPT ![key] = NoHash]
  /\ DeleteAtoms(AtomsOf(key))

DeleteNode(n) ==
  /\ n \in DOMAIN nodes
  /\ DeleteAtoms({n})
  /\ UNCHANGED docs

\* An UPDATE of an atom's blob with the fields read from it.
Rewrite(row, blob, text, status) ==
  [row EXCEPT !.blob = blob, !.text = text, !.version = @ + 1, !.status = status]

AtEpoch(row, epoch) == [row EXCEPT !.epoch = epoch]
Flagged(row, status) == [row EXCEPT !.status = status]

-----------------------------------------------------------------------------
(* Local edits: CRDTStorageAdapter.updateFields *)

\* A new update that follows `parent`.
Author(parent) ==
  /\ used < MaxUpdates
  /\ used' = used + 1
  /\ anc' = [anc EXCEPT ![used + 1] = anc[parent] \cup {used + 1}]

\* load() and diffUpdate(): the blob is read through the reader pool, the
\* differential is computed on the main thread; the save comes later.
LoadForUpdate(n) ==
  /\ n \in DOMAIN nodes
  /\ \E parent \in Tips(nodes[n].blob) : Author(parent)
  /\ drafts' = drafts \cup {[node |-> n, update |-> used + 1]}
  /\ UNCHANGED <<nodes, docs, outbox, covers, garbled, mail>>

\* A variant of saveAtomic that leaves title and body as they were: ViewAgrees
\* rules it out.
SaveAtomicBlobOnly(d) ==
  /\ drafts' = drafts \ {d}
  /\ d.node \in DOMAIN nodes
  /\ nodes' = [nodes EXCEPT ![d.node] = Rewrite(@, @.blob \cup {d.update}, @.text, "DIRTY")]
  /\ Log(d.node, "node.updated", d.update, "DIRTY")
  /\ UNCHANGED <<docs, authorVars, mail>>

\* saveAtomic of a draft.  It throws when the atom is gone.
SaveAtomic(d) ==
  /\ drafts' = drafts \ {d}
  /\ IF d.node \in DOMAIN nodes
     THEN LET merged == nodes[d.node].blob \cup {d.update} IN
          /\ nodes' = [nodes EXCEPT ![d.node] =
               Rewrite(@, merged, Content(merged), "DIRTY")]
          /\ Log(d.node, "node.updated", d.update, "DIRTY")
     ELSE UNCHANGED <<nodes, outbox>>
  /\ UNCHANGED <<docs, authorVars, mail>>

-----------------------------------------------------------------------------
(* Remote peers.  A peer holds a replica: what it sends is written on top of *)
(* the atom as the peer knows it at the time of sending.                    *)

Received(n) == {m.update : m \in {x \in mail : x.node = n /\ x.epoch = nodes[n].epoch}}

PeerSend(n, epoch) ==
  mail' = mail \cup {[node |-> n, update |-> used + 1, epoch |-> epoch]}

\* A peer edits its replica, which may already hold its earlier edits.
PeerEdit(n) ==
  /\ n \in DOMAIN nodes
  /\ \E parent \in Tips(nodes[n].blob \cup (Received(n) \ garbled)) : Author(parent)
  /\ PeerSend(n, nodes[n].epoch)
  /\ \/ UNCHANGED garbled
     \/ /\ Cardinality(garbled) < MaxGarbled
        /\ garbled' = garbled \cup {used + 1}
  /\ UNCHANGED <<nodes, docs, outbox, covers, drafts>>

\* A peer compacts its replica and sends the snapshot with its new epoch.
PeerCompact(n) ==
  /\ n \in DOMAIN nodes
  /\ used < MaxUpdates /\ nodes[n].epoch < MaxEpoch
  /\ used' = used + 1
  /\ covers' = [covers EXCEPT ![used + 1] = Content(nodes[n].blob)]
  /\ PeerSend(n, nodes[n].epoch + 1)
  /\ UNCHANGED <<nodes, docs, outbox, anc, garbled, drafts>>

\* applyRemoteUpdate: `labelled` says whether the sender's epoch is given.
\* Behind the atom: set aside for review.
RemoteStale(m, labelled) ==
  /\ labelled /\ m.epoch < nodes[m.node].epoch
  /\ nodes' = [nodes EXCEPT ![m.node] = Flagged(@, "CONFLICT")]
  /\ Log(m.node, "remote.stale", m.update, "DIRTY")

\* A variant that counts the adoption as a compaction of its own, one epoch
\* past the sender's: TypeOK rules it out.
RemoteAdoptAndBump(m, labelled) ==
  /\ labelled /\ m.epoch > nodes[m.node].epoch
  /\ m.update \notin garbled
  /\ nodes' = [nodes EXCEPT ![m.node] =
       AtEpoch(Rewrite(@, {m.update}, Content({m.update}), "SYNCED"), m.epoch + 1)]
  /\ Log(m.node, "remote.adopt", m.update, "SYNCED")

\* Ahead of it: adopted as the new baseline.  An undecodable snapshot throws
\* in readAtomFields and changes nothing.
RemoteAdopt(m, labelled) ==
  /\ labelled /\ m.epoch > nodes[m.node].epoch
  /\ m.update \notin garbled
  /\ nodes' = [nodes EXCEPT ![m.node] =
       AtEpoch(Rewrite(@, {m.update}, Content({m.update}), "SYNCED"), m.epoch)]
  /\ Log(m.node, "remote.adopt", m.update, "SYNCED")

\* Equal epoch, or none given: the update waits in the outbox, undecoded.
RemoteQueue(m, labelled) ==
  /\ labelled => m.epoch = nodes[m.node].epoch
  /\ nodes' = [nodes EXCEPT ![m.node] = Flagged(@, "CONFLICT")]
  /\ Log(m.node, "remote.update", m.update, "DIRTY")

\* It throws when the atom is gone.  The message stays: it may come again.
ApplyRemoteUpdate(m, labelled) ==
  /\ m.node \in DOMAIN nodes
  /\ \/ RemoteStale(m, labelled)
     \/ RemoteAdopt(m, labelled)
     \/ RemoteQueue(m, labelled)
  /\ UNCHANGED <<docs, authorVars, drafts, mail>>

-----------------------------------------------------------------------------
(* Compaction *)

\* The baseline replaces the blob; title, body, version and status stay.
Collapsed(row, baseline) == [row EXCEPT !.blob = baseline, !.epoch = @ + 1]

\* compactAtom: a fresh baseline of what the blob shows, one epoch up.  The
\* atom's pending events are not looked at.
CompactAtom(n) ==
  /\ n \in DOMAIN nodes
  /\ used < MaxUpdates /\ nodes[n].epoch < MaxEpoch
  /\ used' = used + 1
  /\ covers' = [covers EXCEPT ![used + 1] = Content(nodes[n].blob)]
  /\ nodes' = [nodes EXCEPT ![n] = Collapsed(@, {used + 1})]
  /\ Log(n, "node.compacted", used + 1, "DIRTY")
  /\ UNCHANGED <<docs, anc, garbled, drafts, mail>>
=============================================================================
