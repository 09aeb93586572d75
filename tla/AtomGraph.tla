------------------------------- MODULE AtomGraph -------------------------------
(****************************************************************************)
(* What hangs on the atoms of a shard: the two full-text indexes, the       *)
(* vectors and the edges, which triggers keep in step with the nodes table  *)
(* (db/schema.ts); the summaries of clusters (supernodes), rebuilt on       *)
(* demand; and a hybrid search with its expansions (engine.ts,              *)
(* workers/read-ops.ts), which reads all of them one query at a time while  *)
(* the writer goes on.                                                      *)
(*                                                                          *)
(* A text is a number, never used twice.  An atom is known by its first     *)
(* text; ids are given out again (see AtomStore).  What a query matches and *)
(* how hits are ranked is data.                                             *)
(****************************************************************************)
EXTENDS Integers, FiniteSets, Functions

CONSTANTS
  Cluster, GraphOf,   \* the clusters, and the graph of each
  Key,                \* source keys of documents
  NoKey,              \* the document of an atom that has none
  Vectors,            \* whether the engine embeds what it ingests
  MaxText,            \* bound: texts written
  MaxEdges            \* bound: edges at a time

ASSUME GraphAssumption ==
  /\ GraphOf \in [Cluster -> Range(GraphOf)]
  /\ NoKey \notin Key /\ Vectors \in BOOLEAN /\ MaxText \in Nat /\ MaxEdges \in Nat

VARIABLES
  db,        \* the tables: nodes, the indexes trigram and words, vec, edges
  summary,   \* supernodes: cluster |-> the atoms and texts it was made from
  written,   \* texts so far
  touched,   \* history: clusters whose atoms have changed since their last rebuild
  search     \* the search that is under way

vars == <<db, summary, written, touched, search>>

Graph == Range(GraphOf)
Id == 1..MaxText
Text == 1..MaxText
NodeRow == [atom : Text, text : Text, cluster : Cluster, key : Key \union {NoKey}]
EdgeRow == [src : Id, dst : Id, ends : Text \X Text]   \* ends: the atoms, for the record
Hit == [id : Id, text : Text, cluster : Cluster, by : {"lane", "edge"}]
NoSearch == [step |-> "none"]

--------------------------------------------------------------------------------
(* Triggers.                                                                 *)

\* A variant that forgets the edges that lead to the atom: LockStep rules it out.
EdgesFrom(d, ids) == {e \in d.edges : e.src \in ids}

EdgesOf(d, ids) == {e \in d.edges : e.src \in ids \/ e.dst \in ids}

AfterDelete(d, ids) ==
  [d EXCEPT !.nodes = Restrict(d.nodes, DOMAIN d.nodes \ ids),
            !.trigram = {r \in @ : r[1] \notin ids},
            !.words = {r \in @ : r[1] \notin ids},
            !.vec = {r \in @ : r[1] \notin ids},
            !.edges = @ \ EdgesOf(d, ids)]

\* A new row, with an embedding if vectors are on.
AfterInsert(d, id, row) ==
  LET entry == {<<id, row.text>>} IN
  [d EXCEPT !.nodes = [i \in DOMAIN d.nodes \union {id} |-> IF i = id THEN row ELSE d.nodes[i]],
            !.trigram = @ \union entry, !.words = @ \union entry,
            !.vec = IF Vectors THEN @ \union entry ELSE @]

AfterUpdate(d, id, text) ==
  LET old == {<<id, d.nodes[id].text>>}  new == {<<id, text>>} IN
  [d EXCEPT !.nodes[id].text = text, !.trigram = (@ \ old) \union new, !.words = (@ \ old) \union new]

--------------------------------------------------------------------------------
(* The writer.                                                               *)

\* The tables, an edge at most once between two atoms.
Tables ==
  /\ DOMAIN db.nodes \subseteq Id /\ db.nodes \in [DOMAIN db.nodes -> NodeRow]
  /\ db.trigram \union db.words \union db.vec \subseteq Id \X Text
  /\ db.edges \subseteq EdgeRow
  /\ \A e, f \in db.edges : e.src = f.src /\ e.dst = f.dst => e = f

Init ==
  /\ db = [nodes |-> << >>, trigram |-> {}, words |-> {}, vec |-> {}, edges |-> {}]
  /\ summary = [c \in Cluster |-> {}]
  /\ written = 0 /\ touched = {} /\ search = NoSearch

AtomsIn(c) == {i \in DOMAIN db.nodes : db.nodes[i].cluster = c}
ClusterOf(i) == db.nodes[i].cluster

\* Documents are known by graph and source key.
AtomsOf(g, key) == {i \in DOMAIN db.nodes : db.nodes[i].key = key /\ GraphOf[ClusterOf(i)] = g}
NextId(d) == CHOOSE i \in Id : (\A j \in DOMAIN d.nodes : j < i) /\ (i = 1 \/ i - 1 \in DOMAIN d.nodes)

\* A search knows whether an atom of another graph was given the id of a hit.
Taking(id, c) ==
  search' = IF search.step = "none" THEN search
            ELSE [search EXCEPT !.taken = @ \/ (GraphOf[c] # search.graph /\ \E h \in search.hits : h.id = id)]

\* insertNodes, or replaceDocument with one atom, routed to a cluster.
Insert(old, key, c) ==
  /\ written < MaxText /\ written' = written + 1
  /\ LET d == AfterDelete(db, old) IN
       /\ db' = AfterInsert(d, NextId(d), [atom |-> written', text |-> written', cluster |-> c, key |-> key])
       /\ Taking(NextId(d), c)
  /\ touched' = touched \union {c} \union {ClusterOf(i) : i \in old}
  /\ UNCHANGED summary

IngestDocument(c) == Insert({}, NoKey, c)
ReplaceDocument(key, c) == Insert(AtomsOf(GraphOf[c], key), key, c)

Delete(ids) ==
  /\ ids # {}
  /\ db' = AfterDelete(db, ids)
  /\ touched' = touched \union {ClusterOf(i) : i \in ids}
  /\ UNCHANGED <<summary, written, search>>

DeleteDocument(g, key) == Delete(AtomsOf(g, key))
DeleteNode(i) == Delete({i})

\* saveAtomic, a merge, an adopted baseline: title and body are written, the
\* embedding is not.
Rewrite(i) ==
  /\ written < MaxText /\ written' = written + 1
  /\ db' = AfterUpdate(db, i, written')
  /\ touched' = touched \union {ClusterOf(i)}
  /\ UNCHANGED <<summary, search>>

\* A variant that asks for the atoms only: Firewall rules it out.
BothThere(i, j) == {i, j} \subseteq DOMAIN db.nodes

SameGraph(i, j) == {i, j} \subseteq DOMAIN db.nodes /\ GraphOf[ClusterOf(i)] = GraphOf[ClusterOf(j)]

\* One edge of the batch that is refused, and all are.
AddEdges(pairs) ==
  /\ Cardinality(pairs) <= MaxEdges /\ \A p \in pairs : SameGraph(p[1], p[2])
  /\ LET new == {[src |-> p[1], dst |-> p[2], ends |-> <<db.nodes[p[1]].atom, db.nodes[p[2]].atom>>] : p \in pairs} IN
       /\ Cardinality(db.edges \union new) <= MaxEdges
       /\ db' = [db EXCEPT !.edges = @ \union new]
  /\ UNCHANGED <<summary, written, touched, search>>

DeleteEdge(e) ==
  /\ db' = [db EXCEPT !.edges = @ \ {e}]
  /\ UNCHANGED <<summary, written, touched, search>>

\* The rows a summary is made from.
Source(c) == {<<i, db.nodes[i].text>> : i \in AtomsIn(c)}

\* A variant that passes over a cluster without atoms: SummariesTrue rules it out.
RebuiltIfAny(c) == IF AtomsIn(c) = {} THEN summary[c] ELSE Source(c)

\* An upsert; without atoms the stale row is dropped.
Rebuilt(c) == Source(c)

RebuildSupernodes(g, cs) ==
  LET chosen == {c \in cs : GraphOf[c] = g} IN
  /\ summary' = [c \in Cluster |-> IF c \in chosen THEN Rebuilt(c) ELSE summary[c]]
  /\ touched' = touched \ chosen
  /\ UNCHANGED <<db, written, search>>

Writes ==
  \/ \E c \in Cluster : IngestDocument(c) \/ \E key \in Key : ReplaceDocument(key, c)
  \/ \E g \in Graph, key \in Key : DeleteDocument(g, key)
  \/ \E i \in DOMAIN db.nodes : DeleteNode(i) \/ Rewrite(i)
  \/ \E pairs \in (SUBSET ((DOMAIN db.nodes) \X (DOMAIN db.nodes))) \ {{}} : AddEdges(pairs)
  \/ \E e \in db.edges : DeleteEdge(e)
  \/ \E g \in Graph, cs \in {{c} : c \in Cluster} \union {Cluster} : RebuildSupernodes(g, cs)

--------------------------------------------------------------------------------
(* MemoryEngine.hybridSearch.  The lanes are queries of their own: each sees *)
(* the tables as they are when it runs.                                      *)

BeginSearch(g) ==
  /\ search = NoSearch
  /\ search' = [step |-> "trigram", graph |-> g, hits |-> {}, todo |-> {}, taken |-> FALSE]
  /\ UNCHANGED <<db, summary, written, touched>>

\* ... JOIN nodes ... WHERE n.graph_id = @graphId
InGraph(g, index) == {i \in {r[1] : r \in index} \intersect DOMAIN db.nodes : GraphOf[ClusterOf(i)] = g}

HitOf(i, lane) == [id |-> i, text |-> db.nodes[i].text, cluster |-> ClusterOf(i), by |-> lane]

\* The first list that has an id supplies the item.
Fuse(hits, ids, lane) == hits \union {HitOf(i, lane) : i \in {j \in ids : \A h \in hits : h.id # j}}

Lane(step, index, next) ==
  /\ search.step = step
  /\ \E ids \in SUBSET InGraph(search.graph, index) :
       search' = [search EXCEPT !.step = next, !.hits = Fuse(@, ids, "lane")]
  /\ UNCHANGED <<db, summary, written, touched>>

\* viaSupernodes: hits of the cluster that ranks first, if there is a summary.
\* Then expand, or not.
RouteToClusters ==
  LET ranked == {c \in Cluster : GraphOf[c] = search.graph /\ summary[c] # {}}
      kept(c) == {h \in search.hits : h.cluster = c} IN
  /\ search.step = "route"
  /\ \E hits \in {search.hits} \union {kept(c) : c \in ranked} :
       \E base \in {{}, hits} :
         search' = [search EXCEPT !.step = "expand", !.hits = hits, !.todo = base]
  /\ UNCHANGED <<db, summary, written, touched>>

Neighbors(i) == {e.dst : e \in {f \in db.edges : f.src = i}} \union {e.src : e \in {f \in db.edges : f.dst = i}}

\* expandAlongEdges: the base hits one after the other, along edges of one type
\* or direction, as many as the limit lets pass.
Expand(h) ==
  /\ search.step = "expand" /\ h \in search.todo
  /\ \E ids \in SUBSET (Neighbors(h.id) \intersect DOMAIN db.nodes) :
       search' = [search EXCEPT !.todo = @ \ {h}, !.hits = Fuse(@, ids, "edge")]
  /\ UNCHANGED <<db, summary, written, touched>>

EndSearch ==
  /\ search.step = "expand" /\ search.todo = {}
  /\ search' = NoSearch
  /\ UNCHANGED <<db, summary, written, touched>>

Reads ==
  \/ \E g \in Graph : BeginSearch(g)
  \/ Lane("trigram", db.trigram, "word") \/ Lane("word", db.words, "vector") \/ Lane("vector", db.vec, "route")
  \/ RouteToClusters
  \/ search # NoSearch /\ \E h \in search.todo : Expand(h)
  \/ EndSearch

Next == Writes \/ Reads
Spec == Init /\ [][Next]_vars

--------------------------------------------------------------------------------
(* Both indexes hold exactly the texts of the atoms there are, and neither  *)
(* a vector nor an edge outlives its atom, also when the id has gone to     *)
(* another (schema.ts:126-143, :200-231).                                   *)
LockStep ==
  /\ Tables
  /\ db.trigram = db.words /\ db.words = {<<i, db.nodes[i].text>> : i \in DOMAIN db.nodes}
  /\ \A r \in db.vec : r[1] \in DOMAIN db.nodes /\ r[2] >= db.nodes[r[1]].atom
  /\ \A e \in db.edges : /\ {e.src, e.dst} \subseteq DOMAIN db.nodes
                         /\ e.ends = <<db.nodes[e.src].atom, db.nodes[e.dst].atom>>

(* A summary is that of the atoms of its cluster, unless they have changed  *)
(* since the cluster was rebuilt; "Clusters with no Atoms have their stale  *)
(* Supernode removed" (write-ops.ts:444-452).                               *)
SummariesTrue == \A c \in Cluster \ touched : summary[c] = Source(c)

(* An edge joins atoms of one graph, whichever atoms have got its ids;      *)
(* and a search names an atom once and keeps to its graph, neighbours       *)
(* included, unless an atom of another graph is given the id of a hit while *)
(* it runs (write-ops.ts:374-410, engine.ts:292-370).                       *)
Firewall ==
  /\ \A e \in db.edges : GraphOf[ClusterOf(e.src)] = GraphOf[ClusterOf(e.dst)]
  /\ search # NoSearch =>
       /\ search.hits \subseteq Hit
       /\ \A g, h \in search.hits : g.id = h.id => g = h
       /\ \A h \in search.hits : (h.by = "edge" /\ search.taken) \/ GraphOf[h.cluster] = search.graph

(* Said of the edges: "an edge can never breach the contextual firewall"    *)
(* (write-ops.ts:378-381), and each hit is labelled with the graph that is  *)
(* searched (engine.ts:355): every hit is of that graph.                    *)
HitsInGraph == search # NoSearch => \A h \in search.hits : GraphOf[h.cluster] = search.graph
================================================================================
