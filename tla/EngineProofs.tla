---------------------------- MODULE EngineProofs ----------------------------
(****************************************************************************)
(* Proofs about the engine of a shard.  What hangs on the atoms: indexes,   *)
(* vectors, edges and summaries, and the search that reads them while the   *)
(* writer goes on (AtomGraph).  Its threads and their calls, and the        *)
(* documents an ingest streams through them (IngestStream).                 *)
(****************************************************************************)
EXTENDS AtomGraph, IngestStream, FiniteSetTheorems, WellFoundedInduction, TLAPS

-----------------------------------------------------------------------------
(* The invariant                                                            *)

\* The tables are in step, an edge stays within its graph, and ids are given out
\* no faster than texts.
Texts(nodes) == {<<i, nodes[i].text>> : i \in DOMAIN nodes}
GraphIn(nodes, i) == GraphOf[nodes[i].cluster]

Sound(d, n) ==
  /\ d = [nodes |-> d.nodes, trigram |-> d.trigram, words |-> d.words, vec |-> d.vec, edges |-> d.edges]
  /\ DOMAIN d.nodes \subseteq 1..n /\ d.nodes \in [DOMAIN d.nodes -> NodeRow]
  /\ \A i \in DOMAIN d.nodes : d.nodes[i].atom <= n
  /\ d.trigram = Texts(d.nodes) /\ d.words = Texts(d.nodes)
  /\ d.vec \subseteq Id \X Text
  /\ \A r \in d.vec : r[1] \in DOMAIN d.nodes /\ r[2] >= d.nodes[r[1]].atom
  /\ d.edges \subseteq EdgeRow
  /\ \A e \in d.edges :
       /\ e.src \in DOMAIN d.nodes /\ e.dst \in DOMAIN d.nodes
       /\ e.ends = <<d.nodes[e.src].atom, d.nodes[e.dst].atom>>
       /\ GraphIn(d.nodes, e.src) = GraphIn(d.nodes, e.dst)

TablesInv == written \in 0..MaxText /\ Sound(db, written) /\ DOMAIN summary = Cluster /\ SummariesTrue

\* A search goes on with hits it has; as long as none of their ids was taken by
\* another graph, the atoms that have them are in the graph of the search.
Searching ==
  search # NoSearch =>
    /\ search = [step |-> search.step, graph |-> search.graph, hits |-> search.hits,
                 todo |-> search.todo, taken |-> search.taken]
    /\ search.step # "none" /\ search.taken \in BOOLEAN
    /\ search.todo \subseteq search.hits
    /\ ~search.taken =>
         \A h \in search.hits : h.id \in DOMAIN db.nodes => GraphOf[ClusterOf(h.id)] = search.graph

\* What Firewall says of the search.
Within ==
  search # NoSearch =>
    /\ search.hits \subseteq Hit
    /\ \A g, h \in search.hits : g.id = h.id => g = h
    /\ \A h \in search.hits : (h.by = "edge" /\ search.taken) \/ GraphOf[h.cluster] = search.graph

GraphInv == TablesInv /\ Searching /\ Within

-----------------------------------------------------------------------------
(* Facts                                                                    *)

LEMMA Bounds == MaxText \in Nat /\ MaxEdges \in Nat /\ NoKey \notin Key
  BY GraphAssumption

\* The next id is a new one.
LEMMA NextIdIsNew ==
  ASSUME NEW d, NEW m \in Nat, m < MaxText, DOMAIN d.nodes \subseteq 1..m
  PROVE  NextId(d) \in 1..(m + 1) /\ NextId(d) \notin DOMAIN d.nodes
<1> DEFINE ids == DOMAIN d.nodes
           After(i) == (\A j \in ids : j < i) /\ (i = 1 \/ i - 1 \in ids)
<1>1. \E i \in 1..(m + 1) : After(i)
  <2>1. CASE ids = {}
    BY <2>1
  <2>2. CASE ids # {}
    <3> DEFINE Gaps == {m - j : j \in ids}
    <3>1. Gaps \subseteq Nat /\ Gaps # {}
      <4>1. \A j \in ids : j \in Nat /\ m - j \in Nat
        OBVIOUS
      <4> QED
        BY <4>1, <2>2
    <3>2. PICK g \in Gaps : \A f \in Gaps : ~(<<f, g>> \in OpToRel(<, Nat))
      BY <3>1, NatLessThanWellFounded, WFMin
    <3>3. PICK top \in ids : g = m - top
      OBVIOUS
    <3>4. \A j \in ids : j <= top
      <4>1. \A j \in ids : m - j \in Gaps /\ m - j \in Nat /\ j \in Nat
        OBVIOUS
      <4>2. \A j \in ids : ~(m - j < g)
        BY <3>1, <3>2, <4>1 DEF OpToRel
      <4> QED
        BY <3>3, <4>1, <4>2
    <3>5. top + 1 \in 1..(m + 1) /\ \A j \in ids : j < top + 1
      BY <3>3, <3>4
    <3> QED
      BY <3>5, <3>3
  <2> QED
    BY <2>1, <2>2
<1>2. 1..(m + 1) \subseteq Id
  BY Bounds DEF Id
<1>3. NextId(d) = CHOOSE i \in Id : After(i)
  BY DEF NextId
<1>4. NextId(d) \in Id /\ After(NextId(d))
  BY <1>1, <1>2, <1>3
<1>5. NextId(d) = 1 \/ NextId(d) - 1 \in 1..m
  BY <1>4
<1> QED
  BY <1>4, <1>5 DEF Id

-----------------------------------------------------------------------------
(* What the triggers do to the tables                                       *)

\* The row of an atom.
LEMMA NodeIs ==
  ASSUME NEW d, NEW n \in 0..MaxText, Sound(d, n), NEW i \in DOMAIN d.nodes
  PROVE  /\ d.nodes[i] \in NodeRow /\ i \in Id /\ i \in 1..n
         /\ d.nodes[i].atom \in Text /\ d.nodes[i].atom \in Nat /\ d.nodes[i].text \in Text
         /\ d.nodes[i].cluster \in Cluster /\ d.nodes[i].key \in Key \union {NoKey}
  BY Bounds DEF Sound, NodeRow, Id, Text

LEMMA EdgeIs ==
  ASSUME NEW e \in EdgeRow
  PROVE  e = [src |-> e.src, dst |-> e.dst, ends |-> e.ends] /\ e.src \in Id /\ e.dst \in Id /\ e.ends \in Text \X Text
  BY DEF EdgeRow

\* All five tables are written.
LEMMA TablesAre ==
  ASSUME NEW d, d = [nodes |-> d.nodes, trigram |-> d.trigram, words |-> d.words, vec |-> d.vec, edges |-> d.edges],
         NEW nodes, NEW trigram, NEW words, NEW vec, NEW edges, NEW after,
         after = [d EXCEPT !.nodes = nodes, !.trigram = trigram, !.words = words, !.vec = vec, !.edges = edges]
  PROVE  after = [nodes |-> nodes, trigram |-> trigram, words |-> words, vec |-> vec, edges |-> edges]
  OBVIOUS

LEMMA DeleteSound ==
  ASSUME NEW d, NEW n \in 0..MaxText, Sound(d, n), NEW ids
  PROVE  /\ Sound(AfterDelete(d, ids), n)
         /\ AfterDelete(d, ids).nodes = [i \in DOMAIN d.nodes \ ids |-> d.nodes[i]]
<1> DEFINE after == AfterDelete(d, ids)
           nodes == [i \in DOMAIN d.nodes \ ids |-> d.nodes[i]]
<1>1. /\ after = [nodes |-> nodes,
                  trigram |-> {r \in d.trigram : r[1] \notin ids}, words |-> {r \in d.words : r[1] \notin ids},
                  vec |-> {r \in d.vec : r[1] \notin ids}, edges |-> d.edges \ EdgesOf(d, ids)]
  <2>1. d = [nodes |-> d.nodes, trigram |-> d.trigram, words |-> d.words, vec |-> d.vec, edges |-> d.edges]
    BY DEF Sound
  <2>2. after = [d EXCEPT !.nodes = nodes,
                          !.trigram = {r \in d.trigram : r[1] \notin ids}, !.words = {r \in d.words : r[1] \notin ids},
                          !.vec = {r \in d.vec : r[1] \notin ids}, !.edges = d.edges \ EdgesOf(d, ids)]
    BY DEF AfterDelete, Restrict
  <2> HIDE DEF after, nodes
  <2> QED
    BY <2>1, <2>2, TablesAre
<1> HIDE DEF after
<1>2. /\ after.nodes = nodes /\ DOMAIN nodes = DOMAIN d.nodes \ ids
      /\ after.trigram = {r \in d.trigram : r[1] \notin ids} /\ after.words = {r \in d.words : r[1] \notin ids}
      /\ after.vec = {r \in d.vec : r[1] \notin ids} /\ after.edges = d.edges \ EdgesOf(d, ids)
      /\ \A i \in DOMAIN nodes : nodes[i] = d.nodes[i]
  BY <1>1
<1> HIDE DEF nodes
<1>3. {r \in Texts(d.nodes) : r[1] \notin ids} = Texts(nodes)
  BY <1>2 DEF Texts
<1>4. after.trigram = Texts(nodes) /\ after.words = Texts(nodes)
  BY <1>2, <1>3 DEF Sound
<1>5. nodes \in [DOMAIN nodes -> NodeRow]
  BY <1>2 DEF nodes, Sound
<1>6. \A e \in after.edges : e \in d.edges /\ e.src \notin ids /\ e.dst \notin ids
  BY <1>2 DEF EdgesOf
<1>7. \A e \in after.edges :
        /\ e.src \in DOMAIN nodes /\ e.dst \in DOMAIN nodes
        /\ e.ends = <<nodes[e.src].atom, nodes[e.dst].atom>>
        /\ GraphIn(nodes, e.src) = GraphIn(nodes, e.dst)
  BY <1>2, <1>6 DEF Sound, GraphIn
<1>8. \A r \in after.vec : r[1] \in DOMAIN nodes /\ r[2] >= nodes[r[1]].atom
  BY <1>2 DEF Sound
<1>9. after = [nodes |-> after.nodes, trigram |-> after.trigram, words |-> after.words, vec |-> after.vec, edges |-> after.edges]
  BY <1>1
<1>10. Sound(after, n)
  BY <1>2, <1>4, <1>5, <1>6, <1>7, <1>8, <1>9 DEF Sound
<1> QED
  BY <1>2, <1>10 DEF after, nodes

LEMMA InsertSound ==
  ASSUME NEW d, NEW n \in 0..MaxText, Sound(d, n), n < MaxText,
         NEW c \in Cluster, NEW key \in Key \union {NoKey}, NEW id \in 1..(n + 1), id \notin DOMAIN d.nodes,
         NEW row, row = [atom |-> n + 1, text |-> n + 1, cluster |-> c, key |-> key]
  PROVE  /\ Sound(AfterInsert(d, id, row), n + 1)
         /\ DOMAIN AfterInsert(d, id, row).nodes = DOMAIN d.nodes \union {id}
         /\ AfterInsert(d, id, row).nodes[id] = row
         /\ \A i \in DOMAIN d.nodes : AfterInsert(d, id, row).nodes[i] = d.nodes[i]
<1> DEFINE after == AfterInsert(d, id, row)
           nodes == [i \in DOMAIN d.nodes \union {id} |-> IF i = id THEN row ELSE d.nodes[i]]
           vec == IF Vectors THEN d.vec \union {<<id, n + 1>>} ELSE d.vec
<1>1. after = [nodes |-> nodes, trigram |-> d.trigram \union {<<id, n + 1>>}, words |-> d.words \union {<<id, n + 1>>},
               vec |-> vec, edges |-> d.edges]
  <2>1. d = [nodes |-> d.nodes, trigram |-> d.trigram, words |-> d.words, vec |-> d.vec, edges |-> d.edges]
    BY DEF Sound
  <2>2. after = [d EXCEPT !.nodes = nodes, !.trigram = d.trigram \union {<<id, n + 1>>},
                          !.words = d.words \union {<<id, n + 1>>}, !.vec = vec, !.edges = d.edges]
    BY <2>1 DEF AfterInsert
  <2> HIDE DEF after, nodes, vec
  <2> QED
    BY <2>1, <2>2, TablesAre
<1> HIDE DEF after
<1>2. row \in NodeRow /\ n + 1 \in Text /\ id \in Id /\ row.atom = n + 1 /\ row.text = n + 1 /\ row.cluster = c
  BY Bounds DEF NodeRow, Text, Id
<1> HIDE DEF vec
<1>3. /\ DOMAIN nodes = DOMAIN d.nodes \union {id} /\ nodes[id] = row
      /\ \A i \in DOMAIN d.nodes : nodes[i] = d.nodes[i]
      /\ nodes \in [DOMAIN nodes -> NodeRow]
  BY <1>2 DEF Sound
<1> HIDE DEF nodes
<1>4. /\ after.nodes = nodes /\ after.edges = d.edges /\ after.vec = vec
      /\ after.trigram = Texts(d.nodes) \union {<<id, n + 1>>} /\ after.words = Texts(d.nodes) \union {<<id, n + 1>>}
      /\ after = [nodes |-> after.nodes, trigram |-> after.trigram, words |-> after.words, vec |-> after.vec, edges |-> after.edges]
  BY <1>1 DEF Sound
<1>5. Texts(nodes) = Texts(d.nodes) \union {<<id, n + 1>>}
  BY <1>2, <1>3 DEF Texts
<1>6. DOMAIN nodes \subseteq 1..(n + 1) /\ \A i \in DOMAIN nodes : nodes[i].atom <= n + 1
  BY <1>2, <1>3, NodeIs DEF Sound
<1>7. vec \subseteq Id \X Text /\ \A r \in vec : r[1] \in DOMAIN nodes /\ r[2] >= nodes[r[1]].atom
  <2>1. ASSUME NEW r \in vec PROVE r \in Id \X Text /\ r[1] \in DOMAIN nodes /\ r[2] >= nodes[r[1]].atom
    <3>1. CASE r \in d.vec
      BY <3>1, <1>3 DEF Sound
    <3>2. CASE r = <<id, n + 1>>
      BY <3>2, <1>2, <1>3
    <3> QED
      BY <3>1, <3>2 DEF vec
  <2> QED
    BY <2>1
<1>8. \A e \in d.edges :
        /\ e.src \in DOMAIN nodes /\ e.dst \in DOMAIN nodes
        /\ e.ends = <<nodes[e.src].atom, nodes[e.dst].atom>>
        /\ GraphIn(nodes, e.src) = GraphIn(nodes, e.dst)
  BY <1>3 DEF Sound, GraphIn
<1>9. Sound(after, n + 1)
  BY <1>3, <1>4, <1>5, <1>6, <1>7, <1>8 DEF Sound
<1> QED
  BY <1>3, <1>4, <1>9 DEF after

LEMMA UpdateSound ==
  ASSUME NEW d, NEW n \in 0..MaxText, Sound(d, n), n < MaxText, NEW id \in DOMAIN d.nodes
  PROVE  /\ Sound(AfterUpdate(d, id, n + 1), n + 1)
         /\ DOMAIN AfterUpdate(d, id, n + 1).nodes = DOMAIN d.nodes
         /\ \A i \in DOMAIN d.nodes : /\ AfterUpdate(d, id, n + 1).nodes[i].cluster = d.nodes[i].cluster
                                      /\ i # id => AfterUpdate(d, id, n + 1).nodes[i] = d.nodes[i]
<1> DEFINE after == AfterUpdate(d, id, n + 1)
           nodes == [d.nodes EXCEPT ![id].text = n + 1]
           Moved(index) == (index \ {<<id, d.nodes[id].text>>}) \union {<<id, n + 1>>}
<1>1. after = [nodes |-> nodes, trigram |-> Moved(d.trigram), words |-> Moved(d.words), vec |-> d.vec, edges |-> d.edges]
  <2>1. d = [nodes |-> d.nodes, trigram |-> d.trigram, words |-> d.words, vec |-> d.vec, edges |-> d.edges]
    BY DEF Sound
  <2>2. after = [d EXCEPT !.nodes = nodes, !.trigram = Moved(d.trigram), !.words = Moved(d.words),
                          !.vec = d.vec, !.edges = d.edges]
    BY <2>1 DEF AfterUpdate
  <2> HIDE DEF after, nodes, Moved
  <2> QED
    BY <2>1, <2>2, TablesAre
<1> HIDE DEF after
<1>2. d.nodes[id] \in NodeRow /\ n + 1 \in Text /\ DOMAIN nodes = DOMAIN d.nodes
  BY Bounds, NodeIs DEF Text
<1>3. /\ nodes[id].atom = d.nodes[id].atom /\ nodes[id].text = n + 1 /\ nodes[id].cluster = d.nodes[id].cluster
      /\ nodes[id] \in NodeRow
      /\ \A i \in DOMAIN nodes \ {id} : nodes[i] = d.nodes[i]
  BY <1>2 DEF NodeRow
<1>4. nodes \in [DOMAIN nodes -> NodeRow]
  <2>1. \A i \in DOMAIN nodes : nodes[i] \in NodeRow
    BY <1>2, <1>3, NodeIs
  <2>2. nodes = [i \in DOMAIN nodes |-> nodes[i]]
    OBVIOUS
  <2> QED
    BY <2>1, <2>2
<1> HIDE DEF nodes
<1>5. Moved(Texts(d.nodes)) = Texts(nodes)
  BY <1>2, <1>3 DEF Texts
<1>6. /\ after.nodes = nodes /\ after.edges = d.edges /\ after.vec = d.vec
      /\ after.trigram = Texts(nodes) /\ after.words = Texts(nodes)
      /\ after = [nodes |-> after.nodes, trigram |-> after.trigram, words |-> after.words, vec |-> after.vec, edges |-> after.edges]
  BY <1>1, <1>5 DEF Sound
<1>7. \A i \in DOMAIN nodes : nodes[i].atom = d.nodes[i].atom /\ nodes[i].cluster = d.nodes[i].cluster
  BY <1>3
<1>8. DOMAIN nodes \subseteq 1..(n + 1) /\ \A i \in DOMAIN nodes : nodes[i].atom <= n + 1
  BY <1>2, <1>7, NodeIs DEF Sound
<1>9. d.vec \subseteq Id \X Text /\ \A r \in d.vec : r[1] \in DOMAIN nodes /\ r[2] >= nodes[r[1]].atom
  BY <1>2, <1>7 DEF Sound
<1>10. \A e \in d.edges :
         /\ e.src \in DOMAIN nodes /\ e.dst \in DOMAIN nodes
         /\ e.ends = <<nodes[e.src].atom, nodes[e.dst].atom>>
         /\ GraphIn(nodes, e.src) = GraphIn(nodes, e.dst)
  BY <1>2, <1>7 DEF Sound, GraphIn
<1>11. d.edges \subseteq EdgeRow
  BY DEF Sound
<1>12. Sound(after, n + 1)
  BY <1>4, <1>6, <1>8, <1>9, <1>10, <1>11 DEF Sound
<1> QED
  BY <1>2, <1>3, <1>6, <1>7, <1>12 DEF after

-----------------------------------------------------------------------------
(* The writer                                                               *)

\* A write that leaves the rows of the clusters alone that it does not touch
\* leaves their summaries true.
LEMMA SummariesKept ==
  ASSUME SummariesTrue, summary' = summary, touched \subseteq touched',
         \A i \in DOMAIN db'.nodes : db'.nodes[i].cluster \notin touched' =>
           i \in DOMAIN db.nodes /\ db.nodes[i] = db'.nodes[i],
         \A i \in DOMAIN db.nodes : db.nodes[i].cluster \notin touched' =>
           i \in DOMAIN db'.nodes /\ db'.nodes[i] = db.nodes[i]
  PROVE  SummariesTrue'
<1>1. ASSUME NEW c \in Cluster, c \notin touched'
      PROVE  Source(c)' = Source(c)
  <2>1. AtomsIn(c)' = AtomsIn(c)
    BY <1>1 DEF AtomsIn
  <2>2. \A i \in AtomsIn(c) : db'.nodes[i] = db.nodes[i]
    BY <1>1 DEF AtomsIn
  <2> QED
    BY <2>1, <2>2 DEF Source
<1> QED
  BY <1>1 DEF SummariesTrue

\* A write that adds no row and moves none leaves a search as it is.
LEMMA SearchKept ==
  ASSUME Searching, Within, search' = search,
         \A i \in DOMAIN db'.nodes : i \in DOMAIN db.nodes /\ db'.nodes[i].cluster = db.nodes[i].cluster
  PROVE  Searching' /\ Within'
  BY DEF Searching, Within, ClusterOf

\* One that adds a row tells the search.
LEMMA SearchTold ==
  ASSUME Searching, Within, NEW id, NEW c, Taking(id, c), db'.nodes[id].cluster = c,
         \A i \in DOMAIN db'.nodes : i = id \/ (i \in DOMAIN db.nodes /\ db'.nodes[i] = db.nodes[i])
  PROVE  Searching' /\ Within'
<1>1. CASE search = NoSearch
  <2>1. search' = NoSearch
    BY <1>1 DEF Taking, NoSearch
  <2> QED
    BY <2>1 DEF Searching, Within
<1>2. CASE search # NoSearch
  <2> DEFINE taken == search.taken \/ (GraphOf[c] # search.graph /\ \E h \in search.hits : h.id = id)
  <2>1. search' = [search EXCEPT !.taken = taken]
    BY <1>2 DEF Taking, Searching
  <2>2. search' = [step |-> search.step, graph |-> search.graph, hits |-> search.hits,
                   todo |-> search.todo, taken |-> taken]
    BY <1>2, <2>1 DEF Searching
  <2>3. /\ search'.step # "none" /\ search'.hits = search.hits /\ search'.todo = search.todo
        /\ search'.taken = taken /\ search'.graph = search.graph
    BY <1>2, <2>2 DEF Searching
  <2>4. search' # NoSearch
    BY <2>3 DEF NoSearch
  <2>5. Within'
    BY <1>2, <2>3 DEF Within
  <2>6. taken \in BOOLEAN
    BY <1>2 DEF Searching
  <2>7. ASSUME ~taken, NEW h \in search.hits, h.id \in DOMAIN db'.nodes
        PROVE  GraphOf[ClusterOf(h.id)'] = search.graph
    BY <1>2, <2>7 DEF Searching, ClusterOf
  <2> HIDE DEF taken
  <2> QED
    BY <1>2, <2>2, <2>3, <2>4, <2>5, <2>6, <2>7 DEF Searching
<1> QED
  BY <1>1, <1>2

LEMMA DeleteKeeps ==
  ASSUME GraphInv, NEW ids \in SUBSET DOMAIN db.nodes, Delete(ids)
  PROVE  GraphInv'
<1>1. /\ ids # {} /\ db' = AfterDelete(db, ids) /\ summary' = summary /\ written' = written
      /\ touched' = touched \union {ClusterOf(i) : i \in ids} /\ search' = search
  BY DEF Delete
<1>2. Sound(db', written) /\ db'.nodes = [i \in DOMAIN db.nodes \ ids |-> db.nodes[i]]
  BY <1>1, DeleteSound DEF GraphInv, TablesInv
<1>3. /\ DOMAIN db'.nodes = DOMAIN db.nodes \ ids
      /\ \A i \in DOMAIN db'.nodes : db'.nodes[i] = db.nodes[i]
      /\ \A i \in ids : db.nodes[i].cluster \in touched'
  BY <1>1, <1>2 DEF ClusterOf
<1>4. SummariesTrue'
  BY <1>1, <1>3, SummariesKept DEF GraphInv, TablesInv
<1>5. Searching' /\ Within'
  BY <1>1, <1>3, SearchKept DEF GraphInv
<1> QED
  BY <1>1, <1>2, <1>4, <1>5 DEF GraphInv, TablesInv

LEMMA InsertKeeps ==
  ASSUME GraphInv, NEW old \in SUBSET DOMAIN db.nodes, NEW key \in Key \union {NoKey}, NEW c \in Cluster,
         Insert(old, key, c)
  PROVE  GraphInv'
<1> DEFINE d == AfterDelete(db, old)
           id == NextId(d)
           row == [atom |-> written + 1, text |-> written + 1, cluster |-> c, key |-> key]
<1>1. /\ written < MaxText /\ written' = written + 1 /\ db' = AfterInsert(d, id, row)
      /\ touched' = touched \union {c} \union {ClusterOf(i) : i \in old} /\ Taking(id, c) /\ summary' = summary
  BY DEF Insert
<1>2. written \in 0..MaxText /\ written \in Nat /\ written' \in 0..MaxText
  BY <1>1, Bounds DEF GraphInv, TablesInv
<1>3. Sound(d, written) /\ d.nodes = [i \in DOMAIN db.nodes \ old |-> db.nodes[i]]
  BY <1>2, DeleteSound DEF GraphInv, TablesInv
<1>4. DOMAIN d.nodes = DOMAIN db.nodes \ old /\ \A i \in DOMAIN d.nodes : d.nodes[i] = db.nodes[i]
  BY <1>3
<1> HIDE DEF d
<1>5. id \in 1..(written + 1) /\ id \notin DOMAIN d.nodes
  BY <1>1, <1>2, <1>3, NextIdIsNew DEF Sound
<1> HIDE DEF id
<1>6. row = [atom |-> written + 1, text |-> written + 1, cluster |-> c, key |-> key] /\ row.cluster = c
  OBVIOUS
<1> HIDE DEF row
<1>7. /\ Sound(db', written + 1)
      /\ DOMAIN db'.nodes = DOMAIN d.nodes \union {id} /\ db'.nodes[id].cluster = c
      /\ \A i \in DOMAIN d.nodes : db'.nodes[i] = db.nodes[i]
  <2>1. /\ Sound(AfterInsert(d, id, row), written + 1)
        /\ DOMAIN AfterInsert(d, id, row).nodes = DOMAIN d.nodes \union {id}
        /\ AfterInsert(d, id, row).nodes[id] = row
        /\ \A i \in DOMAIN d.nodes : AfterInsert(d, id, row).nodes[i] = d.nodes[i]
    BY <1>1, <1>2, <1>3, <1>5, <1>6, InsertSound
  <2> QED
    BY <1>1, <1>4, <1>6, <2>1
<1>8. SummariesTrue'
  <2>1. c \in touched' /\ \A i \in old : db.nodes[i].cluster \in touched'
    BY <1>1 DEF ClusterOf
  <2>2. \A i \in DOMAIN db'.nodes : db'.nodes[i].cluster \notin touched' =>
          i \in DOMAIN db.nodes /\ db.nodes[i] = db'.nodes[i]
    BY <1>4, <1>7, <2>1
  <2>3. \A i \in DOMAIN db.nodes : db.nodes[i].cluster \notin touched' =>
          i \in DOMAIN db'.nodes /\ db'.nodes[i] = db.nodes[i]
    BY <1>4, <1>7, <2>1
  <2> QED
    BY <1>1, <2>2, <2>3, SummariesKept DEF GraphInv, TablesInv
<1>9. Searching' /\ Within'
  <2>1. \A i \in DOMAIN db'.nodes : i = id \/ (i \in DOMAIN db.nodes /\ db'.nodes[i] = db.nodes[i])
    BY <1>4, <1>7
  <2> QED
    BY <1>1, <1>7, <2>1, SearchTold DEF GraphInv
<1>10. DOMAIN summary' = Cluster /\ Sound(db', written')
  BY <1>1, <1>7 DEF GraphInv, TablesInv
<1> QED
  BY <1>2, <1>8, <1>9, <1>10 DEF GraphInv, TablesInv

LEMMA RewriteKeeps ==
  ASSUME GraphInv, NEW i \in DOMAIN db.nodes, Rewrite(i)
  PROVE  GraphInv'
<1>1. /\ written < MaxText /\ written' = written + 1 /\ db' = AfterUpdate(db, i, written + 1)
      /\ touched' = touched \union {ClusterOf(i)} /\ summary' = summary /\ search' = search
  BY DEF Rewrite
<1>2. written \in 0..MaxText /\ written' \in 0..MaxText
  BY <1>1, Bounds DEF GraphInv, TablesInv
<1>3. /\ Sound(db', written + 1) /\ DOMAIN db'.nodes = DOMAIN db.nodes
      /\ \A j \in DOMAIN db.nodes : /\ db'.nodes[j].cluster = db.nodes[j].cluster
                                    /\ j # i => db'.nodes[j] = db.nodes[j]
  BY <1>1, <1>2, UpdateSound DEF GraphInv, TablesInv
<1>4. SummariesTrue'
  <2>1. db.nodes[i].cluster \in touched' /\ db'.nodes[i].cluster \in touched'
    BY <1>1, <1>3 DEF ClusterOf
  <2> QED
    BY <1>1, <1>3, <2>1, SummariesKept DEF GraphInv, TablesInv
<1>5. Searching' /\ Within'
  BY <1>1, <1>3, SearchKept DEF GraphInv
<1>6. DOMAIN summary' = Cluster /\ Sound(db', written')
  BY <1>1, <1>3 DEF GraphInv, TablesInv
<1> QED
  BY <1>2, <1>4, <1>5, <1>6 DEF GraphInv, TablesInv

\* A write that changes the edges and nothing else.
LEMMA EdgesKeep ==
  ASSUME GraphInv, NEW edges \in SUBSET EdgeRow, db' = [db EXCEPT !.edges = edges],
         UNCHANGED <<summary, written, touched, search>>,
         \A e \in edges : /\ e.src \in DOMAIN db.nodes /\ e.dst \in DOMAIN db.nodes
                          /\ e.ends = <<db.nodes[e.src].atom, db.nodes[e.dst].atom>>
                          /\ GraphIn(db.nodes, e.src) = GraphIn(db.nodes, e.dst)
  PROVE  GraphInv'
<1>1. /\ db = [nodes |-> db.nodes, trigram |-> db.trigram, words |-> db.words, vec |-> db.vec, edges |-> db.edges]
      /\ Sound(db, written)
  BY DEF GraphInv, TablesInv, Sound
<1>2. db' = [nodes |-> db.nodes, trigram |-> db.trigram, words |-> db.words, vec |-> db.vec, edges |-> edges]
  BY <1>1
<1>3. /\ db'.nodes = db.nodes /\ db'.trigram = db.trigram /\ db'.words = db.words
      /\ db'.vec = db.vec /\ db'.edges = edges
  BY <1>2
<1>4. Sound(db', written)
  BY <1>1, <1>2, <1>3 DEF Sound
<1>5. SummariesTrue'
  BY <1>3, SummariesKept DEF GraphInv, TablesInv
<1>6. Searching' /\ Within'
  BY <1>3, SearchKept DEF GraphInv
<1> QED
  BY <1>4, <1>5, <1>6 DEF GraphInv, TablesInv

LEMMA AddEdgesKeeps ==
  ASSUME GraphInv, NEW pairs \in SUBSET ((DOMAIN db.nodes) \X (DOMAIN db.nodes)), AddEdges(pairs)
  PROVE  GraphInv'
<1> DEFINE Edge(p) == [src |-> p[1], dst |-> p[2], ends |-> <<db.nodes[p[1]].atom, db.nodes[p[2]].atom>>]
           new == {Edge(p) : p \in pairs}
<1>1. /\ \A p \in pairs : SameGraph(p[1], p[2])
      /\ db' = [db EXCEPT !.edges = db.edges \union new]
      /\ UNCHANGED <<summary, written, touched, search>>
  BY DEF AddEdges
<1>2. \A e \in db.edges : /\ e \in EdgeRow /\ e.src \in DOMAIN db.nodes /\ e.dst \in DOMAIN db.nodes
                          /\ e.ends = <<db.nodes[e.src].atom, db.nodes[e.dst].atom>>
                          /\ GraphIn(db.nodes, e.src) = GraphIn(db.nodes, e.dst)
  BY DEF GraphInv, TablesInv, Sound
<1>3. ASSUME NEW p \in pairs
      PROVE  /\ Edge(p) \in EdgeRow /\ Edge(p).src \in DOMAIN db.nodes /\ Edge(p).dst \in DOMAIN db.nodes
             /\ Edge(p).ends = <<db.nodes[Edge(p).src].atom, db.nodes[Edge(p).dst].atom>>
             /\ GraphIn(db.nodes, Edge(p).src) = GraphIn(db.nodes, Edge(p).dst)
  <2>1. p[1] \in DOMAIN db.nodes /\ p[2] \in DOMAIN db.nodes
    OBVIOUS
  <2>2. p[1] \in Id /\ p[2] \in Id /\ db.nodes[p[1]].atom \in Text /\ db.nodes[p[2]].atom \in Text
    BY <2>1, NodeIs DEF GraphInv, TablesInv
  <2>3. GraphIn(db.nodes, p[1]) = GraphIn(db.nodes, p[2])
    BY <1>1 DEF SameGraph, GraphIn, ClusterOf
  <2> QED
    BY <2>1, <2>2, <2>3 DEF EdgeRow
<1> HIDE DEF Edge
<1>4. \A e \in new : /\ e \in EdgeRow /\ e.src \in DOMAIN db.nodes /\ e.dst \in DOMAIN db.nodes
                     /\ e.ends = <<db.nodes[e.src].atom, db.nodes[e.dst].atom>>
                     /\ GraphIn(db.nodes, e.src) = GraphIn(db.nodes, e.dst)
  BY <1>3
<1> HIDE DEF new
<1>5. (db.edges \union new) \in SUBSET EdgeRow
  BY <1>2, <1>4
<1> QED
  BY <1>1, <1>2, <1>4, <1>5, EdgesKeep

LEMMA DeleteEdgeKeeps ==
  ASSUME GraphInv, NEW e \in db.edges, DeleteEdge(e)
  PROVE  GraphInv'
<1>1. db' = [db EXCEPT !.edges = db.edges \ {e}] /\ UNCHANGED <<summary, written, touched, search>>
  BY DEF DeleteEdge
<1>2. (db.edges \ {e}) \in SUBSET EdgeRow
  BY DEF GraphInv, TablesInv, Sound
<1>3. \A f \in db.edges \ {e} :
        /\ f.src \in DOMAIN db.nodes /\ f.dst \in DOMAIN db.nodes
        /\ f.ends = <<db.nodes[f.src].atom, db.nodes[f.dst].atom>>
        /\ GraphIn(db.nodes, f.src) = GraphIn(db.nodes, f.dst)
  BY DEF GraphInv, TablesInv, Sound
<1> QED
  BY <1>1, <1>2, <1>3, EdgesKeep

LEMMA RebuildKeeps ==
  ASSUME GraphInv, NEW g, NEW cs, RebuildSupernodes(g, cs)
  PROVE  GraphInv'
<1> DEFINE chosen == {c \in cs : GraphOf[c] = g}
<1>1. /\ summary' = [c \in Cluster |-> IF c \in chosen THEN Source(c) ELSE summary[c]]
      /\ touched' = touched \ chosen /\ db' = db /\ written' = written /\ search' = search
  BY DEF RebuildSupernodes, Rebuilt
<1>2. SummariesTrue'
  <2>1. \A c \in Cluster : Source(c)' = Source(c)
    BY <1>1 DEF Source, AtomsIn
  <2>2. \A c \in Cluster \ touched' : summary'[c] = Source(c)
    BY <1>1 DEF GraphInv, TablesInv, SummariesTrue
  <2> QED
    BY <2>1, <2>2 DEF SummariesTrue
<1>3. Searching' /\ Within'
  BY <1>1, SearchKept DEF GraphInv
<1>4. DOMAIN summary' = Cluster /\ Sound(db', written') /\ written' \in 0..MaxText
  BY <1>1 DEF GraphInv, TablesInv
<1> QED
  BY <1>2, <1>3, <1>4 DEF GraphInv, TablesInv

LEMMA WritesKeep ==
  ASSUME GraphInv, Writes
  PROVE  GraphInv'
<1>1. ASSUME NEW c \in Cluster, IngestDocument(c) PROVE GraphInv'
  BY <1>1, InsertKeeps DEF IngestDocument
<1>2. \A g, key : AtomsOf(g, key) \in SUBSET DOMAIN db.nodes
  BY DEF AtomsOf
<1>3. ASSUME NEW c \in Cluster, NEW key \in Key, ReplaceDocument(key, c) PROVE GraphInv'
  BY <1>2, <1>3, InsertKeeps DEF ReplaceDocument
<1>4. ASSUME NEW g \in Graph, NEW key \in Key, DeleteDocument(g, key) PROVE GraphInv'
  BY <1>2, <1>4, DeleteKeeps DEF DeleteDocument
<1>5. ASSUME NEW i \in DOMAIN db.nodes, DeleteNode(i) \/ Rewrite(i) PROVE GraphInv'
  BY <1>5, DeleteKeeps, RewriteKeeps DEF DeleteNode
<1> QED
  BY <1>1, <1>3, <1>4, <1>5, AddEdgesKeeps, DeleteEdgeKeeps, RebuildKeeps DEF Writes

-----------------------------------------------------------------------------
(* The search                                                               *)

OncePerId(hits) == \A g, h \in hits : g.id = h.id => g = h

\* What a lane or an edge adds to the hits.
LEMMA FuseIs ==
  ASSUME TablesInv, NEW hits \in SUBSET Hit, OncePerId(hits), NEW ids \in SUBSET DOMAIN db.nodes,
         NEW lane \in {"lane", "edge"}
  PROVE  /\ Fuse(hits, ids, lane) \in SUBSET Hit /\ OncePerId(Fuse(hits, ids, lane)) /\ hits \subseteq Fuse(hits, ids, lane)
         /\ \A h \in Fuse(hits, ids, lane) : h \in hits \/ (h.id \in ids /\ h.cluster = ClusterOf(h.id) /\ h.by = lane)
<1>1. ASSUME NEW i \in ids
      PROVE  /\ HitOf(i, lane) \in Hit /\ HitOf(i, lane).id = i
             /\ HitOf(i, lane).cluster = ClusterOf(i) /\ HitOf(i, lane).by = lane
  <2>1. i \in Id /\ db.nodes[i].text \in Text /\ db.nodes[i].cluster \in Cluster
    BY NodeIs DEF TablesInv
  <2> QED
    BY <2>1 DEF HitOf, Hit, ClusterOf
<1> DEFINE added == {HitOf(i, lane) : i \in {j \in ids : \A h \in hits : h.id # j}}
<1>2. Fuse(hits, ids, lane) = hits \union added
  BY DEF Fuse
<1>3. \A h \in added : /\ h \in Hit /\ h.id \in ids /\ h = HitOf(h.id, lane) /\ h.cluster = ClusterOf(h.id) /\ h.by = lane
                       /\ \A g \in hits : g.id # h.id
  BY <1>1
<1> HIDE DEF added
<1>4. OncePerId(hits \union added)
  BY <1>3 DEF OncePerId
<1> QED
  BY <1>2, <1>3, <1>4

\* A search goes on, with hits that are there, in its graph or by an edge after
\* a deletion.
LEMMA GoesOn ==
  ASSUME GraphInv, search # NoSearch, db' = db, NEW step, step # "none",
         NEW hits \in SUBSET Hit, OncePerId(hits), NEW todo \in SUBSET hits,
         search' = [step |-> step, graph |-> search.graph, hits |-> hits, todo |-> todo, taken |-> search.taken],
         \A h \in hits : \/ h \in search.hits
                         \/ /\ h.id \in DOMAIN db.nodes /\ h.cluster = ClusterOf(h.id)
                            /\ (h.by = "edge" /\ search.taken) \/ GraphOf[h.cluster] = search.graph
  PROVE  Searching' /\ Within'
<1>1. /\ search'.step = step /\ search'.graph = search.graph /\ search'.hits = hits
      /\ search'.todo = todo /\ search'.taken = search.taken /\ search.taken \in BOOLEAN
  BY DEF GraphInv, Searching
<1>2. Searching'
  <2>1. ASSUME ~search.taken, NEW h \in hits, h.id \in DOMAIN db.nodes
        PROVE  GraphOf[ClusterOf(h.id)] = search.graph
    BY <2>1 DEF GraphInv, Searching
  <2>2. \A h \in hits : ClusterOf(h.id)' = ClusterOf(h.id)
    BY DEF ClusterOf
  <2> QED
    BY <1>1, <2>1, <2>2 DEF Searching
<1>3. Within'
  BY <1>1 DEF GraphInv, Within, OncePerId
<1> QED
  BY <1>2, <1>3

LEMMA TablesStay ==
  ASSUME TablesInv, UNCHANGED <<db, summary, written, touched>>
  PROVE  TablesInv'
<1>1. \A c \in Cluster : Source(c)' = Source(c)
  BY DEF Source, AtomsIn
<1> QED
  BY <1>1 DEF TablesInv, SummariesTrue

LEMMA SearchIs ==
  ASSUME GraphInv, search.step # "none"
  PROVE  /\ search # NoSearch
         /\ search = [step |-> search.step, graph |-> search.graph, hits |-> search.hits,
                      todo |-> search.todo, taken |-> search.taken]
         /\ search.hits \in SUBSET Hit /\ OncePerId(search.hits) /\ search.todo \subseteq search.hits
<1>1. search # NoSearch
  BY DEF NoSearch
<1> QED
  BY <1>1 DEF GraphInv, Searching, Within, OncePerId

LEMMA LaneKeeps ==
  ASSUME GraphInv, NEW step, step # "none", NEW index, NEW next, next # "none", Lane(step, index, next)
  PROVE  GraphInv'
<1>1. /\ search.step = step /\ UNCHANGED <<db, summary, written, touched>>
  BY DEF Lane
<1>2. PICK ids \in SUBSET InGraph(search.graph, index) :
        search' = [search EXCEPT !.step = next, !.hits = Fuse(search.hits, ids, "lane")]
  BY DEF Lane
<1>3. ids \in SUBSET DOMAIN db.nodes /\ \A i \in ids : GraphOf[ClusterOf(i)] = search.graph
  BY DEF InGraph
<1> DEFINE hits == Fuse(search.hits, ids, "lane")
<1>4. /\ hits \in SUBSET Hit /\ OncePerId(hits) /\ search.hits \subseteq hits
      /\ \A h \in hits : h \in search.hits \/ (h.id \in ids /\ h.cluster = ClusterOf(h.id) /\ h.by = "lane")
  BY <1>1, <1>3, SearchIs, FuseIs DEF GraphInv
<1> HIDE DEF hits
<1>5. search' = [step |-> next, graph |-> search.graph, hits |-> hits, todo |-> search.todo, taken |-> search.taken]
  BY <1>1, <1>2, SearchIs DEF hits
<1>6. Searching' /\ Within'
  BY <1>1, <1>3, <1>4, <1>5, SearchIs, GoesOn
<1> QED
  BY <1>1, <1>6, TablesStay DEF GraphInv

LEMMA RouteKeeps ==
  ASSUME GraphInv, RouteToClusters
  PROVE  GraphInv'
<1>1. search.step = "route" /\ UNCHANGED <<db, summary, written, touched>>
  BY DEF RouteToClusters
<1>2. PICK hits \in SUBSET search.hits, todo \in SUBSET search.hits :
        todo \subseteq hits /\ search' = [search EXCEPT !.step = "expand", !.hits = hits, !.todo = todo]
  BY DEF RouteToClusters
<1>3. search' = [step |-> "expand", graph |-> search.graph, hits |-> hits, todo |-> todo, taken |-> search.taken]
  BY <1>1, <1>2, SearchIs
<1>4. hits \in SUBSET Hit /\ OncePerId(hits)
  BY <1>1, SearchIs DEF OncePerId
<1>5. Searching' /\ Within'
  <2>1. search # NoSearch /\ db' = db /\ "expand" # "none" /\ todo \in SUBSET hits
    BY <1>1, <1>2, SearchIs
  <2>2. \A h \in hits : h \in search.hits
    BY <1>2
  <2> QED
    BY <2>1, <2>2, <1>3, <1>4, GoesOn
<1> QED
  BY <1>1, <1>5, TablesStay DEF GraphInv

\* The other end of an edge is in the same graph.
LEMMA NeighborsInGraph ==
  ASSUME TablesInv, NEW i, NEW j \in Neighbors(i)
  PROVE  i \in DOMAIN db.nodes /\ j \in DOMAIN db.nodes /\ GraphOf[ClusterOf(i)] = GraphOf[ClusterOf(j)]
<1>1. PICK e \in db.edges : (e.src = i /\ e.dst = j) \/ (e.dst = i /\ e.src = j)
  BY DEF Neighbors
<1> QED
  BY <1>1 DEF TablesInv, Sound, GraphIn, ClusterOf

LEMMA ExpandKeeps ==
  ASSUME GraphInv, NEW h, Expand(h)
  PROVE  GraphInv'
<1>1. search.step = "expand" /\ h \in search.todo /\ UNCHANGED <<db, summary, written, touched>>
  BY DEF Expand
<1>2. PICK ids \in SUBSET (Neighbors(h.id) \intersect DOMAIN db.nodes) :
        search' = [search EXCEPT !.todo = search.todo \ {h}, !.hits = Fuse(search.hits, ids, "edge")]
  BY DEF Expand
<1> DEFINE hits == Fuse(search.hits, ids, "edge")
           todo == search.todo \ {h}
<1>3. /\ hits \in SUBSET Hit /\ OncePerId(hits) /\ search.hits \subseteq hits
      /\ \A g \in hits : g \in search.hits \/ (g.id \in ids /\ g.cluster = ClusterOf(g.id) /\ g.by = "edge")
  BY <1>1, <1>2, SearchIs, FuseIs DEF GraphInv
<1>4. ASSUME NEW i \in ids, ~search.taken
      PROVE  GraphOf[ClusterOf(i)] = search.graph
  <2>1. h \in search.hits /\ search # NoSearch
    BY <1>1, SearchIs
  <2>2. i \in Neighbors(h.id)
    BY <1>2
  <2>3. h.id \in DOMAIN db.nodes /\ GraphOf[ClusterOf(i)] = GraphOf[ClusterOf(h.id)]
    BY <2>2, NeighborsInGraph DEF GraphInv
  <2>4. GraphOf[ClusterOf(h.id)] = search.graph
    BY <1>4, <2>1, <2>3 DEF GraphInv, Searching
  <2> QED
    BY <2>3, <2>4
<1> HIDE DEF hits
<1>5. search' = [step |-> "expand", graph |-> search.graph, hits |-> hits, todo |-> todo, taken |-> search.taken]
  BY <1>1, <1>2, SearchIs DEF hits
<1>6. todo \in SUBSET hits
  BY <1>1, <1>3, SearchIs
<1> HIDE DEF todo
<1>7. \A g \in hits : \/ g \in search.hits
                      \/ /\ g.id \in DOMAIN db.nodes /\ g.cluster = ClusterOf(g.id)
                         /\ (g.by = "edge" /\ search.taken) \/ GraphOf[g.cluster] = search.graph
  BY <1>2, <1>3, <1>4
<1>8. Searching' /\ Within'
  BY <1>1, <1>3, <1>5, <1>6, <1>7, SearchIs, GoesOn
<1> QED
  BY <1>1, <1>8, TablesStay DEF GraphInv

LEMMA ReadsKeep ==
  ASSUME GraphInv, Reads
  PROVE  GraphInv'
<1>1. ASSUME NEW g, BeginSearch(g) PROVE GraphInv'
  <2>1. /\ UNCHANGED <<db, summary, written, touched>>
        /\ search' = [step |-> "trigram", graph |-> g, hits |-> {}, todo |-> {}, taken |-> FALSE]
    BY <1>1 DEF BeginSearch
  <2>2. search'.hits = {} /\ search'.todo = {} /\ search'.taken = FALSE /\ search'.step = "trigram" /\ search'.graph = g
    BY <2>1
  <2>3. Searching' /\ Within'
    BY <2>1, <2>2 DEF Searching, Within
  <2> QED
    BY <2>1, <2>3, TablesStay DEF GraphInv
<1>2. ASSUME EndSearch PROVE GraphInv'
  BY <1>2, TablesStay DEF EndSearch, GraphInv, Searching, Within
<1> QED
  BY <1>1, <1>2, LaneKeeps, RouteKeeps, ExpandKeeps DEF Reads

-----------------------------------------------------------------------------
(* The theorems                                                             *)

LEMMA GraphStart == Init => GraphInv
<1> SUFFICES ASSUME Init PROVE GraphInv
  OBVIOUS
<1>1. /\ db = [nodes |-> << >>, trigram |-> {}, words |-> {}, vec |-> {}, edges |-> {}]
      /\ summary = [c \in Cluster |-> {}] /\ written = 0 /\ search = NoSearch
  BY DEF Init
<1>2. /\ DOMAIN db.nodes = {} /\ db.trigram = {} /\ db.words = {} /\ db.vec = {} /\ db.edges = {}
  BY <1>1
<1>3. Texts(db.nodes) = {}
  BY <1>2 DEF Texts
<1>4. db.nodes \in [DOMAIN db.nodes -> NodeRow]
  BY <1>1
<1>5. Sound(db, written)
  BY <1>1, <1>2, <1>3, <1>4 DEF Sound
<1>6. SummariesTrue
  BY <1>1, <1>2 DEF SummariesTrue, Source, AtomsIn
<1> QED
  BY <1>1, <1>5, <1>6, Bounds DEF GraphInv, TablesInv, Searching, Within

LEMMA GraphStep == GraphInv /\ [Next]_vars => GraphInv'
<1> SUFFICES ASSUME GraphInv, [Next]_vars PROVE GraphInv'
  OBVIOUS
<1>1. CASE UNCHANGED vars
  <2>1. UNCHANGED <<db, summary, written, touched>> /\ search' = search
    BY <1>1 DEF vars
  <2> QED
    BY <2>1, TablesStay, SearchKept DEF GraphInv
<1> QED
  BY <1>1, WritesKeep, ReadsKeep DEF Next

LEMMA GraphAlways == Spec => []GraphInv
  BY GraphStart, GraphStep, PTL DEF Spec

\* Whatever is ingested, replaced, deleted, rewritten and linked, both full-text
\* indexes hold exactly the texts of the atoms, and no vector and no edge
\* outlives its atom, also when the id goes to another (nodes_ai, nodes_ad,
\* nodes_au, the cascades of edges).
THEOREM IndexesInStep == Spec => []LockStep
<1>1. GraphInv => LockStep
  <2> SUFFICES ASSUME GraphInv PROVE LockStep
    OBVIOUS
  <2>1. Sound(db, written) /\ written \in 0..MaxText
    BY DEF GraphInv, TablesInv
  <2>2. Tables
    <3>1. DOMAIN db.nodes \subseteq Id
      BY <2>1, NodeIs
    <3>2. db.trigram \union db.words \subseteq Id \X Text
      BY <2>1, NodeIs DEF Sound, Texts
    <3>3. \A e, f \in db.edges : e.src = f.src /\ e.dst = f.dst => e = f
      BY <2>1, EdgeIs DEF Sound
    <3> QED
      BY <2>1, <3>1, <3>2, <3>3 DEF Tables, Sound
  <2> QED
    BY <2>1, <2>2 DEF LockStep, Sound, Texts
<1> QED
  BY <1>1, GraphAlways, PTL

\* The summary of a cluster is that of its atoms, or their change since the last
\* rebuild is on record (rebuildSupernodes).
THEOREM SummariesAreTrue == Spec => []SummariesTrue
<1>1. GraphInv => SummariesTrue
  BY DEF GraphInv, TablesInv
<1> QED
  BY <1>1, GraphAlways, PTL

\* However ids are given out again, an edge joins atoms of one graph; and a
\* search names an atom once and keeps to its graph, neighbours included, whatever
\* the writer deletes, rewrites and links between its queries, as long as no atom
\* of another graph is given the id of a hit (addEdges, hybridSearch,
\* expandAlongEdges).
THEOREM FirewallStands == Spec => []Firewall
<1>1. GraphInv => Firewall
  BY DEF GraphInv, TablesInv, Sound, Within, Firewall, GraphIn, ClusterOf
<1> QED
  BY <1>1, GraphAlways, PTL

-----------------------------------------------------------------------------
(* The calls of the engine                                                  *)

\* What is on its way to a worker and back, as the property has it, and that a
\* thread that is gone takes up nothing more and has said so last.
Msg == [kind : {"ready", "error"}] \union [kind : {"reply"}, id : Nat, ok : BOOLEAN]
CallRow == [op : {"read", "write"}, status : {"waiting", "ok", "failed"}]

ReplyIn(out, i) == i \in DOMAIN out /\ out[i].kind = "reply"
Hand(in, out) == Range(in) \union {out[i].id : i \in {j \in DOMAIN out : ReplyIn(out, j)}}

Lined(in, out, known, gone) ==
  /\ in \in Seq(Nat) /\ out \in Seq(Msg)
  /\ \A i, j \in DOMAIN in : i < j => in[i] < in[j]
  /\ \A i, j \in DOMAIN out : ReplyIn(out, i) /\ ReplyIn(out, j) /\ i < j => out[i].id < out[j].id
  /\ \A i \in DOMAIN out, j \in DOMAIN in : ReplyIn(out, i) => out[i].id < in[j]
  /\ Hand(in, out) \subseteq known
  /\ ~gone => Hand(in, out) = known
  /\ gone => in = << >>
  /\ \A i \in DOMAIN out : out[i].kind = "error" => i = Len(out) /\ gone

\* A thread that is there or gone announces it, or leaves without a word.
LEMMA LineAnnounced ==
  ASSUME NEW in, NEW out, NEW known, Lined(in, out, known, FALSE)
  PROVE  /\ Lined(in, Append(out, [kind |-> "ready"]), known, FALSE)
         /\ Lined(<< >>, Append(out, [kind |-> "error"]), known, TRUE)
         /\ Lined(<< >>, out, known, TRUE)
<1>1. /\ in \in Seq(Nat) /\ DOMAIN in = 1..Len(in) /\ Len(in) \in Nat
      /\ out \in Seq(Msg) /\ DOMAIN out = 1..Len(out) /\ Len(out) \in Nat
      /\ << >> \in Seq(Nat) /\ DOMAIN << >> = {} /\ Range(<< >>) = {}
  BY DEF Lined, Range
<1>2. ASSUME NEW kind \in {"ready", "error"}, NEW rest \in {in, << >>}, NEW gone \in BOOLEAN,
             kind = "error" => gone, gone => rest = << >>, ~gone => rest = in
      PROVE  Lined(rest, Append(out, [kind |-> kind]), known, gone)
  <2> DEFINE msg == [kind |-> kind]
  <2>1. msg \in Msg /\ msg.kind = kind /\ kind # "reply"
    BY DEF Msg
  <2> HIDE DEF msg
  <2>2. /\ Append(out, msg) \in Seq(Msg) /\ DOMAIN Append(out, msg) = 1..(Len(out) + 1)
        /\ Append(out, msg)[Len(out) + 1] = msg /\ \A i \in DOMAIN out : Append(out, msg)[i] = out[i]
    BY <1>1, <2>1
  <2>3. \A i : ReplyIn(Append(out, msg), i) <=> ReplyIn(out, i)
    BY <1>1, <2>1, <2>2 DEF ReplyIn
  <2>4. Hand(rest, Append(out, msg)) = Hand(rest, out)
    BY <1>1, <2>2, <2>3 DEF Hand, ReplyIn
  <2>5. Hand(rest, out) \subseteq Hand(in, out)
    BY <1>1 DEF Hand
  <2>6. \A i, j \in DOMAIN rest : i < j => rest[i] < rest[j]
    BY <1>1 DEF Lined
  <2>7. \A i, j \in 1..(Len(out) + 1) : ReplyIn(Append(out, msg), i) /\ ReplyIn(Append(out, msg), j) /\ i < j
          => Append(out, msg)[i].id < Append(out, msg)[j].id
    BY <1>1, <2>2, <2>3 DEF Lined, ReplyIn
  <2>8. \A i \in 1..(Len(out) + 1), j \in DOMAIN rest : ReplyIn(Append(out, msg), i) => Append(out, msg)[i].id < rest[j]
    BY <1>1, <2>2, <2>3 DEF Lined, ReplyIn
  <2>9. \A i \in 1..(Len(out) + 1) : Append(out, msg)[i].kind = "error" => i = Len(Append(out, msg)) /\ gone
    BY <1>1, <1>2, <2>1, <2>2 DEF Lined
  <2> QED
    BY <1>1, <1>2, <2>2, <2>4, <2>5, <2>6, <2>7, <2>8, <2>9 DEF Lined, msg
<1>3. Lined(<< >>, out, known, TRUE)
  BY <1>1 DEF Lined, Hand
<1> QED
  BY <1>2, <1>3

\* A call is taken up and answered.
LEMMA LineServed ==
  ASSUME NEW in, NEW out, NEW known, Lined(in, out, known, FALSE), in # << >>, NEW ok \in BOOLEAN
  PROVE  Lined(Tail(in), Append(out, [kind |-> "reply", id |-> Head(in), ok |-> ok]), known, FALSE)
<1> DEFINE msg == [kind |-> "reply", id |-> Head(in), ok |-> ok]
           rest == Tail(in)
           said == Append(out, msg)
<1>1. /\ in \in Seq(Nat) /\ DOMAIN in = 1..Len(in) /\ Len(in) \in Nat /\ Len(in) >= 1 /\ Head(in) = in[1] /\ in[1] \in Nat
      /\ out \in Seq(Msg) /\ DOMAIN out = 1..Len(out) /\ Len(out) \in Nat
  BY DEF Lined
<1>2. msg \in Msg /\ msg.kind = "reply" /\ msg.id = in[1]
  BY <1>1 DEF Msg
<1> HIDE DEF msg
<1>3. /\ said \in Seq(Msg) /\ DOMAIN said = 1..(Len(out) + 1) /\ Len(said) = Len(out) + 1
      /\ said[Len(out) + 1] = msg /\ \A i \in DOMAIN out : said[i] = out[i]
  BY <1>1, <1>2
<1>4. /\ rest \in Seq(Nat) /\ DOMAIN rest = 1..(Len(in) - 1)
      /\ \A i \in DOMAIN rest : rest[i] = in[i + 1] /\ i + 1 \in DOMAIN in
  BY <1>1
<1> HIDE DEF rest, said
<1>5. \A i : ReplyIn(said, i) <=> ReplyIn(out, i) \/ i = Len(out) + 1
  BY <1>1, <1>2, <1>3 DEF ReplyIn
<1>6. \A i, j \in DOMAIN rest : i < j => rest[i] < rest[j]
  BY <1>1, <1>4 DEF Lined
<1>7. \A j \in DOMAIN rest : in[1] < rest[j]
  <2> SUFFICES ASSUME NEW j \in DOMAIN rest PROVE in[1] < rest[j]
    OBVIOUS
  <2>1. 1 \in DOMAIN in /\ 1 < j + 1
    BY <1>1, <1>4
  <2> QED
    BY <2>1, <1>4 DEF Lined
<1>8. \A i \in DOMAIN said, j \in DOMAIN rest : ReplyIn(said, i) => said[i].id < rest[j]
  <2> SUFFICES ASSUME NEW i \in DOMAIN said, NEW j \in DOMAIN rest, ReplyIn(said, i) PROVE said[i].id < rest[j]
    OBVIOUS
  <2>1. CASE i = Len(out) + 1
    BY <2>1, <1>2, <1>3, <1>7
  <2>2. CASE ReplyIn(out, i)
    BY <2>2, <1>1, <1>3, <1>4 DEF Lined, ReplyIn
  <2> QED
    BY <2>1, <2>2, <1>5
<1>9. \A i, j \in DOMAIN said : ReplyIn(said, i) /\ ReplyIn(said, j) /\ i < j => said[i].id < said[j].id
  <2> SUFFICES ASSUME NEW i \in DOMAIN said, NEW j \in DOMAIN said, ReplyIn(said, i), ReplyIn(said, j), i < j
               PROVE  said[i].id < said[j].id
    OBVIOUS
  <2>1. ReplyIn(out, i)
    BY <1>1, <1>3, <1>5
  <2>2. CASE j = Len(out) + 1
    <3>1. said[j].id = in[1] /\ 1 \in DOMAIN in /\ i \in DOMAIN out /\ said[i] = out[i]
      BY <2>1, <2>2, <1>1, <1>2, <1>3 DEF ReplyIn
    <3> QED
      BY <2>1, <3>1 DEF Lined
  <2>3. CASE ReplyIn(out, j)
    BY <2>1, <2>3, <1>3 DEF Lined, ReplyIn
  <2> QED
    BY <2>2, <2>3, <1>5
<1>10. Hand(rest, said) = Hand(in, out)
  <2>1. Range(in) = Range(rest) \union {in[1]}
    <3>1. \A i \in DOMAIN in : i = 1 \/ (i - 1 \in DOMAIN rest /\ rest[i - 1] = in[i])
      BY <1>1, <1>4
    <3>2. 1 \in DOMAIN in /\ Range(rest) \subseteq Range(in)
      BY <1>1, <1>4 DEF Range
    <3>3. \A x \in Range(in) : x = in[1] \/ x \in Range(rest)
      BY <3>1 DEF Range
    <3>4. in[1] \in Range(in)
      BY <3>2 DEF Range
    <3> QED
      BY <3>2, <3>3, <3>4
  <2>2. {said[i].id : i \in {j \in DOMAIN said : ReplyIn(said, j)}} =
        {out[i].id : i \in {j \in DOMAIN out : ReplyIn(out, j)}} \union {in[1]}
    BY <1>1, <1>2, <1>3, <1>5 DEF ReplyIn
  <2> QED
    BY <2>1, <2>2 DEF Hand
<1>11. \A i \in DOMAIN said : said[i].kind # "error"
  BY <1>1, <1>2, <1>3 DEF Lined
<1> QED
  BY <1>3, <1>4, <1>6, <1>8, <1>9, <1>10, <1>11 DEF Lined, rest, said, msg

\* The main thread handles a message and settles the call it answers, or all.
Settles(msg, known) ==
  CASE msg.kind = "ready" -> {}
    [] msg.kind = "reply" -> {msg.id} \intersect known
    [] msg.kind = "error" -> known

LEMMA LineHandled ==
  ASSUME NEW in, NEW out, NEW known, NEW gone \in BOOLEAN, Lined(in, out, known, gone), out # << >>
  PROVE  Lined(in, Tail(out), known \ Settles(Head(out), known), gone)
<1> DEFINE rest == Tail(out)
           left == known \ Settles(Head(out), known)
<1>1. /\ in \in Seq(Nat) /\ DOMAIN in = 1..Len(in) /\ Len(in) \in Nat
      /\ out \in Seq(Msg) /\ DOMAIN out = 1..Len(out) /\ Len(out) \in Nat /\ Len(out) >= 1
      /\ Head(out) = out[1] /\ out[1] \in Msg
  BY DEF Lined
<1>2. /\ rest \in Seq(Msg) /\ DOMAIN rest = 1..(Len(out) - 1) /\ Len(rest) = Len(out) - 1
      /\ \A i \in DOMAIN rest : rest[i] = out[i + 1] /\ i + 1 \in DOMAIN out
  BY <1>1
<1>3. out[1].kind \in {"ready", "reply", "error"}
  BY <1>1 DEF Msg
<1> HIDE DEF rest
<1>4. \A i \in DOMAIN rest : ReplyIn(rest, i) <=> ReplyIn(out, i + 1)
  BY <1>2 DEF ReplyIn
<1>5. \A i, j \in DOMAIN rest : ReplyIn(rest, i) /\ ReplyIn(rest, j) /\ i < j => rest[i].id < rest[j].id
  <2> SUFFICES ASSUME NEW i \in DOMAIN rest, NEW j \in DOMAIN rest, ReplyIn(rest, i), ReplyIn(rest, j), i < j
               PROVE  rest[i].id < rest[j].id
    OBVIOUS
  <2>1. i \in Nat /\ j \in Nat /\ i + 1 < j + 1
    BY <1>2
  <2> QED
    BY <2>1, <1>2, <1>4 DEF Lined
<1>6. \A i \in DOMAIN rest, j \in DOMAIN in : ReplyIn(rest, i) => rest[i].id < in[j]
  BY <1>2, <1>4 DEF Lined
<1>7. \A i \in DOMAIN rest : rest[i].kind = "error" => i = Len(rest) /\ gone
  <2> SUFFICES ASSUME NEW i \in DOMAIN rest, rest[i].kind = "error" PROVE i = Len(rest) /\ gone
    OBVIOUS
  <2>1. i \in Nat /\ i + 1 = Len(out) /\ gone
    BY <1>1, <1>2 DEF Lined
  <2> QED
    BY <2>1, <1>1, <1>2
<1> DEFINE back == {out[i].id : i \in {j \in DOMAIN out : ReplyIn(out, j)}}
           kept == {rest[i].id : i \in {j \in DOMAIN rest : ReplyIn(rest, j)}}
<1>8. /\ ReplyIn(out, 1) => back = kept \union {out[1].id} /\ out[1].id \notin kept
      /\ ~ReplyIn(out, 1) => back = kept
  <2>1. \A i \in DOMAIN out : i = 1 \/ (i - 1 \in DOMAIN rest /\ rest[i - 1] = out[i] /\ (ReplyIn(out, i) <=> ReplyIn(rest, i - 1)))
    BY <1>1, <1>2 DEF ReplyIn
  <2>2. 1 \in DOMAIN out /\ kept \subseteq back
    BY <1>1, <1>2, <1>4
  <2>3. \A x \in back : x \in kept \/ (ReplyIn(out, 1) /\ x = out[1].id)
    BY <2>1
  <2>4. ReplyIn(out, 1) => out[1].id \notin kept
    <3> SUFFICES ASSUME ReplyIn(out, 1), NEW i \in DOMAIN rest, ReplyIn(rest, i) PROVE out[1].id # rest[i].id
      OBVIOUS
    <3>1. out[1].id < out[i + 1].id /\ out[1].id \in Nat
      <4>1. 1 < i + 1 /\ i + 1 \in DOMAIN out /\ ReplyIn(out, i + 1)
        BY <1>2, <1>4
      <4> QED
        BY <2>2, <4>1, <1>1 DEF Lined, ReplyIn, Msg
    <3> QED
      BY <3>1, <1>2
  <2> QED
    BY <2>2, <2>3, <2>4
<1> HIDE DEF back, kept
<1>9. Hand(in, out) = Range(in) \union back /\ Hand(in, rest) = Range(in) \union kept
  BY DEF Hand, back, kept
<1>10. ReplyIn(out, 1) => out[1].id \notin Range(in)
  <2> SUFFICES ASSUME ReplyIn(out, 1), NEW j \in DOMAIN in PROVE out[1].id # in[j]
    BY DEF Range
  <2> QED
    BY <1>1 DEF Lined, ReplyIn, Msg
<1>11. Hand(in, rest) \subseteq left /\ (~gone => Hand(in, rest) = left)
  <2>1. CASE out[1].kind = "ready"
    BY <2>1, <1>1, <1>8, <1>9 DEF Settles, ReplyIn, Lined
  <2>2. CASE out[1].kind = "reply"
    <3>1. ReplyIn(out, 1) /\ Settles(Head(out), known) = {out[1].id} \intersect known
      BY <2>2, <1>1 DEF ReplyIn, Settles
    <3> QED
      BY <3>1, <1>8, <1>9, <1>10 DEF Lined
  <2>3. CASE out[1].kind = "error"
    <3>1. Len(out) = 1 /\ gone /\ in = << >>
      BY <2>3, <1>1 DEF Lined
    <3>2. DOMAIN rest = {} /\ Range(in) = {}
      BY <3>1, <1>2 DEF Range
    <3> QED
      BY <3>1, <3>2, <1>9 DEF kept
  <2> QED
    BY <2>1, <2>2, <2>3, <1>3
<1> QED
  BY <1>2, <1>5, <1>6, <1>7, <1>11 DEF Lined, rest

\* A call is made, with an id above all that are known.
LEMMA LineCalled ==
  ASSUME NEW in, NEW out, NEW known \in SUBSET Nat, NEW gone \in BOOLEAN, Lined(in, out, known, gone),
         NEW id \in Nat, \A k \in known : k < id
  PROVE  /\ gone => Lined(in, out, known \union {id}, gone)
         /\ ~gone => Lined(Append(in, id), out, known \union {id}, gone)
<1>1. /\ in \in Seq(Nat) /\ DOMAIN in = 1..Len(in) /\ Len(in) \in Nat
      /\ out \in Seq(Msg) /\ DOMAIN out = 1..Len(out)
  BY DEF Lined
<1>2. ASSUME gone PROVE Lined(in, out, known \union {id}, gone)
  BY <1>2 DEF Lined
<1>3. ASSUME ~gone PROVE Lined(Append(in, id), out, known \union {id}, gone)
  <2> DEFINE more == Append(in, id)
  <2>1. /\ more \in Seq(Nat) /\ DOMAIN more = 1..(Len(in) + 1)
        /\ more[Len(in) + 1] = id /\ \A i \in DOMAIN in : more[i] = in[i]
    BY <1>1
  <2> HIDE DEF more
  <2>2. Range(more) = Range(in) \union {id}
    <3>1. \A i \in DOMAIN more : i = Len(in) + 1 \/ i \in DOMAIN in
      BY <1>1, <2>1
    <3>2. DOMAIN in \subseteq DOMAIN more /\ Len(in) + 1 \in DOMAIN more
      BY <1>1, <2>1
    <3>3. Range(in) \subseteq Range(more) /\ id \in Range(more)
      BY <2>1, <3>2 DEF Range
    <3>4. \A x \in Range(more) : x = id \/ x \in Range(in)
      BY <2>1, <3>1 DEF Range
    <3> QED
      BY <3>3, <3>4
  <2>3. Hand(more, out) = Hand(in, out) \union {id}
    BY <2>2 DEF Hand
  <2>4. /\ \A j \in DOMAIN in : in[j] < id
        /\ \A i \in DOMAIN out : ReplyIn(out, i) => out[i].id < id
    <3>1. \A j \in DOMAIN in : in[j] \in Hand(in, out)
      BY DEF Hand, Range
    <3>2. \A i \in DOMAIN out : ReplyIn(out, i) => out[i].id \in Hand(in, out)
      BY DEF Hand
    <3> QED
      BY <3>1, <3>2 DEF Lined
  <2>5. \A i, j \in DOMAIN more : i < j => more[i] < more[j]
    <3> SUFFICES ASSUME NEW i \in DOMAIN more, NEW j \in DOMAIN more, i < j PROVE more[i] < more[j]
      OBVIOUS
    <3>1. i \in DOMAIN in /\ more[i] = in[i]
      BY <1>1, <2>1
    <3>2. CASE j = Len(in) + 1
      BY <3>1, <3>2, <2>1, <2>4
    <3>3. CASE j \in DOMAIN in
      BY <3>1, <3>3, <2>1 DEF Lined
    <3> QED
      BY <3>2, <3>3, <1>1, <2>1
  <2>6. \A i \in DOMAIN out, j \in DOMAIN more : ReplyIn(out, i) => out[i].id < more[j]
    <3> SUFFICES ASSUME NEW i \in DOMAIN out, NEW j \in DOMAIN more, ReplyIn(out, i) PROVE out[i].id < more[j]
      OBVIOUS
    <3>1. CASE j = Len(in) + 1
      BY <3>1, <2>1, <2>4
    <3>2. CASE j \in DOMAIN in
      BY <3>2, <2>1 DEF Lined
    <3> QED
      BY <3>1, <3>2, <1>1, <2>1
  <2> QED
    BY <1>3, <1>1, <2>1, <2>3, <2>5, <2>6 DEF Lined, more
<1> QED
  BY <1>2, <1>3

\* A worker is gone, or not there yet; the readers there are have been started.
Threads ==
  /\ thread \in [Worker -> {"none", "booting", "serving", "gone"}]
  /\ readers \in 0..MaxReaders
  /\ \A w \in Worker : w > readers => thread[w] = "none"
  /\ opening = "writer" => readers = 0
  /\ opening \in {"readers", "open"} => readers >= 1

InLine ==
  /\ inbox = [w \in Worker |-> inbox[w]] /\ outbox = [w \in Worker |-> outbox[w]]
  /\ \A w \in Worker : Lined(inbox[w], outbox[w], pending[w], thread[w] = "gone")

Waiting ==
  /\ call \in Seq(CallRow)
  /\ pending \in [Worker -> SUBSET (1..Len(call))]
  /\ \A id \in DOMAIN call : call[id].status = "waiting" <=> \E w \in Worker : id \in pending[w]
  /\ \A v, w \in Worker : v # w => pending[v] \intersect pending[w] = {}

BrokerInv == Threads /\ InLine /\ Waiting

LEMMA LineSuffices == BrokerInv => CallsInLine
<1> SUFFICES ASSUME BrokerInv PROVE CallsInLine
  OBVIOUS
<1>1. ASSUME NEW w \in Worker
      PROVE  InOrderOfCalls(w) /\ InHand(w) \subseteq pending[w] /\ (thread[w] # "gone" => InHand(w) = pending[w])
  <2>1. Lined(inbox[w], outbox[w], pending[w], thread[w] = "gone")
    BY DEF BrokerInv, InLine
  <2>2. InHand(w) = Hand(inbox[w], outbox[w])
    BY DEF InHand, Hand, ReplyAt, ReplyIn
  <2>3. InOrderOfCalls(w)
    BY <2>1 DEF InOrderOfCalls, Lined, ReplyAt, ReplyIn
  <2> QED
    BY <2>1, <2>2, <2>3 DEF Lined
<1> QED
  BY <1>1 DEF CallsInLine, BrokerInv, Waiting

LEMMA BrokerBounds == MinReaders \in Nat /\ MinReaders >= 1 /\ MaxReaders \in Nat /\ MinReaders <= MaxReaders
  BY BrokerAssumption

\* One worker's line moves on, what is known of calls stays.
LEMMA LineKeeps ==
  ASSUME BrokerInv, NEW w \in Worker, Threads', UNCHANGED <<pending, call>>,
         inbox' = [inbox EXCEPT ![w] = inbox'[w]], outbox' = [outbox EXCEPT ![w] = outbox'[w]],
         \A v \in Worker : v # w => (thread'[v] = "gone" <=> thread[v] = "gone"),
         Lined(inbox'[w], outbox'[w], pending[w], thread'[w] = "gone")
  PROVE  BrokerInv'
<1>1. Waiting'
  BY DEF BrokerInv, Waiting
<1>2. InLine'
  BY DEF BrokerInv, InLine
<1> QED
  BY <1>1, <1>2 DEF BrokerInv

LEMMA BrokerStays ==
  ASSUME BrokerInv, UNCHANGED <<opening, readers, thread, inbox, outbox, pending, call>>
  PROVE  BrokerInv'
  BY DEF BrokerInv, Threads, InLine, Waiting

\* A thread's own step.
LEMMA ThreadKeeps ==
  ASSUME BrokerInv, NEW w \in Worker, Boot(w) \/ Die(w) \/ Exit(w) \/ Serve(w)
  PROVE  BrokerInv'
<1>1. /\ UNCHANGED <<opening, readers, pending, call>> /\ thread[w] \in {"booting", "serving"}
      /\ \/ thread' = thread
         \/ thread' = [thread EXCEPT ![w] = "serving"]
         \/ thread' = [thread EXCEPT ![w] = "gone"]
  BY DEF Boot, Die, Exit, Serve
<1>2. /\ Threads' /\ \A v \in Worker : v # w => (thread'[v] = "gone" <=> thread[v] = "gone")
  BY <1>1 DEF BrokerInv, Threads
<1>3. Lined(inbox[w], outbox[w], pending[w], FALSE)
  BY <1>1 DEF BrokerInv, InLine
<1>4. inbox = [v \in Worker |-> inbox[v]] /\ outbox = [v \in Worker |-> outbox[v]] /\ thread \in [Worker -> {"none", "booting", "serving", "gone"}]
  BY DEF BrokerInv, InLine, Threads
<1>5. CASE Boot(w)
  <2>1. /\ outbox' = [outbox EXCEPT ![w] = Append(outbox[w], [kind |-> "ready"])] /\ inbox' = inbox
        /\ thread'[w] = "serving"
    BY <1>4, <1>5 DEF Boot, Post
  <2>2. outbox'[w] = Append(outbox[w], [kind |-> "ready"])
    BY <2>1, <1>4
  <2>3. Lined(inbox'[w], outbox'[w], pending[w], thread'[w] = "gone")
    BY <2>1, <2>2, <1>3, LineAnnounced
  <2> QED
    BY <2>1, <2>2, <2>3, <1>1, <1>2, <1>4, LineKeeps
<1>6. CASE Die(w)
  <2>1. /\ outbox' = [outbox EXCEPT ![w] = Append(outbox[w], [kind |-> "error"])]
        /\ inbox' = [inbox EXCEPT ![w] = << >>] /\ thread'[w] = "gone"
    BY <1>4, <1>6 DEF Die, Post
  <2>2. outbox'[w] = Append(outbox[w], [kind |-> "error"]) /\ inbox'[w] = << >>
    BY <2>1, <1>4
  <2>3. Lined(inbox'[w], outbox'[w], pending[w], thread'[w] = "gone")
    BY <2>1, <2>2, <1>3, LineAnnounced
  <2> QED
    BY <2>1, <2>2, <2>3, <1>1, <1>2, LineKeeps
<1>7. CASE Exit(w)
  <2>1. outbox' = outbox /\ inbox' = [inbox EXCEPT ![w] = << >>] /\ thread'[w] = "gone"
    BY <1>4, <1>7 DEF Exit
  <2>2. inbox'[w] = << >>
    BY <2>1, <1>4
  <2>3. Lined(inbox'[w], outbox'[w], pending[w], thread'[w] = "gone")
    BY <2>1, <2>2, <1>3, LineAnnounced
  <2> QED
    BY <2>1, <2>2, <2>3, <1>1, <1>2, <1>4, LineKeeps
<1>8. CASE Serve(w)
  <2>1. PICK ok \in BOOLEAN :
          outbox' = [outbox EXCEPT ![w] = Append(outbox[w], [kind |-> "reply", id |-> Head(inbox[w]), ok |-> ok])]
    BY <1>8 DEF Serve, Reply, Post
  <2>2. inbox' = [inbox EXCEPT ![w] = Tail(inbox[w])] /\ inbox[w] # << >> /\ thread'[w] = "serving"
    BY <1>8 DEF Serve
  <2>3. outbox'[w] = Append(outbox[w], [kind |-> "reply", id |-> Head(inbox[w]), ok |-> ok]) /\ inbox'[w] = Tail(inbox[w])
    BY <2>1, <2>2, <1>4
  <2>4. Lined(inbox'[w], outbox'[w], pending[w], FALSE)
    BY <2>2, <2>3, <1>3, LineServed
  <2>5. Lined(inbox'[w], outbox'[w], pending[w], thread'[w] = "gone")
    BY <2>2, <2>4
  <2> QED
    BY <2>1, <2>2, <2>3, <2>5, <1>1, <1>2, LineKeeps
<1> QED
  BY <1>5, <1>6, <1>7, <1>8

\* The main thread handles a message: the calls it settles are nobody's any more.
LEMMA HandledKeeps ==
  ASSUME BrokerInv, NEW w \in Worker, NEW kind, Received(w, kind), Threads', UNCHANGED inbox,
         \A v \in Worker : thread'[v] = "gone" <=> thread[v] = "gone",
         NEW ids, ids = Settles(Head(outbox[w]), pending[w]),
         NEW status \in {"ok", "failed"},
         call' = [id \in DOMAIN call |-> IF id \in ids THEN [call[id] EXCEPT !.status = status] ELSE call[id]],
         pending' = [pending EXCEPT ![w] = pending[w] \ ids]
  PROVE  BrokerInv'
<1>1. /\ Len(call) \in Nat /\ DOMAIN call = 1..Len(call) /\ \A id \in 1..Len(call) : call[id] \in CallRow
      /\ pending \in [Worker -> SUBSET (1..Len(call))]
  BY DEF BrokerInv, Waiting
<1>2. /\ outbox' = [outbox EXCEPT ![w] = Tail(outbox[w])] /\ outbox[w] # << >>
      /\ Lined(inbox[w], outbox[w], pending[w], thread[w] = "gone")
  BY DEF Received, BrokerInv, InLine
<1>3. outbox[w] \in Seq(Msg) /\ Head(outbox[w]) \in Msg
  BY <1>2 DEF Lined
<1>4. ids \subseteq pending[w]
  <2>1. Head(outbox[w]).kind \in {"ready", "reply", "error"}
    BY <1>3 DEF Msg
  <2> QED
    BY <2>1 DEF Settles
<1>5. InLine'
  <2>1. Lined(inbox[w], Tail(outbox[w]), pending[w] \ ids, thread[w] = "gone")
    BY <1>2, LineHandled
  <2>2. outbox = [v \in Worker |-> outbox[v]] /\ inbox = [v \in Worker |-> inbox[v]]
    BY DEF BrokerInv, InLine
  <2>3. /\ outbox'[w] = Tail(outbox[w]) /\ pending'[w] = pending[w] \ ids /\ outbox' = [v \in Worker |-> outbox'[v]]
        /\ \A v \in Worker : v # w => outbox'[v] = outbox[v] /\ pending'[v] = pending[v]
    BY <1>1, <1>2, <2>2
  <2>4. ASSUME NEW v \in Worker PROVE Lined(inbox'[v], outbox'[v], pending'[v], thread'[v] = "gone")
    <3>1. CASE v = w
      BY <3>1, <2>1, <2>3
    <3>2. CASE v # w
      BY <3>2, <2>3 DEF BrokerInv, InLine
    <3> QED
      BY <3>1, <3>2
  <2> QED
    BY <2>2, <2>3, <2>4 DEF InLine
<1>6. Waiting'
  <2>1. \A id \in 1..Len(call) : [call[id] EXCEPT !.status = status] \in CallRow
                                 /\ [call[id] EXCEPT !.status = status].status = status
    BY <1>1 DEF CallRow
  <2>2. call' \in [1..Len(call) -> CallRow]
    BY <1>1, <2>1
  <2>3. call' \in Seq(CallRow) /\ Len(call') = Len(call) /\ DOMAIN call' = 1..Len(call)
    BY <1>1, <2>2
  <2>4. pending' \in [Worker -> SUBSET (1..Len(call))] /\ \A v \in Worker : pending'[v] = IF v = w THEN pending[w] \ ids ELSE pending[v]
    BY <1>1
  <2>5. \A v, u \in Worker : v # u => pending'[v] \intersect pending'[u] = {}
    BY <2>4 DEF BrokerInv, Waiting
  <2>6. ASSUME NEW id \in 1..Len(call)
        PROVE  call'[id].status = "waiting" <=> \E v \in Worker : id \in pending'[v]
    <3>1. CASE id \in ids
      <4>1. call'[id].status # "waiting"
        BY <3>1, <1>1, <2>1
      <4>2. \A v \in Worker : v # w => id \notin pending[v]
        BY <3>1, <1>4 DEF BrokerInv, Waiting
      <4> QED
        BY <3>1, <4>1, <4>2, <2>4
    <3>2. CASE id \notin ids
      <4>1. call'[id] = call[id] /\ \A v \in Worker : id \in pending'[v] <=> id \in pending[v]
        BY <3>2, <1>1, <2>4
      <4> QED
        BY <4>1, <1>1 DEF BrokerInv, Waiting
    <3> QED
      BY <3>1, <3>2
  <2> QED
    BY <2>3, <2>4, <2>5, <2>6 DEF Waiting
<1> QED
  BY <1>5, <1>6 DEF BrokerInv

\* Threads that are started were not there.
LEMMA StartedKeep ==
  ASSUME Threads, NEW first \in Nat, NEW last \in 0..MaxReaders, readers < first, readers <= last,
         thread' = Boots(first, last), readers' = last,
         opening' = "writer" => last = 0, opening' \in {"readers", "open"} => last >= 1
  PROVE  Threads' /\ \A v \in Worker : thread'[v] = "gone" <=> thread[v] = "gone"
<1>1. \A v \in Worker : v \in Int /\ thread'[v] = IF v \in first..last THEN "booting" ELSE thread[v]
  BY BrokerBounds DEF Boots, Worker
<1>2. readers \in Int /\ first \in Int /\ last \in Int
  BY DEF Threads
<1>3. \A v \in Worker : v \in first..last => thread[v] = "none"
  BY <1>1, <1>2 DEF Threads
<1>4. \A v \in Worker : v > last => thread'[v] = "none"
  BY <1>1, <1>2 DEF Threads
<1>5. thread' \in [Worker -> {"none", "booting", "serving", "gone"}]
  BY <1>1 DEF Boots, Threads
<1> QED
  BY <1>1, <1>3, <1>4, <1>5 DEF Threads

LEMMA HandlersKeep ==
  ASSUME BrokerInv, NEW w \in Worker, OnReady(w) \/ OnReply(w) \/ OnError(w)
  PROVE  BrokerInv'
<1>1. call \in Seq(CallRow) /\ DOMAIN call = 1..Len(call) /\ pending \in [Worker -> SUBSET (1..Len(call))]
  BY DEF BrokerInv, Waiting
<1>2. CASE OnReady(w)
  <2>1. Received(w, "ready") /\ UNCHANGED <<inbox, pending, call>>
    BY <1>2 DEF OnReady
  <2>2. Settles(Head(outbox[w]), pending[w]) = {}
    BY <2>1 DEF Received, Settles
  <2>3. Threads' /\ \A v \in Worker : thread'[v] = "gone" <=> thread[v] = "gone"
    <3>1. CASE opening = "writer"
      <4>1. opening' = "readers" /\ readers' = MinReaders /\ thread' = Boots(1, MinReaders) /\ readers = 0
        BY <1>2, <3>1 DEF OnReady, BrokerInv, Threads
      <4> QED
        BY <4>1, BrokerBounds, StartedKeep DEF BrokerInv
    <3>2. CASE opening # "writer"
      BY <1>2, <3>2 DEF OnReady, BrokerInv, Threads
    <3> QED
      BY <3>1, <3>2
  <2>4. call' = [id \in DOMAIN call |-> IF id \in {} THEN [call[id] EXCEPT !.status = "failed"] ELSE call[id]]
    BY <1>1, <2>1
  <2>5. pending' = [pending EXCEPT ![w] = pending[w] \ {}]
    BY <1>1, <2>1
  <2> QED
    BY <2>1, <2>2, <2>3, <2>4, <2>5, HandledKeeps
<1>3. ASSUME Received(w, "reply") \/ Received(w, "error"), UNCHANGED <<readers, thread, inbox>>,
             opening' = opening \/ opening' = "failed",
             NEW ids, ids = Settles(Head(outbox[w]), pending[w]), NEW status \in {"ok", "failed"}, Settle(ids, status),
             pending' = [pending EXCEPT ![w] = pending[w] \ ids]
      PROVE  BrokerInv'
  <2>1. Threads'
    BY <1>3 DEF BrokerInv, Threads
  <2> QED
    BY <2>1, <1>3, HandledKeeps DEF Settle
<1>4. CASE OnReply(w)
  <2> DEFINE ids == {Head(outbox[w]).id} \intersect pending[w]
             status == IF Head(outbox[w]).ok THEN "ok" ELSE "failed"
  <2>1. /\ Received(w, "reply") /\ UNCHANGED <<opening, readers, thread, inbox>>
        /\ Settle(ids, status) /\ pending' = [pending EXCEPT ![w] = pending[w] \ ids]
    BY <1>4 DEF OnReply
  <2>2. ids = Settles(Head(outbox[w]), pending[w])
    BY <2>1 DEF Received, Settles
  <2>3. status \in {"ok", "failed"}
    OBVIOUS
  <2> HIDE DEF ids, status
  <2> QED
    BY <2>1, <2>2, <2>3, <1>3
<1>5. CASE OnError(w)
  <2>1. /\ Received(w, "error") /\ UNCHANGED <<readers, thread, inbox>> /\ (opening' = opening \/ opening' = "failed")
        /\ Settle(pending[w], "failed") /\ pending' = [pending EXCEPT ![w] = {}]
    BY <1>5 DEF OnError
  <2>2. pending[w] = Settles(Head(outbox[w]), pending[w])
    BY <2>1 DEF Received, Settles
  <2>3. pending' = [pending EXCEPT ![w] = pending[w] \ pending[w]]
    BY <2>1
  <2> QED
    BY <2>1, <2>2, <2>3, <1>3
<1> QED
  BY <1>2, <1>4, <1>5

\* A call that is made waits with one worker.
LEMMA ExecKeeps ==
  ASSUME BrokerInv, NEW w \in Worker, NEW op \in {"read", "write"}, Exec(w, op), UNCHANGED outbox,
         Threads', thread'[w] = "gone" <=> thread[w] = "gone",
         \A v \in Worker : thread'[v] = "gone" <=> thread[v] = "gone"
  PROVE  BrokerInv'
<1> DEFINE id == Len(call) + 1
           row == [op |-> op, status |-> "waiting"]
<1>1. /\ call \in Seq(CallRow) /\ Len(call) \in Nat /\ DOMAIN call = 1..Len(call) /\ id \in Nat
      /\ pending \in [Worker -> SUBSET (1..Len(call))]
  BY DEF BrokerInv, Waiting
<1>2. /\ call' = Append(call, row)
      /\ pending' = [pending EXCEPT ![w] = pending[w] \union {id}]
      /\ inbox' = IF thread[w] = "gone" THEN inbox ELSE [inbox EXCEPT ![w] = Append(inbox[w], id)]
  BY DEF Exec
<1>3. row \in CallRow /\ row.status = "waiting"
  BY DEF CallRow
<1> HIDE DEF row
<1>4. /\ call' \in Seq(CallRow) /\ Len(call') = id /\ DOMAIN call' = 1..id
      /\ call'[id] = row /\ \A i \in 1..Len(call) : call'[i] = call[i]
  BY <1>1, <1>2, <1>3
<1>5. \A v \in Worker : pending[v] \subseteq Nat /\ \A k \in pending[v] : k < id /\ k # id
  BY <1>1
<1>6. 1..Len(call) \subseteq 1..id /\ id \in 1..id /\ \A i \in 1..id : i = id \/ i \in 1..Len(call)
  BY <1>1
<1> HIDE DEF id
<1>7. \A v \in Worker : pending'[v] = IF v = w THEN pending[w] \union {id} ELSE pending[v]
  BY <1>1, <1>2
<1>8. Waiting'
  <2>1. pending' \in [Worker -> SUBSET (1..id)]
    BY <1>1, <1>2, <1>6
  <2>2. \A v, u \in Worker : v # u => pending'[v] \intersect pending'[u] = {}
    BY <1>5, <1>7 DEF BrokerInv, Waiting
  <2>3. ASSUME NEW i \in 1..id PROVE call'[i].status = "waiting" <=> \E v \in Worker : i \in pending'[v]
    <3>1. CASE i = id
      BY <3>1, <1>3, <1>4, <1>7
    <3>2. CASE i # id
      <4>1. i \in 1..Len(call) /\ \A v \in Worker : i \in pending'[v] <=> i \in pending[v]
        BY <3>2, <1>6, <1>7
      <4> QED
        BY <4>1, <1>1, <1>4 DEF BrokerInv, Waiting
    <3> QED
      BY <3>1, <3>2
  <2> QED
    BY <1>4, <2>1, <2>2, <2>3 DEF Waiting
<1>9. InLine'
  <2>1. inbox = [v \in Worker |-> inbox[v]]
    BY DEF BrokerInv, InLine
  <2>2. /\ inbox' = [v \in Worker |-> inbox'[v]]
        /\ inbox'[w] = IF thread[w] = "gone" THEN inbox[w] ELSE Append(inbox[w], id)
        /\ \A v \in Worker : v # w => inbox'[v] = inbox[v]
    BY <1>2, <2>1
  <2>3. ASSUME NEW v \in Worker PROVE Lined(inbox'[v], outbox'[v], pending'[v], thread'[v] = "gone")
    <3>1. CASE v = w
      <4>1. Lined(inbox[w], outbox[w], pending[w], thread[w] = "gone")
        BY DEF BrokerInv, InLine
      <4>2. Lined(inbox'[w], outbox[w], pending[w] \union {id}, thread[w] = "gone")
        <5>1. pending[w] \in SUBSET Nat /\ \A k \in pending[w] : k < id
          BY <1>5
        <5>2. CASE thread[w] = "gone"
          <6>1. Lined(inbox[w], outbox[w], pending[w], TRUE)
            BY <4>1, <5>2
          <6>2. Lined(inbox[w], outbox[w], pending[w] \union {id}, TRUE)
            BY <6>1, <5>1, <1>1, LineCalled
          <6> QED
            BY <6>2, <5>2, <2>2
        <5>3. CASE thread[w] # "gone"
          <6>1. Lined(inbox[w], outbox[w], pending[w], FALSE)
            BY <4>1, <5>3
          <6>2. Lined(Append(inbox[w], id), outbox[w], pending[w] \union {id}, FALSE)
            BY <6>1, <5>1, <1>1, LineCalled
          <6> QED
            BY <6>2, <5>3, <2>2
        <5> QED
          BY <5>2, <5>3
      <4> QED
        BY <3>1, <4>2, <1>7
    <3>2. CASE v # w
      BY <3>2, <2>2, <1>7 DEF BrokerInv, InLine
    <3> QED
      BY <3>1, <3>2
  <2> QED
    BY <2>2, <2>3 DEF BrokerInv, InLine
<1> QED
  BY <1>8, <1>9 DEF BrokerInv

\* A least element of a set of naturals.
LEMMA LeastNat ==
  ASSUME NEW S \in SUBSET Nat, S # {}
  PROVE  \E k \in S : \A j \in S : k <= j
<1>1. PICK k \in S : \A j \in S : ~(<<j, k>> \in OpToRel(<, Nat))
  BY NatLessThanWellFounded, WFMin
<1>2. \A j \in S : j \in Nat /\ k \in Nat /\ ~(j < k)
  BY <1>1 DEF OpToRel
<1> QED
  BY <1>2

\* The reader that is picked is one of the readers.
LEMMA LeastBusyIs ==
  ASSUME Waiting, NEW n \in Nat, n >= 1, n <= MaxReaders
  PROVE  LeastBusy(n) \in 1..n
<1> DEFINE turn == 1 + (Cardinality({id \in DOMAIN call : call[id].op = "read"}) % n)
           least == {r \in 1..n : \A s \in 1..n : Inflight(r) <= Inflight(s)}
<1>1. \A r \in 1..n : Inflight(r) \in Nat
  <2> SUFFICES ASSUME NEW r \in 1..n PROVE Inflight(r) \in Nat
    OBVIOUS
  <2>1. pending[r] \subseteq 1..Len(call) /\ Len(call) \in Int /\ 1 \in Int
    BY BrokerBounds DEF Waiting, Worker
  <2>2. IsFiniteSet(1..Len(call))
    BY <2>1, FS_Interval
  <2>3. IsFiniteSet(pending[r])
    BY <2>1, <2>2, FS_Subset
  <2> QED
    BY <2>3, FS_CardinalityType DEF Inflight
<1>2. least # {}
  <2> DEFINE loads == {Inflight(r) : r \in 1..n}
  <2>1. loads \in SUBSET Nat /\ loads # {}
    <3>1. 1 \in 1..n
      OBVIOUS
    <3> QED
      BY <1>1, <3>1
  <2>2. PICK k \in loads : \A j \in loads : k <= j
    BY <2>1, LeastNat
  <2> QED
    BY <2>2
<1> HIDE DEF least
<1>3. \E r \in least : \A s \in least : r <= s
  <2>1. least \in SUBSET Nat
    BY DEF least
  <2> QED
    BY <2>1, <1>2, LeastNat
<1>4. LeastBusy(n) \in least
  <2>1. LeastBusy(n) = IF turn \in least THEN turn ELSE CHOOSE r \in least : \A s \in least : r <= s
    BY DEF LeastBusy, least
  <2> HIDE DEF turn
  <2> QED
    BY <2>1, <1>3
<1> QED
  BY <1>4 DEF least

LEMMA CallsKeep ==
  ASSUME BrokerInv, Read \/ Write
  PROVE  BrokerInv'
<1>1. readers \in Nat /\ readers >= 1 /\ readers <= MaxReaders
  BY BrokerBounds DEF Read, Write, BrokerInv, Threads
<1>2. CASE Read
  <2>1. /\ Exec(LeastBusy(readers'), "read") /\ UNCHANGED <<opening, outbox>> /\ opening = "open"
        /\ \/ UNCHANGED <<readers, thread>>
           \/ readers < MaxReaders /\ readers' = readers + 1 /\ thread' = Boots(readers + 1, readers + 1)
    BY <1>1, <1>2, BrokerBounds DEF Read, NoScaleUp
  <2>2. /\ readers' \in Nat /\ readers' >= 1 /\ readers' <= MaxReaders
        /\ Threads' /\ \A v \in Worker : thread'[v] = "gone" <=> thread[v] = "gone"
    <3>1. CASE UNCHANGED <<readers, thread>>
      BY <3>1, <2>1, <1>1 DEF BrokerInv, Threads
    <3>2. CASE readers < MaxReaders /\ readers' = readers + 1 /\ thread' = Boots(readers + 1, readers + 1)
      <4>1. readers + 1 \in Nat /\ readers + 1 \in 0..MaxReaders /\ readers < readers + 1 /\ readers + 1 >= 1
        BY <3>2, <1>1, BrokerBounds
      <4>2. PICK more \in Nat : more = readers + 1
        BY <4>1
      <4> QED
        BY <3>2, <4>1, <4>2, <2>1, <1>1, BrokerBounds, StartedKeep DEF BrokerInv
    <3> QED
      BY <3>1, <3>2, <2>1
  <2>3. LeastBusy(readers') \in Worker
    <3>1. PICK n \in Nat : n = readers' /\ n >= 1 /\ n <= MaxReaders
      BY <2>2
    <3>2. 1..n \subseteq Worker
      BY <3>1, BrokerBounds DEF Worker
    <3> QED
      BY <3>1, <3>2, LeastBusyIs DEF BrokerInv
  <2> QED
    BY <2>1, <2>2, <2>3, ExecKeeps
<1>3. CASE Write
  <2>1. Exec(Writer, "write") /\ UNCHANGED <<opening, readers, thread, outbox>> /\ Writer \in Worker
    BY <1>3, BrokerBounds DEF Write, Writer, Worker
  <2>2. Threads'
    BY <2>1 DEF BrokerInv, Threads
  <2> QED
    BY <2>1, <2>2, ExecKeeps
<1> QED
  BY <1>2, <1>3

LEMMA BrokerStart ==
  ASSUME StreamInit
  PROVE  BrokerInv
<1>1. /\ opening = "writer" /\ readers = 0 /\ call = << >>
      /\ thread = [w \in Worker |-> IF w = Writer THEN "booting" ELSE "none"]
      /\ inbox = [w \in Worker |-> << >>] /\ outbox = [w \in Worker |-> << >>]
      /\ pending = [w \in Worker |-> {}]
  BY DEF StreamInit, BrokerInit
<1>2. Threads
  BY <1>1, BrokerBounds DEF Threads, Worker, Writer
<1>3. InLine
  <2>1. << >> \in Seq(Nat) /\ << >> \in Seq(Msg) /\ DOMAIN << >> = {}
    OBVIOUS
  <2>2. Hand(<< >>, << >>) = {}
    BY <2>1 DEF Hand, Range
  <2>3. Lined(<< >>, << >>, {}, FALSE)
    BY <2>1, <2>2 DEF Lined
  <2> QED
    BY <1>1, <2>3 DEF InLine
<1>4. Waiting
  BY <1>1 DEF Waiting
<1> QED
  BY <1>2, <1>3, <1>4 DEF BrokerInv

LEMMA BrokerStep ==
  ASSUME BrokerInv, [StreamNext]_streamVars
  PROVE  BrokerInv'
<1>1. CASE UNCHANGED broker
  BY <1>1, BrokerStays DEF broker
<1>2. CASE Steps
  BY <1>2, ThreadKeeps, HandlersKeep DEF Steps
<1>3. CASE Close
  BY <1>3, BrokerStays DEF Close
<1>4. CASE Stream
  <2>1. Read \/ Write \/ UNCHANGED broker
    BY <1>4 DEF Stream, LookUp, Replace, Handled, Fail, Return
  <2> QED
    BY <2>1, <1>1, CallsKeep
<1>5. CASE Others
  BY <1>5, CallsKeep DEF Others
<1> QED
  BY <1>1, <1>2, <1>3, <1>4, <1>5 DEF StreamNext, streamVars

(* A call in hand is with one worker, once, and a worker answers in the     *)
(* order of the calls, through threads that die and readers that are added  *)
(* under load, until the main thread has settled it (broker.ts:41-70,       *)
(* :119-147).                                                               *)
THEOREM CallsAreInLine == StreamSpec => []CallsInLine
<1>1. StreamInit => BrokerInv
  BY BrokerStart
<1>2. BrokerInv /\ [StreamNext]_streamVars => BrokerInv'
  BY BrokerStep
<1> QED
  BY <1>1, <1>2, LineSuffices, PTL DEF StreamSpec

--------------------------------------------------------------------------------
(* An ingest over the broker (IngestStream).  What is handled, in hand and   *)
(* buffered are the documents pulled, in order; and only a consumer that     *)
(* was given a batch holds one.                                              *)
Consecutive(docs, first) == \A i \in 1..Len(docs) : docs[i] = first + i - 1
After(docs) == docs[1] + Len(docs)

InOrder ==
  /\ pulled \in Nat /\ handled \in Seq(Nat) /\ batch \in Seq(Nat) /\ queue \in Seq(Seq(Nat))
  /\ Consecutive(handled, 1)
  /\ Consecutive(batch, Len(handled) + 1)
  /\ \A k \in 1..Len(queue) : Len(queue[k]) > 0 /\ Consecutive(queue[k], queue[k][1])
  /\ \A k \in 1..(Len(queue) - 1) : queue[k + 1][1] = After(queue[k])
  /\ queue = << >> => Len(handled) + Len(batch) = pulled
  /\ queue # << >> => queue[1][1] = Len(handled) + Len(batch) + 1 /\ After(queue[Len(queue)]) = pulled + 1

Sides ==
  /\ producer \in {"check", "asleep", "pulling", "done", "threw"}
  /\ consumer \in {"check", "asleep", "yielded", "left", "done", "threw"}
  /\ consumer \notin {"yielded", "left"} => batch = << >>
  /\ consumer \in {"done", "threw"} => Drained
  /\ docCall # 0 => consumer = "yielded" /\ batch # << >>
  /\ result = "returned" => consumer = "done"

StreamInv == InOrder /\ Sides

LEMMA OrderStays ==
  ASSUME InOrder, UNCHANGED <<pulled, handled, batch, queue>>
  PROVE  InOrder'
<1> QED
  BY DEF InOrder

\* The source yields a batch.
LEMMA PullKeepsOrder ==
  ASSUME InOrder, PullBatch, UNCHANGED handled
  PROVE  InOrder'
<1>1. PICK n \in 1..MaxBatch : pulled' = pulled + n /\ queue' = Append(queue, [i \in 1..n |-> pulled + i])
  BY DEF PullBatch
<1> DEFINE docs == [i \in 1..n |-> pulled + i]
<1>2. n \in Nat /\ n > 0 /\ pulled \in Nat /\ pulled' \in Nat
  BY <1>1, PrefetchAssumption DEF InOrder
<1>3. docs \in Seq(Nat) /\ Len(docs) = n /\ docs[1] = pulled + 1 /\ Consecutive(docs, docs[1])
  BY <1>2 DEF Consecutive
<1>4. queue' = Append(queue, docs)
  BY <1>1
<1> HIDE DEF docs
<1>5. queue \in Seq(Seq(Nat)) /\ Len(queue) \in Nat
  BY DEF InOrder
<1>6. /\ queue' \in Seq(Seq(Nat)) /\ Len(queue') = Len(queue) + 1 /\ queue' # << >>
      /\ queue'[Len(queue')] = docs /\ \A k \in 1..Len(queue) : queue'[k] = queue[k]
  BY <1>3, <1>4, <1>5
<1>7. \A k \in 1..Len(queue') : k = Len(queue) + 1 \/ k \in 1..Len(queue)
  BY <1>5, <1>6
<1>8. \A k \in 1..Len(queue') : Len(queue'[k]) > 0 /\ Consecutive(queue'[k], queue'[k][1])
  BY <1>2, <1>3, <1>6, <1>7 DEF InOrder
<1>9. After(docs) = pulled' + 1
  BY <1>1, <1>2, <1>3 DEF After
<1>10. ASSUME NEW k \in 1..(Len(queue') - 1) PROVE queue'[k + 1][1] = After(queue'[k])
  <2>1. k \in 1..Len(queue) /\ queue'[k] = queue[k]
    BY <1>5, <1>6
  <2>2. CASE k = Len(queue)
    <3>1. queue # << >> /\ After(queue[k]) = pulled + 1
      BY <2>1, <2>2 DEF InOrder
    <3> QED
      BY <2>1, <2>2, <3>1, <1>3, <1>6
  <2>3. CASE k # Len(queue)
    <3>1. k \in 1..(Len(queue) - 1) /\ k + 1 \in 1..Len(queue)
      BY <2>1, <2>3, <1>5
    <3> QED
      BY <2>1, <3>1, <1>6 DEF InOrder
  <2> QED
    BY <2>2, <2>3
<1>11. queue'[1][1] = Len(handled) + Len(batch) + 1
  <2>1. CASE queue = << >>
    <3>1. Len(handled) + Len(batch) = pulled /\ queue'[1] = docs
      BY <2>1, <1>6 DEF InOrder
    <3> QED
      BY <3>1, <1>3
  <2>2. CASE queue # << >>
    <3>1. 1 \in 1..Len(queue)
      BY <2>2, <1>5
    <3> QED
      BY <2>2, <3>1, <1>6 DEF InOrder
  <2> QED
    BY <2>1, <2>2
<1>12. batch' = batch /\ handled' = handled
  BY DEF PullBatch
<1> QED
  BY <1>2, <1>6, <1>8, <1>9, <1>10, <1>11, <1>12 DEF InOrder

\* The consumer is given the first batch of the queue.
LEMMA FirstOf ==
  ASSUME NEW s \in Seq(Seq(Nat)), s # << >>
  PROVE  /\ Head(s) = s[1] /\ Head(s) \in Seq(Nat) /\ Tail(s) \in Seq(Seq(Nat)) /\ Len(Tail(s)) = Len(s) - 1
         /\ \A k \in 1..Len(Tail(s)) : k + 1 \in 1..Len(s) /\ Tail(s)[k] = s[k + 1]
<1> QED
  OBVIOUS

LEMMA YieldKeepsOrder ==
  ASSUME InOrder, batch = << >>, queue # << >>, NEW docs \in Seq(Nat), queue[1] = docs, batch' = docs,
         queue' \in Seq(Seq(Nat)), Len(queue') = Len(queue) - 1,
         \A k \in 1..Len(queue') : k + 1 \in 1..Len(queue) /\ queue'[k] = queue[k + 1],
         pulled' = pulled, handled' = handled
  PROVE  InOrder'
<1>1. queue \in Seq(Seq(Nat)) /\ Len(queue) \in Nat /\ Len(queue) > 0 /\ 1 \in 1..Len(queue) /\ Len(queue) \in 1..Len(queue)
  BY DEF InOrder
<1>2. /\ queue' \in Seq(Seq(Nat)) /\ Len(queue') = Len(queue) - 1
      /\ \A k \in 1..Len(queue') : k + 1 \in 1..Len(queue) /\ queue'[k] = queue[k + 1]
  OBVIOUS
<1>3. docs[1] = Len(handled) + 1 /\ Len(handled) \in Nat /\ Len(docs) \in Nat
  BY <1>1 DEF InOrder
<1>4. Consecutive(docs, Len(handled) + 1)
  BY <1>1, <1>3 DEF InOrder
<1>5. \A k \in 1..Len(queue') : Len(queue'[k]) > 0 /\ Consecutive(queue'[k], queue'[k][1])
  BY <1>2 DEF InOrder
<1>6. ASSUME NEW k \in 1..(Len(queue') - 1) PROVE queue'[k + 1][1] = After(queue'[k])
  <2>1. k \in 1..Len(queue') /\ k + 1 \in 1..Len(queue') /\ k + 1 \in 1..(Len(queue) - 1)
    BY <1>1, <1>2
  <2> QED
    BY <2>1, <1>2 DEF InOrder
<1>7. After(docs) = Len(handled) + Len(docs) + 1
  BY <1>3 DEF After
<1>8. CASE Len(queue) = 1
  <2>1. After(queue[Len(queue)]) = pulled + 1 /\ pulled \in Nat
    BY DEF InOrder
  <2>2. queue' = << >>
    BY <1>8, <1>1, <1>2
  <2>3. After(docs) = pulled + 1
    BY <2>1, <1>8
  <2>4. Len(handled) + Len(docs) = pulled
    BY <2>1, <2>3, <1>3, <1>7
  <2> QED
    BY <2>2, <2>4, <1>2, <1>4, <1>5, <1>6 DEF InOrder
<1>9. CASE Len(queue) > 1
  <2>1. 1 \in 1..(Len(queue) - 1) /\ Len(queue') >= 1 /\ 1 \in 1..Len(queue') /\ Len(queue') \in 1..Len(queue')
        /\ queue' # << >>
    BY <1>9, <1>1, <1>2
  <2>2. queue'[1] = queue[2] /\ queue'[Len(queue')] = queue[Len(queue)]
    BY <2>1, <1>1, <1>2
  <2>3. queue[2][1] = After(docs)
    <3>1. queue[1 + 1][1] = After(queue[1])
      BY <2>1 DEF InOrder
    <3> QED
      BY <3>1
  <2>4. After(queue[Len(queue)]) = pulled + 1
    BY DEF InOrder
  <2> QED
    BY <2>1, <2>2, <2>3, <2>4, <1>2, <1>4, <1>5, <1>6, <1>7 DEF InOrder
<1> QED
  BY <1>1, <1>8, <1>9

\* A document is handled.
LEMMA HandleKeepsOrder ==
  ASSUME InOrder, batch # << >>, Handle, UNCHANGED <<pulled, queue>>
  PROVE  InOrder'
<1>1. batch \in Seq(Nat) /\ Len(batch) \in Nat /\ Len(batch) > 0 /\ handled \in Seq(Nat) /\ Len(handled) \in Nat
  BY DEF InOrder
<1>2. Head(batch) = Len(handled) + 1 /\ Head(batch) \in Nat
  BY <1>1 DEF InOrder, Consecutive
<1>3. /\ handled' \in Seq(Nat) /\ Len(handled') = Len(handled) + 1 /\ handled'[Len(handled) + 1] = Len(handled) + 1
      /\ \A i \in 1..Len(handled) : handled'[i] = handled[i]
  BY <1>1, <1>2 DEF Handle
<1>4. /\ batch' \in Seq(Nat) /\ Len(batch') = Len(batch) - 1
      /\ \A i \in 1..Len(batch') : i + 1 \in 1..Len(batch) /\ batch'[i] = batch[i + 1]
  BY <1>1 DEF Handle
<1>5. Consecutive(handled', 1)
  <2>1. ASSUME NEW i \in 1..Len(handled') PROVE handled'[i] = 1 + i - 1
    <3>1. CASE i = Len(handled) + 1
      BY <3>1, <1>1, <1>3
    <3>2. CASE i \in 1..Len(handled)
      <4>1. handled[i] = 1 + i - 1
        BY <3>2 DEF InOrder, Consecutive
      <4> QED
        BY <3>2, <4>1, <1>3
    <3> QED
      BY <3>1, <3>2, <1>1, <1>3
  <2> QED
    BY <2>1 DEF Consecutive
<1>6. Consecutive(batch', Len(handled') + 1)
  <2>1. ASSUME NEW i \in 1..Len(batch') PROVE batch'[i] = Len(handled') + 1 + i - 1
    <3>1. batch'[i] = (Len(handled) + 1) + (i + 1) - 1
      BY <1>4 DEF InOrder, Consecutive
    <3> QED
      BY <3>1, <1>1, <1>3
  <2> QED
    BY <2>1 DEF Consecutive
<1>7. Len(handled') + Len(batch') = Len(handled) + Len(batch)
  BY <1>1, <1>3, <1>4
<1> QED
  BY <1>3, <1>4, <1>5, <1>6, <1>7 DEF InOrder

LEMMA BufferKeepsOrder ==
  ASSUME InOrder, Sides, PrefetchSteps \/ Leave, UNCHANGED handled
  PROVE  InOrder'
<1>1. CASE PullBatch
  BY <1>1, PullKeepsOrder
<1>2. CASE ProducerCheck \/ PullEnds \/ Resume \/ Leave
  BY <1>2, OrderStays DEF ProducerCheck, PullEnds, EndsAloud, Resume, Leave
<1>3. CASE ConsumerCheck
  <2>1. CASE UNCHANGED <<queue, batch>>
    BY <2>1, <1>3, OrderStays DEF ConsumerCheck
  <2>2. CASE queue # << >> /\ batch' = Head(queue) /\ queue' = Tail(queue)
    <3>1. batch = << >> /\ pulled' = pulled /\ queue \in Seq(Seq(Nat))
      BY <1>3 DEF ConsumerCheck, Sides, InOrder
    <3> QED
      BY <2>2, <3>1, FirstOf, YieldKeepsOrder
  <2> QED
    BY <2>1, <2>2, <1>3 DEF ConsumerCheck
<1> QED
  BY <1>1, <1>2, <1>3 DEF PrefetchSteps

LEMMA BufferKeepsSides ==
  ASSUME Sides, PrefetchSteps \/ Leave, UNCHANGED result, UNCHANGED docCall \/ docCall' = 0
  PROVE  /\ producer' \in {"check", "asleep", "pulling", "done", "threw"}
         /\ consumer' \in {"check", "asleep", "yielded", "left", "done", "threw"}
         /\ consumer' \notin {"yielded", "left"} => batch' = << >>
         /\ consumer' \in {"done", "threw"} => Drained'
         /\ result' = "returned" => consumer' = "done"
<1>1. CASE ProducerCheck
  BY <1>1 DEF ProducerCheck, Sides, Drained, Done
<1>2. CASE PullBatch
  BY <1>2 DEF PullBatch, Fire, Sides, Drained, Done
<1>3. CASE PullEnds
  BY <1>3 DEF PullEnds, EndsAloud, Fire, Sides, Drained, Done
<1>4. CASE ConsumerCheck
  BY <1>4 DEF ConsumerCheck, Fire, Sides, Drained, Done
<1>5. CASE Resume \/ Leave
  BY <1>5 DEF Resume, Leave, Sides, Drained, Done
<1> QED
  BY <1>1, <1>2, <1>3, <1>4, <1>5 DEF PrefetchSteps

\* While a call is awaited the buffer does not resume its consumer.
LEMMA BufferKeepsCall ==
  ASSUME Sides, PrefetchSteps, UNCHANGED docCall
  PROVE  docCall' # 0 => consumer' = "yielded" /\ batch' # << >>
<1>1. SUFFICES ASSUME docCall # 0 PROVE consumer' = "yielded" /\ batch' # << >>
  OBVIOUS
<1>2. consumer = "yielded" /\ batch # << >>
  BY <1>1 DEF Sides
<1> QED
  BY <1>2 DEF PrefetchSteps, ProducerCheck, PullBatch, PullEnds, EndsAloud, ConsumerCheck, Resume, Fire

LEMMA StreamStart ==
  ASSUME StreamInit
  PROVE  StreamInv
<1>1. /\ pulled = 0 /\ queue = << >> /\ producer = "check" /\ consumer = "check" /\ batch = << >>
      /\ docCall = 0 /\ handled = << >> /\ result = "running"
  BY DEF StreamInit, PrefetchInit
<1>2. << >> \in Seq(Nat) /\ << >> \in Seq(Seq(Nat)) /\ Len(<< >>) = 0
  OBVIOUS
<1>3. InOrder
  BY <1>1, <1>2 DEF InOrder, Consecutive
<1>4. Sides
  BY <1>1 DEF Sides
<1> QED
  BY <1>3, <1>4 DEF StreamInv

LEMMA StreamStep ==
  ASSUME StreamInv, [StreamNext]_streamVars
  PROVE  StreamInv'
<1> USE DEF StreamInv
<1>1. ASSUME UNCHANGED <<buffer, docCall, handled, result>> PROVE StreamInv'
  <2>1. UNCHANGED <<pulled, queue, producer, consumer, batch, docCall, handled, result>>
    BY <1>1 DEF buffer
  <2>2. InOrder'
    BY <2>1, OrderStays
  <2>3. Sides'
    BY <2>1 DEF Sides, Drained, Done
  <2> QED
    BY <2>2, <2>3
<1>2. ASSUME PrefetchSteps, UNCHANGED ingest PROVE StreamInv'
  <2>1. UNCHANGED <<docCall, handled, result>>
    BY <1>2 DEF ingest
  <2>2. InOrder'
    BY <1>2, <2>1, BufferKeepsOrder
  <2>3. Sides'
    BY <1>2, <2>1, BufferKeepsSides, BufferKeepsCall DEF Sides
  <2> QED
    BY <2>2, <2>3
<1>3. ASSUME LookUp \/ Replace PROVE StreamInv'
  <2>1. UNCHANGED <<pulled, queue, producer, consumer, batch, handled, result>>
    BY <1>3 DEF LookUp, Replace, buffer
  <2>2. consumer = "yielded" /\ batch # << >>
    BY <1>3 DEF LookUp, Replace, Answered, Sides
  <2>3. InOrder'
    BY <2>1, OrderStays
  <2>4. Sides'
    BY <2>1, <2>2 DEF Sides, Drained, Done
  <2> QED
    BY <2>3, <2>4
<1>4. ASSUME Handled PROVE StreamInv'
  <2>1. Handle /\ UNCHANGED <<pulled, queue, producer, consumer, result>>
    BY <1>4 DEF Handled
  <2>2. consumer = "yielded" /\ batch # << >>
    BY <1>4 DEF Handled, Answered, Sides
  <2>3. InOrder'
    BY <2>1, <2>2, HandleKeepsOrder
  <2>4. Sides'
    BY <2>1, <2>2 DEF Sides, Drained, Done, Handle
  <2> QED
    BY <2>3, <2>4
<1>5. ASSUME Fail PROVE StreamInv'
  <2>1. Leave /\ result' = "failed" /\ docCall' = 0 /\ handled' = handled
    BY <1>5 DEF Fail
  <2>2. InOrder'
    BY <2>1, BufferKeepsOrder
  <2>3. Sides'
    BY <2>1 DEF Leave, Sides, Drained, Done
  <2> QED
    BY <2>2, <2>3
<1>6. ASSUME Return PROVE StreamInv'
  <2>1. UNCHANGED <<pulled, queue, producer, consumer, batch, docCall, handled>>
    BY <1>6 DEF Return, buffer
  <2>2. InOrder'
    BY <2>1, OrderStays
  <2>3. result' = "returned" => consumer = "done"
    BY <1>6 DEF Return
  <2>4. Sides'
    BY <2>1, <2>3 DEF Sides, Drained, Done
  <2> QED
    BY <2>2, <2>4
<1>7. CASE Steps /\ UNCHANGED <<buffer, ingest>>
  BY <1>7, <1>1 DEF ingest
<1>8. CASE Close /\ UNCHANGED <<buffer, ingest>>
  BY <1>8, <1>1 DEF ingest
<1>9. CASE Stream
  BY <1>9, <1>2, <1>3, <1>4, <1>5, <1>6 DEF Stream
<1>10. CASE Others
  BY <1>10, <1>1 DEF Others
<1>11. CASE UNCHANGED streamVars
  BY <1>11, <1>1 DEF streamVars, ingest
<1> QED
  BY <1>7, <1>8, <1>9, <1>10, <1>11 DEF StreamNext

(* Documents are handled in the order of the source, and none is left out   *)
(* when the ingest returns; an error of the source comes after all that was *)
(* pulled before it: a consumer that has stopped by itself found the queue  *)
(* empty and has handled its last batch (scheduler.ts:117-127, :224-234).   *)
THEOREM StreamsWhole == StreamSpec => []StreamIsWhole
<1>1. StreamInit => StreamInv
  BY StreamStart
<1>2. StreamInv /\ [StreamNext]_streamVars => StreamInv'
  BY StreamStep
<1>3. StreamInv => StreamIsWhole
  <2> SUFFICES ASSUME StreamInv PROVE StreamIsWhole
    OBVIOUS
  <2>1. handled \in Seq(Nat) /\ Len(handled) \in Nat /\ \A i \in 1..Len(handled) : handled[i] = i
    BY DEF StreamInv, InOrder, Consecutive
  <2>2. handled = [i \in 1..Len(handled) |-> i]
    BY <2>1
  <2>3. ASSUME result = "returned" \/ consumer = "threw" PROVE Len(handled) = pulled
    <3>1. queue = << >> /\ batch = << >>
      BY <2>3 DEF StreamInv, Sides, Drained
    <3> QED
      BY <3>1, <2>1 DEF StreamInv, InOrder
  <2> QED
    BY <2>2, <2>3 DEF StreamIsWhole
<1> QED
  BY <1>1, <1>2, <1>3, PTL DEF StreamSpec
=============================================================================
