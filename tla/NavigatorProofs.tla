--------------------------- MODULE NavigatorProofs ---------------------------
(****************************************************************************)
(* Proofs about the harness: whatever is ingested, indexed, noted and asked *)
(* in whatever order, and wherever the process dies.                        *)
(****************************************************************************)
EXTENDS Navigator, FiniteSetTheorems, WellFoundedInduction, TLAPS

(* Datasets                                                                 *)

\* The tables and the catalog have the shape they are declared with, and no
\* table and no count exceeds the lines that were read.
DataTypes ==
  /\ db = [tables |-> db.tables, catalog |-> db.catalog]
  /\ db.tables \in [DOMAIN db.tables -> Seq(Row)] /\ DOMAIN db.tables \subseteq Table
  /\ db.catalog \in Seq(Meta)
  /\ lines \in 0..MaxLine /\ suspect \subseteq Table
  /\ \A t \in DOMAIN db.tables : Len(db.tables[t]) <= lines
  /\ \A i \in DOMAIN db.catalog :
       /\ db.catalog[i].count <= lines
       /\ db.catalog[i].table = <<db.catalog[i].name, db.catalog[i].version>>

IngestTypes ==
  ingest # NoIngest =>
    /\ ingest \in [name : Name, action : {"NEW", "REPLACE", "APPEND", "NEW_VERSION"},
                   step : {"drop", "create", "insert", "meta"}, table : Table,
                   version : 1..MaxVersion, before : 0..MaxLine, rows : Seq(Row)]
    /\ ingest.table = <<ingest.name, ingest.version>>
    /\ ingest.step = "drop" => ingest.action = "REPLACE"
    /\ ingest.step = "create" => ingest.action # "APPEND"
    /\ ingest.before + Len(ingest.rows) <= lines
    /\ ingest.step # "meta" /\ ingest.table \in DOMAIN db.tables =>
         Len(db.tables[ingest.table]) + Len(ingest.rows) <= lines

\* What an ingest has found in the catalog is still so.
Routed ==
  ingest # NoIngest =>
    /\ ingest.action = "NEW" <=> ~Known(ingest.name)
    /\ ingest.action # "NEW" =>
         LET meta == FindByName(ingest.name) IN
           /\ ingest.before = meta.count
           /\ ingest.version = IF ingest.action = "NEW_VERSION" THEN meta.version + 1 ELSE meta.version

\* How far an ingest is with its table; of a suspect table nothing is known
\* before it has been dropped.
TableInHand ==
  ingest # NoIngest =>
    LET t == ingest.table  there == t \in DOMAIN db.tables  trusted == t \notin suspect IN
      /\ ingest.action = "REPLACE" =>
           /\ ingest.step = "create" => ~there
           /\ ingest.step = "insert" => there /\ db.tables[t] = << >>
           /\ ingest.step = "meta" => there /\ Len(db.tables[t]) = Len(ingest.rows)
      /\ ingest.action = "APPEND" /\ ingest.step = "meta" =>
           there /\ (trusted => Len(db.tables[t]) = ingest.before + Len(ingest.rows))
      /\ ingest.action \in {"NEW", "NEW_VERSION"} =>
           /\ ingest.step = "insert" => there
           /\ ingest.step = "meta" => there /\ (trusted => Len(db.tables[t]) = Len(ingest.rows))

\* A table that the catalog does not know yet is empty, unless it is suspect.
Stray(t) == ~Known(t[1]) \/ t[2] > FindByName(t[1]).version
Filled(t) == ingest # NoIngest /\ ingest.table = t /\ ingest.step = "meta"
StraysAreEmpty == \A t \in DOMAIN db.tables \ suspect : Stray(t) /\ ~Filled(t) => db.tables[t] = << >>

\* The ingest under way has changed the table that the catalog names.
Touched(name) ==
  /\ ingest # NoIngest /\ ingest.name = name
  /\ (ingest.action = "REPLACE" /\ ingest.step # "drop") \/ (ingest.action = "APPEND" /\ ingest.step = "meta")

Kept(name) ==
  Known(name) /\ FindByName(name).table \notin suspect =>
    Readable(name) /\ Len(RowsOf(name)) = FindByName(name).count

CatalogKept == \A name \in Name : ~Touched(name) => Kept(name)

DataInv == DataTypes /\ IngestTypes /\ Routed /\ TableInHand /\ StraysAreEmpty /\ CatalogKept

-----------------------------------------------------------------------------
(* The index                                                                *)

RagTypes ==
  /\ index # Torn => index \in [DOMAIN index -> Row] /\ DOMAIN index \subseteq Name \X Row
  /\ indexed \in [Name -> Seq(Row)]

\* What has been indexed can be read, also when the index is torn.
IndexedIsThere ==
  \A name \in Name :
    indexed[name] # << >> =>
      /\ Readable(name)
      /\ \A r \in DOMAIN indexed[name] : r \in DOMAIN RowsOf(name) /\ RowsOf(name)[r] = indexed[name][r]

IndexInv == RagTypes /\ IndexedIsThere /\ IndexTrue

-----------------------------------------------------------------------------
(* Sessions and questions                                                   *)

DeskShape ==
  /\ record \in [Session -> Record \union {TornRecord}]
  /\ said \in 0..MaxEntry
  /\ desk # NoDesk =>
       /\ desk = [session |-> desk.session, name |-> desk.name, at |-> desk.at, state |-> desk.state]
       /\ desk.session \in Session /\ desk.name \in Name /\ desk.state \in State
       /\ desk.at = 0 \/ desk.at \in 1..(Count(desk.name) - 1)

\* What is on the desk is in the record: nothing is lost when it is put back.
DeskIsSaved ==
  desk # NoDesk =>
    /\ ingest = NoIngest /\ Readable(desk.name)
    /\ record[desk.session] # TornRecord
    /\ record[desk.session].rowByRow = NoState => desk.state.entries = {}
    /\ record[desk.session].rowByRow # NoState => desk.state.entries = record[desk.session].rowByRow.entries

DeskInv == DeskShape /\ DeskIsSaved

Asks == [step : {"tools", "answered"}, mode : {"search", "row"}, name : Name, left : 0..MaxToolIterations, rowids : SUBSET Row,
         sql : BOOLEAN, rows : BOOLEAN, good : 0..MinHits, unknown : BOOLEAN]

\* What has been found so far is there and would be cited.
AskInv ==
  ask # NoQuestion =>
    /\ ask \in Asks
    /\ ingest = NoIngest /\ Readable(ask.name)
    /\ ask.rowids \subseteq DOMAIN RowsOf(ask.name)
    /\ ask.step = "tools" => (ask.rows => ask.sql) /\ (ask.good > 0 => ask.rowids # {})
    /\ ask.step = "tools" => ask.mode = "search"
    /\ ask.step = "answered" => ask.unknown \/ ask.rowids # {} \/ (IF ask.mode = "search" THEN ask.sql ELSE ask.rows)

NavInv == DataInv /\ IndexInv /\ DeskInv /\ AskInv

-----------------------------------------------------------------------------
(* The latest row of a name                                                 *)

LatestOf(catalog, name) ==
  LET rows == {i \in DOMAIN catalog : catalog[i].name = name} IN
  catalog[CHOOSE i \in rows : \A j \in rows : \/ catalog[i].version > catalog[j].version
                                             \/ (catalog[i].version = catalog[j].version /\ i >= j)]

Listed(catalog, name) == \E i \in DOMAIN catalog : catalog[i].name = name

IsLatest(catalog, name, i) ==
  /\ i \in DOMAIN catalog /\ catalog[i].name = name
  /\ \A j \in DOMAIN catalog : catalog[j].name = name =>
       \/ catalog[i].version > catalog[j].version
       \/ catalog[i].version = catalog[j].version /\ i >= j

LEMMA Greatest ==
  ASSUME NEW m \in Nat, NEW S \in SUBSET (0..m), S # {}
  PROVE  \E g \in S : \A n \in S : n <= g
<1> DEFINE Gaps == {m - n : n \in S}
<1>1. Gaps \subseteq Nat /\ Gaps # {}
  <2>1. \A n \in S : n \in Nat /\ n <= m /\ m - n \in Nat
    OBVIOUS
  <2> QED
    BY <2>1
<1>2. PICK d \in Gaps : \A e \in Gaps : ~(<<e, d>> \in OpToRel(<, Nat))
  BY <1>1, NatLessThanWellFounded, WFMin
<1>3. \A e \in Gaps : ~(e < d)
  BY <1>1, <1>2 DEF OpToRel
<1>4. PICK g \in S : d = m - g
  BY <1>2
<1>5. ASSUME NEW n \in S PROVE n <= g
  <2>1. m - n \in Gaps
    OBVIOUS
  <2>2. ~(m - n < d)
    BY <1>3, <2>1
  <2> QED
    BY <2>2, <1>4
<1> QED
  BY <1>5

LEMMA MetaRow ==
  ASSUME NEW catalog \in Seq(Meta), NEW i \in DOMAIN catalog
  PROVE  /\ catalog[i] \in Meta /\ i \in 1..Len(catalog)
         /\ catalog[i].version \in 1..MaxVersion /\ catalog[i].version \in Nat
         /\ catalog[i].count \in 0..MaxLine /\ catalog[i].name \in Name
<1>1. catalog[i] \in Meta /\ i \in 1..Len(catalog)
  OBVIOUS
<1> QED
  BY <1>1, DatasetsAssumption DEF Meta

LEMMA LatestExists ==
  ASSUME NEW catalog \in Seq(Meta), NEW name, Listed(catalog, name)
  PROVE  \E i : IsLatest(catalog, name, i)
<1> DEFINE rows == {i \in DOMAIN catalog : catalog[i].name = name}
           versions == {catalog[i].version : i \in rows}
<1>1. rows # {} /\ rows \subseteq 1..Len(catalog) /\ Len(catalog) \in Nat
  BY DEF Listed
<1>2. \A i \in rows : i \in Nat /\ catalog[i].version \in 1..MaxVersion /\ catalog[i].version \in Nat
  BY <1>1, MetaRow
<1>3. PICK v \in versions : \A u \in versions : u <= v
  <2>1. versions # {} /\ versions \in SUBSET (0..MaxVersion)
    BY <1>1, <1>2, DatasetsAssumption
  <2> QED
    BY <2>1, Greatest, DatasetsAssumption
<1> DEFINE last == {i \in rows : catalog[i].version = v}
<1>4. PICK i \in last : \A j \in last : j <= i
  <2>1. last # {} /\ last \in SUBSET (0..Len(catalog))
    BY <1>1, <1>3
  <2> HIDE DEF last
  <2> QED
    BY <2>1, <1>1, Greatest
<1>5. ASSUME NEW j \in rows
      PROVE  \/ catalog[i].version > catalog[j].version
             \/ catalog[i].version = catalog[j].version /\ i >= j
  <2>1. catalog[j].version <= catalog[i].version
    BY <1>3, <1>4
  <2>2. CASE catalog[j].version = catalog[i].version
    <3>1. j \in last
      BY <2>2, <1>4
    <3> QED
      BY <3>1, <2>2, <1>2, <1>4
  <2> HIDE DEF rows, last
  <2> QED
    BY <2>1, <2>2, <1>2, <1>4 DEF last
<1> QED
  BY <1>4, <1>5 DEF IsLatest

LEMMA LatestIs ==
  ASSUME NEW catalog \in Seq(Meta), NEW name, NEW i, IsLatest(catalog, name, i)
  PROVE  LatestOf(catalog, name) = catalog[i]
<1> DEFINE rows == {k \in DOMAIN catalog : catalog[k].name = name}
           Tops(k) == \A j \in rows : \/ catalog[k].version > catalog[j].version
                                      \/ (catalog[k].version = catalog[j].version /\ k >= j)
           k0 == CHOOSE k \in rows : Tops(k)
<1>1. i \in rows /\ Tops(i)
  BY DEF IsLatest
<1>2. k0 \in rows /\ Tops(k0)
  <2> HIDE DEF rows, Tops
  <2> QED
    BY <1>1
<1>3. \A k \in rows : k \in Nat /\ catalog[k].version \in Nat
  BY MetaRow
<1> HIDE DEF k0
<1>4. k0 = i
  BY <1>1, <1>2, <1>3
<1> USE DEF k0
<1> QED
  BY <1>4 DEF LatestOf

\* What the catalog says of a name it knows.
LEMMA LatestMeta ==
  ASSUME NEW catalog \in Seq(Meta), NEW name, Listed(catalog, name)
  PROVE  \E i \in DOMAIN catalog : LatestOf(catalog, name) = catalog[i] /\ catalog[i].name = name
  BY LatestExists, LatestIs DEF IsLatest

\* A row whose version is not before the latest is the latest from now on.
LEMMA LatestAppended ==
  ASSUME NEW catalog \in Seq(Meta), NEW meta \in Meta, NEW name \in Name,
         name = meta.name /\ Listed(catalog, name) => meta.version >= LatestOf(catalog, name).version
  PROVE  /\ Listed(Append(catalog, meta), name) <=> (name = meta.name \/ Listed(catalog, name))
         /\ name = meta.name => LatestOf(Append(catalog, meta), name) = meta
         /\ name # meta.name /\ Listed(catalog, name) =>
              LatestOf(Append(catalog, meta), name) = LatestOf(catalog, name)
<1> DEFINE longer == Append(catalog, meta)
           n == Len(catalog)
<1>1. /\ longer \in Seq(Meta) /\ n \in Nat
      /\ DOMAIN catalog = 1..n /\ DOMAIN longer = 1..(n + 1)
      /\ longer[n + 1] = meta /\ \A i \in 1..n : longer[i] = catalog[i]
  OBVIOUS
<1>2. \A i \in 1..n : catalog[i].version \in 1..MaxVersion
  BY <1>1, MetaRow
<1> HIDE DEF longer, n
<1>3. Listed(longer, name) <=> (name = meta.name \/ Listed(catalog, name))
  <2>1. \A i \in 1..(n + 1) : i \in 1..n \/ i = n + 1
    BY <1>1
  <2>2. n + 1 \in 1..(n + 1) /\ 1..n \subseteq 1..(n + 1)
    BY <1>1
  <2> QED
    BY <1>1, <2>1, <2>2 DEF Listed
<1>4. ASSUME name = meta.name PROVE LatestOf(longer, name) = meta
  <2>1. ASSUME NEW j \in DOMAIN longer, longer[j].name = name
        PROVE  \/ longer[n + 1].version > longer[j].version
               \/ longer[n + 1].version = longer[j].version /\ n + 1 >= j
    <3>1. CASE j = n + 1
      BY <3>1, <1>1
    <3>2. CASE j \in 1..n
      <4>1. PICK i : IsLatest(catalog, name, i)
        BY <2>1, <3>2, <1>1, LatestExists DEF Listed
      <4>2. meta.version >= catalog[i].version
        BY <4>1, <3>2, <2>1, <1>1, <1>4, LatestIs DEF Listed
      <4>3. catalog[i].version >= catalog[j].version
        BY <4>1, <3>2, <2>1, <1>1, <1>2 DEF IsLatest
      <4>4. i \in 1..n
        BY <4>1, <1>1 DEF IsLatest
      <4>5. meta.version \in 1..MaxVersion
        BY DEF Meta
      <4> QED
        BY <4>2, <4>3, <4>4, <4>5, <3>2, <1>1, <1>2, DatasetsAssumption
    <3> QED
      BY <3>1, <3>2, <1>1
  <2>2. IsLatest(longer, name, n + 1)
    BY <2>1, <1>1, <1>4 DEF IsLatest
  <2> QED
    BY <2>2, <1>1, LatestIs
<1>5. ASSUME name # meta.name, Listed(catalog, name)
      PROVE  LatestOf(longer, name) = LatestOf(catalog, name)
  <2>1. PICK i : IsLatest(catalog, name, i)
    BY <1>5, LatestExists
  <2>2. i \in 1..n /\ longer[i] = catalog[i]
    BY <2>1, <1>1 DEF IsLatest
  <2>3. \A j \in DOMAIN longer : longer[j].name = name => j \in 1..n /\ longer[j] = catalog[j]
    BY <1>1, <1>5
  <2>4. IsLatest(longer, name, i)
    BY <2>1, <2>2, <2>3, <1>1 DEF IsLatest
  <2> QED
    BY <2>1, <2>2, <2>4, <1>1, LatestIs
<1> QED
  BY <1>3, <1>4, <1>5 DEF longer

-----------------------------------------------------------------------------
(* Datasets, step by step                                                   *)

LEMMA KnownIs ==
  ASSUME NEW name
  PROVE  /\ Known(name) <=> Listed(db.catalog, name)
         /\ FindByName(name) = LatestOf(db.catalog, name)
         /\ Known(name)' <=> Listed(db'.catalog, name)
         /\ FindByName(name)' = LatestOf(db'.catalog, name)
  BY DEF Known, Listed, FindByName, LatestOf

LEMMA CatalogSame ==
  ASSUME NEW name, db'.catalog = db.catalog
  PROVE  (Known(name)' <=> Known(name)) /\ FindByName(name)' = FindByName(name)
  BY KnownIs

LEMMA ReadSame ==
  ASSUME NEW name, db' = db
  PROVE  /\ Known(name)' <=> Known(name)
         /\ FindByName(name)' = FindByName(name)
         /\ Readable(name)' <=> Readable(name)
         /\ RowsOf(name)' = RowsOf(name)
<1>1. (Known(name)' <=> Known(name)) /\ FindByName(name)' = FindByName(name)
  BY CatalogSame
<1> QED
  BY <1>1 DEF Readable, RowsOf

LEMMA Found ==
  ASSUME DataTypes, NEW name, Known(name)
  PROVE  LET meta == FindByName(name) IN
           /\ meta \in Meta /\ meta.name = name /\ name \in Name
           /\ meta.version \in 1..MaxVersion /\ meta.version \in Nat
           /\ meta.count \in 0..lines
           /\ meta.table = <<name, meta.version>>
<1>1. db.catalog \in Seq(Meta) /\ Listed(db.catalog, name)
  BY KnownIs DEF DataTypes
<1>2. PICK i \in DOMAIN db.catalog : FindByName(name) = db.catalog[i] /\ db.catalog[i].name = name
  BY <1>1, LatestMeta, KnownIs
<1> QED
  BY <1>1, <1>2, MetaRow, DatasetsAssumption DEF DataTypes

\* Nothing that touches another table, or only makes more of them suspect,
\* takes the truth from the catalog.
LEMMA KeptElsewhere ==
  ASSUME NEW name, Kept(name),
         Known(name)' <=> Known(name), FindByName(name)' = FindByName(name),
         LET t == FindByName(name).table IN
           /\ t \in DOMAIN db.tables => t \in DOMAIN db'.tables /\ db'.tables[t] = db.tables[t]
           /\ t \in suspect => t \in suspect'
  PROVE  Kept(name)'
  BY DEF Kept, Readable, RowsOf

LEMMA StraysElsewhere ==
  ASSUME StraysAreEmpty, NEW t, t \in DOMAIN db.tables \ suspect, t \in DOMAIN db'.tables,
         db'.catalog = db.catalog, db'.tables[t] = db.tables[t], ~Filled(t), Stray(t)'
  PROVE  db'.tables[t] = << >>
<1>1. Stray(t)
  BY CatalogSame DEF Stray
<1> QED
  BY <1>1 DEF StraysAreEmpty

\* The table of an ingest: that of the latest row, or a new one.
LEMMA TableOfIngest ==
  ASSUME DataTypes, IngestTypes, Routed, ingest # NoIngest
  PROVE  /\ ingest.name \in Name /\ ingest.table \in Table
         /\ ingest.action = "NEW" => ~Known(ingest.name)
         /\ ingest.action # "NEW" => Known(ingest.name)
         /\ ingest.action \in {"REPLACE", "APPEND"} => FindByName(ingest.name).table = ingest.table
         /\ ingest.action \in {"NEW", "NEW_VERSION"} => Stray(ingest.table)
         /\ ingest.action = "NEW_VERSION" => FindByName(ingest.name).table # ingest.table
         /\ \A name \in Name \ {ingest.name} : Known(name) => FindByName(name).table # ingest.table
<1>1. ingest.name \in Name /\ ingest.table \in Table /\ ingest.table = <<ingest.name, ingest.version>>
  BY DEF IngestTypes
<1>2. ingest.table[1] = ingest.name /\ ingest.table[2] = ingest.version
  BY <1>1
<1>3. ingest.action # "NEW" => Known(ingest.name)
  BY DEF Routed
<1>4. ASSUME NEW name \in Name \ {ingest.name}, Known(name)
      PROVE  FindByName(name).table # ingest.table
  BY <1>1, <1>4, Found
<1>5. CASE ingest.action = "NEW"
  BY <1>1, <1>2, <1>4, <1>5 DEF Routed, Stray
<1>6. CASE ingest.action # "NEW"
  <2>1. LET meta == FindByName(ingest.name) IN
          meta.version \in Nat /\ meta.table = <<ingest.name, meta.version>>
    BY <1>3, <1>6, Found
  <2>2. CASE ingest.action = "NEW_VERSION"
    <3>1. ingest.version = FindByName(ingest.name).version + 1
      BY <1>6, <2>2 DEF Routed
    <3>2. ingest.version > FindByName(ingest.name).version
      BY <3>1, <2>1
    <3> QED
      BY <1>1, <1>2, <1>3, <1>4, <1>6, <2>1, <2>2, <3>2 DEF Stray
  <2>3. CASE ingest.action # "NEW_VERSION"
    <3>1. ingest.version = FindByName(ingest.name).version
      BY <1>6, <2>3 DEF Routed
    <3> QED
      BY <1>1, <1>3, <1>4, <1>6, <2>1, <2>3, <3>1
  <2> QED
    BY <2>2, <2>3
<1> QED
  BY <1>5, <1>6

\* Reading a file and deciding what to do with it.
LEMMA RouteKeeps ==
  ASSUME DataInv, NEW name \in Name, NEW n \in 0..MaxLine, RouteIngest(name, n)
  PROVE  DataInv'
<1> USE DEF DataInv
<1>1. ingest = NoIngest /\ db' = db /\ suspect' = suspect /\ lines' = lines + 1 + n /\ lines' \in 0..MaxLine
  BY DatasetsAssumption DEF RouteIngest, Route, DataTypes
<1>2. lines \in Nat /\ lines <= lines' /\ n \in Nat
  BY <1>1, DatasetsAssumption DEF DataTypes
<1>3. /\ File(n) \in Seq(Row) /\ Len(File(n)) = n
  <2>1. \A i \in 1..n : lines + 1 + i \in Row
    BY <1>1, <1>2, DatasetsAssumption DEF Row
  <2> QED
    BY <1>2, <2>1 DEF File
<1>4. PICK action \in {"NEW", "REPLACE", "APPEND", "NEW_VERSION"}, step \in {"drop", "create", "insert"},
           version \in 1..MaxVersion, before \in 0..lines :
        /\ ingest' = [name |-> name, action |-> action, step |-> step, table |-> <<name, version>>,
                      version |-> version, before |-> before, rows |-> File(n)]
        /\ step = "drop" <=> action = "REPLACE"
        /\ step = "create" <=> action \in {"NEW", "NEW_VERSION"}
        /\ action = "NEW" <=> ~Known(name)
        /\ action # "NEW" =>
             /\ before = FindByName(name).count
             /\ version = IF action = "NEW_VERSION" THEN FindByName(name).version + 1 ELSE FindByName(name).version
  <2>1. CASE ~Known(name) /\ Route(name, "NEW", "create", 1, 0, n)
    BY <2>1, <1>2, DatasetsAssumption DEF Route
  <2>2. CASE Known(name) /\ ~(~Known(name) /\ Route(name, "NEW", "create", 1, 0, n))
    <3> DEFINE meta == FindByName(name)
    <3>1. meta.version \in Nat /\ meta.version \in 1..MaxVersion /\ meta.count \in 0..lines
      BY <2>2, Found
    <3> HIDE DEF meta
    <3>2. \/ Route(name, "REPLACE", "drop", meta.version, meta.count, n)
          \/ Route(name, "APPEND", "insert", meta.version, meta.count, n)
          \/ Route(name, "NEW_VERSION", "create", meta.version + 1, meta.count, n)
      BY <2>2 DEF RouteIngest, meta
    <3>3. CASE Route(name, "REPLACE", "drop", meta.version, meta.count, n)
      BY <3>1, <3>3, <2>2 DEF Route, meta
    <3>4. CASE Route(name, "APPEND", "insert", meta.version, meta.count, n)
      BY <3>1, <3>4, <2>2 DEF Route, meta
    <3>5. CASE Route(name, "NEW_VERSION", "create", meta.version + 1, meta.count, n)
      <4>1. meta.version + 1 \in 1..MaxVersion
        BY <3>1, <3>5, DatasetsAssumption DEF Route
      <4> QED
        BY <3>1, <3>5, <4>1, <2>2 DEF Route, meta
    <3> QED
      BY <3>2, <3>3, <3>4, <3>5
  <2> QED
    BY <2>1, <2>2 DEF RouteIngest
<1>5. /\ ingest'.name = name /\ ingest'.action = action /\ ingest'.step = step /\ ingest'.table = <<name, version>>
      /\ ingest'.version = version /\ ingest'.before = before /\ ingest'.rows = File(n)
  BY <1>4
<1>6. DataTypes'
  <2>1. \A t \in DOMAIN db.tables : Len(db.tables[t]) \in Nat /\ Len(db.tables[t]) <= lines
    BY DEF DataTypes
  <2>2. \A i \in DOMAIN db.catalog : db.catalog[i].count \in Nat /\ db.catalog[i].count <= lines
    <3>1. db.catalog \in Seq(Meta)
      BY DEF DataTypes
    <3>2. \A i \in DOMAIN db.catalog : db.catalog[i].count \in 0..MaxLine
      BY <3>1, MetaRow
    <3> QED
      BY <3>2 DEF DataTypes
  <2>3. /\ \A t \in DOMAIN db.tables : Len(db.tables[t]) <= lines'
        /\ \A i \in DOMAIN db.catalog : db.catalog[i].count <= lines'
    BY <1>1, <1>2, <2>1, <2>2
  <2> QED
    BY <1>1, <2>3 DEF DataTypes
<1>7. IngestTypes'
  <2>1. ingest' \in [name : Name, action : {"NEW", "REPLACE", "APPEND", "NEW_VERSION"},
                     step : {"drop", "create", "insert", "meta"}, table : Table,
                     version : 1..MaxVersion, before : 0..MaxLine, rows : Seq(Row)]
    <3>1. before \in 0..MaxLine
      BY <1>1, <1>2, DatasetsAssumption DEF DataTypes
    <3> QED
      BY <1>3, <1>4, <3>1 DEF Table
  <2>2. before + n <= lines'
    BY <1>1, <1>2
  <2>3. ASSUME NEW t \in DOMAIN db.tables PROVE Len(db.tables[t]) + n <= lines'
    <3>1. Len(db.tables[t]) <= lines /\ Len(db.tables[t]) \in Nat
      BY DEF DataTypes
    <3> QED
      BY <3>1, <1>1, <1>2
  <2> QED
    BY <1>1, <1>3, <1>4, <1>5, <2>1, <2>2, <2>3 DEF IngestTypes
<1>8. \A o : (Known(o)' <=> Known(o)) /\ FindByName(o)' = FindByName(o) /\ (Kept(o) => Kept(o)')
  <2> TAKE o
  <2>1. (Known(o)' <=> Known(o)) /\ FindByName(o)' = FindByName(o)
    BY <1>1, ReadSame
  <2> QED
    BY <2>1, <1>1, KeptElsewhere
<1>9. Routed'
  BY <1>4, <1>5, <1>8 DEF Routed
<1>10. TableInHand'
  BY <1>4, <1>5 DEF TableInHand
<1>11. StraysAreEmpty'
  <2>1. ASSUME NEW t \in DOMAIN db.tables \ suspect, Stray(t)' PROVE db.tables[t] = << >>
    BY <1>1, <2>1, StraysElsewhere DEF Filled
  <2> QED
    BY <1>1, <2>1 DEF StraysAreEmpty
<1>12. CatalogKept'
  BY <1>1, <1>8 DEF CatalogKept, Touched
<1> QED
  BY <1>6, <1>7, <1>9, <1>10, <1>11, <1>12

\* What the table steps have in common: the catalog stays, and so does every
\* table but the one in hand.
LEMMA TableStep ==
  ASSUME DataInv, ingest # NoIngest, ingest' # NoIngest,
         NEW step \in {"create", "insert", "meta"}, ingest' = [ingest EXCEPT !.step = step],
         step = "create" => ingest.action = "REPLACE", step = "insert" => ingest.action # "APPEND",
         UNCHANGED <<lines, suspect>>, DataTypes',
         db'.catalog = db.catalog,
         \A u \in Table \ {ingest.table} :
           /\ u \in DOMAIN db'.tables <=> u \in DOMAIN db.tables
           /\ u \in DOMAIN db.tables => db'.tables[u] = db.tables[u],
         step # "meta" /\ ingest.table \in DOMAIN db'.tables =>
           Len(db'.tables[ingest.table]) + Len(ingest.rows) <= lines,
         TableInHand',
         ingest.table \in DOMAIN db'.tables \ suspect /\ Stray(ingest.table) /\ step # "meta" =>
           db'.tables[ingest.table] = << >>,
         ingest.step # "meta"
  PROVE  DataInv'
<1> USE DEF DataInv
<1>1. ingest \in [name : Name, action : {"NEW", "REPLACE", "APPEND", "NEW_VERSION"},
                  step : {"drop", "create", "insert", "meta"}, table : Table,
                  version : 1..MaxVersion, before : 0..MaxLine, rows : Seq(Row)]
  BY DEF IngestTypes
<1>2. /\ ingest'.name = ingest.name /\ ingest'.action = ingest.action /\ ingest'.step = step
      /\ ingest'.table = ingest.table /\ ingest'.version = ingest.version
      /\ ingest'.before = ingest.before /\ ingest'.rows = ingest.rows
  BY <1>1
<1>3. IngestTypes'
  <2>1. ingest' \in [name : Name, action : {"NEW", "REPLACE", "APPEND", "NEW_VERSION"},
                     step : {"drop", "create", "insert", "meta"}, table : Table,
                     version : 1..MaxVersion, before : 0..MaxLine, rows : Seq(Row)]
    BY <1>1
  <2> QED
    BY <1>2, <2>1 DEF IngestTypes
<1>4. \A o : (Known(o)' <=> Known(o)) /\ FindByName(o)' = FindByName(o)
  BY CatalogSame
<1>5. Routed'
  BY <1>2, <1>4 DEF Routed
<1>6. StraysAreEmpty'
  <2>1. ASSUME NEW t \in DOMAIN db'.tables \ suspect', Stray(t)', ~Filled(t)'
        PROVE  db'.tables[t] = << >>
    <3>1. t \in Table /\ t \notin suspect
      BY <2>1 DEF DataTypes
    <3>2. Stray(t)
      BY <1>4, <2>1 DEF Stray
    <3>3. CASE t = ingest.table
      BY <3>1, <3>2, <3>3, <2>1, <1>2 DEF Filled
    <3>4. CASE t # ingest.table
      <4>1. t \in DOMAIN db.tables /\ db'.tables[t] = db.tables[t]
        BY <3>1, <3>4, <2>1
      <4> QED
        BY <3>1, <3>2, <3>4, <4>1 DEF StraysAreEmpty, Filled
    <3> QED
      BY <3>3, <3>4
  <2> QED
    BY <2>1 DEF StraysAreEmpty
<1>7. CatalogKept'
  <2>1. ASSUME NEW name \in Name, ~Touched(name)', Known(name)
        PROVE  Kept(name)'
    <3>1. FindByName(name).table \in Table
      <4>1. LET meta == FindByName(name) IN meta.version \in 1..MaxVersion /\ meta.table = <<name, meta.version>>
        BY <2>1, Found
      <4> QED
        BY <4>1 DEF Table
    <3>2. FindByName(name).table # ingest.table
      <4>1. CASE name # ingest.name
        BY <4>1, <2>1, TableOfIngest
      <4>2. CASE name = ingest.name
        BY <4>2, <2>1, <1>1, <1>2, TableOfIngest DEF Touched
      <4> QED
        BY <4>1, <4>2
    <3>3. ~Touched(name)
      BY <2>1, <1>2, <3>2, TableOfIngest DEF Touched
    <3> QED
      BY <3>1, <3>2, <3>3, <1>4, KeptElsewhere DEF CatalogKept
  <2> QED
    BY <2>1, <1>4 DEF CatalogKept, Kept
<1> QED
  BY <1>3, <1>5, <1>6, <1>7

LEMMA InHand ==
  ASSUME DataInv, ingest # NoIngest
  PROVE  /\ ingest \in [name : Name, action : {"NEW", "REPLACE", "APPEND", "NEW_VERSION"},
                        step : {"drop", "create", "insert", "meta"}, table : Table,
                        version : 1..MaxVersion, before : 0..MaxLine, rows : Seq(Row)]
         /\ ingest.table \in Table /\ ingest.rows \in Seq(Row) /\ Len(ingest.rows) \in Nat
         /\ ingest.before \in Nat /\ ingest.before + Len(ingest.rows) <= lines /\ lines \in Nat
  BY DatasetsAssumption DEF DataInv, IngestTypes, DataTypes

LEMMA UnderWay == ingest.step # "none" => ingest # NoIngest
<1> SUFFICES ASSUME ingest = NoIngest PROVE ingest.step = "none"
  OBVIOUS
<1> QED
  BY DEF NoIngest

\* A step of an ingest is not no ingest.
LEMMA Moves ==
  ASSUME DataInv, ingest # NoIngest, NEW step, step # "none", Then(step)
  PROVE  ingest' = [ingest EXCEPT !.step = step] /\ ingest' # NoIngest
<1>1. ingest' = [ingest EXCEPT !.step = step] /\ ingest'.step = step
  BY InHand DEF Then
<1> QED
  BY <1>1 DEF NoIngest

\* Tables that agree outside one table, and are short enough in it, are typed.
LEMMA TablesTyped ==
  ASSUME DataTypes, UNCHANGED <<lines, suspect>>,
         db' = [tables |-> db'.tables, catalog |-> db'.catalog], db'.catalog = db.catalog,
         NEW keys \in SUBSET Table, db'.tables \in [keys -> Seq(Row)],
         \A u \in keys : Len(db'.tables[u]) <= lines
  PROVE  DataTypes'
  BY DEF DataTypes

LEMMA DropKeeps ==
  ASSUME DataInv, DropTable
  PROVE  DataInv'
<1> DEFINE t == ingest.table
<1>1. ingest # NoIngest /\ ingest.step = "drop" /\ ingest.action = "REPLACE"
  BY UnderWay DEF DropTable, DataInv, IngestTypes
<1>2. ingest' = [ingest EXCEPT !.step = "create"] /\ ingest' # NoIngest
  BY <1>1, Moves DEF DropTable
<1>3. /\ db'.catalog = db.catalog /\ db' = [tables |-> db'.tables, catalog |-> db'.catalog]
      /\ db'.tables = [u \in DOMAIN db.tables \ {t} |-> db.tables[u]]
  BY DEF DropTable, DataInv, DataTypes, Restrict
<1>4. DataTypes'
  <2> DEFINE keys == DOMAIN db.tables \ {t}
  <2>1. db'.tables \in [keys -> Seq(Row)] /\ keys \in SUBSET Table
    BY <1>3 DEF DataInv, DataTypes
  <2>2. \A u \in keys : Len(db'.tables[u]) <= lines
    BY <1>3 DEF DataInv, DataTypes
  <2> QED
    BY <1>3, <2>1, <2>2, TablesTyped DEF DropTable, DataInv
<1>5. t \notin DOMAIN db'.tables
  BY <1>3
<1>6. ingest'.action = "REPLACE" /\ ingest'.step = "create" /\ ingest'.table = t
  BY <1>1, <1>2, InHand
<1>7. TableInHand'
  BY <1>5, <1>6 DEF TableInHand
<1>8. \A u \in Table \ {t} :
        /\ u \in DOMAIN db'.tables <=> u \in DOMAIN db.tables
        /\ u \in DOMAIN db.tables => db'.tables[u] = db.tables[u]
  BY <1>3
<1> QED
  BY <1>1, <1>2, <1>3, <1>4, <1>5, <1>7, <1>8, TableStep DEF DropTable

LEMMA CreateKeeps ==
  ASSUME DataInv, CreateTable
  PROVE  DataInv'
<1> DEFINE t == ingest.table
           keys == DOMAIN db.tables \union {t}
<1>1. ingest # NoIngest /\ ingest.step = "create" /\ ingest.action \in {"NEW", "NEW_VERSION", "REPLACE"}
  BY UnderWay DEF CreateTable, DataInv, IngestTypes
<1>2. ingest' = [ingest EXCEPT !.step = "insert"] /\ ingest' # NoIngest
  BY <1>1, Moves DEF CreateTable
<1>3. /\ db'.catalog = db.catalog /\ db' = [tables |-> db'.tables, catalog |-> db'.catalog]
      /\ db'.tables = Over(db.tables, [table \in {t} |-> << >>])
  BY DEF CreateTable, DataInv, DataTypes
<1>4. /\ DOMAIN db'.tables = keys
      /\ \A u \in keys : db'.tables[u] = IF u \in DOMAIN db.tables THEN db.tables[u] ELSE << >>
  BY <1>3 DEF Over
<1>5. DataTypes'
  <2>1. db'.tables \in [keys -> Seq(Row)] /\ keys \in SUBSET Table
    <3>1. ASSUME NEW u \in keys PROVE db'.tables[u] \in Seq(Row)
      <4>1. CASE u \in DOMAIN db.tables
        <5>1. db'.tables[u] = db.tables[u]
          BY <1>4, <4>1
        <5> QED
          BY <4>1, <5>1 DEF DataInv, DataTypes
      <4>2. CASE u \notin DOMAIN db.tables
        <5>1. db'.tables[u] = << >>
          BY <1>4, <4>2
        <5> QED
          BY <5>1
      <4> QED
        BY <4>1, <4>2
    <3>2. db'.tables = [u \in keys |-> db'.tables[u]]
      BY <1>3, <1>4 DEF Over
    <3>3. keys \in SUBSET Table
      BY <1>1, InHand DEF DataInv, DataTypes
    <3> HIDE DEF keys
    <3> QED
      BY <3>1, <3>2, <3>3
  <2>2. ASSUME NEW u \in keys PROVE Len(db'.tables[u]) <= lines
    <3>1. CASE u \in DOMAIN db.tables
      BY <1>4, <3>1 DEF DataInv, DataTypes
    <3>2. CASE u \notin DOMAIN db.tables
      <4>1. db'.tables[u] = << >>
        BY <1>4, <3>2
      <4> QED
        BY <1>1, <4>1, InHand
    <3> QED
      BY <3>1, <3>2
  <2> HIDE DEF keys
  <2> QED
    BY <1>3, <2>1, <2>2, TablesTyped DEF CreateTable, DataInv
<1>6. ingest'.action = ingest.action /\ ingest'.step = "insert" /\ ingest'.table = t
  BY <1>1, <1>2, InHand
<1>7. ingest.action = "REPLACE" => db'.tables[t] = << >>
  BY <1>1, <1>4 DEF DataInv, TableInHand
<1>8. TableInHand'
  BY <1>1, <1>4, <1>6, <1>7 DEF TableInHand
<1>9. ASSUME t \notin suspect, Stray(t) PROVE db'.tables[t] = << >>
  <2>1. ~Filled(t)
    BY <1>1 DEF Filled
  <2> QED
    BY <1>4, <1>9, <2>1 DEF DataInv, StraysAreEmpty
<1>10. Len(db'.tables[t]) + Len(ingest.rows) <= lines
  <2>1. CASE t \in DOMAIN db.tables
    BY <1>1, <1>4, <2>1 DEF DataInv, IngestTypes
  <2>2. CASE t \notin DOMAIN db.tables
    <3>1. Len(db'.tables[t]) = 0
      BY <1>4, <2>2
    <3> QED
      BY <3>1, <1>1, InHand
  <2> QED
    BY <2>1, <2>2
<1>11. \A u \in Table \ {t} :
        /\ u \in DOMAIN db'.tables <=> u \in DOMAIN db.tables
        /\ u \in DOMAIN db.tables => db'.tables[u] = db.tables[u]
  BY <1>4
<1> QED
  BY <1>1, <1>2, <1>3, <1>5, <1>8, <1>9, <1>10, <1>11, TableStep DEF CreateTable

LEMMA InsertKeeps ==
  ASSUME DataInv, BulkInsert
  PROVE  DataInv'
<1> DEFINE t == ingest.table
           keys == DOMAIN db.tables
<1>1. ingest # NoIngest /\ ingest.step = "insert" /\ t \in keys
  BY UnderWay DEF BulkInsert
<1>2. ingest' = [ingest EXCEPT !.step = "meta"] /\ ingest' # NoIngest
  BY <1>1, Moves DEF BulkInsert
<1>3. /\ db'.catalog = db.catalog /\ db' = [tables |-> db'.tables, catalog |-> db'.catalog]
      /\ db'.tables = [db.tables EXCEPT ![t] = @ \o ingest.rows]
  BY DEF BulkInsert, DataInv, DataTypes
<1>4. /\ db.tables \in [keys -> Seq(Row)] /\ keys \in SUBSET Table
      /\ db.tables[t] \in Seq(Row) /\ Len(db.tables[t]) \in Nat
  BY <1>1 DEF DataInv, DataTypes
<1>5. db'.tables[t] = db.tables[t] \o ingest.rows /\ db'.tables[t] \in Seq(Row)
  BY <1>1, <1>3, <1>4, InHand
<1>6. Len(db'.tables[t]) = Len(db.tables[t]) + Len(ingest.rows)
  BY <1>1, <1>4, <1>5, InHand
<1>7. DOMAIN db'.tables = keys /\ \A u \in keys \ {t} : db'.tables[u] = db.tables[u]
  BY <1>3, <1>4
<1>8. DataTypes'
  <2>1. db'.tables \in [keys -> Seq(Row)]
    BY <1>3, <1>4, <1>5
  <2>2. ASSUME NEW u \in keys PROVE Len(db'.tables[u]) <= lines
    <3>1. CASE u # t
      BY <1>7, <3>1 DEF DataInv, DataTypes
    <3>2. CASE u = t
      BY <1>1, <1>6, <3>2 DEF DataInv, IngestTypes
    <3> QED
      BY <3>1, <3>2
  <2> HIDE DEF keys
  <2> QED
    BY <1>3, <1>4, <2>1, <2>2, TablesTyped DEF BulkInsert, DataInv
<1>9. /\ ingest'.action = ingest.action /\ ingest'.step = "meta" /\ ingest'.table = t
      /\ ingest'.rows = ingest.rows /\ ingest'.before = ingest.before
  BY <1>1, <1>2, InHand
<1>10. ASSUME ingest.action = "REPLACE" PROVE Len(db'.tables[t]) = Len(ingest.rows)
  <2>1. Len(db.tables[t]) = 0
    BY <1>1, <1>10 DEF DataInv, TableInHand
  <2> QED
    BY <2>1, <1>1, <1>6, InHand
<1>11. ASSUME ingest.action = "APPEND", t \notin suspect
       PROVE  Len(db'.tables[t]) = ingest.before + Len(ingest.rows)
  <2>1. Known(ingest.name) /\ FindByName(ingest.name).table = t /\ ingest.name \in Name
    BY <1>1, <1>11, TableOfIngest DEF DataInv
  <2>2. Kept(ingest.name)
    BY <1>1, <1>11, <2>1 DEF DataInv, CatalogKept, Touched
  <2>3. Len(db.tables[t]) = ingest.before
    BY <1>1, <1>11, <2>1, <2>2 DEF DataInv, Routed, Kept, RowsOf
  <2> QED
    BY <1>6, <2>3
<1>12. ASSUME ingest.action \in {"NEW", "NEW_VERSION"}, t \notin suspect
       PROVE  Len(db'.tables[t]) = Len(ingest.rows)
  <2>1. Stray(t) /\ ~Filled(t)
    BY <1>1, <1>12, TableOfIngest DEF DataInv, Filled
  <2>2. Len(db.tables[t]) = 0
    BY <1>1, <1>12, <2>1 DEF DataInv, StraysAreEmpty
  <2> QED
    BY <2>2, <1>1, <1>6, InHand
<1>13. TableInHand'
  BY <1>1, <1>7, <1>9, <1>10, <1>11, <1>12 DEF TableInHand, BulkInsert
<1> QED
  BY <1>1, <1>2, <1>3, <1>7, <1>8, <1>13, TableStep DEF BulkInsert

\* An ingest that throws or dies leaves the table it wrote to under suspicion.
LEMMA GiveUpKeeps ==
  ASSUME DataInv, ingest # NoIngest, GiveUp
  PROVE  DataInv'
<1> DEFINE t == ingest.table
           wrote == ingest.step = "meta" \/ (ingest.action = "REPLACE" /\ ingest.step # "drop")
<1>1. /\ ingest' = NoIngest /\ db' = db /\ lines' = lines
      /\ suspect' = IF wrote THEN suspect \union {t} ELSE suspect
  BY DEF GiveUp, End
<1>2. suspect \subseteq suspect' /\ suspect' \subseteq Table
  BY <1>1, InHand DEF DataInv, DataTypes
<1>3. DataTypes'
  BY <1>1, <1>2 DEF DataInv, DataTypes
<1>4. IngestTypes' /\ Routed' /\ TableInHand'
  BY <1>1 DEF IngestTypes, Routed, TableInHand
<1>5. StraysAreEmpty'
  <2>1. ASSUME NEW u \in DOMAIN db.tables \ suspect', Stray(u)' PROVE db.tables[u] = << >>
    <3>1. ~Filled(u)
      BY <1>1, <2>1 DEF Filled
    <3> QED
      BY <1>1, <1>2, <2>1, <3>1, StraysElsewhere DEF DataInv
  <2> QED
    BY <1>1, <2>1 DEF StraysAreEmpty
<1>6. CatalogKept'
  <2>1. ASSUME NEW name \in Name PROVE Kept(name)'
    <3>1. (Known(name)' <=> Known(name)) /\ FindByName(name)' = FindByName(name)
      BY <1>1, ReadSame
    <3>2. CASE Touched(name)
      <4>1. name = ingest.name /\ wrote /\ ingest.action \in {"REPLACE", "APPEND"}
        BY <3>2 DEF Touched
      <4>2. FindByName(name).table \in suspect'
        BY <4>1, <1>1, TableOfIngest DEF DataInv
      <4> QED
        BY <3>1, <4>2 DEF Kept
    <3>3. CASE ~Touched(name)
      BY <3>1, <3>3, <1>1, <1>2, KeptElsewhere DEF DataInv, CatalogKept
    <3> QED
      BY <3>2, <3>3
  <2> QED
    BY <2>1 DEF CatalogKept
<1> QED
  BY <1>3, <1>4, <1>5, <1>6 DEF DataInv

\* The row that an ingest adds to the catalog is the latest of its name.
LEMMA MetaAdded ==
  ASSUME DataInv, WriteDatasetMeta
  PROVE  \E own \in Name, meta \in Meta :
           /\ own = ingest.name /\ meta.name = own /\ meta.version = ingest.version
           /\ meta.table = ingest.table /\ meta.count = NewCount
           /\ db'.tables = db.tables /\ db'.catalog = Append(db.catalog, meta)
           /\ db' = [tables |-> db'.tables, catalog |-> db'.catalog]
           /\ Known(own) => ingest.version >= FindByName(own).version
           /\ Known(own)' /\ FindByName(own)' = meta
           /\ \A o \in Name \ {own} : (Known(o)' <=> Known(o)) /\ (Known(o) => FindByName(o)' = FindByName(o))
<1>0. PICK own \in Name : own = ingest.name
  BY UnderWay, InHand DEF WriteDatasetMeta
<1> DEFINE t == ingest.table
           meta == [name |-> own, version |-> ingest.version, table |-> t, count |-> NewCount]
<1>1. ingest # NoIngest /\ ingest.step = "meta"
  BY UnderWay DEF WriteDatasetMeta
<1>2. /\ db'.tables = db.tables /\ db'.catalog = Append(db.catalog, meta)
      /\ db' = [tables |-> db'.tables, catalog |-> db'.catalog]
  BY <1>0 DEF WriteDatasetMeta, DataInv, DataTypes
<1>3. NewCount \in 0..lines /\ NewCount \in 0..MaxLine
  <2>1. NewCount \in Nat /\ NewCount <= lines
    BY <1>1, InHand DEF NewCount
  <2> QED
    BY <2>1, <1>1, InHand, DatasetsAssumption DEF DataInv, DataTypes
<1>4. meta \in Meta
  BY <1>1, <1>3, InHand DEF Meta
<1>5. /\ meta.name = own /\ meta.version = ingest.version /\ meta.table = t /\ meta.count = NewCount
  OBVIOUS
<1>6. db.catalog \in Seq(Meta)
  BY DEF DataInv, DataTypes
<1> HIDE DEF meta
<1>7. Known(own) => ingest.version >= FindByName(own).version
  <2>1. CASE ingest.action = "NEW"
    BY <1>0, <1>1, <2>1 DEF DataInv, Routed
  <2>2. CASE ingest.action # "NEW" /\ Known(own)
    <3>1. FindByName(own).version \in Nat
      BY <2>2, Found DEF DataInv
    <3> QED
      BY <3>1, <2>2, <1>0, <1>1 DEF DataInv, Routed
  <2> QED
    BY <2>1, <2>2
<1>8. /\ Known(own)' /\ FindByName(own)' = meta
      /\ \A o \in Name \ {own} : (Known(o)' <=> Known(o)) /\ (Known(o) => FindByName(o)' = FindByName(o))
  <2>1. Listed(db.catalog, own) => meta.version >= LatestOf(db.catalog, own).version
    BY <1>5, <1>7, KnownIs
  <2> DEFINE longer == Append(db.catalog, meta)
  <2>2. Listed(longer, own) /\ LatestOf(longer, own) = meta
    BY <2>1, <1>4, <1>5, <1>6, LatestAppended
  <2>3. ASSUME NEW o \in Name \ {own}
        PROVE  /\ Listed(longer, o) <=> Listed(db.catalog, o)
               /\ Listed(db.catalog, o) => LatestOf(longer, o) = LatestOf(db.catalog, o)
    BY <1>4, <1>5, <1>6, LatestAppended
  <2>4. db'.catalog = longer
    BY <1>2
  <2> HIDE DEF longer
  <2> QED
    BY <2>2, <2>3, <2>4, KnownIs
<1> QED
  BY <1>0, <1>2, <1>4, <1>5, <1>7, <1>8

\* The row that an ingest adds to the catalog is true of its table.
LEMMA MetaKeeps ==
  ASSUME DataInv, WriteDatasetMeta
  PROVE  DataInv'
<1> DEFINE t == ingest.table
<1>1. ingest # NoIngest /\ ingest.step = "meta"
  BY UnderWay DEF WriteDatasetMeta
<1>2. /\ ingest' = NoIngest /\ lines' = lines
      /\ suspect' = IF ingest.action = "REPLACE" THEN suspect \ {t} ELSE suspect
  BY DEF WriteDatasetMeta, End
<1>3. NewCount \in 0..lines
  BY <1>1, InHand DEF NewCount
<1>4. PICK own \in Name, meta \in Meta :
        /\ own = ingest.name /\ meta.name = own /\ meta.version = ingest.version
        /\ meta.table = ingest.table /\ meta.count = NewCount
        /\ db'.tables = db.tables /\ db'.catalog = Append(db.catalog, meta)
        /\ db' = [tables |-> db'.tables, catalog |-> db'.catalog]
        /\ Known(own) => ingest.version >= FindByName(own).version
        /\ Known(own)' /\ FindByName(own)' = meta
        /\ \A o \in Name \ {own} : (Known(o)' <=> Known(o)) /\ (Known(o) => FindByName(o)' = FindByName(o))
  BY MetaAdded
<1>5. /\ t = <<own, ingest.version>> /\ ingest.version \in Nat
      /\ t[1] = own /\ t[2] = ingest.version
  <2>1. t = <<own, ingest.version>>
    BY <1>4, <1>1 DEF DataInv, IngestTypes
  <2> QED
    BY <2>1, <1>1, InHand, DatasetsAssumption
<1>6. db.catalog \in Seq(Meta) /\ DOMAIN db.tables \subseteq Table
  BY DEF DataInv, DataTypes
<1>7. DataTypes'
  <2>1. db'.catalog \in Seq(Meta)
    BY <1>4, <1>6
  <2>2. ASSUME NEW i \in DOMAIN db'.catalog
        PROVE  /\ db'.catalog[i].count <= lines
               /\ db'.catalog[i].table = <<db'.catalog[i].name, db'.catalog[i].version>>
    <3>1. CASE i \in DOMAIN db.catalog
      <4>1. db'.catalog[i] = db.catalog[i]
        BY <1>4, <1>6, <3>1
      <4> QED
        BY <4>1, <3>1 DEF DataInv, DataTypes
    <3>2. CASE i \notin DOMAIN db.catalog
      <4>1. db'.catalog[i] = meta
        BY <1>4, <1>6, <3>2
      <4> QED
        BY <4>1, <1>3, <1>5, <1>4
    <3> QED
      BY <3>1, <3>2
  <2>3. suspect' \subseteq Table
    BY <1>2 DEF DataInv, DataTypes
  <2> QED
    BY <1>2, <1>4, <2>1, <2>2, <2>3 DEF DataInv, DataTypes
<1>8. IngestTypes' /\ Routed' /\ TableInHand'
  BY <1>2 DEF IngestTypes, Routed, TableInHand
<1>9. StraysAreEmpty'
  <2>1. ASSUME NEW u \in DOMAIN db.tables \ suspect', Stray(u)' PROVE db.tables[u] = << >>
    <3>1. u \in Table /\ u = <<u[1], u[2]>> /\ u[1] \in Name /\ u[2] \in 1..MaxVersion /\ u[2] \in Nat
      BY <1>6, <2>1, DatasetsAssumption DEF Table
    <3>2. u # t
      <4>1. SUFFICES ASSUME u = t PROVE FALSE
        OBVIOUS
      <4>2. u[1] = own /\ u[2] = ingest.version
        BY <4>1, <1>5
      <4>3. Known(u[1])' /\ FindByName(u[1])' = meta
        BY <4>2, <1>4
      <4>4. u[2] > FindByName(u[1])'.version
        BY <4>3, <2>1 DEF Stray
      <4>5. u[2] > ingest.version
        BY <4>3, <4>4, <1>4
      <4> QED
        BY <4>2, <4>5, <1>5
    <3>3. u \notin suspect /\ ~Filled(u)
      BY <3>2, <2>1, <1>2 DEF Filled
    <3>4. Stray(u)
      <4>1. CASE u[1] # own
        BY <4>1, <3>1, <2>1, <1>4 DEF Stray
      <4>2. CASE u[1] = own /\ Known(own)
        <5>1. u[2] > ingest.version
          <6>1. Known(u[1])' /\ FindByName(u[1])' = meta
            BY <4>2, <1>4
          <6>2. u[2] > FindByName(u[1])'.version
            BY <6>1, <2>1 DEF Stray
          <6> QED
            BY <6>1, <6>2, <1>4
        <5>2. FindByName(own).version \in Nat
          BY <4>2, Found DEF DataInv
        <5> QED
          BY <4>2, <5>1, <5>2, <3>1, <1>5, <1>4 DEF Stray
      <4> QED
        BY <4>1, <4>2 DEF Stray
    <3> QED
      BY <2>1, <3>3, <3>4 DEF DataInv, StraysAreEmpty
  <2> QED
    BY <1>4, <2>1 DEF StraysAreEmpty
<1>10. CatalogKept'
  <2>1. ASSUME t \notin suspect' PROVE t \in DOMAIN db.tables /\ Len(db.tables[t]) = NewCount
    BY <1>1, <1>2, <2>1, InHand DEF DataInv, TableInHand, NewCount
  <2>2. Kept(own)'
    BY <1>2, <1>4, <2>1 DEF Kept, Readable, RowsOf
  <2>3. ASSUME NEW name \in Name \ {own}, Known(name) PROVE Kept(name)'
    <3>1. Kept(name) /\ FindByName(name).table # t
      BY <1>4, <1>1, <2>3, TableOfIngest DEF DataInv, CatalogKept, Touched
    <3> QED
      BY <3>1, <2>3, <1>2, <1>4, KeptElsewhere
  <2> QED
    BY <2>2, <2>3, <1>4 DEF CatalogKept, Kept
<1> QED
  BY <1>7, <1>8, <1>9, <1>10 DEF DataInv

LEMMA DataStays ==
  ASSUME DataInv, UNCHANGED datasetVars
  PROVE  DataInv'
<1>1. db' = db /\ ingest' = ingest /\ lines' = lines /\ suspect' = suspect
  BY DEF datasetVars
<1>2. \A o : /\ Known(o)' <=> Known(o)
             /\ FindByName(o)' = FindByName(o)
             /\ Kept(o)' <=> Kept(o)
             /\ Touched(o)' <=> Touched(o)
  <2> TAKE o
  <2>1. /\ Known(o)' <=> Known(o)
        /\ FindByName(o)' = FindByName(o)
        /\ Readable(o)' <=> Readable(o)
        /\ RowsOf(o)' = RowsOf(o)
    BY <1>1, ReadSame
  <2> QED
    BY <1>1, <2>1 DEF Kept, Touched
<1>3. \A t : (Stray(t)' <=> Stray(t)) /\ (Filled(t)' <=> Filled(t))
  BY <1>1, <1>2 DEF Stray, Filled
<1>4. DataTypes' /\ IngestTypes' /\ TableInHand'
  BY <1>1 DEF DataInv, DataTypes, IngestTypes, TableInHand
<1>5. Routed'
  BY <1>1, <1>2 DEF DataInv, Routed
<1>6. StraysAreEmpty' /\ CatalogKept'
  BY <1>1, <1>2, <1>3 DEF DataInv, StraysAreEmpty, CatalogKept
<1> QED
  BY <1>4, <1>5, <1>6 DEF DataInv

LEMMA DataStep ==
  ASSUME DataInv, IngestSteps
  PROVE  DataInv'
<1>1. ASSUME InsertFails PROVE DataInv'
  BY <1>1, UnderWay, GiveUpKeeps DEF InsertFails
<1> QED
  BY <1>1, RouteKeeps, DropKeeps, CreateKeeps, InsertKeeps, MetaKeeps DEF IngestSteps

LEMMA DataStart == DatasetsInit => DataInv
<1> SUFFICES ASSUME DatasetsInit PROVE DataInv
  OBVIOUS
<1>1. db = [tables |-> << >>, catalog |-> << >>] /\ ingest = NoIngest /\ lines = 0 /\ suspect = {}
  BY DEF DatasetsInit
<1>2. db.tables = << >> /\ db.catalog = << >> /\ DOMAIN db.tables = {} /\ DOMAIN db.catalog = {}
  BY <1>1
<1>3. DataTypes
  <2>1. db.tables \in [DOMAIN db.tables -> Seq(Row)]
    BY <1>2
  <2> QED
    BY <1>1, <1>2, <2>1, DatasetsAssumption DEF DataTypes
<1>4. \A name : ~Known(name)
  BY <1>2 DEF Known
<1> QED
  BY <1>1, <1>2, <1>3, <1>4 DEF DataInv, IngestTypes, Routed, TableInHand, StraysAreEmpty, CatalogKept, Kept

-----------------------------------------------------------------------------
(* The index follows the datasets                                           *)

\* The rows of a name can be read as before, and where they were.
RowsStay(name) ==
  /\ Readable(name)'
  /\ \A r \in DOMAIN RowsOf(name) : r \in DOMAIN RowsOf(name)' /\ RowsOf(name)'[r] = RowsOf(name)[r]

\* The ingest under way gives the name another table, or the table other rows.
Replaces(name) == ingest # NoIngest /\ ingest.name = name /\ ingest.action \in {"REPLACE", "NEW_VERSION"}

LEMMA AppendedStay ==
  ASSUME NEW a \in Seq(Row), NEW b \in Seq(Row), NEW r \in DOMAIN a
  PROVE  r \in DOMAIN (a \o b) /\ (a \o b)[r] = a[r]
<1>1. Len(a) \in Nat /\ Len(b) \in Nat /\ r \in 1..Len(a)
  OBVIOUS
<1>2. r \in 1..(Len(a) + Len(b))
  BY <1>1
<1> QED
  BY <1>1, <1>2

LEMMA SameRowsStay ==
  ASSUME NEW name, Readable(name), db' = db
  PROVE  RowsStay(name)
  BY ReadSame DEF RowsStay

LEMMA TableRowsStay ==
  ASSUME NEW name, Readable(name), Known(name)',
         LET t == FindByName(name).table IN
           /\ FindByName(name)'.table = t
           /\ t \in DOMAIN db'.tables
           /\ \A r \in DOMAIN db.tables[t] : r \in DOMAIN db'.tables[t] /\ db'.tables[t][r] = db.tables[t][r]
  PROVE  RowsStay(name)
<1>1. RowsOf(name)' = db'.tables[FindByName(name).table]
  BY DEF RowsOf
<1>2. RowsOf(name) = db.tables[FindByName(name).table]
  BY DEF RowsOf
<1>3. Readable(name)'
  BY DEF Readable
<1> QED
  BY <1>1, <1>2, <1>3 DEF RowsStay

\* Appending leaves the rows there are where they are, and nothing else
\* touches them but a replacement.
LEMMA IngestGrows ==
  ASSUME DataInv, IngestSteps, NEW name \in Name, Readable(name), ~Replaces(name)
  PROVE  RowsStay(name)
<1>1. Known(name) /\ FindByName(name).table \in DOMAIN db.tables
  BY DEF Readable
<1>2. ingest # NoIngest /\ name # ingest.name => FindByName(name).table # ingest.table
  BY <1>1, TableOfIngest DEF DataInv
<1>3. ingest # NoIngest /\ name = ingest.name => ingest.action = "APPEND"
  BY <1>1, InHand, TableOfIngest DEF DataInv, Replaces
<1>4. CASE db' = db
  BY <1>4, SameRowsStay
<1>5. CASE DropTable
  <2>1. ingest # NoIngest /\ ingest.action = "REPLACE"
    BY <1>5, UnderWay DEF DropTable, DataInv, IngestTypes
  <2>2. FindByName(name).table # ingest.table
    BY <1>2, <1>3, <2>1
  <2>3. db'.catalog = db.catalog /\ db'.tables = [u \in DOMAIN db.tables \ {ingest.table} |-> db.tables[u]]
    BY <1>5 DEF DropTable, DataInv, DataTypes, Restrict
  <2> QED
    BY <1>1, <2>2, <2>3, CatalogSame, TableRowsStay
<1>6. CASE CreateTable
  <2>1. db'.catalog = db.catalog /\ db'.tables = Over(db.tables, [table \in {ingest.table} |-> << >>])
    BY <1>6 DEF CreateTable, DataInv, DataTypes
  <2>2. FindByName(name).table \in DOMAIN db'.tables
        /\ db'.tables[FindByName(name).table] = db.tables[FindByName(name).table]
    BY <1>1, <2>1 DEF Over
  <2> QED
    BY <1>1, <2>1, <2>2, CatalogSame, TableRowsStay
<1>7. CASE BulkInsert
  <2> DEFINE t == ingest.table
             own == FindByName(name).table
  <2>1. ingest # NoIngest /\ t \in DOMAIN db.tables
    BY <1>7, UnderWay DEF BulkInsert
  <2>2. db'.catalog = db.catalog /\ db'.tables = [db.tables EXCEPT ![t] = @ \o ingest.rows]
    BY <1>7 DEF BulkInsert, DataInv, DataTypes
  <2>3. DOMAIN db'.tables = DOMAIN db.tables
    BY <2>2
  <2>4. CASE own # t
    <3>1. db'.tables[own] = db.tables[own]
      BY <2>2, <2>4, <1>1
    <3> QED
      BY <1>1, <2>2, <2>3, <3>1, CatalogSame, TableRowsStay
  <2>5. CASE own = t
    <3>1. db'.tables[t] = db.tables[t] \o ingest.rows
      BY <2>1, <2>2
    <3>2. db.tables[t] \in Seq(Row) /\ ingest.rows \in Seq(Row)
      BY <2>1, InHand DEF DataInv, DataTypes
    <3>3. ASSUME NEW r \in DOMAIN db.tables[t]
          PROVE  r \in DOMAIN db'.tables[t] /\ db'.tables[t][r] = db.tables[t][r]
      <4>1. LET all == db.tables[t] \o ingest.rows IN r \in DOMAIN all /\ all[r] = db.tables[t][r]
        BY <3>2, <3>3, AppendedStay
      <4> QED
        BY <3>1, <4>1
    <3> QED
      BY <1>1, <2>2, <2>3, <2>5, <3>3, CatalogSame, TableRowsStay
  <2> QED
    BY <2>4, <2>5
<1>8. CASE WriteDatasetMeta
  <2>1. PICK own \in Name, meta \in Meta :
          /\ own = ingest.name /\ meta.table = ingest.table /\ db'.tables = db.tables
          /\ Known(own)' /\ FindByName(own)' = meta
          /\ \A o \in Name \ {own} : (Known(o)' <=> Known(o)) /\ (Known(o) => FindByName(o)' = FindByName(o))
    BY <1>8, MetaAdded
  <2>2. ingest # NoIngest
    BY <1>8, UnderWay DEF WriteDatasetMeta
  <2>3. CASE name # own
    BY <1>1, <2>1, <2>3, TableRowsStay
  <2>4. CASE name = own
    <3>1. FindByName(name).table = ingest.table
      BY <1>3, <2>1, <2>2, <2>4, TableOfIngest DEF DataInv
    <3> QED
      BY <1>1, <2>1, <2>4, <3>1, TableRowsStay
  <2> QED
    BY <2>3, <2>4
<1>9. ASSUME \/ \E n \in 0..MaxLine, o \in Name : RouteIngest(o, n)
             \/ InsertFails
      PROVE  db' = db
  BY <1>9 DEF RouteIngest, Route, InsertFails, GiveUp
<1> QED
  BY <1>4, <1>5, <1>6, <1>7, <1>8, <1>9 DEF IngestSteps

\* Rows that stay keep the promises of the index about them.
LEMMA IndexFollows ==
  ASSUME IndexInv, index' = index \/ index' = Torn, indexed' \in [Name -> Seq(Row)],
         \A name \in Name : indexed'[name] = << >> \/ (indexed'[name] = indexed[name] /\ (Readable(name) => RowsStay(name)))
  PROVE  IndexInv'
<1>1. RagTypes'
  BY DEF IndexInv, RagTypes
<1>2. ASSUME NEW name \in Name, indexed'[name] # << >>
      PROVE  /\ indexed'[name] = indexed[name]
             /\ RowsStay(name)
             /\ \A r \in DOMAIN indexed[name] :
                  r \in DOMAIN RowsOf(name)' /\ RowsOf(name)'[r] = indexed[name][r]
  <2>1. indexed'[name] = indexed[name] /\ Readable(name)
    BY <1>2 DEF IndexInv, IndexedIsThere
  <2>2. RowsStay(name)
    BY <1>2, <2>1
  <2> QED
    BY <1>2, <2>1, <2>2 DEF RowsStay, IndexInv, IndexedIsThere
<1>3. IndexedIsThere'
  BY <1>2 DEF IndexedIsThere, RowsStay
<1>4. IndexTrue'
  <2>1. ASSUME index' # Torn, NEW name \in Name, NEW r \in DOMAIN indexed'[name]
        PROVE  /\ <<name, r>> \in DOMAIN index' /\ index'[<<name, r>>] = indexed'[name][r]
               /\ RowsOf(name)'[r] = indexed'[name][r]
    <3>1. indexed'[name] # << >>
      BY <2>1
    <3> QED
      BY <1>2, <2>1, <3>1 DEF IndexInv, IndexTrue
  <2> QED
    BY <2>1 DEF IndexTrue
<1> QED
  BY <1>1, <1>3, <1>4 DEF IndexInv

LEMMA IngestKeepsIndex ==
  ASSUME DataInv, IndexInv, IngestSteps, Reindexed, UNCHANGED index
  PROVE  IndexInv'
<1>1. \A name \in Name : indexed'[name] = IF Replaces(name) THEN << >> ELSE indexed[name]
  BY DEF Reindexed, Replaces
<1>2. indexed' \in [Name -> Seq(Row)]
  <2>1. \A name \in Name : indexed'[name] \in Seq(Row)
    <3>1. indexed \in [Name -> Seq(Row)] /\ << >> \in Seq(Row)
      BY DEF IndexInv, RagTypes
    <3> QED
      BY <1>1, <3>1
  <2> QED
    BY <2>1 DEF Reindexed
<1> QED
  BY <1>1, <1>2, IngestGrows, IndexFollows

LEMMA SameRowsKeepIndex ==
  ASSUME IndexInv, db' = db, index' = index \/ index' = Torn, UNCHANGED indexed
  PROVE  IndexInv'
<1>1. indexed' \in [Name -> Seq(Row)]
  BY DEF IndexInv, RagTypes
<1> QED
  BY <1>1, SameRowsStay, IndexFollows

\* The rows of a name that can be read, as what they are.
LEMMA ReadableRows ==
  ASSUME DataInv, NEW name, Readable(name)
  PROVE  /\ RowsOf(name) \in Seq(Row) /\ Len(RowsOf(name)) \in 0..MaxLine
         /\ DOMAIN RowsOf(name) = 1..Len(RowsOf(name)) /\ DOMAIN RowsOf(name) \subseteq Row
         /\ IsFiniteSet(DOMAIN RowsOf(name))
<1>1. FindByName(name).table \in DOMAIN db.tables
  BY DEF Readable
<1>2. RowsOf(name) \in Seq(Row) /\ Len(RowsOf(name)) <= lines /\ lines \in 0..MaxLine
  BY <1>1 DEF RowsOf, DataInv, DataTypes
<1>3. Len(RowsOf(name)) \in 0..MaxLine /\ DOMAIN RowsOf(name) = 1..Len(RowsOf(name))
  BY <1>2, DatasetsAssumption
<1>4. DOMAIN RowsOf(name) \subseteq Row
  BY <1>3, DatasetsAssumption DEF Row
<1>5. IsFiniteSet(DOMAIN RowsOf(name))
  BY <1>3, FS_Interval
<1> QED
  BY <1>2, <1>3, <1>4, <1>5

LEMMA IndexingKeeps ==
  ASSUME DataInv, IndexInv, NEW name \in Name, IndexRows(name), UNCHANGED datasetVars
  PROVE  IndexInv'
<1> DEFINE rows == RowsOf(name)
           keys == {name} \X (1..Len(rows))
<1>1. /\ Readable(name) /\ index # Torn /\ db' = db
      /\ index' = Over(RecordsOf(name), index) /\ indexed' = [indexed EXCEPT ![name] = rows]
  BY DEF IndexRows, Upsert, datasetVars
<1>2. rows \in Seq(Row) /\ DOMAIN rows = 1..Len(rows) /\ DOMAIN rows \subseteq Row
  BY <1>1, ReadableRows
<1>3. index \in [DOMAIN index -> Row] /\ DOMAIN index \subseteq Name \X Row /\ indexed \in [Name -> Seq(Row)]
  BY <1>1 DEF IndexInv, RagTypes
<1>4. DOMAIN RecordsOf(name) = keys /\ \A r \in 1..Len(rows) : RecordsOf(name)[<<name, r>>] = rows[r]
  BY DEF RecordsOf
<1>5. /\ DOMAIN index' = keys \union DOMAIN index
      /\ index' = [key \in keys \union DOMAIN index |-> IF key \in keys THEN RecordsOf(name)[key] ELSE index[key]]
  BY <1>1, <1>4 DEF Over
<1>6. RagTypes'
  <2>1. \A key \in keys : RecordsOf(name)[key] \in Row /\ key \in Name \X Row
    <3> TAKE key \in keys
    <3>1. key = <<name, key[2]>> /\ key[2] \in 1..Len(rows)
      OBVIOUS
    <3>2. rows[key[2]] \in Row /\ key[2] \in Row
      BY <1>2, <3>1
    <3> QED
      BY <1>4, <3>1, <3>2
  <2>2. index' \in [DOMAIN index' -> Row] /\ DOMAIN index' \subseteq Name \X Row
    BY <1>3, <1>5, <2>1
  <2>3. indexed' \in [Name -> Seq(Row)]
    BY <1>1, <1>2, <1>3
  <2> QED
    BY <2>2, <2>3 DEF RagTypes
<1>7. \A o : (Readable(o)' <=> Readable(o)) /\ RowsOf(o)' = RowsOf(o)
  BY <1>1, ReadSame
<1>8. indexed'[name] = rows /\ \A o \in Name \ {name} : indexed'[o] = indexed[o]
  BY <1>1, <1>3
<1>9. IndexedIsThere'
  <2>1. \A o \in Name : indexed'[o] # << >> =>
          /\ Readable(o)
          /\ \A r \in DOMAIN indexed'[o] : r \in DOMAIN RowsOf(o) /\ RowsOf(o)[r] = indexed'[o][r]
    BY <1>1, <1>8 DEF IndexInv, IndexedIsThere
  <2> QED
    BY <1>7, <2>1 DEF IndexedIsThere
<1>10. IndexTrue'
  <2>1. ASSUME NEW r \in DOMAIN indexed'[name]
        PROVE  /\ <<name, r>> \in DOMAIN index' /\ index'[<<name, r>>] = indexed'[name][r]
               /\ RowsOf(name)'[r] = indexed'[name][r]
    <3>1. r \in 1..Len(rows) /\ <<name, r>> \in keys
      BY <1>2, <1>8, <2>1
    <3> QED
      BY <1>4, <1>5, <1>7, <1>8, <3>1
  <2>2. ASSUME NEW o \in Name \ {name}, NEW r \in DOMAIN indexed'[o]
        PROVE  /\ <<o, r>> \in DOMAIN index' /\ index'[<<o, r>>] = indexed'[o][r]
               /\ RowsOf(o)'[r] = indexed'[o][r]
    <3>1. /\ <<o, r>> \in DOMAIN index /\ index[<<o, r>>] = indexed[o][r]
          /\ RowsOf(o)[r] = indexed[o][r]
      BY <1>1, <1>8, <2>2 DEF IndexInv, IndexTrue
    <3>2. <<o, r>> \notin keys
      BY <2>2
    <3> QED
      BY <1>5, <1>7, <1>8, <2>2, <3>1, <3>2
  <2> QED
    BY <2>1, <2>2 DEF IndexTrue
<1> QED
  BY <1>6, <1>9, <1>10 DEF IndexInv

-----------------------------------------------------------------------------
(* Sessions                                                                 *)

\* The positions of a cursor on a table of so many rows.
Positions(count) == {0} \union 1..(count - 1)

LEMMA CursorMoves ==
  ASSUME NEW name, Count(name) \in Nat
  PROVE  /\ \A i \in Int : Clamp(name, i) \in Positions(Count(name))
         /\ \A at \in Positions(Count(name)), n \in Nat : Jump(name, at, n) \in Positions(Count(name))
<1>1. \A i \in Int : Clamp(name, i) \in Positions(Count(name))
  BY DEF Clamp, AtLeast, AtMost, Positions
<1>2. \A at \in Positions(Count(name)), n \in Nat : Jump(name, at, n) \in Positions(Count(name))
  BY DEF Jump, Positions
<1> QED
  BY <1>1, <1>2

LEMMA ResumesInRange ==
  ASSUME NEW name, Count(name) \in Nat, NEW cursor \in [rowid : 0..MaxLine, index : 0..MaxLine]
  PROVE  ResumeAt(name, cursor) \in Positions(Count(name))
<1>1. cursor.rowid \in Nat /\ cursor.index \in Nat
  BY DatasetsAssumption
<1>2. CASE cursor.rowid = 0
  BY <1>2 DEF ResumeAt, Positions
<1>3. CASE cursor.rowid # 0 /\ cursor.rowid <= Count(name)
  <2>1. ResumeAt(name, cursor) = cursor.rowid - 1
    BY <1>3 DEF ResumeAt
  <2> QED
    BY <2>1, <1>1, <1>3 DEF Positions
<1>4. CASE cursor.rowid # 0 /\ ~(cursor.rowid <= Count(name))
  <2> DEFINE n == AtMost(cursor.index + 1, AtLeast(1, Count(name)))
  <2>1. n \in Nat
    BY <1>1 DEF AtMost, AtLeast
  <2>2. ResumeAt(name, cursor) = Jump(name, 0, n)
    BY <1>4 DEF ResumeAt
  <2>3. 0 \in Positions(Count(name))
    BY DEF Positions
  <2> HIDE DEF n
  <2> QED
    BY <2>1, <2>2, <2>3, CursorMoves
<1> QED
  BY <1>2, <1>3, <1>4

LEMMA CursorTyped ==
  ASSUME NEW name, Count(name) \in 0..MaxLine, NEW at \in Positions(Count(name))
  PROVE  Cursor(name, at) \in [rowid : 0..MaxLine, index : 0..MaxLine]
<1>1. CASE Count(name) = 0
  BY <1>1, DatasetsAssumption DEF Cursor, NoCursor
<1>2. CASE Count(name) # 0
  <2>1. at + 1 \in 0..MaxLine /\ at \in 0..MaxLine
    BY <1>2, DatasetsAssumption DEF Positions
  <2> QED
    BY <1>2, <2>1 DEF Cursor
<1> QED
  BY <1>1, <1>2

\* The files, without the desk.
RecordsTyped == record \in [Session -> Record \union {TornRecord}] /\ said \in 0..MaxEntry

LEMMA ClearDesk ==
  ASSUME RecordsTyped', desk' = NoDesk
  PROVE  DeskInv'
  BY DEF RecordsTyped, DeskInv, DeskShape, DeskIsSaved

LEMMA DeskStays ==
  ASSUME DeskInv, UNCHANGED <<datasetVars, sessionVars>>
  PROVE  DeskInv'
<1>1. db' = db /\ ingest' = ingest /\ record' = record /\ desk' = desk /\ said' = said
  BY DEF datasetVars, sessionVars
<1>2. desk # NoDesk => (Readable(desk.name)' <=> Readable(desk.name)) /\ Count(desk.name)' = Count(desk.name)
  <2>1. desk'.name = desk.name
    BY <1>1
  <2> QED
    BY <1>1, <2>1 DEF Readable, Count, Known, FindByName, RowsOf
<1> QED
  BY <1>1, <1>2 DEF DeskInv, DeskShape, DeskIsSaved

LEMMA RecordShape ==
  ASSUME NEW r \in Record
  PROVE  /\ r = [rowByRow |-> r.rowByRow, findings |-> r.findings]
         /\ r.findings \subseteq Note /\ (r.rowByRow = NoState \/ r.rowByRow \in State)
         /\ r # TornRecord
  BY SessionAssumption DEF Record

LEMMA StateShape ==
  ASSUME NEW state \in State
  PROVE  /\ state.entries \subseteq Entry
         /\ state.cursor \in [rowid : 0..MaxLine, index : 0..MaxLine]
         /\ state # NoState
  BY SessionAssumption DEF State

\* A session on the desk: its own state, or none yet.
LEMMA ChoiceKeeps ==
  ASSUME DataInv, DeskInv, NEW s \in Session, NEW name \in Name, NEW state \in State,
         ChooseSession(s, name, state), ingest = NoIngest, UNCHANGED datasetVars,
         record[s].rowByRow = NoState => state.entries = {},
         record[s].rowByRow # NoState => state.entries = record[s].rowByRow.entries
  PROVE  DeskInv'
<1>1. /\ Readable(name) /\ record[s] # TornRecord /\ record' = record /\ said' = said
      /\ desk' = [session |-> s, name |-> name, at |-> ResumeAt(name, state.cursor), state |-> state]
  BY DEF ChooseSession
<1>2. db' = db /\ ingest' = NoIngest
  BY DEF datasetVars
<1>3. Count(name) \in Nat
  BY <1>1, ReadableRows, DatasetsAssumption DEF Count
<1>4. ResumeAt(name, state.cursor) \in Positions(Count(name))
  BY <1>3, StateShape, ResumesInRange
<1>5. PICK at \in Positions(Count(name)) : at = ResumeAt(name, state.cursor)
  BY <1>4
<1>6. /\ desk'.session = s /\ desk'.name = name /\ desk'.at = at /\ desk'.state = state
      /\ desk' = [session |-> desk'.session, name |-> desk'.name, at |-> desk'.at, state |-> desk'.state]
  BY <1>1, <1>5, SMTT(30)
<1>7. Readable(desk.name)' /\ Count(desk.name)' = Count(name)
  <2>1. Readable(name)' /\ Count(name)' = Count(name)
    BY <1>1, <1>2, ReadSame DEF Count
  <2> QED
    BY <2>1, <1>6, ZenonT(30) DEF Readable, Count, Known, FindByName, RowsOf
<1>8. at = 0 \/ at \in 1..(Count(desk.name)' - 1)
  BY <1>5, <1>7 DEF Positions
<1>9. DeskShape'
  BY <1>1, <1>6, <1>8 DEF DeskInv, DeskShape
<1>10. DeskIsSaved'
  BY <1>1, <1>2, <1>6, <1>7 DEF DeskIsSaved
<1> QED
  BY <1>9, <1>10 DEF DeskInv

LEMMA SessionOpens ==
  ASSUME DataInv, DeskInv, NEW s \in Session, NEW name \in Name, ingest = NoIngest, UNCHANGED datasetVars,
         StartFresh(s, name) \/ ResumeSession(s, name)
  PROVE  DeskInv' /\ UNCHANGED record
<1>1. record[s] \in Record \union {TornRecord}
  BY DEF DeskInv, DeskShape
<1>2. CASE StartFresh(s, name)
  <2>1. record[s].rowByRow = NoState
    BY <1>2 DEF StartFresh, HasSlice
  <2>2. DefaultState \in State /\ DefaultState.entries = {}
    BY DatasetsAssumption DEF DefaultState, State, NoCursor
  <2> QED
    BY <1>2, <2>1, <2>2, ChoiceKeeps DEF StartFresh, ChooseSession
<1>3. CASE ResumeSession(s, name)
  <2>1. record[s] \in Record /\ record[s].rowByRow # NoState
    BY <1>1, <1>3 DEF ResumeSession, HasSlice
  <2>2. record[s].rowByRow \in State
    BY <2>1, RecordShape
  <2> QED
    BY <1>3, <2>1, <2>2, ChoiceKeeps DEF ResumeSession, ChooseSession
<1> QED
  BY <1>2, <1>3

-----------------------------------------------------------------------------
(* Writing records                                                          *)

\* The book of the abstract specification, before and after.
BookOf(r) == IF r = TornRecord THEN {} ELSE Entries(r)

\* One record is written, and has these entries then.
Wrote(s, entries) ==
  /\ record[s] \in Record /\ record'[s] \in Record
  /\ Entries(record'[s]) = entries
  /\ record' = [record EXCEPT ![s] = record'[s]]

\* A note is only added, so an entry that joins the state joins the book.
LEMMA WithNotes ==
  ASSUME NEW notes \in SUBSET Note, NEW entries, NEW book, book = notes \union entries, NEW e
  PROVE  With(book, e) = notes \union With(entries, e)
<1>1. \A f \in notes : f.kind = "note"
  BY DEF Note
<1> QED
  BY <1>1, SessionAssumption DEF With

LEMMA WithNote ==
  ASSUME NEW entries, NEW e \in Note
  PROVE  With(entries, e) = entries \union {e}
<1>1. e.kind = "note"
  BY DEF Note
<1> QED
  BY <1>1, SessionAssumption DEF With

LEMMA WithTyped ==
  ASSUME NEW entries \in SUBSET Entry, NEW e \in Entry
  PROVE  With(entries, e) \in SUBSET Entry
  BY DEF With

LEMMA CommandKeeps ==
  ASSUME DataInv, DeskInv, desk # NoDesk, UNCHANGED datasetVars, said' \in 0..MaxEntry,
         NEW at \in Positions(Count(desk.name)), NEW entries \in SUBSET Entry, Command(at, entries)
  PROVE  DeskInv' /\ Wrote(desk.session, record[desk.session].findings \union entries)
<1>0. PICK s \in Session, name \in Name : s = desk.session /\ name = desk.name
  BY DEF DeskInv, DeskShape
<1> DEFINE state == [cursor |-> Cursor(name, at), entries |-> entries]
           new == [record[s] EXCEPT !.rowByRow = state]
<1>1. /\ desk = [session |-> desk.session, name |-> desk.name, at |-> desk.at, state |-> desk.state]
      /\ desk.state \in State /\ record \in [Session -> Record \union {TornRecord}]
      /\ ingest = NoIngest /\ Readable(name)
      /\ record[s] # TornRecord
      /\ record[s].rowByRow = NoState => desk.state.entries = {}
      /\ record[s].rowByRow # NoState => desk.state.entries = record[s].rowByRow.entries
  BY <1>0 DEF DeskInv, DeskShape, DeskIsSaved
<1>2. desk' = [desk EXCEPT !.at = at, !.state = state] /\ record' = [record EXCEPT ![s] = new]
  BY <1>0 DEF Command, Persist
<1>3. db' = db /\ ingest' = NoIngest
  BY <1>1 DEF datasetVars
<1>4. state \in State
  <2>1. Count(name) \in 0..MaxLine
    BY <1>1, ReadableRows DEF Count
  <2>2. Cursor(name, at) \in [rowid : 0..MaxLine, index : 0..MaxLine]
    BY <1>0, <2>1, CursorTyped
  <2> QED
    BY <2>2 DEF State
<1>5. record[s] \in Record
  BY <1>1
<1>6. /\ new = [rowByRow |-> state, findings |-> record[s].findings]
      /\ new \in Record
  <2>1. /\ record[s] = [rowByRow |-> record[s].rowByRow, findings |-> record[s].findings]
        /\ record[s].findings \subseteq Note
    BY <1>5, RecordShape
  <2>2. new = [rowByRow |-> state, findings |-> record[s].findings]
    BY <2>1
  <2> HIDE DEF state, new
  <2> QED
    BY <2>1, <2>2, <1>4 DEF Record
<1>7. record'[s] = new
  BY <1>1, <1>2
<1>8. state.entries = entries
  OBVIOUS
<1>9. /\ desk'.session = s /\ desk'.name = name /\ desk'.at = at /\ desk'.state = state
      /\ desk' = [session |-> desk'.session, name |-> desk'.name, at |-> desk'.at, state |-> desk'.state]
  BY <1>0, <1>1, <1>2
<1> HIDE DEF state, new
<1>10. Wrote(desk.session, record[desk.session].findings \union entries)
  <2>1. Entries(new) = record[s].findings \union state.entries
    BY <1>4, <1>6, StateShape DEF Entries
  <2> QED
    BY <1>0, <1>2, <1>5, <1>6, <1>7, <1>8, <2>1, ZenonT(30) DEF Wrote
<1>11. Readable(desk.name)' /\ Count(desk.name)' = Count(name)
  <2>1. Readable(name)' /\ Count(name)' = Count(name)
    BY <1>1, <1>3, ReadSame DEF Count
  <2> QED
    BY <2>1, <1>9, ZenonT(30) DEF Readable, Count, Known, FindByName, RowsOf
<1>12. at = 0 \/ at \in 1..(Count(desk.name)' - 1)
  BY <1>0, <1>11 DEF Positions
<1>13. record' \in [Session -> Record \union {TornRecord}]
  BY <1>1, <1>2, <1>6
<1>14. DeskShape'
  BY <1>4, <1>9, <1>12, <1>13 DEF DeskShape
<1>15. DeskIsSaved'
  <2>1. record'[s] # TornRecord /\ record'[s].rowByRow = state /\ state # NoState
    BY <1>4, <1>6, <1>7, RecordShape, StateShape
  <2> QED
    BY <2>1, <1>3, <1>9, <1>11 DEF DeskIsSaved
<1> QED
  BY <1>10, <1>14, <1>15 DEF DeskInv

\* The book of the session on the desk.
LEMMA BookOnDesk ==
  ASSUME DeskInv, desk # NoDesk
  PROVE  /\ desk.session \in Session /\ record[desk.session] \in Record
         /\ record[desk.session].findings \in SUBSET Note /\ desk.state.entries \in SUBSET Entry
         /\ Entries(record[desk.session]) = record[desk.session].findings \union desk.state.entries
<1>1. desk.session \in Session /\ record[desk.session] \in Record /\ desk.state \in State
  BY DEF DeskInv, DeskShape, DeskIsSaved
<1>2. record[desk.session].findings \in SUBSET Note /\ desk.state.entries \in SUBSET Entry
  BY <1>1, RecordShape, StateShape
<1> QED
  BY <1>1, <1>2 DEF DeskInv, DeskIsSaved, Entries

LEMMA MoveKeeps ==
  ASSUME DataInv, DeskInv, Move, UNCHANGED datasetVars
  PROVE  DeskInv' /\ Wrote(desk.session, Entries(record[desk.session]))
<1>1. desk # NoDesk /\ said' = said
  BY DEF Move
<1>2. PICK name \in Name : name = desk.name /\ Readable(name)
  BY <1>1 DEF DeskInv, DeskShape, DeskIsSaved
<1>3. Count(name) \in Nat /\ desk.at \in Positions(Count(name)) /\ desk.at \in Int
  <2>1. Count(name) \in Nat
    BY <1>2, ReadableRows, DatasetsAssumption DEF Count
  <2> QED
    BY <2>1, <1>1, <1>2 DEF DeskInv, DeskShape, Positions
<1>4. PICK at : at \in Positions(Count(name)) /\ Command(at, desk.state.entries)
  <2>1. CASE Command(Clamp(desk.name, desk.at + 1), desk.state.entries)
    <3>1. desk.at + 1 \in Int
      BY <1>3
    <3> QED
      BY <2>1, <3>1, <1>2, <1>3, CursorMoves
  <2>2. CASE Command(Clamp(desk.name, desk.at - 1), desk.state.entries)
    <3>1. desk.at - 1 \in Int
      BY <1>3
    <3> QED
      BY <2>2, <3>1, <1>2, <1>3, CursorMoves
  <2>3. CASE \E n \in 0..MaxLine : Command(Jump(desk.name, desk.at, n), desk.state.entries)
    <3>1. PICK n \in 0..MaxLine : Command(Jump(desk.name, desk.at, n), desk.state.entries)
      BY <2>3
    <3>2. n \in Nat
      BY DatasetsAssumption
    <3> QED
      BY <3>1, <3>2, <1>2, <1>3, CursorMoves
  <2> QED
    BY <2>1, <2>2, <2>3 DEF Move
<1>5. said' \in 0..MaxEntry
  BY <1>1 DEF DeskInv, DeskShape
<1> QED
  BY <1>1, <1>2, <1>4, <1>5, BookOnDesk, CommandKeeps

LEMMA NextEntry ==
  ASSUME DeskInv, said < MaxEntry, said' = said + 1
  PROVE  said' \in 0..MaxEntry /\ said' \in 1..MaxEntry
  BY SessionAssumption DEF DeskInv, DeskShape

\* An entry joins the state on the desk.
LEMMA EntryJoins ==
  ASSUME DataInv, DeskInv, desk # NoDesk, UNCHANGED datasetVars, said' \in 0..MaxEntry,
         NEW e \in Entry, Command(desk.at, With(desk.state.entries, e))
  PROVE  DeskInv' /\ Wrote(desk.session, With(Entries(record[desk.session]), e))
<1>1. desk.at \in Positions(Count(desk.name))
  BY DEF DeskInv, DeskShape, Positions
<1>2. With(desk.state.entries, e) \in SUBSET Entry
  BY BookOnDesk, WithTyped
<1>3. With(Entries(record[desk.session]), e)
        = record[desk.session].findings \union With(desk.state.entries, e)
  <2>1. record[desk.session].findings \in SUBSET Note
    BY BookOnDesk
  <2>2. Entries(record[desk.session]) = record[desk.session].findings \union desk.state.entries
    BY BookOnDesk
  <2>3. PICK notes \in SUBSET Note, entries \in SUBSET Entry :
          notes = record[desk.session].findings /\ entries = desk.state.entries
    BY <2>1, BookOnDesk
  <2>4. PICK book \in SUBSET Entry : book = Entries(record[desk.session])
    BY <2>2, <2>3 DEF Entry
  <2>5. book = notes \union entries
    BY <2>2, <2>3, <2>4
  <2>6. With(book, e) = notes \union With(entries, e)
    BY <2>5, WithNotes
  <2> QED
    BY <2>3, <2>4, <2>6
<1> QED
  BY <1>1, <1>2, <1>3, CommandKeeps

LEMMA AnnotateKeeps ==
  ASSUME DataInv, DeskInv, Annotate, UNCHANGED datasetVars
  PROVE  DeskInv' /\ \E e \in Entry : Wrote(desk.session, With(Entries(record[desk.session]), e))
<1>1. desk # NoDesk /\ Count(desk.name) > 0 /\ said' \in 0..MaxEntry /\ said' \in 1..MaxEntry
  BY NextEntry DEF Annotate
<1>2. CASE AddNote
  <2> DEFINE e == [kind |-> "note", row |-> 0, n |-> said']
  <2>1. e \in Entry
    BY <1>1 DEF Entry, Note
  <2>2. Command(desk.at, With(desk.state.entries, e))
    BY <1>2 DEF AddNote
  <2> HIDE DEF e
  <2> QED
    BY <1>1, <2>1, <2>2, EntryJoins
<1>3. ASSUME NEW kind \in Single, SetMark(kind)
      PROVE  DeskInv' /\ \E e \in Entry : Wrote(desk.session, With(Entries(record[desk.session]), e))
  <2> DEFINE e == [kind |-> kind, row |-> desk.at + 1, n |-> said']
  <2>1. desk.at + 1 \in Row
    <3>1. PICK name \in Name : name = desk.name /\ Readable(name)
      BY <1>1 DEF DeskInv, DeskShape, DeskIsSaved
    <3>2. Count(name) \in 0..MaxLine
      BY <3>1, ReadableRows DEF Count
    <3> QED
      BY <1>1, <3>1, <3>2, DatasetsAssumption DEF DeskInv, DeskShape, Row
  <2>2. e \in Entry
    BY <1>1, <2>1 DEF Entry
  <2>3. Command(desk.at, With(desk.state.entries, e))
    BY <1>3 DEF SetMark
  <2> HIDE DEF e
  <2> QED
    BY <1>1, <2>2, <2>3, EntryJoins
<1> QED
  BY <1>2, <1>3 DEF Annotate

LEMMA FindingKeeps ==
  ASSUME DataInv, DeskInv, NEW s \in Session, SaveFinding(s), UNCHANGED datasetVars
  PROVE  DeskInv' /\ \E e \in Entry : Wrote(s, With(Entries(record[s]), e))
<1>1. /\ record[s] # TornRecord /\ desk' = desk /\ said' \in 0..MaxEntry /\ said' \in 1..MaxEntry
      /\ record' = [record EXCEPT ![s].findings = @ \union {[kind |-> "note", row |-> 0, n |-> said']}]
  BY NextEntry DEF SaveFinding
<1>2. record \in [Session -> Record \union {TornRecord}] /\ record[s] \in Record
  BY <1>1 DEF DeskInv, DeskShape
<1>3. PICK e \in Note : e = [kind |-> "note", row |-> 0, n |-> said']
  BY <1>1 DEF Note
<1> DEFINE new == [record[s] EXCEPT !.findings = @ \union {e}]
<1>4. record' = [record EXCEPT ![s] = new]
  BY <1>1, <1>2, <1>3
<1>5. /\ record[s] = [rowByRow |-> record[s].rowByRow, findings |-> record[s].findings]
      /\ record[s].findings \subseteq Note /\ (record[s].rowByRow = NoState \/ record[s].rowByRow \in State)
  BY <1>2, RecordShape
<1>6. new = [rowByRow |-> record[s].rowByRow, findings |-> record[s].findings \union {e}]
  BY <1>5
<1> HIDE DEF new
<1>7. new \in Record
  BY <1>5, <1>6 DEF Record
<1>8. record'[s] = new /\ record' \in [Session -> Record \union {TornRecord}]
  BY <1>2, <1>4, <1>7
<1>9. Entries(new) = Entries(record[s]) \union {e}
  BY <1>6 DEF Entries
<1>10. e \in Entry /\ Wrote(s, With(Entries(record[s]), e))
  BY <1>2, <1>4, <1>7, <1>8, <1>9, WithNote DEF Wrote, Entry
<1>11. db' = db /\ ingest' = ingest
  BY DEF datasetVars
<1>12. desk # NoDesk => (Readable(desk.name)' <=> Readable(desk.name)) /\ Count(desk.name)' = Count(desk.name)
  <2>1. desk'.name = desk.name
    BY <1>1
  <2> QED
    BY <2>1, <1>11 DEF Readable, Count, Known, FindByName, RowsOf
<1>13. DeskShape'
  BY <1>1, <1>8, <1>12 DEF DeskInv, DeskShape
<1>14. DeskIsSaved'
  <2>1. ASSUME desk # NoDesk
        PROVE  record'[desk.session] # TornRecord /\ record'[desk.session].rowByRow = record[desk.session].rowByRow
    <3>1. CASE desk.session = s
      BY <3>1, <1>6, <1>7, <1>8, RecordShape, ZenonT(60)
    <3>2. CASE desk.session # s
      <4>1. desk.session \in Session /\ record[desk.session] # TornRecord
        BY <2>1 DEF DeskInv, DeskShape, DeskIsSaved
      <4> QED
        BY <3>2, <4>1, <1>2, <1>4
    <3> QED
      BY <3>1, <3>2
  <2> QED
    BY <2>1, <1>1, <1>11, <1>12 DEF DeskInv, DeskIsSaved
<1> QED
  BY <1>10, <1>13, <1>14 DEF DeskInv

\* What a step does to the record of a session: its entries stay, or are with one
\* more then.
Writes(s) ==
  \/ Wrote(s, Entries(record[s]))
  \/ \E e \in Entry : Wrote(s, With(Entries(record[s]), e))

\* What a step of the session mode does to the files.
LEMMA SessionStep ==
  ASSUME DataInv, DeskInv, SessionSteps, ingest = NoIngest, UNCHANGED datasetVars
  PROVE  DeskInv' /\ (UNCHANGED record \/ \E s \in Session : Writes(s))
<1>1. CASE \E s \in Session, name \in Name : StartFresh(s, name) \/ ResumeSession(s, name)
  BY <1>1, SessionOpens
<1>2. desk # NoDesk => desk.session \in Session
  BY DEF DeskInv, DeskShape
<1>3. CASE Move
  BY <1>2, <1>3, MoveKeeps DEF Move, Writes
<1>4. CASE Annotate
  BY <1>2, <1>4, AnnotateKeeps DEF Annotate, Writes
<1>5. CASE Exit
  BY <1>5, ClearDesk DEF Exit, RecordsTyped, DeskInv, DeskShape
<1>6. CASE \E s \in Session : SaveFinding(s)
  BY <1>6, FindingKeeps DEF Writes
<1> QED
  BY <1>1, <1>3, <1>4, <1>5, <1>6 DEF SessionSteps

LEMMA TearKeeps ==
  ASSUME DeskInv, NEW s \in Session, TearRecord(s), desk' = NoDesk
  PROVE  DeskInv' /\ record' = [record EXCEPT ![s] = TornRecord]
<1>1. record' = [record EXCEPT ![s] = TornRecord] /\ said' = said
  BY DEF TearRecord
<1>2. RecordsTyped'
  BY <1>1 DEF RecordsTyped, DeskInv, DeskShape
<1> QED
  BY <1>1, <1>2, ClearDesk

LEMMA SessionStart == SessionInit => DeskInv
<1> SUFFICES ASSUME SessionInit PROVE DeskInv
  OBVIOUS
<1>1. record = [s \in Session |-> NoRecord] /\ desk = NoDesk /\ said = 0
  BY DEF SessionInit
<1>2. NoRecord \in Record
  BY DEF NoRecord, Record
<1> QED
  BY <1>1, <1>2, SessionAssumption DEF DeskInv, DeskShape, DeskIsSaved

-----------------------------------------------------------------------------
(* Questions                                                                *)

LEMMA AskStays ==
  ASSUME AskInv, UNCHANGED <<datasetVars, ask>>
  PROVE  AskInv'
<1>1. db' = db /\ ingest' = ingest /\ ask' = ask
  BY DEF datasetVars
<1>2. ask # NoQuestion => (Readable(ask.name)' <=> Readable(ask.name)) /\ RowsOf(ask.name)' = RowsOf(ask.name)
  <2>1. ask'.name = ask.name
    BY <1>1
  <2> QED
    BY <2>1, <1>1 DEF Readable, RowsOf, Known, FindByName
<1> QED
  BY <1>1, <1>2 DEF AskInv

LEMMA NothingAsked == ask' = NoQuestion => AskInv'
  BY DEF AskInv

\* A question that is written down with rows that are there.
LEMMA AskKeeps ==
  ASSUME NEW q \in Asks, ask' = q, UNCHANGED datasetVars, ingest = NoIngest,
         Readable(q.name), q.rowids \subseteq DOMAIN RowsOf(q.name),
         q.step = "tools" => (q.rows => q.sql) /\ (q.good > 0 => q.rowids # {}),
         q.step = "tools" => q.mode = "search",
         q.step = "answered" => q.unknown \/ q.rowids # {} \/ (IF q.mode = "search" THEN q.sql ELSE q.rows)
  PROVE  AskInv'
<1>1. db' = db /\ ingest' = NoIngest
  BY Zenon DEF datasetVars
<1>2. Readable(ask.name)' /\ RowsOf(ask.name)' = RowsOf(q.name)
  <2>1. Readable(q.name)' /\ RowsOf(q.name)' = RowsOf(q.name)
    BY <1>1, ReadSame
  <2> QED
    BY <2>1, ZenonT(30) DEF Readable, RowsOf, Known, FindByName
<1> QED
  BY <1>1, <1>2 DEF AskInv

\* Hits that count are hits.
LEMMA GoodHits ==
  ASSUME DataInv, NEW name, Readable(name), NEW hits \in SUBSET Retrieved(name), NEW good \in 0..Cardinality(hits)
  PROVE  /\ hits \subseteq DOMAIN RowsOf(name) /\ hits \subseteq Row
         /\ good \in Nat /\ (good > 0 => hits # {})
<1>1. hits \subseteq DOMAIN RowsOf(name) /\ DOMAIN RowsOf(name) \subseteq Row /\ IsFiniteSet(DOMAIN RowsOf(name))
  BY ReadableRows DEF Retrieved
<1>2. Cardinality(hits) \in Nat
  BY <1>1, FS_Subset, FS_CardinalityType
<1>3. Cardinality({}) = 0
  BY FS_EmptySet
<1> QED
  BY <1>1, <1>2, <1>3

LEMMA ToolsKeep ==
  ASSUME DataInv, AskInv, ask # NoQuestion, Calling, UNCHANGED datasetVars,
         NEW more \in SUBSET DOMAIN RowsOf(ask.name), NEW sql \in BOOLEAN, NEW rows \in BOOLEAN, NEW good \in 0..MinHits,
         ask.sql => sql, rows => sql, good > 0 => ask.rowids \union more # {},
         ask' = [ask EXCEPT !.sql = sql, !.rows = rows, !.rowids = @ \union more, !.good = good, !.left = @ - 1]
  PROVE  AskInv'
<1>1. /\ ask \in Asks /\ ask.step = "tools" /\ ask.mode = "search" /\ ask.left > 0 /\ ingest = NoIngest
      /\ Readable(ask.name) /\ ask.rowids \subseteq DOMAIN RowsOf(ask.name)
  BY DEF Calling, AskInv
<1>2. more \subseteq Row
  BY <1>1, ReadableRows
<1> DEFINE q == [ask EXCEPT !.sql = sql, !.rows = rows, !.rowids = @ \union more, !.good = good, !.left = @ - 1]
<1>3. ask.left - 1 \in 0..MaxToolIterations
  BY <1>1, AgentAssumption DEF Asks
<1>4. q \in Asks
  BY <1>1, <1>2, <1>3 DEF Asks
<1>5. q.step = "tools" /\ q.mode = "search" /\ q.name = ask.name /\ q.rowids = ask.rowids \union more
      /\ q.rows = rows /\ q.sql = sql /\ q.good = good
  BY <1>1 DEF Asks
<1>6. ask' = q
  OBVIOUS
<1> HIDE DEF q
<1> QED
  BY <1>1, <1>4, <1>5, <1>6, AskKeeps

LEMMA AgentStep ==
  ASSUME DataInv, AskInv, ingest = NoIngest, UNCHANGED datasetVars, AgentSteps
  PROVE  AskInv'
<1>1. ASSUME NEW name \in Name, Question(name) PROVE AskInv'
  <2> DEFINE q == [step |-> "tools", mode |-> "search", name |-> name, left |-> MaxToolIterations,
                   rowids |-> {}, sql |-> FALSE, rows |-> FALSE, good |-> 0, unknown |-> FALSE]
  <2>1. q \in Asks
    BY AgentAssumption DEF Asks
  <2> QED
    BY <1>1, <2>1, AskKeeps DEF Question
<1>2. ASSUME Calling
      PROVE  /\ ask # NoQuestion /\ ask \in Asks /\ Readable(ask.name) /\ (ask.rows => ask.sql)
             /\ ask.good > 0 => ask.rowids # {}
  <2>1. ask # NoQuestion
    <3> SUFFICES ASSUME ask = NoQuestion PROVE FALSE
      OBVIOUS
    <3> QED
      BY <1>2 DEF Calling, NoQuestion
  <2> QED
    BY <1>2, <2>1 DEF AskInv, Calling
<1>3. ASSUME RunSql PROVE AskInv'
  <2>1. Calling
    BY <1>3 DEF RunSql
  <2>2. PICK more \in SUBSET DOMAIN RowsOf(ask.name), some \in BOOLEAN :
          Called([ask EXCEPT !.sql = TRUE, !.rows = @ \/ some, !.rowids = @ \union more])
    BY <1>3, Zenon DEF RunSql
  <2>3. PICK rows : rows = (ask.rows \/ some)
    OBVIOUS
  <2>4. ask' = [ask EXCEPT !.sql = TRUE, !.rows = rows, !.rowids = @ \union more, !.left = @ - 1]
    <3>1. [ask EXCEPT !.sql = TRUE, !.rows = @ \/ some, !.rowids = @ \union more]
            = [ask EXCEPT !.sql = TRUE, !.rows = rows, !.rowids = @ \union more]
      BY <2>3, Zenon
    <3>2. Called([ask EXCEPT !.sql = TRUE, !.rows = rows, !.rowids = @ \union more])
      BY <2>2, <3>1, Zenon
    <3> QED
      BY <1>2, <2>1, <3>2 DEF Called, Asks
  <2>5. ask = [ask EXCEPT !.good = ask.good]
    BY <1>2, <2>1 DEF Asks
  <2>6. ask' = [ask EXCEPT !.sql = TRUE, !.rows = rows, !.rowids = @ \union more, !.good = ask.good, !.left = @ - 1]
    BY <2>4, <2>5
  <2>7. rows \in BOOLEAN /\ ask.good \in 0..MinHits
    BY <1>2, <2>1, <2>3 DEF Asks
  <2>8. ask.good > 0 => ask.rowids \union more # {}
    BY <1>2, <2>1
  <2> QED
    BY <1>2, <2>1, <2>6, <2>7, <2>8, ToolsKeep
<1>4. ASSUME Aggregate PROVE AskInv'
  <2>1. Calling
    BY <1>4 DEF Aggregate
  <2>2. PICK some \in BOOLEAN : ask' = [ask EXCEPT !.sql = TRUE, !.rows = ask.rows \/ some, !.left = @ - 1]
    BY <1>4 DEF Aggregate, Called
  <2>3. ask' = [ask EXCEPT !.sql = TRUE, !.rows = ask.rows \/ some, !.rowids = @ \union {}, !.good = ask.good, !.left = @ - 1]
    BY <1>2, <2>1, <2>2 DEF Asks
  <2>4. (ask.rows \/ some) \in BOOLEAN /\ ask.good \in 0..MinHits /\ {} \in SUBSET DOMAIN RowsOf(ask.name)
    BY <1>2, <2>1 DEF Asks
  <2>5. ask.good > 0 => ask.rowids \union {} # {}
    BY <1>2, <2>1
  <2> QED
    BY <1>2, <2>1, <2>3, <2>4, <2>5, ToolsKeep
<1>5. ASSUME RagSearch PROVE AskInv'
  <2>1. Calling
    BY <1>5 DEF RagSearch
  <2>2. PICK hits \in SUBSET Retrieved(ask.name) : \E n \in 0..Cardinality(hits) :
          Called([ask EXCEPT !.rowids = @ \union hits, !.good = IF @ + n > MinHits THEN MinHits ELSE @ + n])
    BY <1>5 DEF RagSearch
  <2>3. PICK n \in 0..Cardinality(hits) :
          Called([ask EXCEPT !.rowids = @ \union hits, !.good = IF @ + n > MinHits THEN MinHits ELSE @ + n])
    BY <2>2
  <2> DEFINE good == IF ask.good + n > MinHits THEN MinHits ELSE ask.good + n
  <2>4. hits \subseteq DOMAIN RowsOf(ask.name) /\ n \in Nat /\ (n > 0 => hits # {})
    BY <1>2, <2>1, GoodHits
  <2>5. ask.good \in 0..MinHits
    BY <1>2, <2>1 DEF Asks
  <2>6. good \in 0..MinHits /\ (good > 0 => ask.good > 0 \/ n > 0)
    BY <2>4, <2>5, AgentAssumption
  <2>7. ask' = [ask EXCEPT !.rowids = @ \union hits, !.good = good, !.left = @ - 1]
    BY <1>2, <2>1, <2>3 DEF Called, Asks
  <2> HIDE DEF good
  <2>8. ask' = [ask EXCEPT !.sql = ask.sql, !.rows = ask.rows, !.rowids = @ \union hits, !.good = good, !.left = @ - 1]
    BY <1>2, <2>1, <2>7 DEF Asks
  <2>9. ask.sql \in BOOLEAN /\ ask.rows \in BOOLEAN
    BY <1>2, <2>1 DEF Asks
  <2>10. good > 0 => ask.rowids \union hits # {}
    BY <1>2, <2>1, <2>4, <2>6
  <2> QED
    BY <1>2, <2>1, <2>4, <2>6, <2>8, <2>9, <2>10, ToolsKeep
<1>6. ASSUME ToolThrows PROVE AskInv'
  <2>1. Calling /\ ask' = [ask EXCEPT !.left = @ - 1]
    BY <1>6 DEF ToolThrows, Called
  <2>2. ask' = [ask EXCEPT !.sql = ask.sql, !.rows = ask.rows, !.rowids = @ \union {}, !.good = ask.good, !.left = @ - 1]
    BY <1>2, <2>1 DEF Asks
  <2>3. /\ ask.sql \in BOOLEAN /\ ask.rows \in BOOLEAN /\ ask.good \in 0..MinHits
        /\ {} \in SUBSET DOMAIN RowsOf(ask.name)
    BY <1>2, <2>1 DEF Asks
  <2>4. ask.good > 0 => ask.rowids \union {} # {}
    BY <1>2, <2>1
  <2> QED
    BY <1>2, <2>1, <2>2, <2>3, <2>4, ToolsKeep
<1>7. ASSUME BuildGroundedAnswer PROVE AskInv'
  <2>1. ask.step = "tools" /\ ask # NoQuestion
    <3>1. ask.step = "tools"
      BY <1>7 DEF BuildGroundedAnswer
    <3>2. ASSUME ask = NoQuestion PROVE FALSE
      BY <3>1, <3>2 DEF NoQuestion
    <3> QED
      BY <3>1, <3>2
  <2>2. /\ ask \in Asks /\ Readable(ask.name) /\ ask.rowids \subseteq DOMAIN RowsOf(ask.name)
        /\ ask.rows => ask.sql
        /\ ask.mode = "search"
        /\ ask.good > 0 => ask.rowids # {}
    BY <2>1 DEF AskInv
  <2>3. CASE HasSufficientEvidence
    <3> DEFINE q == [ask EXCEPT !.step = "answered"]
    <3>1. ask.sql \/ ask.rowids # {}
      <4>1. ask.good \in 0..MinHits /\ MinHits \in Nat \ {0}
        BY <2>2, AgentAssumption DEF Asks
      <4> QED
        BY <4>1, <2>2, <2>3 DEF HasSufficientEvidence
    <3>2. q \in Asks /\ q.step = "answered" /\ q.mode = "search" /\ q.name = ask.name /\ q.rowids = ask.rowids /\ q.sql = ask.sql
      BY <2>2 DEF Asks
    <3>3. ask' = q
      BY <1>7, <2>3 DEF BuildGroundedAnswer
    <3> HIDE DEF q
    <3> QED
      BY <2>2, <3>1, <3>2, <3>3, AskKeeps
  <2>4. CASE ~HasSufficientEvidence
    <3> DEFINE q == [ask EXCEPT !.step = "answered", !.unknown = TRUE, !.rowids = {}, !.sql = FALSE]
    <3>1. q \in Asks /\ q.step = "answered" /\ q.name = ask.name /\ q.rowids = {} /\ q.unknown = TRUE
      BY <2>2 DEF Asks
    <3>2. ask' = q
      BY <1>7, <2>4 DEF BuildGroundedAnswer
    <3> HIDE DEF q
    <3> QED
      BY <2>2, <3>1, <3>2, AskKeeps
  <2> QED
    BY <2>3, <2>4
<1> QED
  BY <1>1, <1>3, <1>4, <1>5, <1>6, <1>7 DEF AgentSteps

LEMMA RowQuestionKeeps ==
  ASSUME DataInv, NEW name \in Name, NEW rowid, Readable(name), ingest = NoIngest, UNCHANGED datasetVars,
         AnswerRowQuestion(name, rowid)
  PROVE  AskInv'
<1>1. PICK queried \in SUBSET DOMAIN RowsOf(name), rows \in BOOLEAN, related \in RelatedRows(name, rowid),
           hits \in SUBSET (IF index = Torn THEN {} ELSE Retrieved(name)) :
        \E good \in 0..Cardinality(hits) :
          LET known == rows \/ related # {} \/ good >= MinHits IN
          /\ queried # {} => rows
          /\ ask' = [step |-> "answered", mode |-> "row", name |-> name, left |-> 0, good |-> 0, rows |-> rows,
                     rowids |-> IF known THEN queried \union related \union hits ELSE {},
                     sql |-> FALSE, unknown |-> ~known]
  BY DEF AnswerRowQuestion
<1>2. PICK good \in 0..Cardinality(hits) :
        LET known == rows \/ related # {} \/ good >= MinHits IN
        /\ queried # {} => rows
        /\ ask' = [step |-> "answered", mode |-> "row", name |-> name, left |-> 0, good |-> 0, rows |-> rows,
                   rowids |-> IF known THEN queried \union related \union hits ELSE {},
                   sql |-> FALSE, unknown |-> ~known]
  BY <1>1
<1>3. hits \in SUBSET Retrieved(name)
  BY <1>1
<1>4. hits \subseteq DOMAIN RowsOf(name) /\ good \in Nat /\ (good > 0 => hits # {})
  BY <1>2, <1>3, GoodHits
<1>5. queried \subseteq DOMAIN RowsOf(name) /\ related \subseteq DOMAIN RowsOf(name) /\ DOMAIN RowsOf(name) \subseteq Row
  BY <1>1, ReadableRows DEF RelatedRows
<1> DEFINE known == rows \/ related # {} \/ good >= MinHits
           cited == IF known THEN queried \union related \union hits ELSE {}
           q == [step |-> "answered", mode |-> "row", name |-> name, left |-> 0, good |-> 0, rows |-> rows,
                 rowids |-> cited, sql |-> FALSE, unknown |-> ~known]
<1>6. cited \subseteq DOMAIN RowsOf(name) /\ cited \in SUBSET Row
  BY <1>4, <1>5
<1>7. known => rows \/ cited # {}
  <2>1. good >= MinHits => good > 0
    BY <1>4, AgentAssumption
  <2> QED
    BY <2>1, <1>4
<1>8. known \in BOOLEAN
  OBVIOUS
<1>9. ask' = q
  BY <1>2
<1> HIDE DEF known, cited
<1>10. q \in Asks
  BY <1>1, <1>6, <1>8, AgentAssumption DEF Asks
<1>11. q.step = "answered" /\ q.mode = "row" /\ q.name = name /\ q.rowids = cited /\ q.unknown = ~known /\ q.rows = rows
  OBVIOUS
<1> HIDE DEF q
<1> QED
  BY <1>6, <1>7, <1>9, <1>10, <1>11, AskKeeps

-----------------------------------------------------------------------------
(* The harness                                                              *)

LEMMA IndexStart == RagInit => IndexInv
<1> SUFFICES ASSUME RagInit PROVE IndexInv
  OBVIOUS
<1>1. index = << >> /\ DOMAIN index = {} /\ \A name \in Name : indexed[name] = << >> /\ DOMAIN indexed[name] = {}
  BY DEF RagInit
<1>2. indexed \in [Name -> Seq(Row)]
  <2>1. << >> \in Seq(Row)
    OBVIOUS
  <2> QED
    BY <2>1 DEF RagInit
<1> QED
  BY <1>1, <1>2 DEF IndexInv, RagTypes, IndexedIsThere, IndexTrue

LEMMA NavStart == Init => NavInv
  BY DataStart, IndexStart, SessionStart DEF Init, AgentInit, AskInv, NavInv

LEMMA DyingKeeps ==
  ASSUME NavInv, Dies
  PROVE  NavInv' /\ UNCHANGED record
<1> USE DEF NavInv
<1>1. /\ record' = record /\ said' = said /\ index' = index /\ indexed' = indexed
      /\ desk' = NoDesk /\ ask' = NoQuestion
  BY DEF Dies, ragVars
<1>2. DataInv' /\ db' = db
  <2>1. CASE ingest = NoIngest
    BY <2>1, DataStays DEF Dies, datasetVars
  <2>2. CASE ingest # NoIngest
    BY <2>2, GiveUpKeeps DEF Dies, GiveUp
  <2> QED
    BY <2>1, <2>2
<1>3. DeskInv'
  <2>1. RecordsTyped'
    BY <1>1 DEF DeskInv, DeskShape, RecordsTyped
  <2> QED
    BY <2>1, <1>1, ClearDesk
<1>4. IndexInv'
  BY <1>1, <1>2, SameRowsKeepIndex
<1> QED
  BY <1>1, <1>2, <1>3, <1>4, NothingAsked

LEMMA TearingKeeps ==
  ASSUME NavInv, DiesWriting
  PROVE  NavInv' /\ (UNCHANGED record \/ \E s \in Session : record' = [record EXCEPT ![s] = TornRecord])
<1> USE DEF NavInv
<1>1. UNCHANGED datasetVars /\ UNCHANGED ask /\ desk' = NoDesk
  BY DEF DiesWriting
<1>2. DataInv' /\ AskInv' /\ db' = db
  BY <1>1, DataStays, AskStays DEF datasetVars
<1>3. CASE (\E s \in Session : TearRecord(s)) /\ UNCHANGED ragVars
  <2>1. IndexInv'
    BY <1>2, <1>3, SameRowsKeepIndex DEF ragVars
  <2> QED
    BY <1>1, <1>2, <1>3, <2>1, TearKeeps
<1>4. CASE (\E name \in Name : IndexTorn(name)) /\ UNCHANGED <<record, said>>
  <2>1. index' = Torn /\ UNCHANGED indexed
    BY <1>4 DEF IndexTorn
  <2>2. IndexInv'
    BY <1>2, <2>1, SameRowsKeepIndex
  <2>3. RecordsTyped'
    BY <1>4 DEF DeskInv, DeskShape, RecordsTyped
  <2> QED
    BY <1>1, <1>2, <1>4, <2>2, <2>3, ClearDesk
<1> QED
  BY <1>3, <1>4 DEF DiesWriting

\* What a step of the harness does to a record, and nothing else happens to it.
RecordStep ==
  \/ UNCHANGED record
  \/ \E s \in Session : Writes(s)
  \/ \E s \in Session : record' = [record EXCEPT ![s] = TornRecord]

LEMMA NavStep ==
  ASSUME NavInv, [Next]_vars
  PROVE  NavInv' /\ RecordStep
<1> USE DEF NavInv, RecordStep
<1>1. CASE IngestMode
  <2>1. /\ desk = NoDesk /\ ask = NoQuestion /\ IngestSteps /\ Reindexed /\ UNCHANGED index
        /\ desk' = desk /\ record' = record /\ said' = said /\ ask' = ask
    BY <1>1 DEF IngestMode, sessionVars
  <2>2. DataInv' /\ IndexInv'
    BY <2>1, DataStep, IngestKeepsIndex
  <2>3. RecordsTyped'
    BY <2>1 DEF DeskInv, DeskShape, RecordsTyped
  <2> QED
    BY <2>1, <2>2, <2>3, ClearDesk, NothingAsked
<1>2. CASE IndexMode
  <2>1. (\E name \in Name : IndexRows(name)) /\ UNCHANGED datasetVars /\ UNCHANGED sessionVars /\ UNCHANGED ask
    BY <1>2 DEF IndexMode
  <2> QED
    BY <2>1, DataStays, IndexingKeeps, DeskStays, AskStays DEF sessionVars
<1>3. CASE SessionMode
  <2>1. ingest = NoIngest /\ SessionSteps /\ UNCHANGED datasetVars /\ UNCHANGED ask /\ db' = db
        /\ index' = index /\ indexed' = indexed
    BY <1>3 DEF SessionMode, datasetVars, ragVars
  <2>2. IndexInv' /\ DataInv' /\ AskInv'
    BY <2>1, SameRowsKeepIndex, DataStays, AskStays
  <2> QED
    BY <2>1, <2>2, SessionStep
<1>4. CASE SearchMode
  <2>1. ingest = NoIngest /\ AgentSteps /\ UNCHANGED datasetVars /\ UNCHANGED sessionVars /\ db' = db
        /\ index' = index /\ indexed' = indexed /\ record' = record
    BY <1>4 DEF SearchMode, datasetVars, ragVars, sessionVars
  <2>2. IndexInv' /\ DataInv' /\ DeskInv'
    BY <2>1, SameRowsKeepIndex, DataStays, DeskStays
  <2> QED
    BY <2>1, <2>2, AgentStep
<1>5. CASE RowQuestion
  <2>1. /\ desk # NoDesk /\ AnswerRowQuestion(desk.name, desk.at + 1)
        /\ UNCHANGED datasetVars /\ UNCHANGED sessionVars /\ db' = db
        /\ index' = index /\ indexed' = indexed /\ record' = record
    BY <1>5 DEF RowQuestion, datasetVars, ragVars, sessionVars
  <2>2. IndexInv' /\ DataInv' /\ DeskInv'
    BY <2>1, SameRowsKeepIndex, DataStays, DeskStays
  <2>3. ingest = NoIngest /\ desk.name \in Name /\ Readable(desk.name)
    BY <2>1 DEF DeskInv, DeskShape, DeskIsSaved
  <2> QED
    BY <2>1, <2>2, <2>3, RowQuestionKeeps
<1>6. CASE ShowAnswer
  <2>1. /\ ask' = NoQuestion /\ UNCHANGED datasetVars /\ UNCHANGED sessionVars /\ db' = db
        /\ index' = index /\ indexed' = indexed /\ record' = record
    BY <1>6 DEF ShowAnswer, Answered, datasetVars, ragVars, sessionVars
  <2> QED
    BY <2>1, SameRowsKeepIndex, DataStays, DeskStays, NothingAsked
<1>7. CASE Dies
  BY <1>7, DyingKeeps
<1>8. CASE DiesWriting
  BY <1>8, TearingKeeps
<1>9. CASE UNCHANGED vars
  <2>1. /\ UNCHANGED datasetVars /\ UNCHANGED sessionVars /\ UNCHANGED ask
        /\ db' = db /\ index' = index /\ indexed' = indexed /\ record' = record
    BY <1>9 DEF vars, datasetVars, ragVars, sessionVars
  <2> QED
    BY <2>1, SameRowsKeepIndex, DataStays, DeskStays, AskStays
<1> QED
  BY <1>1, <1>2, <1>3, <1>4, <1>5, <1>6, <1>7, <1>8, <1>9 DEF Next

\* The inductive invariant.
LEMMA NavAlways == Spec => []NavInv
<1>1. Init => NavInv
  BY NavStart
<1>2. NavInv /\ [Next]_vars => NavInv'
  BY NavStep
<1> QED
  BY <1>1, <1>2, PTL DEF Spec

LEMMA NavTyped == NavInv => TypeOK
<1> SUFFICES ASSUME NavInv PROVE TypeOK
  OBVIOUS
<1> USE DEF NavInv
<1>1. DatasetsTypeOK
  BY DEF DatasetsTypeOK, DataInv, DataTypes, IngestTypes
<1>2. RagTypeOK
  BY DEF RagTypeOK, IndexInv, RagTypes
<1>3. SessionTypeOK
  BY DEF SessionTypeOK, DeskInv, DeskShape, Count
<1>4. AgentTypeOK
  BY DEF AgentTypeOK, AskInv, Asks
<1> QED
  BY <1>1, <1>2, <1>3, <1>4 DEF TypeOK

\* The tables, the index, the records and the question keep their shapes, and
\* the cursor of a session never leaves the rows (rowCursor, clamp and jumpTo).
THEOREM NavigatorTyped == Spec => []TypeOK
  BY NavAlways, NavTyped, PTL

\* Whatever has been ingested, broken off and ingested again, the catalog says
\* of a dataset how many rows its table has, unless an ingest wrote to the table
\* and did not finish (existing-dataset.mjs, tables.mjs, metadata.mjs).
THEOREM CatalogIsTrue == Spec => []CatalogTrue
<1>1. NavInv => CatalogTrue
  BY DEF NavInv, DataInv, CatalogKept, Touched, Kept, CatalogTrue
<1> QED
  BY <1>1, NavAlways, PTL

\* Every row that was indexed last is found under its own id and with its own
\* contents (embedRows, index, persist).
THEOREM IndexIsTrue == Spec => []IndexTrue
<1>1. NavInv => IndexTrue
  BY DEF NavInv, IndexInv
<1> QED
  BY <1>1, NavAlways, PTL

\* An answer that is not the unknown response cites a query or a row, in row mode
\* a row unless it rests on what SQL returned, and every row it cites is a row of
\* the dataset (buildGroundedAnswer, answerQuestion, retrieveRows).
THEOREM AnswersAreGrounded == Spec => []Grounded
<1>1. NavInv => Grounded
  BY DEF NavInv, AskInv, Grounded
<1> QED
  BY <1>1, NavAlways, PTL

-----------------------------------------------------------------------------
(* The sessions implement the notebook                                      *)

AllBooks == [s \in Session |-> BookOf(record[s])]
Spoiled == {s \in Session : record[s] = TornRecord}

LEMMA BookIs ==
  /\ Book!Init <=> AllBooks = [s \in Session |-> {}] /\ Spoiled = {}
  /\ \A s, e : Book!Save(s, e) <=>
       s \notin Spoiled /\ AllBooks' = [AllBooks EXCEPT ![s] = With(@, e)] /\ UNCHANGED Spoiled
  /\ \A s : Book!Spoil(s) <=>
       AllBooks' = [AllBooks EXCEPT ![s] = {}] /\ Spoiled' = Spoiled \union {s}
  BY DEF Book!Init, Book!Save, Book!Spoil, AllBooks, Spoiled, BookOf, With

LEMMA BookStarts == Init => Book!Init
<1> SUFFICES ASSUME Init PROVE Book!Init
  OBVIOUS
<1>1. \A s \in Session : record[s] = NoRecord
  BY DEF Init, SessionInit
<1>2. NoRecord \in Record /\ Entries(NoRecord) = {}
  BY DEF NoRecord, Record, Entries
<1> QED
  BY <1>1, <1>2, BookIs, SessionAssumption DEF AllBooks, Spoiled, BookOf

LEMMA BookKept ==
  ASSUME UNCHANGED record
  PROVE  UNCHANGED <<AllBooks, Spoiled>>
  BY DEF AllBooks, Spoiled, BookOf, Entries

LEMMA BookWritten ==
  ASSUME DeskInv, NEW s \in Session, NEW entries, Wrote(s, entries)
  PROVE  /\ s \notin Spoiled /\ Spoiled' = Spoiled
         /\ AllBooks' = [AllBooks EXCEPT ![s] = entries]
<1>1. record[s] # TornRecord /\ record'[s] # TornRecord
  BY RecordShape DEF Wrote
<1>2. \A t \in Session \ {s} : record'[t] = record[t]
  BY DEF Wrote, DeskInv, DeskShape
<1>3. Spoiled' = Spoiled /\ s \notin Spoiled
  BY <1>1, <1>2 DEF Spoiled
<1>4. BookOf(record'[s]) = entries
  BY <1>1 DEF BookOf, Wrote
<1>5. AllBooks' = [t \in Session |-> BookOf(record'[t])]
  BY DEF AllBooks, BookOf, Entries
<1> QED
  BY <1>2, <1>3, <1>4, <1>5 DEF AllBooks

LEMMA BookTorn ==
  ASSUME DeskInv, NEW s \in Session, record' = [record EXCEPT ![s] = TornRecord]
  PROVE  Book!Spoil(s)
<1>1. record'[s] = TornRecord /\ \A t \in Session \ {s} : record'[t] = record[t]
  BY DEF DeskInv, DeskShape
<1>2. Spoiled' = Spoiled \union {s}
  BY <1>1 DEF Spoiled
<1>3. AllBooks' = [t \in Session |-> BookOf(record'[t])]
  BY DEF AllBooks, BookOf, Entries
<1>4. BookOf(record'[s]) = {} /\ \A t \in Session \ {s} : BookOf(record'[t]) = BookOf(record[t])
  BY <1>1 DEF BookOf
<1>5. AllBooks' = [AllBooks EXCEPT ![s] = {}]
  BY <1>3, <1>4 DEF AllBooks
<1> QED
  BY <1>2, <1>5, BookIs

LEMMA BookStep ==
  ASSUME NavInv, [Next]_vars
  PROVE  Book!Next \/ UNCHANGED <<AllBooks, Spoiled>>
<1>1. RecordStep
  BY NavStep
<1>2. CASE UNCHANGED record
  BY <1>2, BookKept
<1>3. ASSUME NEW s \in Session, NEW e \in Entry, Wrote(s, With(Entries(record[s]), e))
      PROVE  Book!Next
  <2>1. /\ s \notin Spoiled /\ Spoiled' = Spoiled
        /\ AllBooks' = [AllBooks EXCEPT ![s] = With(Entries(record[s]), e)]
    BY <1>3, BookWritten DEF NavInv
  <2>2. AllBooks[s] = Entries(record[s])
    BY <1>3, RecordShape DEF AllBooks, BookOf, Wrote
  <2>3. AllBooks' = [AllBooks EXCEPT ![s] = With(@, e)]
    BY <2>1, <2>2
  <2>4. Book!Save(s, e)
    BY <2>1, <2>3, BookIs
  <2> QED
    BY <2>4 DEF Book!Next
<1>4. ASSUME NEW s \in Session, Wrote(s, Entries(record[s]))
      PROVE  UNCHANGED <<AllBooks, Spoiled>>
  <2>1. Spoiled' = Spoiled /\ AllBooks' = [AllBooks EXCEPT ![s] = Entries(record[s])]
    BY <1>4, BookWritten DEF NavInv
  <2>2. AllBooks[s] = Entries(record[s])
    BY <1>4, RecordShape DEF AllBooks, BookOf, Wrote
  <2> QED
    BY <2>1, <2>2 DEF AllBooks
<1>5. ASSUME NEW s \in Session, record' = [record EXCEPT ![s] = TornRecord]
      PROVE  Book!Next
  <2>1. Book!Spoil(s)
    BY <1>5, BookTorn DEF NavInv
  <2> QED
    BY <2>1 DEF Book!Next
<1> QED
  BY <1>1, <1>2, <1>3, <1>4, <1>5 DEF RecordStep, Writes

\* The sessions implement the notebook: an entry that a command or a finding has
\* put into a record stays there, whichever writes next, whatever is resumed and
\* restarted, unless it is the flag or the briefing of a row and the next one of
\* that row is saved; and only dying in the middle of a write spoils the record,
\* and that one alone (persist, setFlag, saveFinding, resumeSession).
THEOREM SessionsImplementNotebook == Spec => ImplementsNotebook
<1>1. Init => Book!Init
  BY BookStarts
<1>2. NavInv /\ [Next]_vars => [Book!Next]_<<AllBooks, Spoiled>>
  BY BookStep
<1> QED
  BY <1>1, <1>2, NavAlways, PTL DEF Spec, ImplementsNotebook, Book!Spec, AllBooks, Spoiled, BookOf
=============================================================================
