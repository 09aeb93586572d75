------------------------------- MODULE Datasets -------------------------------
(****************************************************************************)
(* The datasets of the harness (src/db, src/ingest): data tables whose rows *)
(* get the ids 1, 2, ... in the order they come in, and the catalog, which  *)
(* has a row for every ingest.  An ingest asks what to do about a dataset   *)
(* that is already there, then runs one statement after the other, each a   *)
(* transaction of its own: it can throw or break off in between.            *)
(*                                                                          *)
(* One process uses the database at a time.  The contents of a row are the  *)
(* number of its line among all that were read; columns are data.  No       *)
(* dataset has the name of another's version.                               *)
(****************************************************************************)
EXTENDS Integers, Sequences, FiniteSets, Functions

CONSTANTS
  Name,               \* names of datasets
  MaxVersion,         \* bound: versions of a dataset
  MaxLine             \* bound: lines read from files

ASSUME DatasetsAssumption == MaxVersion \in Nat \ {0} /\ MaxLine \in Nat

VARIABLES
  db,                 \* the tables, and the catalog in the order of its ids
  ingest,             \* the ingest under way
  lines,              \* lines read from files so far, a header each
  suspect             \* history: tables an ingest wrote to and did not finish with

datasetVars == <<db, ingest, lines, suspect>>

Table == Name \X (1..MaxVersion)
Row == 1..MaxLine
Meta == [name : Name, version : 1..MaxVersion, table : Table, count : 0..MaxLine]
NoIngest == [step |-> "none"]

DatasetsTypeOK ==
  /\ DOMAIN db.tables \subseteq Table /\ \A t \in DOMAIN db.tables : db.tables[t] \in Seq(Row)
  /\ db.catalog \in Seq(Meta)
  /\ lines \in 0..MaxLine /\ suspect \subseteq Table
  /\ ingest # NoIngest =>
       /\ ingest.step \in {"drop", "create", "insert", "meta"}
       /\ ingest.name \in Name /\ ingest.table \in Table

DatasetsInit ==
  db = [tables |-> << >>, catalog |-> << >>] /\ ingest = NoIngest /\ lines = 0 /\ suspect = {}

\* The two together, old where both have a value.
Over(old, new) == [x \in DOMAIN old \union DOMAIN new |-> IF x \in DOMAIN old THEN old[x] ELSE new[x]]

Known(name) == \E i \in DOMAIN db.catalog : db.catalog[i].name = name

\* ORDER BY version DESC, id DESC LIMIT 1
FindByName(name) ==
  LET rows == {i \in DOMAIN db.catalog : db.catalog[i].name = name} IN
  db.catalog[CHOOSE i \in rows : \A j \in rows : \/ db.catalog[i].version > db.catalog[j].version
                                                \/ (db.catalog[i].version = db.catalog[j].version /\ i >= j)]

\* The rows of a dataset as everybody reads them: the latest version's table.
RowsOf(name) == db.tables[FindByName(name).table]
Readable(name) == Known(name) /\ FindByName(name).table \in DOMAIN db.tables

--------------------------------------------------------------------------------
(* routeIngest.                                                             *)

File(n) == [i \in 1..n |-> lines + 1 + i]

\* A dataset that is there can be replaced, appended to, or get a new version;
\* to go on with what is there, to cancel the prompt, or to append columns that
\* do not align changes nothing.
Route(name, action, step, version, before, n) ==
  /\ ingest = NoIngest
  /\ version <= MaxVersion /\ lines + 1 + n <= MaxLine
  /\ ingest' = [name |-> name, action |-> action, step |-> step, table |-> <<name, version>>, version |-> version,
                before |-> before, rows |-> File(n)]
  /\ lines' = lines + 1 + n
  /\ UNCHANGED <<db, suspect>>

RouteIngest(name, n) ==
  \/ ~Known(name) /\ Route(name, "NEW", "create", 1, 0, n)
  \/ /\ Known(name)
     /\ LET meta == FindByName(name) IN
          \/ Route(name, "REPLACE", "drop", meta.version, meta.count, n)
          \/ Route(name, "APPEND", "insert", meta.version, meta.count, n)
          \/ Route(name, "NEW_VERSION", "create", meta.version + 1, meta.count, n)

End == ingest' = NoIngest
Then(step) == ingest' = [ingest EXCEPT !.step = step]

DropTable ==
  /\ ingest.step = "drop"
  /\ db' = [db EXCEPT !.tables = Restrict(@, DOMAIN @ \ {ingest.table})]
  /\ Then("create")
  /\ UNCHANGED <<lines, suspect>>

\* CREATE TABLE IF NOT EXISTS
CreateTable ==
  /\ ingest.step = "create"
  /\ db' = [db EXCEPT !.tables = Over(@, [table \in {ingest.table} |-> << >>])]
  /\ Then("insert")
  /\ UNCHANGED <<lines, suspect>>

\* All the rows or none.
BulkInsert ==
  /\ ingest.step = "insert" /\ ingest.table \in DOMAIN db.tables
  /\ db' = [db EXCEPT !.tables[ingest.table] = @ \o ingest.rows]
  /\ Then("meta")
  /\ UNCHANGED <<lines, suspect>>

\* A variant that counts the rows of the file alone: CatalogTrue rules it out.
FileCount == Len(ingest.rows)

NewCount == IF ingest.action = "APPEND" THEN ingest.before + Len(ingest.rows) ELSE Len(ingest.rows)

\* A replaced table is as good as a new one.
WriteDatasetMeta ==
  /\ ingest.step = "meta"
  /\ db' = [db EXCEPT !.catalog = Append(@, [name |-> ingest.name, version |-> ingest.version,
                                             table |-> ingest.table, count |-> NewCount])]
  /\ suspect' = IF ingest.action = "REPLACE" THEN suspect \ {ingest.table} ELSE suspect
  /\ End
  /\ UNCHANGED lines

\* What has been written stays: there is no transaction around the steps.
GiveUp ==
  LET wrote == ingest.step = "meta" \/ (ingest.action = "REPLACE" /\ ingest.step # "drop") IN
  /\ End
  /\ suspect' = IF wrote THEN suspect \union {ingest.table} ELSE suspect
  /\ UNCHANGED <<db, lines>>

\* A row that lacks a value where the first 200 had one, a table that is gone.
InsertFails ==
  /\ ingest.step = "insert" /\ (ingest.rows # << >> \/ ingest.table \notin DOMAIN db.tables)
  /\ GiveUp

IngestSteps ==
  \/ \E name \in Name, n \in 0..MaxLine : RouteIngest(name, n)
  \/ DropTable \/ CreateTable \/ BulkInsert \/ InsertFails \/ WriteDatasetMeta

--------------------------------------------------------------------------------
(* What the catalog says of a dataset is true of the table it names, over   *)
(* any sequence of ingests (existing-dataset.mjs:46-68, tables.mjs:64-88,   *)
(* metadata.mjs:82-89), unless one of them wrote to the table and did not   *)
(* finish, and it has not been replaced since.                              *)
CatalogTrue ==
  \A name \in Name :
    Known(name) /\ FindByName(name).table \notin suspect /\ (ingest = NoIngest \/ ingest.name # name) =>
      Readable(name) /\ Len(RowsOf(name)) = FindByName(name).count
================================================================================
