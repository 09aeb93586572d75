------------------------------- MODULE RagIndex -------------------------------
(****************************************************************************)
(* The retrieval index of the harness (src/rag): one JSON file with a       *)
(* record for each row of each dataset that has been indexed, under the key *)
(* dataset:rowid.  An embedding is the row it was made from.  The file is   *)
(* read and written whole; a process that dies in the middle of the write   *)
(* leaves a torn file, which no one can parse.                              *)
(****************************************************************************)
EXTENDS Datasets

VARIABLES
  index,              \* the file: <<name, rowid>> |-> row, or Torn
  indexed             \* history: name |-> the rows that were indexed last, << >> once the table has gone

CONSTANT Torn         \* a file that was not written to its end

ragVars == <<index, indexed>>

RagTypeOK ==
  /\ index # Torn => DOMAIN index \subseteq Name \X Row /\ \A key \in DOMAIN index : index[key] \in Row
  /\ indexed \in [Name -> Seq(Row)]

RagInit == index = << >> /\ indexed = [name \in Name |-> << >>]

RecordsOf(name) == [key \in {name} \X (1..Len(RowsOf(name))) |-> RowsOf(name)[key[2]]]

\* A variant that keeps what is there: IndexTrue rules it out.
InsertNew(old, new) == Over(old, new)

\* Insert or replace, by id.
Upsert(old, new) == Over(new, old)

\* embedRows, then open, index and persist.
IndexRows(name) ==
  /\ Readable(name) /\ index # Torn
  /\ index' = Upsert(index, RecordsOf(name))
  /\ indexed' = [indexed EXCEPT ![name] = RowsOf(name)]

IndexTorn(name) ==
  /\ Readable(name) /\ index # Torn
  /\ index' = Torn
  /\ UNCHANGED indexed

\* A variant that joins nothing: Grounded rules it out.
HitRowids(name) == {key[2] : key \in {k \in DOMAIN index : k[1] = name}}

\* retrieveRows: hits of the dataset, joined to the rows there are.
Retrieved(name) == HitRowids(name) \intersect DOMAIN RowsOf(name)

\* The history follows the ingests.
Reindexed ==
  indexed' = [name \in Name |->
                IF ingest # NoIngest /\ ingest.name = name /\ ingest.action \in {"REPLACE", "NEW_VERSION"}
                  THEN << >> ELSE indexed[name]]

(* Every row that was indexed last is found under the row's own id and by   *)
(* the row's own contents, whatever has been indexed or appended since      *)
(* (embed.mjs:46-56, engine.mjs:38-59), until the dataset is replaced or    *)
(* gets a new version.                                                      *)
IndexTrue ==
  index # Torn =>
    \A name \in Name : \A r \in DOMAIN indexed[name] :
      /\ <<name, r>> \in DOMAIN index /\ index[<<name, r>>] = indexed[name][r]
      /\ RowsOf(name)[r] = indexed[name][r]
================================================================================
