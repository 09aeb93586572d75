---------------------------- MODULE GroundedAgent -----------------------------
(****************************************************************************)
(* The agent of the harness (src/agent, src/modes): it answers a question   *)
(* with what its tools have returned - SQL, an aggregate, retrieved rows -  *)
(* and cites it, or says that it does not know.  The model chooses the      *)
(* tools, up to a cap; a tool may throw.  What was asked, said and counted  *)
(* is data; generated SQL reads the dataset it was given.                   *)
(****************************************************************************)
EXTENDS RagIndex

CONSTANTS
  MaxToolIterations,  \* MAX_TOOL_ITERATIONS
  MinHits             \* RAG_MIN_HITS; env.mjs would take 0

ASSUME AgentAssumption == MaxToolIterations \in Nat /\ MinHits \in Nat \ {0}

VARIABLE ask          \* the question that is being answered

NoQuestion == [step |-> "none"]

AgentTypeOK ==
  ask # NoQuestion =>
    /\ ask.step \in {"tools", "answered"} /\ ask.mode \in {"search", "row"} /\ ask.name \in Name
    /\ ask.left \in 0..MaxToolIterations
    /\ ask.rowids \subseteq Row /\ {ask.sql, ask.rows, ask.unknown} \subseteq BOOLEAN
    /\ ask.good \in 0..MinHits

AgentInit == ask = NoQuestion

\* sql, rows: whether any tool result has a query, rows or a value that count;
\* good: hits above the threshold, counted as far as it matters.
Question(name) ==
  /\ ask = NoQuestion /\ Readable(name)
  /\ ask' = [step |-> "tools", mode |-> "search", name |-> name, left |-> MaxToolIterations,
             rowids |-> {}, sql |-> FALSE, rows |-> FALSE, good |-> 0, unknown |-> FALSE]

Calling == ask.step = "tools" /\ ask.left > 0
Called(result) == ask' = [result EXCEPT !.left = @ - 1]

\* Rows with their ids, without, or none.
RunSql ==
  /\ Calling
  /\ \E rowids \in SUBSET DOMAIN RowsOf(ask.name), some \in BOOLEAN :
       /\ rowids # {} => some
       /\ Called([ask EXCEPT !.sql = TRUE, !.rows = @ \/ some, !.rowids = @ \union rowids])

\* No value, or 0, is no evidence.
Aggregate == Calling /\ \E some \in BOOLEAN : Called([ask EXCEPT !.sql = TRUE, !.rows = @ \/ some])

RagSearch ==
  /\ Calling /\ index # Torn
  /\ \E hits \in SUBSET Retrieved(ask.name) : \E good \in 0..Cardinality(hits) :
       Called([ask EXCEPT !.rowids = @ \union hits, !.good = IF @ + good > MinHits THEN MinHits ELSE @ + good])

ToolThrows == Calling /\ Called(ask)

HasSufficientEvidence == ask.rows \/ ask.good >= MinHits

\* The model's answer, or the cap.
BuildGroundedAnswer ==
  /\ ask.step = "tools"
  /\ ask' = IF HasSufficientEvidence
              THEN [ask EXCEPT !.step = "answered"]
              ELSE [ask EXCEPT !.step = "answered", !.unknown = TRUE, !.rowids = {}, !.sql = FALSE]

\* The other rows whose first column has the value of the row in question.
RelatedRows(name, rowid) == {rows \in SUBSET DOMAIN RowsOf(name) : rowid \notin rows}

\* A question about a row of an open session: SQL, whose rows have their ids or
\* not, and retrieval, either of which may throw, and the related rows.  The
\* answer comes with the rows it cites; the query is not passed on.
AnswerRowQuestion(name, rowid) ==
  /\ ask = NoQuestion
  /\ \E queried \in SUBSET DOMAIN RowsOf(name), rows \in BOOLEAN, related \in RelatedRows(name, rowid),
        hits \in SUBSET (IF index = Torn THEN {} ELSE Retrieved(name)) :
       \E good \in 0..Cardinality(hits) :
         LET known == rows \/ related # {} \/ good >= MinHits IN
         /\ queried # {} => rows
         /\ ask' = [step |-> "answered", mode |-> "row", name |-> name, left |-> 0, good |-> 0, rows |-> rows,
                    rowids |-> IF known THEN queried \union related \union hits ELSE {},
                    sql |-> FALSE, unknown |-> ~known]

Answered == ask.step = "answered" /\ ask' = NoQuestion

AgentSteps ==
  \/ \E name \in Name : Question(name)
  \/ RunSql \/ Aggregate \/ RagSearch \/ ToolThrows \/ BuildGroundedAnswer

(* "Every answer cites the exact evidence it used" (grounding.mjs:3-5): in  *)
(* search mode, an answer that is not the unknown response cites a row or a *)
(* query; in row mode, it cites a row unless it rests on what SQL returned. *)
(* Every row an answer cites is a row of the dataset, although the          *)
(* retrieval index may know rows from before the dataset was replaced.      *)
Grounded ==
  ask # NoQuestion /\ ask.step = "answered" =>
    /\ ask.unknown \/ ask.rowids # {} \/ (IF ask.mode = "search" THEN ask.sql ELSE ask.rows)
    /\ ask.rowids \subseteq DOMAIN RowsOf(ask.name)

(* Of the questions about a row: "Answers cite their sources or say 'I      *)
(* don't know'" (qa-loop.mjs:3-5); an answer returned cites a row, as       *)
(* nothing else is left of its citations.                                   *)
RowAnswersCite ==
  ask # NoQuestion /\ ask.step = "answered" /\ ask.mode = "row" => ask.unknown \/ ask.rowids # {}
================================================================================
