------------------------------- MODULE Navigator ------------------------------
(****************************************************************************)
(* The harness as one process that ingests, indexes, opens sessions and     *)
(* answers questions, one after the other, on files that outlive it; it can *)
(* die between any two writes, or in the middle of one, and start again.    *)
(****************************************************************************)
EXTENDS RowSession, GroundedAgent

vars == <<datasetVars, ragVars, sessionVars, ask>>

TypeOK == DatasetsTypeOK /\ RagTypeOK /\ SessionTypeOK /\ AgentTypeOK

Init == DatasetsInit /\ RagInit /\ SessionInit /\ AgentInit

\* At the menu.
Free == ingest = NoIngest /\ desk = NoDesk /\ ask = NoQuestion

IngestMode == desk = NoDesk /\ ask = NoQuestion /\ IngestSteps /\ Reindexed /\ UNCHANGED <<index, sessionVars, ask>>

IndexMode == Free /\ (\E name \in Name : IndexRows(name)) /\ UNCHANGED <<datasetVars, sessionVars, ask>>

SessionMode == ingest = NoIngest /\ ask = NoQuestion /\ SessionSteps /\ UNCHANGED <<datasetVars, ragVars, ask>>

SearchMode == ingest = NoIngest /\ desk = NoDesk /\ AgentSteps /\ UNCHANGED <<datasetVars, ragVars, sessionVars>>

RowQuestion ==
  /\ desk # NoDesk /\ Count(desk.name) > 0 /\ AnswerRowQuestion(desk.name, desk.at + 1)
  /\ UNCHANGED <<datasetVars, ragVars, sessionVars>>

ShowAnswer == Answered /\ UNCHANGED <<datasetVars, ragVars, sessionVars>>

Dies ==
  /\ ~Free
  /\ IF ingest = NoIngest THEN UNCHANGED datasetVars ELSE GiveUp
  /\ desk' = NoDesk /\ ask' = NoQuestion
  /\ UNCHANGED <<record, said, ragVars>>

DiesWriting ==
  /\ ingest = NoIngest /\ ask = NoQuestion
  /\ \/ (\E s \in Session : TearRecord(s)) /\ UNCHANGED ragVars
     \/ desk = NoDesk /\ (\E name \in Name : IndexTorn(name)) /\ UNCHANGED <<record, said>>
  /\ desk' = NoDesk
  /\ UNCHANGED <<datasetVars, ask>>

Next ==
  \/ IngestMode \/ IndexMode \/ SessionMode \/ SearchMode \/ RowQuestion \/ ShowAnswer
  \/ Dies \/ DiesWriting

Spec == Init /\ [][Next]_vars
================================================================================
