------------------------------ MODULE RowSession ------------------------------
(****************************************************************************)
(* Row-by-row sessions (src/modes/row-by-row, src/findings, src/store): one *)
(* record per session, in which the row-by-row state and the findings of    *)
(* all modes are two fields that different code writes, each by reading the *)
(* record, changing its own field and putting it back.  The state lives in  *)
(* memory and is put back after every command; a session can be resumed,    *)
(* also on a dataset that has changed.                                      *)
(*                                                                          *)
(* Records are files, read and written whole; a process that dies in the    *)
(* middle of the write leaves a torn one.  (The sqlite backend has the same *)
(* interface and tears nothing.)  Notes and findings are added, of whatever *)
(* row; a flag or a briefing takes the place of the one its row had.        *)
(****************************************************************************)
EXTENDS Datasets

CONSTANTS
  Session,            \* session ids
  TornRecord,         \* a file that was not written to its end
  NoState,            \* the row-by-row field of a record that has none
  Single,             \* the kinds of entries of which a row has one: flag, briefing
  MaxEntry            \* bound: entries made

VARIABLES
  record,             \* the files
  desk,               \* the session that is open
  said                \* entries made so far

sessionVars == <<record, desk, said>>

Note == [kind : {"note"}, row : {0}, n : 1..MaxEntry]
Entry == Note \union [kind : Single, row : Row, n : 1..MaxEntry]
NoCursor == [rowid |-> 0, index |-> 0]
DefaultState == [cursor |-> NoCursor, entries |-> {}]
NoRecord == [rowByRow |-> NoState, findings |-> {}]
NoDesk == [session |-> "none"]

State == [cursor : [rowid : 0..MaxLine, index : 0..MaxLine], entries : SUBSET Entry]
Record == [rowByRow : State \union {NoState}, findings : SUBSET Note]

ASSUME SessionAssumption == MaxEntry \in Nat /\ "note" \notin Single /\ NoState \notin State /\ TornRecord \notin Record

HasSlice(s) == record[s] # TornRecord /\ record[s].rowByRow # NoState

SessionTypeOK ==
  /\ DOMAIN record = Session /\ \A s \in Session : record[s] \in Record \union {TornRecord}
  /\ said \in 0..MaxEntry
  /\ desk # NoDesk =>
       /\ desk.session \in Session /\ desk.name \in Name /\ desk.state \in State
       /\ desk.at = 0 \/ desk.at \in 1..(Len(RowsOf(desk.name)) - 1)

SessionInit == record = [s \in Session |-> NoRecord] /\ desk = NoDesk /\ said = 0

--------------------------------------------------------------------------------
(* The cursor: a position in the rows as they were when the session opened. *)

Count(name) == Len(RowsOf(name))
AtLeast(i, j) == IF i < j THEN j ELSE i
AtMost(i, j) == IF i > j THEN j ELSE i

\* A variant that lets the cursor run off the end: SessionTypeOK rules it out.
ClampToCount(name, i) == AtLeast(0, AtMost(i, Count(name)))

Clamp(name, i) == AtLeast(0, AtMost(i, Count(name) - 1))

\* Out of range: nothing moves.
Jump(name, at, n) == IF n \in 1..Count(name) THEN n - 1 ELSE at

Cursor(name, at) == IF Count(name) = 0 THEN NoCursor ELSE [rowid |-> at + 1, index |-> at]

\* A variant that trusts the saved row to be there: SessionTypeOK rules it out.
ResumeAtSaved(name, cursor) == IF cursor.rowid = 0 THEN 0 ELSE cursor.rowid - 1

\* The saved row, or the nearest position if it has gone.
ResumeAt(name, cursor) ==
  IF cursor.rowid = 0 THEN 0
  ELSE IF cursor.rowid <= Count(name) THEN cursor.rowid - 1
  ELSE Jump(name, 0, AtMost(cursor.index + 1, AtLeast(1, Count(name))))

--------------------------------------------------------------------------------
(* Sessions.  All records are read to choose one: a torn one and no session *)
(* is offered.                                                              *)

ChooseSession(s, name, state) ==
  /\ desk = NoDesk /\ Readable(name)
  /\ \A t \in Session : record[t] # TornRecord
  /\ desk' = [session |-> s, name |-> name, at |-> ResumeAt(name, state.cursor), state |-> state]
  /\ UNCHANGED <<record, said>>

StartFresh(s, name) == record[s] # TornRecord /\ ~HasSlice(s) /\ ChooseSession(s, name, DefaultState)
ResumeSession(s, name) == HasSlice(s) /\ ChooseSession(s, name, record[s].rowByRow)

\* A variant that writes a record of its own: ImplementsNotebook rules it out.
PersistAlone(rec, state) == [rowByRow |-> state, findings |-> {}]

Persist(rec, state) == [rec EXCEPT !.rowByRow = state]

\* A command: the handler, then updateCursor, then persist.
Command(at, entries) ==
  LET state == [cursor |-> Cursor(desk.name, at), entries |-> entries] IN
  /\ desk' = [desk EXCEPT !.at = at, !.state = state]
  /\ record' = [record EXCEPT ![desk.session] = Persist(@, state)]

\* NEXT, DONE and SKIP; PREVIOUS; JUMP TO ROW n.
Move ==
  /\ desk # NoDesk
  /\ \/ Command(Clamp(desk.name, desk.at + 1), desk.state.entries)
     \/ Command(Clamp(desk.name, desk.at - 1), desk.state.entries)
     \/ \E n \in 0..MaxLine : Command(Jump(desk.name, desk.at, n), desk.state.entries)
  /\ UNCHANGED said

\* The entries of a state with one more: state.flags[rowid] = value.
With(entries, e) ==
  {f \in entries : ~(e.kind \in Single /\ f.kind = e.kind /\ f.row = e.row)} \union {e}

\* ADD NOTE and SAVE FINDING; FLAG and the briefing, on the current row.
AddNote == Command(desk.at, With(desk.state.entries, [kind |-> "note", row |-> 0, n |-> said']))
SetMark(kind) == Command(desk.at, With(desk.state.entries, [kind |-> kind, row |-> desk.at + 1, n |-> said']))

Annotate ==
  /\ desk # NoDesk /\ Count(desk.name) > 0
  /\ said < MaxEntry /\ said' = said + 1
  /\ AddNote \/ \E kind \in Single : SetMark(kind)

\* The findings store, from any mode.
SaveFinding(s) ==
  /\ record[s] # TornRecord /\ (desk = NoDesk \/ desk.session = s)
  /\ said < MaxEntry /\ said' = said + 1
  /\ record' = [record EXCEPT ![s].findings = @ \union {[kind |-> "note", row |-> 0, n |-> said']}]
  /\ UNCHANGED desk

Exit == desk # NoDesk /\ desk' = NoDesk /\ UNCHANGED <<record, said>>

\* The process dies while it puts the record of a session.
TearRecord(s) ==
  /\ record[s] # TornRecord /\ (desk = NoDesk \/ desk.session = s)
  /\ record' = [record EXCEPT ![s] = TornRecord]
  /\ UNCHANGED said

SessionSteps ==
  \/ \E s \in Session, name \in Name : StartFresh(s, name) \/ ResumeSession(s, name)
  \/ Move \/ Annotate \/ Exit
  \/ \E s \in Session : SaveFinding(s)

--------------------------------------------------------------------------------
Entries(r) == r.findings \union (IF r.rowByRow = NoState THEN {} ELSE r.rowByRow.entries)

Book == INSTANCE Notebook WITH
  book <- [s \in Session |-> IF record[s] = TornRecord THEN {} ELSE Entries(record[s])],
  spoiled <- {s \in Session : record[s] = TornRecord}

(* What a command or a finding has put into the record of a session stays   *)
(* there: neither the other field's writer nor a resumed session nor a      *)
(* restart takes it away, but for a flag or a briefing that the next one of *)
(* its row replaces (state.mjs:21-60, findings/store.mjs:23-33, "coexists   *)
(* with other fields", state.mjs:3-4).                                      *)
ImplementsNotebook == Book!Spec
================================================================================
