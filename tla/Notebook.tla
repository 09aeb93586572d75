------------------------------- MODULE Notebook -------------------------------
(****************************************************************************)
(* What the harness keeps of an analyst's entries: one that has been saved  *)
(* stays in the book of its session, whatever is saved after it, across     *)
(* restarts; but for the kinds of which a row has one, where the next one   *)
(* for the row takes its place.  Else the one thing that can happen to it   *)
(* is that the process dies while it writes, which spoils the book of that  *)
(* session and no other.                                                    *)
(****************************************************************************)
CONSTANTS
  Session,
  Entry,              \* records with a kind and a row
  Single              \* kinds of which a row has one

VARIABLES
  book,               \* session |-> its entries
  spoiled             \* sessions whose book can no longer be read

TypeOK == book \in [Session -> SUBSET Entry] /\ spoiled \subseteq Session

Init == book = [s \in Session |-> {}] /\ spoiled = {}

Save(s, e) ==
  /\ s \notin spoiled
  /\ book' = [book EXCEPT ![s] = {f \in @ : ~(e.kind \in Single /\ f.kind = e.kind /\ f.row = e.row)} \union {e}]
  /\ UNCHANGED spoiled

Spoil(s) ==
  /\ book' = [book EXCEPT ![s] = {}]
  /\ spoiled' = spoiled \union {s}

Next == \E s \in Session : Spoil(s) \/ \E e \in Entry : Save(s, e)
Spec == Init /\ [][Next]_<<book, spoiled>>
================================================================================
