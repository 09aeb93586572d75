------------------------------ MODULE MCNavigator -----------------------------
EXTENDS Navigator, TLC

\* Datasets are alike, and sessions.
Alike == Permutations(Name) \union Permutations(Session)

\* What a question needs of a session is the row it is at; the retrieval index
\* needs nothing.  So questions are asked and rows are indexed until the first
\* entry of a session is made.
RunSpec == Init /\ [][Next /\ (said > 0 => index' = index /\ ask' = NoQuestion)]_vars
================================================================================
