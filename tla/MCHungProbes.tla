------------------------------ MODULE MCHungProbes ------------------------------
\* A search over one list of ten shards, in one wave, that finds nothing.
EXTENDS SearchWave

MCTen == {[s \in 1..10 |-> s], << >>}

HungInit == Init /\ ~asked.strict /\ asked.hint = NoHint /\ asked.lists = << >> /\ asked.whole # << >>
FindsNothing == \A i \in DOMAIN probe' : probe'[i] \in {"todo", "probing", "none"}

HungSpec == HungInit /\ [][Next /\ FindsNothing]_vars /\ Fairness
================================================================================
