----------------------------- MODULE MCRouting -----------------------------
\* MCStability, about another table of the catalog, has no states of its own.
EXTENDS Routing, MCStability
CONSTANTS s1, t1, t2
\* t2 is written with t1 and shares a word with it; s1 is named with t2.
MCInside == {<<t1, t2>>}
MCShares == {<<t1, t2>>, <<t2, t1>>}
MCNamed == {<<s1, t2>>}
=============================================================================
