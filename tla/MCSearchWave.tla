------------------------------ MODULE MCSearchWave ------------------------------
\* Lists for the terms of a query over seven shards: all of them in two orders, a
\* few, none.
EXTENDS SearchWave, MCContext

MCNominations == {<<1, 2, 3, 4, 5, 6, 7>>, <<7, 4, 1>>, << >>}
================================================================================
