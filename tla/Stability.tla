------------------------------ MODULE Stability ------------------------------
(****************************************************************************)
(* Which history may be collapsed (federation/stability.ts).  A state       *)
(* vector maps the clients it knows to their clocks; vectors is the list of *)
(* what the registered replicas have acknowledged, as the catalog gives it. *)
(****************************************************************************)
EXTENDS Naturals, Sequences, FiniteSetsExt

\* The clock of a client that a vector does not name is 0.
Clock(vector, client) == IF client \in DOMAIN vector THEN vector[client] ELSE 0

\* The clients of the first vector, clamped by all the others.
StableFrontier(vectors) ==
  [client \in DOMAIN vectors[1] |-> Min({Clock(vectors[i], client) : i \in DOMAIN vectors})]

IsStable(vector, frontier) ==
  \A client \in DOMAIN vector : Clock(frontier, client) >= vector[client]

\* What compactStable decides for an atom with this vector; where nobody is
\* registered nothing is stable.
Collapses(vector, vectors) == vectors # << >> /\ IsStable(vector, StableFrontier(vectors))

\* "true when every (client, clock) of sv is at or below" what every replica
\* has acknowledged: the history of the atom is one no replica could still need.
Acknowledged(vector, vectors) ==
  vectors # << >> /\ \A i \in DOMAIN vectors, client \in DOMAIN vector :
                       vector[client] <= Clock(vectors[i], client)
==============================================================================
