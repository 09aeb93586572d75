---------------------------- MODULE MCStability ----------------------------
(****************************************************************************)
(* CatalogProofs on a small instance: every vector of two clients against *)
(* the acknowledgements of up to three replicas.                            *)
(****************************************************************************)
EXTENDS Stability

Vectors == UNION {[clients -> 0..1] : clients \in SUBSET {"client1", "client2"}}

ASSUME CollapsesIfAcknowledged ==
  \A vector \in Vectors, n \in 0..3 : \A vectors \in [1..n -> Vectors] :
    Collapses(vector, vectors) <=> Acknowledged(vector, vectors)
=============================================================================
