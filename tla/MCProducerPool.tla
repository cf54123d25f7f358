--------------------------- MODULE MCProducerPool ---------------------------
(* Small instances of ProducerPool.  The publishers are interchangeable;   *)
(* the connections are too, but for the first.                             *)
EXTENDS ProducerPool

Symmetry == Permutations(Publishers)
=============================================================================
