--------------------------- MODULE MCEndpointUpdate ---------------------------
(* Finite instances of EndpointUpdate for TLC.                               *)
EXTENDS EndpointUpdate, TLC

\* Goroutines are interchangeable.
Symmetry == Permutations(Updaters) \cup Permutations(Closers) \cup Permutations(Peers)
===============================================================================
