----------------------------- MODULE MCSendPaths -----------------------------
(* Finite instances of SendPaths for TLC.                                    *)
EXTENDS SendPaths, TLC

CONSTANTS p1, p2, p3, p4, d1, d2

\* Three sources to one address of the peer, one to another.
TwoAddresses == (p1 :> d1) @@ (p2 :> d1) @@ (p3 :> d1) @@ (p4 :> d2)

Sym == Permutations(Senders) \cup Permutations(FlowIds) \cup Permutations({p1, p2, p3})
===============================================================================
