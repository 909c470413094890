---------------------------- MODULE MCEndpointAddr ----------------------------
(* Finite instances of EndpointAddr for TLC.                                 *)
EXTENDS EndpointAddr, TLC

CONSTANT Server

\* One relay server hands out every relay address.
OneServer == [r \in Relay |-> Server]

\* No address is preferred for its kind.
NoBoost == [a \in Direct \cup Relay |-> 0]
\* Pings differ by what they are for, not by their identity.
Sym == Permutations(TxIds)
===============================================================================
