------------------------------ MODULE MCPeerMap ------------------------------
(* Finite instances of PeerMap for TLC.                                      *)
EXTENDS PeerMap, TLC

\* Keys, disco keys and addresses are interchangeable.
Sym == Permutations(Keys) \cup Permutations(Discos) \cup Permutations(Relay)
===============================================================================
