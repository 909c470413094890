----------------------------- MODULE MCSourcePath -----------------------------
(* Finite instances of SourcePath for TLC.                                   *)
EXTENDS SourcePath, TLC

CONSTANTS d1, d2, q1, q2

\* One peer with one address; two peers with one address each.
OnePeer == d1 :> q1
TwoPeers == (d1 :> q1) @@ (d2 :> q2)

\* Probes are interchangeable: an idle receive loop's tx, which Init chooses, is
\* overwritten before it is read.
Symmetry == Permutations(Probes)
===============================================================================
