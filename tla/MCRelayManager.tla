---------------------------- MODULE MCRelayManager ----------------------------
(* Finite instances of RelayManager for TLC.                                 *)
EXTENDS RelayManager, TLC

\* Every endpoint has a disco key of its own.
OwnDisco == [p \in Peers |-> p]

\* How often a kind of call is made; pongs and pings may be doubled.
WorkCalls == [k \in Kinds |-> IF k = "pong" THEN 2 ELSE 1]

\* A server allocates twice, and hands out the first endpoint anew.
Reallocated == {[srv |-> s, vni |-> 1, lam |-> 1] : s \in Servers} \cup
               {[srv |-> s, vni |-> 2, lam |-> 2] : s \in Servers}  \cup
               {[srv |-> s, vni |-> 1, lam |-> 3] : s \in Servers}
===============================================================================
