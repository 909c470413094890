----------------------------- MODULE PathEvidence -----------------------------
(****************************************************************************)
(* What the source-path scorer may rely on, without generations, locks or    *)
(* goroutines: every piece of evidence is about one UDP socket that really   *)
(* was opened, a probe is evidence at most once, and a socket that has been  *)
(* retired is never spoken for again.                                        *)
(****************************************************************************)
EXTENDS Naturals

CONSTANTS Slots, Probes

VARIABLES
  epoch,      \* how many UDP sockets have been opened for each slot
  evidence,   \* which probe speaks for which UDP socket
  retired,    \* UDP sockets that a rotation has replaced and cleaned up after
  taught      \* probes that have been evidence

vars == <<epoch, evidence, retired, taught>>

UdpSocket == [slot : Slots, idx : Nat]

Init ==
  /\ epoch = [s \in Slots |-> 0]
  /\ evidence = {} /\ retired = {} /\ taught = {}

\* A slot gets a new UDP socket.
Open(s) ==
  /\ epoch' = [epoch EXCEPT ![s] = @ + 1]
  /\ UNCHANGED <<evidence, retired, taught>>

\* A probe that never was evidence becomes evidence about an opened socket;
\* older evidence may run out at the same time.
Learn(p, v) ==
  /\ p \notin taught
  /\ v.idx \in 1..epoch[v.slot]
  /\ v \notin retired
  /\ evidence' \subseteq evidence \cup {[tx |-> p, via |-> v]}
  /\ taught' = taught \cup {p}
  /\ UNCHANGED <<epoch, retired>>

\* Evidence expires, or is invalidated by a failed send.
Lose ==
  /\ evidence' \subseteq evidence
  /\ UNCHANGED <<epoch, retired, taught>>

\* A socket that is no longer the slot's current one is retired, and takes all
\* of its evidence with it.
Retire(v) ==
  /\ v.idx \in 1..epoch[v.slot]
  /\ v.idx < epoch[v.slot]
  /\ retired' = retired \cup {v}
  /\ evidence' = {e \in evidence : e.via # v}
  /\ UNCHANGED <<epoch, taught>>

Next ==
  \/ \E s \in Slots : Open(s)
  \/ \E s \in Slots : \E i \in 1..epoch[s] :
       LET v == [slot |-> s, idx |-> i]
       IN  Retire(v) \/ \E p \in Probes : Learn(p, v)
  \/ Lose

Spec == Init /\ [][Next]_vars
=============================================================================
