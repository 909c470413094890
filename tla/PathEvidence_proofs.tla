------------------------- MODULE PathEvidence_proofs -------------------------
(* SourcePath implements PathEvidence, for every value of its constants.     *)
EXTENDS SourcePath_proofs

\* The refinement mapping, by its parts.
AbsEpoch    == [s \in Slots |-> Len(opened[s])]
AbsEvidence == {[tx |-> x.tx, via |-> x.via] : x \in samples}
RetiredOf(O, D) ==
  UNION {{[slot |-> s, idx |-> i] :
            i \in {j \in 1..Len(O[s]) : [slot |-> s, gen |-> O[s][j]] \in D}}
           : s \in Slots}
AbsRetired == RetiredOf(opened, dropped)

\* A rotation that has bound its socket has left the old UDP socket behind.
BehindInv ==
  \A t \in Threads : pc[t] = "drop" =>
    LET s == rotating[t].slot
    IN  Len(opened[s]) > 0 /\ rotating[t].gen < opened[s][Len(opened[s])]

\* A probe is answered once: it is pending no more, and its call has ended.
OnceInv ==
  /\ \A p \in answered : pc[p] = "done"
  /\ \A x \in pending : x.tx \notin answered
  /\ \A x, y \in pending : x.tx = y.tx => x = y

EvidenceInv == BehindInv /\ OnceInv

LEMMA EvidenceInit == Init => EvidenceInv
BY DEF Init, EvidenceInv, BehindInv, OnceInv, Threads

\* No rotation gets to its drop.
LEMMA KeepsBehind ==
  ASSUME TypeOK, TypeOK', SockInv', OpenedGrows, BehindInv,
         \A t \in Threads : pc'[t] = "drop" => pc[t] = "drop" /\ rotating'[t] = rotating[t]
  PROVE  BehindInv'
<1> SUFFICES ASSUME NEW t \in Threads, pc'[t] = "drop"
             PROVE  /\ Len(opened'[rotating'[t].slot]) > 0
                    /\ rotating'[t].gen < opened'[rotating'[t].slot][Len(opened'[rotating'[t].slot])]
  BY DEF BehindInv
<1> DEFINE s == rotating[t].slot
           g == rotating[t].gen
           old == opened[s][Len(opened[s])]
           new == opened'[s][Len(opened'[s])]
<1>1. s \in Slots /\ g \in Nat /\ opened[s] \in Seq(Nat) /\ opened'[s] \in Seq(Nat)
  BY DEF TypeOK, Source
<1>2. Len(opened[s]) > 0 /\ g < old
  BY DEF BehindInv
<1>3. old \in Nat
  BY <1>1, <1>2
<1>4. g + 1 \in Nat /\ g + 1 <= old
  BY <1>1, <1>2, <1>3
<1>5. Len(opened'[s]) > 0 /\ g + 1 <= new
  BY <1>1, <1>2, <1>4, LastIsHighest
<1>6. new \in Nat
  BY <1>1, <1>5
<1>7. g < new
  BY <1>1, <1>5, <1>6
<1> QED BY <1>5, <1>7

\* A call that has ended stays so, and no probe is added.
LEMMA KeepsOnce ==
  ASSUME TypeOK, OnceInv, pending' \subseteq pending, answered' = answered,
         \A t \in Threads : pc[t] = "done" => pc'[t] = "done"
  PROVE  OnceInv'
<1>1. answered \subseteq Threads
  BY DEF TypeOK, Threads
<1> QED BY <1>1 DEF OnceInv

LEMMA BehindStep ==
  TypeOK /\ TypeOK' /\ SockInv /\ SockInv' /\ DropInv /\ BehindInv /\ [Next]_vars => BehindInv'
<1> SUFFICES ASSUME TypeOK, TypeOK', SockInv, SockInv', DropInv, BehindInv, [Next]_vars
             PROVE  BehindInv'
  OBVIOUS
<1> USE DEF sockVars, probeVars, threadVars, histVars
<1>a. OpenedGrows
  BY Grows
<1>b. Probes \subseteq Threads /\ Senders \subseteq Threads /\ pc \in [Threads -> PCs]
  BY DEF Threads, TypeOK
<1>c. ASSUME \A t \in Threads : pc'[t] = "drop" => pc[t] = "drop" /\ rotating'[t] = rotating[t]
      PROVE  BehindInv'
  BY <1>a, <1>c, KeepsBehind
<1>d. ASSUME NEW t \in Threads, NEW v, v # "drop", pc' = [pc EXCEPT ![t] = v], rotating' = rotating
      PROVE  BehindInv'
  BY <1>b, <1>c, <1>d
<1>1. ASSUME UNCHANGED <<pc, rotating>> PROVE BehindInv'
  BY <1>c, <1>1
<1>2. ASSUME NEW t \in Threads, NEW r \in todo[t], RotateStore(t, r) PROVE BehindInv'
  <2>1. /\ pc'[t] = "bind"
        /\ \A u \in Threads : u # t => pc'[u] = pc[u] /\ rotating'[u] = rotating[u]
    BY <1>2, <1>b DEF RotateStore, TypeOK
  <2> QED BY <1>c, <2>1
<1>3. ASSUME NEW t \in Threads, RotateBind(t) PROVE BehindInv'
  <2> DEFINE s == rotating[t].slot
             g == rotating[t].gen
  <2>1. s \in Slots /\ g \in Nat /\ opened[s] \in Seq(Nat) /\ sockGen[s] \in Nat
    BY DEF TypeOK, Source
  <2>2. pc[t] = "bind" /\ g < sockGen[s] /\ rotating' = rotating
    BY <1>3 DEF RotateBind, DropInv, StaleInv
  <2>3. CASE BindFailed(s) /\ pc' = [pc EXCEPT ![t] = "rotate"]
    BY <1>d, <2>2, <2>3
  <2>4. CASE BindOk(s) /\ pc' = [pc EXCEPT ![t] = "drop"]
    <3>1. opened'[s] = Append(opened[s], sockGen[s])
      BY <2>1, <2>4 DEF BindOk, TypeOK
    <3>2. Len(opened'[s]) > 0 /\ opened'[s][Len(opened'[s])] = sockGen[s]
      BY <2>1, <3>1
    <3>3. ASSUME NEW u \in Threads, pc'[u] = "drop", u # t
          PROVE  LET x == rotating[u].slot
                 IN  Len(opened'[x]) > 0 /\ rotating[u].gen < opened'[x][Len(opened'[x])]
      <4> DEFINE x == rotating[u].slot
      <4>1. pc[u] = "drop"
        BY <1>b, <2>4, <3>3
      <4>2. CASE x # s
        <5>1. opened'[x] = opened[x]
          BY <2>4, <4>2 DEF BindOk, TypeOK, Source
        <5> QED BY <4>1, <5>1 DEF BehindInv
      <4>3. CASE x = s
        <5>1. rotating[u].gen < sockGen[x]
          BY <4>1 DEF DropInv, StaleInv
        <5> QED BY <3>2, <4>3, <5>1
      <4> QED BY <4>2, <4>3
    <3> QED BY <2>2, <3>2, <3>3 DEF BehindInv
  <2> QED BY <1>3, <2>3, <2>4 DEF RotateBind
<1>4. ASSUME NEW t \in Threads, Rotate(t) \/ Look(t) \/ WriteOk(t) \/ WriteFailed(t)
      PROVE  BehindInv'
  <2>1. CASE RotateDrop(t) \/ RotateEnd(t) \/ Look(t) \/ WriteOk(t) \/ WriteFailed(t)
    BY <1>d, <2>1 DEF RotateDrop, RotateEnd, Look, WriteOk, WriteFailed
  <2> QED BY <1>1, <1>2, <1>3, <1>4, <2>1 DEF Rotate, RotateStale
<1>5. ASSUME NEW p \in Probes, ProberStep(p) PROVE BehindInv'
  BY <1>b, <1>d, <1>4, <1>5 DEF ProberStep, PingRefused, Ping, Forget
<1>6. ASSUME NEW n \in Senders, SenderStep(n) PROVE BehindInv'
  BY <1>b, <1>d, <1>4, <1>6
  DEF SenderStep, SendChoose, SendSucceeded, DualSendFailed, SingleSendFailed
<1>7. ASSUME NEW s \in Slots, Receiver(s) PROVE BehindInv'
  BY <1>1, <1>7 DEF Receiver, Read, Stamp, HandlePong
<1>8. ASSUME NEW t \in Threads, NEW s \in Slots, NEW d \in Dsts,
             ProbeTick(t, s, d) \/ SendTake(t, s, d)
      PROVE  BehindInv'
  BY <1>d, <1>8 DEF ProbeTick, SendTake
<1>9. CASE RebindStart \/ LinkStep \/ BindClose \/ ConnClose \/ Tick \/ UNCHANGED vars
  BY <1>1, <1>9
  DEF RebindStart, LinkStep, RebindStore, RebindBind, RebindEnd, BindClose, ConnClose, Tick, vars
<1> HIDE DEF sockVars, probeVars, threadVars, histVars
<1> QED BY <1>b, <1>5, <1>6, <1>7, <1>8, <1>9 DEF Next

LEMMA OnceStep ==
  TypeOK /\ AttrInv /\ OnceInv /\ [Next]_vars => OnceInv'
<1> SUFFICES ASSUME TypeOK, AttrInv, OnceInv, [Next]_vars PROVE OnceInv'
  OBVIOUS
<1> USE DEF sockVars, probeVars, threadVars, histVars
<1>b. Probes \subseteq Threads /\ Senders \subseteq Threads /\ pc \in [Threads -> PCs]
  BY DEF Threads, TypeOK
<1>c. ASSUME NEW t \in Threads, NEW v, pc[t] # "done" \/ v = "done",
             pc' = [pc EXCEPT ![t] = v], pending' \subseteq pending, answered' = answered
      PROVE  OnceInv'
  BY <1>b, <1>c, KeepsOnce
<1>1. ASSUME UNCHANGED <<pc, answered>>, pending' \subseteq pending PROVE OnceInv'
  BY <1>1, KeepsOnce
<1>2. ASSUME NEW t \in Threads, Rotate(t) \/ Look(t) \/ WriteOk(t) \/ WriteFailed(t)
      PROVE  OnceInv'
  <2>1. CASE RotateBind(t) \/ RotateEnd(t) \/ Look(t) \/ WriteOk(t) \/ WriteFailed(t)
    BY <1>c, <2>1 DEF RotateBind, RotateEnd, Look, WriteOk, WriteFailed
  <2>2. CASE RotateDrop(t)
    BY <1>c, <2>2 DEF RotateDrop, DropSource
  <2>3. CASE \E r \in todo[t] : RotateStale(t, r) \/ RotateStore(t, r)
    BY <1>1, <1>c, <2>3 DEF RotateStale, RotateStore
  <2> QED BY <1>2, <2>1, <2>2, <2>3 DEF Rotate
<1>3. ASSUME NEW p \in Probes, Ping(p) PROVE OnceInv'
  <2> DEFINE probe == [tx |-> p, dst |-> dst[p], peer |-> PeerOf[dst[p]],
                       source |-> src[p], at |-> now]
  <2>1. pc[p] = "ping" /\ UNCHANGED answered /\ \A u \in Threads : u # p => pc'[u] = pc[u]
    BY <1>3, <1>b DEF Ping
  <2>2. pending' \subseteq pending \cup {probe} /\ probe.tx = p
    BY <1>3 DEF Ping
  <2>3. \A x \in pending : x.tx # p
    BY <2>1 DEF AttrInv, PendInv
  <2>4. p \notin answered /\ answered \subseteq Threads
    BY <1>b, <2>1 DEF OnceInv, TypeOK
  <2> HIDE DEF probe
  <2> QED BY <2>1, <2>2, <2>3, <2>4 DEF OnceInv
<1>4. ASSUME NEW p \in Probes, ProberStep(p) PROVE OnceInv'
  BY <1>b, <1>c, <1>2, <1>3, <1>4 DEF ProberStep, PingRefused, Forget
<1>5. ASSUME NEW n \in Senders, SenderStep(n) PROVE OnceInv'
  BY <1>b, <1>c, <1>2, <1>5
  DEF SenderStep, SendChoose, SendSucceeded, DualSendFailed, SingleSendFailed
<1>6. ASSUME NEW s \in Slots, HandlePong(s) PROVE OnceInv'
  <2>1. UNCHANGED pc /\ rx[s].st = "stamped"
    BY <1>6 DEF HandlePong
  <2>2. CASE PongIgnored(s)
    BY <1>1, <2>1, <2>2 DEF PongIgnored
  <2>3. ASSUME NEW x \in Matching(s), PongExpired(s, x) PROVE OnceInv'
    BY <1>1, <2>1, <2>3 DEF PongExpired
  <2>4. ASSUME NEW x \in Matching(s), PongAccepted(s, x) PROVE OnceInv'
    <3>1. x \in pending /\ x.tx = rx[s].tx
      BY DEF Matching
    <3>2. pending' = pending \ {x} /\ answered' = answered \cup {x.tx}
      BY <2>4 DEF PongAccepted
    <3>3. pc[x.tx] = "done"
      <4>1. [tx |-> rx[s].tx, via |-> rx[s].via] \in wire
        BY <2>1 DEF AttrInv, RxInv
      <4> QED BY <3>1, <4>1 DEF AttrInv, WireInv
    <3> QED BY <2>1, <3>1, <3>2, <3>3 DEF OnceInv
  <2> QED BY <1>6, <2>2, <2>3, <2>4 DEF HandlePong
<1>7. ASSUME NEW s \in Slots, Receiver(s) PROVE OnceInv'
  BY <1>1, <1>6, <1>7 DEF Receiver, Read, Stamp
<1>8. ASSUME NEW t \in Threads, NEW s \in Slots, NEW d \in Dsts,
             ProbeTick(t, s, d) \/ SendTake(t, s, d)
      PROVE  OnceInv'
  BY <1>c, <1>8 DEF ProbeTick, SendTake, TakeSource
<1>9. CASE RebindStart \/ LinkStep \/ BindClose \/ ConnClose \/ Tick \/ UNCHANGED vars
  BY <1>1, <1>9
  DEF RebindStart, LinkStep, RebindStore, RebindBind, RebindEnd, BindClose, ConnClose, Tick, vars
<1> HIDE DEF sockVars, probeVars, threadVars, histVars
<1> QED BY <1>b, <1>4, <1>5, <1>7, <1>8, <1>9 DEF Next

-----------------------------------------------------------------------------
(* Step by step.                                                             *)

\* A UDP socket is retired when the source it stands for has been dropped.
LEMMA RetiredIs ==
  ASSUME NEW v, NEW O, NEW D
  PROVE  v \in RetiredOf(O, D) <=>
           \E s \in Slots : \E i \in 1..Len(O[s]) :
             v = [slot |-> s, idx |-> i] /\ [slot |-> s, gen |-> O[s][i]] \in D
<1> DEFINE I(s) == {j \in 1..Len(O[s]) : [slot |-> s, gen |-> O[s][j]] \in D}
           R(s) == {[slot |-> s, idx |-> i] : i \in I(s)}
<1>1. RetiredOf(O, D) = UNION {R(s) : s \in Slots}
  BY DEF RetiredOf
<1>2. \A s : v \in R(s) <=> \E i \in I(s) : v = [slot |-> s, idx |-> i]
  OBVIOUS
<1>3. \A s, i : i \in I(s) <=> i \in 1..Len(O[s]) /\ [slot |-> s, gen |-> O[s][i]] \in D
  OBVIOUS
<1> HIDE DEF I, R
<1>4. v \in RetiredOf(O, D) <=> \E s \in Slots : v \in R(s)
  BY <1>1
<1> QED BY <1>2, <1>3, <1>4

\* Nothing is opened, dropped or answered: at most, evidence is lost.
LEMMA LoseStep ==
  ASSUME UNCHANGED <<opened, dropped, answered>>, samples' \subseteq samples
  PROVE  Evidence!Next
<1>1. UNCHANGED <<AbsEpoch, AbsRetired, answered>>
  BY DEF AbsEpoch, AbsRetired
<1>2. AbsEvidence' \subseteq AbsEvidence
  BY DEF AbsEvidence
<1>3. Evidence!Lose
  BY <1>1, <1>2 DEF Evidence!Lose, AbsEpoch, AbsRetired, RetiredOf, AbsEvidence
<1> QED BY <1>3 DEF Evidence!Next

\* A new UDP socket is opened under a generation that nobody has dropped.
LEMMA OpenStep ==
  ASSUME TypeOK, StaleInv, NEW s \in Slots, BindOk(s), UNCHANGED <<samples, dropped, answered>>
  PROVE  Evidence!Next
<1>1. opened[s] \in Seq(Nat) /\ sockGen[s] \in Nat
  BY DEF TypeOK
<1>2. /\ opened'[s] = Append(opened[s], sockGen[s])
      /\ \A u \in Slots : u # s => opened'[u] = opened[u]
  BY DEF BindOk, TypeOK
<1>3. Len(opened'[s]) = Len(opened[s]) + 1 /\ opened'[s][Len(opened[s]) + 1] = sockGen[s]
      /\ \A i \in 1..Len(opened[s]) : opened'[s][i] = opened[s][i]
  BY <1>1, <1>2
<1>4. AbsEpoch' = [AbsEpoch EXCEPT ![s] = @ + 1]
  BY <1>2, <1>3 DEF AbsEpoch
<1>5. [slot |-> s, gen |-> sockGen[s]] \notin dropped
  BY <1>1 DEF StaleInv
<1>6. ASSUME NEW u \in Slots, NEW i
      PROVE  i \in 1..Len(opened'[u]) /\ [slot |-> u, gen |-> opened'[u][i]] \in dropped
               <=> i \in 1..Len(opened[u]) /\ [slot |-> u, gen |-> opened[u][i]] \in dropped
  <2>1. CASE u # s
    BY <1>2, <2>1
  <2>2. CASE u = s
    <3>1. Len(opened[s]) \in Nat
      BY <1>1
    <3>2. i \in 1..Len(opened'[s]) <=> i \in 1..Len(opened[s]) \/ i = Len(opened[s]) + 1
      BY <1>3, <3>1
    <3> QED BY <1>3, <1>5, <2>2, <3>2
  <2> QED BY <2>1, <2>2
<1>7. AbsRetired' = AbsRetired
  <2>1. ASSUME NEW v PROVE v \in RetiredOf(opened', dropped) <=> v \in RetiredOf(opened, dropped)
    <3>1. v \in RetiredOf(opened', dropped) <=>
            \E u \in Slots : \E i \in 1..Len(opened'[u]) :
              v = [slot |-> u, idx |-> i] /\ [slot |-> u, gen |-> opened'[u][i]] \in dropped
      BY RetiredIs
    <3>2. v \in RetiredOf(opened, dropped) <=>
            \E u \in Slots : \E i \in 1..Len(opened[u]) :
              v = [slot |-> u, idx |-> i] /\ [slot |-> u, gen |-> opened[u][i]] \in dropped
      BY RetiredIs
    <3> QED BY <1>6, <3>1, <3>2, Zenon
  <2>2. RetiredOf(opened', dropped) = RetiredOf(opened, dropped)
    BY <2>1
  <2> QED BY <2>2 DEF AbsRetired
<1>8. AbsEvidence' = AbsEvidence
  BY DEF AbsEvidence
<1>9. Evidence!Open(s)
  BY <1>4, <1>7, <1>8 DEF Evidence!Open, AbsEpoch, AbsRetired, RetiredOf, AbsEvidence
<1> QED BY <1>9 DEF Evidence!Next

\* A Pong that is accepted is evidence about the UDP socket it came in on.
LEMMA LearnStep ==
  ASSUME TypeOK, TypeOK', SockInv, AttrInv, AttrInv', DropInv, OnceInv, NEW s \in Slots, HandlePong(s),
         NEW x \in Matching(s), PongAccepted(s, x)
  PROVE  Evidence!Next
<1> DEFINE v == rx[s].via
           p == x.tx
           sample == [tx |-> p, dst |-> x.dst, source |-> rx[s].meta, at |-> now, via |-> v]
<1>1. /\ x \in pending /\ x \in Tx /\ p = rx[s].tx /\ x.source = rx[s].meta
      /\ rx[s].st = "stamped" /\ UNCHANGED <<opened, dropped>>
  BY DEF Matching, PongAccepted, Answered, HandlePong, TypeOK, sockVars
<1>2. p \in Probes /\ p \notin answered /\ answered' = answered \cup {p}
  BY <1>1 DEF Tx, OnceInv, PongAccepted
<1>3. v \in UdpSocket /\ v.slot = s /\ [tx |-> p, via |-> v] \in wire
  BY <1>1 DEF TypeOK, AttrInv, RxInv
<1>4. /\ src[p] = x.source /\ pc[p] = "done" /\ v.idx \in 1..Len(opened[s])
      /\ src[p].slot = s /\ src[p].gen <= opened[s][v.idx]
  BY <1>1, <1>3 DEF AttrInv, WireInv, PendInv
<1>5. opened[s][v.idx] = x.source.gen
  <2>1. opened[s][v.idx] <= rx[s].meta.gen
    BY <1>1 DEF AttrInv, RxInv
  <2>2. opened[s][v.idx] \in Nat /\ x.source.gen \in Nat
    <3>1. opened[s] \in Seq(Nat) /\ x.source \in Source
      BY <1>1 DEF TypeOK, Tx
    <3> QED BY <1>4, <3>1 DEF Source
  <2> QED BY <1>1, <1>4, <2>1, <2>2
<1>6. x.source \notin dropped /\ x.source = [slot |-> s, gen |-> opened[s][v.idx]]
  <2>1. x.source \in Source
    BY <1>1 DEF Tx
  <2> QED BY <1>1, <1>4, <1>5, <2>1 DEF DropInv, GoneInv, Source
<1>7. v = [slot |-> s, idx |-> v.idx]
  BY <1>3 DEF UdpSocket
<1>8. v \notin AbsRetired
  <2>1. ASSUME NEW u \in Slots, NEW i \in 1..Len(opened[u]), v = [slot |-> u, idx |-> i],
               [slot |-> u, gen |-> opened[u][i]] \in dropped
        PROVE  FALSE
    BY <1>3, <1>6, <2>1
  <2> QED BY <2>1, RetiredIs DEF AbsRetired
<1>9. AbsEvidence' \subseteq AbsEvidence \cup {[tx |-> p, via |-> v]}
  <2>1. samples' \subseteq samples \cup {sample}
    BY DEF PongAccepted, TrimmedTo
  <2> QED BY <2>1 DEF AbsEvidence
<1>10. UNCHANGED <<AbsEpoch, AbsRetired>>
  BY <1>1 DEF AbsEpoch, AbsRetired
<1>11. v.idx \in 1..AbsEpoch[v.slot]
  BY <1>3, <1>4 DEF AbsEpoch
<1> HIDE DEF v, p
<1>12. PICK q, i : q = p /\ i = v.idx
  OBVIOUS
<1>13. v = [slot |-> s, idx |-> i]
  BY <1>7, <1>12
<1>14. /\ q \notin answered /\ answered' = answered \cup {q}
       /\ i \in 1..AbsEpoch[s] /\ [slot |-> s, idx |-> i] \notin AbsRetired
       /\ AbsEvidence' \subseteq AbsEvidence \cup {[tx |-> q, via |-> [slot |-> s, idx |-> i]]}
  BY <1>2, <1>3, <1>8, <1>9, <1>11, <1>12, <1>13
<1>15. Evidence!Learn(q, [slot |-> s, idx |-> i])
  BY <1>10, <1>14 DEF Evidence!Learn, AbsEpoch, AbsRetired, RetiredOf, AbsEvidence
<1>16. q \in Probes /\ i \in 1..[u \in Slots |-> Len(opened[u])][s]
  BY <1>2, <1>12, <1>14 DEF AbsEpoch
<1> QED BY <1>15, <1>16, Zenon DEF Evidence!Next

\* The source of a sample is the UDP socket that the sample came in on.
LEMMA SourceIsSocket ==
  ASSUME TypeOK, SockInv, AttrInv, NEW x \in samples, NEW r \in Source,
         NEW i \in 1..Len(opened[r.slot]), opened[r.slot][i] = r.gen
  PROVE  x.source = r <=> x.via = [slot |-> r.slot, idx |-> i]
<1>1. x.source \in Source /\ x.via \in UdpSocket
  BY DEF TypeOK, Sample
<1>2. /\ x.via.slot = x.source.slot
      /\ \A j \in 1..Len(opened[x.via.slot]) :
           opened[x.via.slot][j] = x.source.gen <=> j = x.via.idx
  BY AttrImplies DEF SampleAttribution
<1>3. r = [slot |-> r.slot, gen |-> r.gen] /\ x.source = [slot |-> x.source.slot, gen |-> x.source.gen]
      /\ x.via = [slot |-> x.via.slot, idx |-> x.via.idx]
  BY <1>1 DEF Source, UdpSocket
<1>4. ASSUME x.source = r PROVE x.via = [slot |-> r.slot, idx |-> i]
  <2>1. x.via.slot = r.slot /\ x.via.idx = i
    BY <1>2, <1>4
  <2> QED BY <1>3, <2>1
<1>5. ASSUME x.via = [slot |-> r.slot, idx |-> i] PROVE x.source = r
  <2>1. x.via.slot = r.slot /\ x.via.idx = i
    BY <1>5
  <2>2. x.source.slot = r.slot /\ x.source.gen = r.gen
    BY <1>2, <2>1
  <2> QED BY <1>3, <2>2
<1> QED BY <1>4, <1>5

\* dropSourceLocked retires the UDP socket of the source that was rotated, if
\* one was ever opened under it.
LEMMA RetireStep ==
  ASSUME TypeOK, SockInv, AttrInv, BehindInv, NEW t \in Threads, RotateDrop(t)
  PROVE  Evidence!Next
<1>1. PICK r : r = rotating[t]
  OBVIOUS
<1>2. PICK s : s = r.slot
  OBVIOUS
<1>3. r \in Source /\ s \in Slots /\ r.gen \in Nat /\ opened[s] \in Seq(Nat)
  BY <1>1, <1>2 DEF TypeOK, Source
<1>4. /\ UNCHANGED <<opened, answered>> /\ dropped' = dropped \cup {r}
      /\ samples' = {x \in samples : x.source # r}
  BY <1>1 DEF RotateDrop, DropSource, sockVars, histVars
<1>5. UNCHANGED AbsEpoch
  BY <1>4 DEF AbsEpoch
<1>6. ASSUME NEW u \in Slots, NEW j
      PROVE  [slot |-> u, gen |-> j] \in dropped' <=>
               [slot |-> u, gen |-> j] \in dropped \/ (u = s /\ j = r.gen)
  <2>1. r = [slot |-> s, gen |-> r.gen]
    BY <1>2, <1>3 DEF Source
  <2>2. [slot |-> u, gen |-> j] = r <=> u = s /\ j = r.gen
    BY <2>1
  <2> QED BY <1>4, <2>2
<1>7. ASSUME NEW v
      PROVE  v \in RetiredOf(opened, dropped') <=>
               \/ v \in RetiredOf(opened, dropped)
               \/ \E i \in 1..Len(opened[s]) : v = [slot |-> s, idx |-> i] /\ opened[s][i] = r.gen
  <2>1. v \in RetiredOf(opened, dropped') <=>
          \E u \in Slots : \E i \in 1..Len(opened[u]) :
            v = [slot |-> u, idx |-> i] /\ [slot |-> u, gen |-> opened[u][i]] \in dropped'
    BY RetiredIs
  <2>2. v \in RetiredOf(opened, dropped) <=>
          \E u \in Slots : \E i \in 1..Len(opened[u]) :
            v = [slot |-> u, idx |-> i] /\ [slot |-> u, gen |-> opened[u][i]] \in dropped
    BY RetiredIs
  <2>3. v \in RetiredOf(opened, dropped') <=>
          \E u \in Slots : \E i \in 1..Len(opened[u]) :
            /\ v = [slot |-> u, idx |-> i]
            /\ [slot |-> u, gen |-> opened[u][i]] \in dropped \/ (u = s /\ opened[u][i] = r.gen)
    BY <1>6, <2>1, Zenon
  <2> QED BY <1>3, <2>2, <2>3
<1>8. CASE \A i \in 1..Len(opened[s]) : opened[s][i] # r.gen
  <2>1. RetiredOf(opened, dropped') = RetiredOf(opened, dropped)
    BY <1>7, <1>8
  <2>2. UNCHANGED AbsRetired
    BY <1>4, <2>1 DEF AbsRetired
  <2>3. AbsEvidence' \subseteq AbsEvidence
    BY <1>4 DEF AbsEvidence
  <2>4. Evidence!Lose
    BY <1>4, <1>5, <2>2, <2>3 DEF Evidence!Lose, AbsEpoch, AbsRetired, RetiredOf, AbsEvidence
  <2> QED BY <2>4 DEF Evidence!Next
<1>9. CASE \E i \in 1..Len(opened[s]) : opened[s][i] = r.gen
  <2>1. PICK i \in 1..Len(opened[s]) : opened[s][i] = r.gen
    BY <1>9
  <2>2. ASSUME NEW j \in 1..Len(opened[s]), opened[s][j] = r.gen PROVE j = i
    <3>1. (i < j => opened[s][i] < opened[s][j]) /\ (j < i => opened[s][j] < opened[s][i])
      BY <1>3 DEF SockInv, GenInv
    <3> QED BY <1>3, <2>1, <2>2, <3>1
  <2>3. RetiredOf(opened, dropped') = RetiredOf(opened, dropped) \cup {[slot |-> s, idx |-> i]}
    BY <1>7, <2>1, <2>2
  <2>4. AbsRetired' = AbsRetired \cup {[slot |-> s, idx |-> i]}
    BY <1>4, <2>3 DEF AbsRetired
  <2>5. \A x \in samples : x.source = r <=> x.via = [slot |-> s, idx |-> i]
    BY <1>2, <1>3, <2>1, SourceIsSocket
  <2>6. AbsEvidence' = {e \in AbsEvidence : e.via # [slot |-> s, idx |-> i]}
    BY <1>4, <2>5 DEF AbsEvidence
  <2>7. i < Len(opened[s])
    <3>1. r.gen < opened[s][Len(opened[s])]
      BY <1>1, <1>2 DEF BehindInv, RotateDrop
    <3>2. opened[s][Len(opened[s])] # opened[s][i]
      BY <1>3, <2>1, <3>1
    <3> QED BY <1>3, <2>1, <3>2
  <2>8. i \in 1..AbsEpoch[s] /\ i < AbsEpoch[s]
    BY <1>3, <2>1, <2>7 DEF AbsEpoch
  <2>9. Evidence!Retire([slot |-> s, idx |-> i])
    BY <1>4, <1>5, <2>4, <2>6, <2>8
    DEF Evidence!Retire, AbsEpoch, AbsRetired, RetiredOf, AbsEvidence
  <2>10. i \in 1..[u \in Slots |-> Len(opened[u])][s]
    BY <2>8 DEF AbsEpoch
  <2> QED BY <1>3, <2>9, <2>10, Zenon DEF Evidence!Next
<1> QED BY <1>8, <1>9

\* Every step is a step of PathEvidence, or leaves what it sees alone.
LEMMA EvidenceStep ==
  ASSUME TypeOK, TypeOK', SockInv, AttrInv, AttrInv', DropInv, EvidenceInv, [Next]_vars
  PROVE  Evidence!Next
<1> USE DEF sockVars, probeVars, threadVars, histVars
<1>b. Probes \subseteq Threads /\ Senders \subseteq Threads
  BY DEF Threads
<1>1. ASSUME UNCHANGED <<opened, dropped, answered, samples>> PROVE Evidence!Next
  BY <1>1, LoseStep
<1>2. ASSUME NEW s \in Slots, BindOk(s) \/ BindFailed(s), UNCHANGED <<samples, dropped, answered>>
      PROVE  Evidence!Next
  BY <1>1, <1>2, OpenStep DEF BindFailed, DropInv
<1>3. ASSUME NEW t \in Threads, Rotate(t) \/ Look(t) \/ WriteOk(t) \/ WriteFailed(t)
      PROVE  Evidence!Next
  <2>1. CASE RotateBind(t)
    <3>1. rotating[t].slot \in Slots
      BY DEF TypeOK, Source
    <3>2. /\ BindOk(rotating[t].slot) \/ BindFailed(rotating[t].slot)
          /\ UNCHANGED <<samples, dropped, answered>>
      BY <2>1 DEF RotateBind
    <3>3. CASE BindFailed(rotating[t].slot)
      BY <1>1, <3>2, <3>3 DEF BindFailed
    <3>4. CASE BindOk(rotating[t].slot)
      <4>1. PICK s \in Slots : s = rotating[t].slot
        BY <3>1
      <4>2. BindOk(s)
        BY <3>4, <4>1 DEF BindOk
      <4> QED BY <1>2, <3>2, <4>2
    <3> QED BY <3>2, <3>3, <3>4
  <2>2. CASE RotateDrop(t)
    BY <2>2, RetireStep DEF EvidenceInv
  <2>3. CASE RotateEnd(t) \/ Look(t) \/ WriteOk(t) \/ WriteFailed(t)
    BY <1>1, <2>3 DEF RotateEnd, Look, WriteOk, WriteFailed
  <2>4. CASE \E r \in todo[t] : RotateStale(t, r) \/ RotateStore(t, r)
    BY <1>1, <2>4 DEF RotateStale, RotateStore
  <2> QED BY <1>3, <2>1, <2>2, <2>3, <2>4 DEF Rotate
<1>4. ASSUME NEW p \in Probes, ProberStep(p) PROVE Evidence!Next
  BY <1>b, <1>1, <1>3, <1>4 DEF ProberStep, PingRefused, Ping, Forget
<1>5. ASSUME NEW n \in Senders, SenderStep(n) PROVE Evidence!Next
  <2>1. CASE SingleSendFailed(n)
    BY <2>1, LoseStep DEF SingleSendFailed
  <2> QED BY <1>b, <1>1, <1>3, <1>5, <2>1
      DEF SenderStep, SendChoose, SendSucceeded, DualSendFailed
<1>6. ASSUME NEW s \in Slots, HandlePong(s) PROVE Evidence!Next
  <2>1. UNCHANGED <<opened, dropped>>
    BY <1>6 DEF HandlePong
  <2>2. CASE PongIgnored(s)
    BY <1>1, <2>1, <2>2 DEF PongIgnored
  <2>3. ASSUME NEW x \in Matching(s), PongExpired(s, x) PROVE Evidence!Next
    BY <1>1, <2>1, <2>3 DEF PongExpired
  <2>4. ASSUME NEW x \in Matching(s), PongAccepted(s, x) PROVE Evidence!Next
    BY <1>6, <2>4, LearnStep DEF EvidenceInv
  <2> QED BY <1>6, <2>2, <2>3, <2>4 DEF HandlePong
<1>7. ASSUME NEW s \in Slots, Receiver(s) PROVE Evidence!Next
  BY <1>1, <1>6, <1>7 DEF Receiver, Read, Stamp
<1>8. ASSUME NEW t \in Threads, NEW s \in Slots, NEW d \in Dsts,
             ProbeTick(t, s, d) \/ SendTake(t, s, d)
      PROVE  Evidence!Next
  BY <1>1, <1>8 DEF ProbeTick, SendTake
<1>9. ASSUME RebindBind PROVE Evidence!Next
  <2>1. PICK s \in Slots : s = binding
    BY <1>9 DEF RebindBind, TypeOK
  <2>2. BindOk(s) \/ BindFailed(s)
    BY <1>9, <2>1 DEF RebindBind, BindOk, BindFailed
  <2> QED BY <1>2, <1>9, <2>2 DEF RebindBind
<1>10. ASSUME ConnClose PROVE Evidence!Next
  BY <1>10, LoseStep DEF ConnClose, CloseSockets
<1>11. CASE RebindStart \/ RebindEnd \/ (\E s \in Slots : RebindStore(s)) \/ BindClose \/ Tick
            \/ UNCHANGED vars
  BY <1>1, <1>11 DEF RebindStart, RebindEnd, RebindStore, BindClose, CloseSockets, Tick, vars
<1> HIDE DEF sockVars, probeVars, threadVars, histVars
<1> QED BY <1>b, <1>4, <1>5, <1>7, <1>8, <1>9, <1>10, <1>11 DEF Next, LinkStep

\* To the scorer, a source (socketID, generation) behaves like the UDP socket it
\* stands for: evidence is about one UDP socket that was opened, a probe is
\* evidence once, and a socket that a rotation has retired is never spoken for
\* again, in any number of slots, calls and re-binds.
THEOREM EvidenceRefined == Spec => ImplementsPathEvidence
<1> DEFINE IInv == TypeInv /\ SockInv /\ AttrInv /\ DropInv /\ EvidenceInv
<1>1. Init => IInv
  BY TypeInit, SockInit, AttrInit, DropInit, EvidenceInit
<1>2. IInv /\ [Next]_vars => IInv'
  <2> SUFFICES ASSUME IInv, [Next]_vars PROVE IInv'
    OBVIOUS
  <2>1. TypeInv' /\ TypeOK /\ TypeOK'
    BY TypeStep DEF TypeInv
  <2>2. SockInv' /\ AttrInv' /\ DropInv'
    BY <2>1, SockStep, AttrStep, DropStep
  <2>3. BehindInv' /\ OnceInv'
    BY <2>1, <2>2, BehindStep, OnceStep DEF EvidenceInv
  <2> QED BY <2>1, <2>2, <2>3 DEF EvidenceInv
<1>3. Init => Evidence!Init
  <2> SUFFICES ASSUME Init PROVE Evidence!Init
    OBVIOUS
  <2>1. AbsEpoch = [s \in Slots |-> 0] /\ AbsEvidence = {} /\ answered = {}
    BY DEF Init, AbsEpoch, AbsEvidence
  <2>2. AbsRetired = {}
    <3>1. ASSUME NEW v, v \in AbsRetired PROVE FALSE
      <4>1. PICK s \in Slots : \E i \in 1..Len(opened[s]) :
              v = [slot |-> s, idx |-> i] /\ [slot |-> s, gen |-> opened[s][i]] \in dropped
        BY <3>1, RetiredIs DEF AbsRetired
      <4> QED BY <4>1 DEF Init
    <3> QED BY <3>1
  <2> QED BY <2>1, <2>2 DEF Evidence!Init, AbsEpoch, AbsRetired, RetiredOf, AbsEvidence
<1>4. IInv /\ IInv' /\ [Next]_vars => [Evidence!Next]_(Evidence!vars)
  BY EvidenceStep DEF TypeInv
<1> HIDE DEF IInv
<1> QED BY <1>1, <1>2, <1>3, <1>4, PTL DEF Spec, ImplementsPathEvidence, Evidence!Spec
===============================================================================
