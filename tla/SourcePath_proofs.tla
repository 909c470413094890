-------------------------- MODULE SourcePath_proofs --------------------------
(* Proofs about SourcePath, for every value of its constants.                *)
EXTENDS SourcePath, FiniteSetTheorems, TLAPS

-----------------------------------------------------------------------------
(* Types.                                                                    *)

\* TypeOK, with what it needs to count losses: finitely many probes pend.
TypeInv == TypeOK /\ IsFiniteSet(pending)

\* Values built by the operators of the probe manager have their types.
LEMMA OutcomeType ==
  ASSUME TypeOK, NEW x \in pending, NEW b \in BOOLEAN
  PROVE  OutcomeOf(x, b) \in Outcome
BY DEF TypeOK, Outcome, OutcomeOf, Tx

LEMMA RxMetaType ==
  ASSUME TypeOK, NEW s \in Slots
  PROVE  rxMeta(s) \in Source
BY DEF TypeOK, rxMeta, Source

LEMMA WithoutType ==
  ASSUME NEW f, NEW K, NEW D, NEW R,
         DOMAIN f \in SUBSET D, \A k \in DOMAIN f : f[k] \in R
  PROVE  /\ DOMAIN Without(f, K) \in SUBSET D
         /\ \A k \in DOMAIN Without(f, K) : Without(f, K)[k] \in R
BY DEF Without

LEMMA NoteOutcomesType ==
  ASSUME TypeOK, NEW new \in SUBSET Outcome, NoteOutcomes(new)
  PROVE  outcomes' \in SUBSET Outcome
BY DEF TypeOK, NoteOutcomes, TrimmedTo

LEMMA LossStreakType ==
  ASSUME TypeInv, NEW k
  PROVE  LossStreak(k) \in Nat
<1>1. IsFiniteSet({x \in Expired : KeyOf(x.dst, x.source) = k /\ HasRecentSample(x.dst, x.source)})
  BY FS_Subset DEF TypeInv, Expired
<1> QED BY <1>1, FS_CardinalityType DEF TypeInv, TypeOK, LossStreak, Losses

LEMMA BindType ==
  ASSUME TypeOK, NEW s \in Slots, BindOk(s) \/ BindFailed(s)
  PROVE  /\ conn' \in [Slots -> {"open", "closed", "blocked"}]
         /\ bound' \in [Slots -> BOOLEAN]
         /\ opened' \in [Slots -> Seq(Nat)]
         /\ binding' = NoSlot
<1>1. opened \in [Slots -> Seq(Nat)] /\ sockGen[s] \in Nat
  BY DEF TypeOK
<1>2. opened' \in [Slots -> Seq(Nat)]
  <2>1. CASE BindOk(s)
    <3>1. Append(opened[s], sockGen[s]) \in Seq(Nat)
      BY <1>1
    <3> QED BY <1>1, <2>1, <3>1 DEF BindOk
  <2>2. CASE BindFailed(s)
    BY <1>1, <2>2 DEF BindFailed
  <2> QED BY <2>1, <2>2
<1> QED BY <1>2 DEF TypeOK, BindOk, BindFailed

LEMMA TypeInit == Init => TypeInv
<1> SUFFICES ASSUME Init PROVE TypeInv
  OBVIOUS
<1>1. IsFiniteSet(pending)
  BY FS_EmptySet DEF Init
<1>2. (CHOOSE s \in Slots : TRUE) \in Slots /\ (CHOOSE d \in Dsts : TRUE) \in Dsts
  BY ConstantsAssumption
<1>3. (CHOOSE q \in Peers : TRUE) \in Peers
  BY ConstantsAssumption
<1>4. DOMAIN probeLoss = {} /\ DOMAIN demotedTill = {}
  BY DEF Init
<1>5. rx \in [Slots -> [st : {"wait", "read", "stamped"}, tx : Probes, sender : Peers,
                        via : UdpSocket, meta : Source]]
  BY <1>3, ConstantsAssumption DEF Init, UdpSocket, Source
<1>6. opened \in [Slots -> Seq(Nat)]
  BY DEF Init
<1>7. src \in [Threads -> Source] /\ rotating \in [Threads -> Source]
  BY <1>2 DEF Init, Source
<1> QED
  BY <1>1, <1>2, <1>4, <1>5, <1>6, <1>7 DEF TypeInv, TypeOK, Init, PCs

\* Every step keeps the types.
LEMMA TypeStep == TypeInv /\ [Next]_vars => TypeInv'
<1> SUFFICES ASSUME TypeInv, [Next]_vars PROVE TypeInv'
  OBVIOUS
<1> USE DEF sockVars, probeVars, threadVars, histVars
<1>a. ASSUME UNCHANGED vars PROVE TypeInv'
  BY <1>a DEF TypeInv, TypeOK, vars
<1>b. Threads = Probes \cup Senders /\ PCs = {"idle", "ping", "choose", "rotate",
        "bind", "drop", "look", "write", "forget", "sent", "failed", "done"}
  BY DEF Threads, PCs
<1>1. ASSUME RebindStart PROVE TypeInv'
  BY <1>1 DEF RebindStart, TypeInv, TypeOK
<1>2. ASSUME NEW s \in Slots, RebindStore(s) PROVE TypeInv'
  BY <1>2 DEF RebindStore, StoreGeneration, TypeInv, TypeOK
<1>3. ASSUME RebindBind PROVE TypeInv'
  <2>1. binding \in Slots
    BY <1>3 DEF RebindBind, TypeInv, TypeOK
  <2> QED BY <1>3, <2>1, BindType DEF RebindBind, TypeInv, TypeOK
<1>4. ASSUME RebindEnd PROVE TypeInv'
  BY <1>4 DEF RebindEnd, TypeInv, TypeOK
<1>5. ASSUME BindClose PROVE TypeInv'
  BY <1>5 DEF BindClose, CloseSockets, TypeInv, TypeOK
<1>6. ASSUME ConnClose PROVE TypeInv'
  BY <1>6, FS_EmptySet DEF ConnClose, CloseSockets, TypeInv, TypeOK
<1>7. ASSUME NEW t \in Threads, NEW r \in todo[t], RotateStale(t, r) PROVE TypeInv'
  BY <1>7 DEF RotateStale, TypeInv, TypeOK
<1>8. ASSUME NEW t \in Threads, NEW r \in todo[t], RotateStore(t, r) PROVE TypeInv'
  <2>1. r \in Source /\ r.slot \in Slots
    BY DEF TypeInv, TypeOK, Source
  <2>2. sockGen' \in [Slots -> Nat] /\ generation' \in Nat
    BY <1>8, <2>1 DEF RotateStore, StoreGeneration, TypeInv, TypeOK
  <2>3. todo' \in [Threads -> SUBSET Source] /\ rotating' \in [Threads -> Source]
    BY <1>8, <2>1 DEF RotateStore, TypeInv, TypeOK
  <2>4. pc' \in [Threads -> PCs] /\ spMu' \in Threads /\ binding' \in Slots
    BY <1>8, <1>b, <2>1 DEF RotateStore, StoreGeneration, TypeInv, TypeOK
  <2> QED BY <1>8, <2>2, <2>3, <2>4 DEF RotateStore, TypeInv, TypeOK
<1>9. ASSUME NEW t \in Threads, RotateBind(t) PROVE TypeInv'
  <2>1. rotating[t].slot \in Slots
    BY DEF TypeInv, TypeOK, Source
  <2>2. pc' \in [Threads -> PCs]
    BY <1>9, <1>b DEF RotateBind, TypeInv, TypeOK
  <2> QED BY <1>9, <2>1, <2>2, BindType DEF RotateBind, TypeInv, TypeOK
<1>10. ASSUME NEW t \in Threads, RotateDrop(t) PROVE TypeInv'
  <2>1. IsFiniteSet(pending')
    BY <1>10, FS_Subset DEF RotateDrop, DropSource, TypeInv
  <2>2. DOMAIN probeLoss' \in SUBSET Key /\ \A k \in DOMAIN probeLoss' : probeLoss'[k] \in 1..(ProbeDropStreak - 1)
    BY <1>10 DEF RotateDrop, DropSource, Without, TypeInv, TypeOK
  <2>3. DOMAIN demotedTill' \in SUBSET Key /\ \A k \in DOMAIN demotedTill' : demotedTill'[k] \in Nat
    BY <1>10 DEF RotateDrop, DropSource, Without, TypeInv, TypeOK
  <2> QED BY <1>10, <1>b, <2>1, <2>2, <2>3 DEF RotateDrop, DropSource, TypeInv, TypeOK
<1>11. ASSUME NEW t \in Threads, RotateEnd(t) PROVE TypeInv'
  BY <1>11, <1>b DEF RotateEnd, TypeInv, TypeOK
<1>12. ASSUME NEW t \in Threads, Look(t) PROVE TypeInv'
  BY <1>12, <1>b DEF Look, TypeInv, TypeOK
<1>13. ASSUME NEW t \in Threads, WriteOk(t) PROVE TypeInv'
  <2>1. Socket(src[t].slot) \in UdpSocket
    BY DEF Socket, UdpSocket, TypeInv, TypeOK, Source
  <2>2. wire' \in SUBSET [tx : Probes, via : UdpSocket]
    BY <1>13, <2>1 DEF WriteOk, TypeInv, TypeOK
  <2> QED BY <1>13, <1>b, <2>2 DEF WriteOk, TypeInv, TypeOK
<1>14. ASSUME NEW t \in Threads, WriteFailed(t) PROVE TypeInv'
  <2>1. Socket(src[t].slot) \in UdpSocket
    BY DEF Socket, UdpSocket, TypeInv, TypeOK, Source
  <2> QED BY <1>14, <1>b, <2>1 DEF WriteFailed, TypeInv, TypeOK
<1>15. ASSUME NEW p \in Probes, NEW s \in Slots, NEW d \in Dsts, ProbeTick(p, s, d) PROVE TypeInv'
  BY <1>15, <1>b, RxMetaType DEF ProbeTick, TakeSource, TypeInv, TypeOK
<1>16. ASSUME NEW p \in Probes, PingRefused(p) PROVE TypeInv'
  BY <1>16, <1>b DEF PingRefused, TypeInv, TypeOK
<1>17. ASSUME NEW p \in Probes, Ping(p) PROVE TypeInv'
  <2> DEFINE probe == [tx |-> p, dst |-> dst[p], peer |-> PeerOf[dst[p]],
                       source |-> src[p], at |-> now]
  <2>1. probe \in Tx
    BY <1>b, ConstantsAssumption DEF Tx, TypeInv, TypeOK
  <2>2. {OutcomeOf(x, TRUE) : x \in Expired} \in SUBSET Outcome
    BY OutcomeType DEF TypeInv, Expired
  <2>3. outcomes' \in SUBSET Outcome
    BY <1>17, <2>2, NoteOutcomesType DEF Ping, TypeInv
  <2>4. LossKeys \in SUBSET Key
    BY DEF LossKeys, Expired, KeyOf, Key, Tx, TypeInv, TypeOK
  <2>5. DOMAIN probeLoss' \in SUBSET Key
    BY <1>17, <2>4 DEF Ping, LossStreaksAfter
  <2>6. \A k \in DOMAIN probeLoss' : probeLoss'[k] \in 1..(ProbeDropStreak - 1)
    <3> SUFFICES ASSUME NEW k \in DOMAIN probeLoss' PROVE probeLoss'[k] \in 1..(ProbeDropStreak - 1)
      OBVIOUS
    <3>1. LossStreak(k) \in Nat
      BY LossStreakType
    <3>2. probeLoss'[k] = LossStreak(k) % ProbeDropStreak /\ LossStreak(k) % ProbeDropStreak # 0
      BY <1>17 DEF Ping, LossStreaksAfter
    <3> HIDE DEF LossStreak
    <3> QED BY <3>1, <3>2, ConstantsAssumption
  <2>7. Rotations \in SUBSET Source
    BY <2>4 DEF Rotations, Key
  <2>8. IsFiniteSet(pending \ Expired) /\ IsFiniteSet((pending \ Expired) \cup {probe})
    BY FS_Subset, FS_AddElement DEF TypeInv, Expired
  <2>9. pending' \in SUBSET Tx /\ IsFiniteSet(pending')
    BY <1>17, <2>1, <2>8 DEF Ping, TypeInv, TypeOK
  <2>10. todo' \in [Threads -> SUBSET Source] /\ pc' \in [Threads -> PCs]
    BY <1>17, <1>b, <2>7 DEF Ping, TypeInv, TypeOK
  <2>11. rotatedSelf' \in [Threads -> BOOLEAN]
    <3>1. rotatedSelf \in [Threads -> BOOLEAN]
      BY DEF TypeInv, TypeOK
    <3>2. \/ rotatedSelf' = [rotatedSelf EXCEPT ![p] = src[p] \in Rotations]
          \/ rotatedSelf' = rotatedSelf
      BY <1>17 DEF Ping
    <3>3. \E b \in BOOLEAN : \/ rotatedSelf' = [rotatedSelf EXCEPT ![p] = b]
                             \/ rotatedSelf' = rotatedSelf
      <4>1. (src[p] \in Rotations) \in BOOLEAN
        OBVIOUS
      <4> QED BY <3>2, <4>1, Zenon
    <3> QED BY <3>1, <3>3
  <2> QED BY <1>17, <2>3, <2>5, <2>6, <2>9, <2>10, <2>11 DEF Ping, TypeInv, TypeOK
<1>18. ASSUME NEW p \in Probes, Forget(p) PROVE TypeInv'
  <2>1. IsFiniteSet(pending')
    BY <1>18, FS_Subset DEF Forget, TypeInv
  <2> QED BY <1>18, <1>b, <2>1 DEF Forget, TypeInv, TypeOK
<1>19. ASSUME NEW n \in Senders, NEW s \in Slots, NEW d \in Dsts, SendTake(n, s, d) PROVE TypeInv'
  BY <1>19, <1>b, RxMetaType DEF SendTake, TakeSource, TypeInv, TypeOK
<1>20. ASSUME NEW n \in Senders, SendChoose(n) PROVE TypeInv'
  <2>1. DOMAIN demotedTill' \in SUBSET Key /\ \A k \in DOMAIN demotedTill' : demotedTill'[k] \in Nat
    BY <1>20 DEF SendChoose, Without, TypeInv, TypeOK
  <2> QED BY <1>20, <1>b, <2>1 DEF SendChoose, TypeInv, TypeOK
<1>21. ASSUME NEW n \in Senders, SendSucceeded(n) PROVE TypeInv'
  <2>1. DOMAIN probeLoss' \in SUBSET Key /\ \A k \in DOMAIN probeLoss' : probeLoss'[k] \in 1..(ProbeDropStreak - 1)
    BY <1>21 DEF SendSucceeded, Without, TypeInv, TypeOK
  <2> QED BY <1>21, <1>b, <2>1 DEF SendSucceeded, TypeInv, TypeOK
<1>22. ASSUME NEW n \in Senders, DualSendFailed(n) PROVE TypeInv'
  <2>1. KeyOf(dst[n], src[n]) \in Key /\ now + Recovery \in Nat
    BY <1>b, ConstantsAssumption DEF KeyOf, Key, TypeInv, TypeOK
  <2>2. DOMAIN demotedTill' \in SUBSET Key /\ \A k \in DOMAIN demotedTill' : demotedTill'[k] \in Nat
    BY <1>22, <2>1 DEF DualSendFailed, TypeInv, TypeOK
  <2> QED BY <1>22, <1>b, <2>1, <2>2 DEF DualSendFailed, TypeInv, TypeOK
<1>23. ASSUME NEW n \in Senders, SingleSendFailed(n) PROVE TypeInv'
  BY <1>23, <1>b DEF SingleSendFailed, TypeInv, TypeOK
<1>24. ASSUME NEW s \in Slots, NEW m \in wire, NEW q \in Peers, Read(s, m, q) PROVE TypeInv'
  BY <1>24 DEF Read, TypeInv, TypeOK
<1>25. ASSUME NEW s \in Slots, Stamp(s) PROVE TypeInv'
  BY <1>25, RxMetaType DEF Stamp, TypeInv, TypeOK
<1>26. ASSUME NEW s \in Slots, HandlePong(s) PROVE TypeInv'
  <2>1. rx' \in [Slots -> [st : {"wait", "read", "stamped"}, tx : Probes, sender : Peers,
                           via : UdpSocket, meta : Source]]
    <3>1. rx' = [rx EXCEPT ![s] = [@ EXCEPT !.st = "wait"]]
      BY <1>26 DEF HandlePong
    <3> QED BY <3>1 DEF TypeInv, TypeOK
  <2>2. CASE PongIgnored(s)
    BY <1>26, <2>1, <2>2 DEF HandlePong, PongIgnored, TypeInv, TypeOK
  <2>3. ASSUME NEW x \in Matching(s), PongExpired(s, x) PROVE TypeInv'
    <3>1. x \in pending
      BY DEF Matching
    <3>2. outcomes' \in SUBSET Outcome
      BY <2>3, <3>1, OutcomeType, NoteOutcomesType DEF PongExpired, TypeInv
    <3>3. IsFiniteSet(pending')
      BY <2>3, FS_Subset DEF PongExpired, TypeInv
    <3> QED BY <1>26, <2>1, <2>3, <3>2, <3>3 DEF HandlePong, PongExpired, TypeInv, TypeOK
  <2>4. ASSUME NEW x \in Matching(s), PongAccepted(s, x) PROVE TypeInv'
    <3> DEFINE sample == [tx |-> x.tx, dst |-> x.dst, source |-> rx[s].meta,
                          at |-> now, via |-> rx[s].via]
    <3>1. x \in pending /\ x \in Tx
      BY DEF Matching, TypeInv, TypeOK
    <3>2. outcomes' \in SUBSET Outcome
      BY <2>4, <3>1, OutcomeType, NoteOutcomesType DEF PongAccepted, TypeInv
    <3>3. IsFiniteSet(pending')
      BY <2>4, FS_Subset DEF PongAccepted, TypeInv
    <3>4. sample \in Sample
      BY <3>1 DEF Sample, Tx, TypeInv, TypeOK
    <3>5. samples' \subseteq samples \cup {sample}
      BY <2>4 DEF PongAccepted, TrimmedTo
    <3>6. DOMAIN probeLoss' \in SUBSET Key /\ \A k \in DOMAIN probeLoss' : probeLoss'[k] \in 1..(ProbeDropStreak - 1)
      BY <2>4 DEF PongAccepted, Without, TypeInv, TypeOK
    <3>7. answered' \in SUBSET Probes /\ pending' \in SUBSET Tx /\ samples' \in SUBSET Sample
      BY <2>4, <3>1, <3>4, <3>5 DEF PongAccepted, Tx, TypeInv, TypeOK
    <3> QED BY <1>26, <2>1, <3>2, <3>3, <3>6, <3>7 DEF HandlePong, TypeInv, TypeOK
  <2> QED BY <1>26, <2>2, <2>3, <2>4 DEF HandlePong
<1>27. ASSUME Tick PROVE TypeInv'
  BY <1>27 DEF Tick, TypeInv, TypeOK
<1> HIDE DEF sockVars, probeVars, threadVars, histVars
<1> QED
  BY <1>a, <1>b, <1>1, <1>2, <1>3, <1>4, <1>5, <1>6, <1>7, <1>8, <1>9, <1>10, <1>11, <1>12,
     <1>13, <1>14, <1>15, <1>16, <1>17, <1>18, <1>19, <1>20, <1>21, <1>22, <1>23, <1>24,
     <1>25, <1>26, <1>27
  DEF Next, ProberStep, SenderStep, Rotate, Receiver, LinkStep

\* Spec keeps TypeOK.
THEOREM TypeCorrect == Spec => []TypeOK
<1>1. TypeInv => TypeOK
  BY DEF TypeInv
<1> QED BY <1>1, TypeInit, TypeStep, PTL DEF Spec

-----------------------------------------------------------------------------
(* The sockets: sourcePath.mu and the generations.                           *)

\* sourcePath.mu is held by the thread that binds, or by a link change.
LockInv ==
  /\ \A t \in Threads : pc[t] = "bind" <=> spMu = t
  /\ spMu \in Threads => binding = rotating[spMu].slot
  /\ spMu = Free => binding = NoSlot
  /\ rebindTodo # {} => spMu = Link

\* Generations only grow.  The UDP sockets of a slot were opened under strictly
\* increasing generations; a generation that is stored and waits for its bind is
\* above all of them, and a bound socket is the last that was opened.
GenInv ==
  /\ \A s \in Slots : sockGen[s] <= generation
  /\ \A s \in rebindTodo : sockGen[s] < generation
  /\ \A s \in Slots : \A i \in 1..Len(opened[s]) : opened[s][i] <= sockGen[s]
  /\ \A s \in Slots : \A i, j \in 1..Len(opened[s]) : i < j => opened[s][i] < opened[s][j]
  /\ \A s \in Slots : binding = s =>
       \A i \in 1..Len(opened[s]) : opened[s][i] < sockGen[s]
  /\ \A s \in Slots : bound[s] /\ binding # s =>
       Len(opened[s]) > 0 /\ opened[s][Len(opened[s])] = sockGen[s]

SockInv == LockInv /\ GenInv

LEMMA SockInit == Init => SockInv
BY ConstantsAssumption DEF Init, SockInv, LockInv, GenInv, Threads

\* What a bind does to the history of a slot's UDP sockets.
LEMMA BindGen ==
  ASSUME TypeOK, GenInv, NEW s \in Slots, binding = s, BindOk(s) \/ BindFailed(s),
         UNCHANGED <<generation, sockGen, rebindTodo>>
  PROVE  GenInv'
<1>1. binding' = NoSlot /\ NoSlot \notin Slots
  BY ConstantsAssumption DEF BindOk, BindFailed
<1>2. CASE BindFailed(s)
  <2>1. opened' = opened /\ \A u \in Slots : bound'[u] => bound[u] /\ u # s
    BY <1>2 DEF BindFailed, TypeOK
  <2> QED BY <1>1, <2>1 DEF GenInv
<1>3. CASE BindOk(s)
  <2>1. \A u \in Slots : u # s => opened'[u] = opened[u] /\ bound'[u] = bound[u]
    BY <1>3 DEF BindOk, TypeOK
  <2>2. /\ opened[s] \in Seq(Nat) /\ sockGen[s] \in Nat
        /\ opened'[s] = Append(opened[s], sockGen[s])
    BY <1>3 DEF BindOk, TypeOK
  <2>3. /\ Len(opened'[s]) = Len(opened[s]) + 1
        /\ \A i \in 1..Len(opened[s]) : opened'[s][i] = opened[s][i]
        /\ opened'[s][Len(opened[s]) + 1] = sockGen[s]
        /\ Len(opened[s]) \in Nat
        /\ \A i \in 1..Len(opened[s]) : opened[s][i] \in Nat
    BY <2>2
  <2>4. \A i \in 1..Len(opened[s]) : opened[s][i] < sockGen[s]
    BY DEF GenInv
  <2>5. \A u \in Slots : \A i \in 1..Len(opened'[u]) : opened'[u][i] <= sockGen'[u]
    <3> SUFFICES ASSUME NEW u \in Slots, NEW i \in 1..Len(opened'[u])
                 PROVE  opened'[u][i] <= sockGen[u]
      OBVIOUS
    <3>1. CASE u # s
      BY <3>1, <2>1 DEF GenInv
    <3>2. CASE u = s /\ i = Len(opened[s]) + 1
      BY <3>2, <2>2, <2>3
    <3>3. CASE u = s /\ i # Len(opened[s]) + 1
      <4>1. i \in 1..Len(opened[s])
        BY <3>3, <2>3
      <4> QED BY <3>3, <4>1, <2>2, <2>3, <2>4
    <3> QED BY <3>1, <3>2, <3>3
  <2>6. \A u \in Slots : \A i, j \in 1..Len(opened'[u]) : i < j => opened'[u][i] < opened'[u][j]
    <3> SUFFICES ASSUME NEW u \in Slots, NEW i \in 1..Len(opened'[u]),
                        NEW j \in 1..Len(opened'[u]), i < j
                 PROVE  opened'[u][i] < opened'[u][j]
      OBVIOUS
    <3>1. CASE u # s
      BY <3>1, <2>1 DEF GenInv
    <3>2. CASE u = s /\ j = Len(opened[s]) + 1
      BY <3>2, <2>3, <2>4
    <3>3. CASE u = s /\ j # Len(opened[s]) + 1
      <4>1. i \in 1..Len(opened[s]) /\ j \in 1..Len(opened[s])
        BY <3>3, <2>3
      <4>2. opened[s][i] < opened[s][j]
        BY <4>1 DEF GenInv
      <4> QED BY <3>3, <4>1, <4>2, <2>3
    <3> QED BY <3>1, <3>2, <3>3
  <2>7. \A u \in Slots : bound'[u] => Len(opened'[u]) > 0 /\ opened'[u][Len(opened'[u])] = sockGen'[u]
    BY <2>1, <2>2, <2>3 DEF GenInv
  <2>8. /\ \A u \in Slots : sockGen'[u] <= generation'
        /\ \A u \in rebindTodo' : sockGen'[u] < generation'
    BY DEF GenInv
  <2> QED BY <1>1, <2>5, <2>6, <2>7, <2>8 DEF GenInv
<1> QED BY <1>2, <1>3

\* What storing a new generation does: it is above everything so far.
LEMMA StoreGen ==
  ASSUME TypeOK, GenInv, NEW s \in Slots, NEW g \in Nat, StoreGeneration(s, g),
         binding = NoSlot, sockGen[s] < g, generation <= generation', g <= generation',
         generation' \in Nat, UNCHANGED <<bound, opened>>,
         \A u \in rebindTodo' : u \in rebindTodo /\ u # s
  PROVE  GenInv'
<1>1. /\ binding' = s /\ sockGen'[s] = g
      /\ \A u \in Slots : u # s => sockGen'[u] = sockGen[u]
      /\ sockGen \in [Slots -> Nat] /\ generation \in Nat /\ rebindTodo \in SUBSET Slots
  BY DEF StoreGeneration, TypeOK
<1>2. \A u \in Slots : Len(opened[u]) \in Nat /\ \A i \in 1..Len(opened[u]) : opened[u][i] \in Nat
  BY DEF TypeOK
<1>3. \A u \in Slots : sockGen'[u] <= generation'
  BY <1>1 DEF GenInv
<1>4. \A u \in rebindTodo' : sockGen'[u] < generation'
  BY <1>1 DEF GenInv
<1>5. \A i \in 1..Len(opened[s]) : opened[s][i] < g
  BY <1>1, <1>2 DEF GenInv
<1>6. \A u \in Slots : \A i \in 1..Len(opened[u]) : opened[u][i] <= sockGen'[u]
  BY <1>1, <1>2, <1>5 DEF GenInv
<1>7. NoSlot \notin Slots
  BY ConstantsAssumption
<1> QED BY <1>1, <1>3, <1>4, <1>5, <1>6, <1>7 DEF GenInv

\* Every step keeps the lock discipline and the order of the generations.
LEMMA SockStep == TypeOK /\ SockInv /\ [Next]_vars => SockInv'
<1> SUFFICES ASSUME TypeOK, SockInv, [Next]_vars PROVE SockInv'
  OBVIOUS
<1> USE DEF sockVars, probeVars, threadVars, histVars
<1>a. ASSUME UNCHANGED sockVars, UNCHANGED rotating,
             \A t \in Threads : pc[t] = "bind" <=> pc'[t] = "bind"
      PROVE  SockInv'
  BY <1>a DEF SockInv, LockInv, GenInv
<1>b. Probes \subseteq Threads /\ Senders \subseteq Threads /\ pc \in [Threads -> PCs]
  BY DEF Threads, TypeOK
<1>c. Link \notin Threads /\ Free \notin Threads /\ Free # Link /\ NoSlot \notin Slots
  BY ConstantsAssumption DEF Threads
<1>d. ASSUME UNCHANGED vars PROVE SockInv'
  BY <1>a, <1>d DEF vars
<1>1. ASSUME RebindStart PROVE SockInv'
  <2>1. LockInv'
    BY <1>1, <1>c DEF RebindStart, SockInv, LockInv
  <2>2. \A s \in Slots : sockGen[s] < generation'
    BY <1>1 DEF RebindStart, SockInv, GenInv, TypeOK
  <2>3. GenInv'
    BY <1>1, <2>2 DEF RebindStart, SockInv, GenInv, TypeOK
  <2> QED BY <2>1, <2>3 DEF SockInv
<1>2. ASSUME NEW s \in Slots, RebindStore(s) PROVE SockInv'
  <2>1. LockInv'
    BY <1>2, <1>c DEF RebindStore, SockInv, LockInv
  <2>2. sockGen[s] < generation /\ generation \in Nat
    BY <1>2 DEF RebindStore, SockInv, GenInv, TypeOK
  <2>3. GenInv'
    BY <1>2, <2>2, StoreGen DEF RebindStore, SockInv
  <2> QED BY <2>1, <2>3 DEF SockInv
<1>3. ASSUME RebindBind PROVE SockInv'
  <2>1. binding \in Slots
    BY <1>3 DEF RebindBind, TypeOK
  <2>2. LockInv'
    BY <1>3, <1>c DEF RebindBind, BindOk, BindFailed, SockInv, LockInv
  <2>3. GenInv'
    BY <1>3, <2>1, BindGen DEF RebindBind, SockInv
  <2> QED BY <2>2, <2>3 DEF SockInv
<1>4. ASSUME RebindEnd PROVE SockInv'
  <2>1. LockInv'
    BY <1>4, <1>c DEF RebindEnd, SockInv, LockInv
  <2> QED BY <1>4, <2>1 DEF RebindEnd, SockInv, GenInv
<1>5. ASSUME CloseSockets, UNCHANGED <<pc, rotating>> PROVE SockInv'
  BY <1>5 DEF CloseSockets, SockInv, LockInv, GenInv
<1>6. ASSUME BindClose \/ ConnClose PROVE SockInv'
  BY <1>5, <1>6 DEF BindClose, ConnClose
<1>7. ASSUME NEW t \in Threads, NEW r \in todo[t], RotateStale(t, r) PROVE SockInv'
  BY <1>a, <1>7 DEF RotateStale
<1>8. ASSUME NEW t \in Threads, NEW r \in todo[t], RotateStore(t, r) PROVE SockInv'
  <2>1. r \in Source /\ r.slot \in Slots
    BY DEF TypeOK, Source
  <2>2. /\ pc' = [pc EXCEPT ![t] = "bind"] /\ rotating'[t] = r
        /\ spMu = Free /\ spMu' = t /\ binding' = r.slot /\ rebindTodo' = rebindTodo
    BY <1>8 DEF RotateStore, StoreGeneration, TypeOK
  <2>3. LockInv'
    BY <1>b, <1>c, <2>1, <2>2 DEF SockInv, LockInv
  <2>4. sockGen[r.slot] < generation + 1 /\ generation \in Nat /\ rebindTodo = {}
    BY <1>c, <2>1, <2>2 DEF SockInv, LockInv, GenInv, TypeOK
  <2>5. binding = NoSlot
    BY <2>2 DEF SockInv, LockInv
  <2>6. GenInv'
    BY <1>8, <2>1, <2>4, <2>5, StoreGen DEF RotateStore, SockInv
  <2> QED BY <2>3, <2>6 DEF SockInv
<1>9. ASSUME NEW t \in Threads, RotateBind(t) PROVE SockInv'
  <2>1. spMu = t /\ binding = rotating[t].slot /\ rotating[t].slot \in Slots
    BY <1>9 DEF RotateBind, SockInv, LockInv, TypeOK, Source
  <2>2. /\ spMu' = Free /\ binding' = NoSlot /\ rebindTodo' = rebindTodo
        /\ pc'[t] # "bind" /\ \A u \in Threads : u # t => pc'[u] = pc[u]
    BY <1>9, <1>b DEF RotateBind, BindOk, BindFailed
  <2>3. LockInv'
    BY <1>b, <1>c, <2>1, <2>2 DEF SockInv, LockInv
  <2>4. GenInv'
    BY <1>9, <2>1, BindGen DEF RotateBind, SockInv
  <2> QED BY <2>3, <2>4 DEF SockInv
<1>10. ASSUME NEW t \in Threads, RotateDrop(t) PROVE SockInv'
  BY <1>a, <1>b, <1>10 DEF RotateDrop
<1>11. ASSUME NEW t \in Threads, RotateEnd(t) PROVE SockInv'
  BY <1>a, <1>b, <1>11 DEF RotateEnd
<1>12. ASSUME NEW t \in Threads, Look(t) PROVE SockInv'
  BY <1>a, <1>b, <1>12 DEF Look
<1>13. ASSUME NEW t \in Threads, WriteOk(t) PROVE SockInv'
  BY <1>a, <1>b, <1>13 DEF WriteOk
<1>14. ASSUME NEW t \in Threads, WriteFailed(t) PROVE SockInv'
  BY <1>a, <1>b, <1>14 DEF WriteFailed
<1>15. ASSUME NEW p \in Probes, NEW s \in Slots, NEW d \in Dsts, ProbeTick(p, s, d) PROVE SockInv'
  BY <1>a, <1>b, <1>15 DEF ProbeTick, TakeSource
<1>16. ASSUME NEW p \in Probes, PingRefused(p) PROVE SockInv'
  BY <1>a, <1>b, <1>16 DEF PingRefused
<1>17. ASSUME NEW p \in Probes, Ping(p) PROVE SockInv'
  BY <1>a, <1>b, <1>17 DEF Ping
<1>18. ASSUME NEW p \in Probes, Forget(p) PROVE SockInv'
  BY <1>a, <1>b, <1>18 DEF Forget
<1>19. ASSUME NEW n \in Senders, NEW s \in Slots, NEW d \in Dsts, SendTake(n, s, d) PROVE SockInv'
  BY <1>a, <1>b, <1>19 DEF SendTake, TakeSource
<1>20. ASSUME NEW n \in Senders, SendChoose(n) PROVE SockInv'
  BY <1>a, <1>b, <1>20 DEF SendChoose
<1>21. ASSUME NEW n \in Senders, SendSucceeded(n) PROVE SockInv'
  BY <1>a, <1>b, <1>21 DEF SendSucceeded
<1>22. ASSUME NEW n \in Senders, DualSendFailed(n) PROVE SockInv'
  BY <1>a, <1>b, <1>22 DEF DualSendFailed
<1>23. ASSUME NEW n \in Senders, SingleSendFailed(n) PROVE SockInv'
  BY <1>a, <1>b, <1>23 DEF SingleSendFailed
<1>24. ASSUME NEW s \in Slots, Receiver(s) PROVE SockInv'
  BY <1>a, <1>24 DEF Receiver, Read, Stamp, HandlePong
<1>25. ASSUME Tick PROVE SockInv'
  BY <1>a, <1>25 DEF Tick
<1> HIDE DEF sockVars, probeVars, threadVars, histVars
<1> QED
  BY <1>b, <1>d, <1>1, <1>2, <1>3, <1>4, <1>6, <1>7, <1>8, <1>9, <1>10, <1>11, <1>12,
     <1>13, <1>14, <1>15, <1>16, <1>17, <1>18, <1>19, <1>20, <1>21, <1>22, <1>23, <1>24,
     <1>25
  DEF Next, ProberStep, SenderStep, Rotate, LinkStep

-----------------------------------------------------------------------------
(* No step rewrites the history of a slot or takes a generation back.        *)

OpenedGrows ==
  \A s \in Slots :
    /\ Len(opened[s]) <= Len(opened'[s])
    /\ \A i \in 1..Len(opened[s]) : opened'[s][i] = opened[s][i]

GensGrow == \A s \in Slots : sockGen[s] <= sockGen'[s]

LEMMA BindGrows ==
  ASSUME TypeOK, NEW s \in Slots, BindOk(s) \/ BindFailed(s)
  PROVE  OpenedGrows
<1>1. CASE BindFailed(s)
  BY <1>1 DEF BindFailed, OpenedGrows, TypeOK
<1>2. CASE BindOk(s)
  <2>1. \A u \in Slots : u # s => opened'[u] = opened[u] /\ opened[u] \in Seq(Nat)
    BY <1>2 DEF BindOk, TypeOK
  <2>2. opened[s] \in Seq(Nat) /\ sockGen[s] \in Nat /\ opened'[s] = Append(opened[s], sockGen[s])
    BY <1>2 DEF BindOk, TypeOK
  <2>3. /\ Len(opened[s]) <= Len(opened'[s])
        /\ \A i \in 1..Len(opened[s]) : opened'[s][i] = opened[s][i]
    BY <2>2
  <2> QED BY <2>1, <2>3 DEF OpenedGrows
<1> QED BY <1>1, <1>2

LEMMA Grows == TypeOK /\ SockInv /\ [Next]_vars => OpenedGrows /\ GensGrow
<1> SUFFICES ASSUME TypeOK, SockInv, [Next]_vars PROVE OpenedGrows /\ GensGrow
  OBVIOUS
<1> USE DEF sockVars
<1>a. ASSUME UNCHANGED opened PROVE OpenedGrows
  BY <1>a DEF OpenedGrows, TypeOK
<1>b. ASSUME UNCHANGED sockGen PROVE GensGrow
  BY <1>b DEF GensGrow, TypeOK
<1>c. Probes \subseteq Threads /\ Senders \subseteq Threads
  BY DEF Threads
<1>1. ASSUME NEW s \in Slots, RebindStore(s) PROVE OpenedGrows /\ GensGrow
  <2>1. sockGen[s] <= generation
    BY DEF SockInv, GenInv
  <2> QED BY <1>1, <1>a, <2>1 DEF RebindStore, StoreGeneration, GensGrow, TypeOK
<1>2. ASSUME RebindBind PROVE OpenedGrows /\ GensGrow
  BY <1>2, <1>b, BindGrows DEF RebindBind, TypeOK
<1>3. ASSUME NEW t \in Threads, NEW r \in todo[t], RotateStore(t, r) PROVE OpenedGrows /\ GensGrow
  <2>1. r.slot \in Slots /\ sockGen[r.slot] <= generation
    BY DEF SockInv, GenInv, TypeOK, Source
  <2> QED BY <1>3, <1>a, <2>1 DEF RotateStore, StoreGeneration, GensGrow, TypeOK
<1>4. ASSUME NEW t \in Threads, RotateBind(t) PROVE OpenedGrows /\ GensGrow
  <2>1. rotating[t].slot \in Slots
    BY DEF TypeOK, Source
  <2> QED BY <1>4, <1>b, <2>1, BindGrows DEF RotateBind
<1>5. ASSUME NEW t \in Threads,
             \/ \E r \in todo[t] : RotateStale(t, r)
             \/ RotateDrop(t) \/ RotateEnd(t) \/ Look(t) \/ WriteOk(t) \/ WriteFailed(t)
      PROVE  OpenedGrows /\ GensGrow
  BY <1>5, <1>a, <1>b DEF RotateStale, RotateDrop, RotateEnd, Look, WriteOk, WriteFailed
<1>6. ASSUME NEW p \in Probes, PingRefused(p) \/ Ping(p) \/ Forget(p)
      PROVE  OpenedGrows /\ GensGrow
  BY <1>6, <1>a, <1>b DEF PingRefused, Ping, Forget
<1>7. ASSUME NEW n \in Senders, SendChoose(n) \/ SendSucceeded(n) \/ DualSendFailed(n) \/ SingleSendFailed(n)
      PROVE  OpenedGrows /\ GensGrow
  BY <1>7, <1>a, <1>b DEF SendChoose, SendSucceeded, DualSendFailed, SingleSendFailed
<1>8. ASSUME NEW t, NEW s \in Slots, NEW d \in Dsts, ProbeTick(t, s, d) \/ SendTake(t, s, d)
      PROVE  OpenedGrows /\ GensGrow
  BY <1>8, <1>a, <1>b DEF ProbeTick, SendTake
<1>9. ASSUME NEW s \in Slots, Receiver(s) PROVE OpenedGrows /\ GensGrow
  BY <1>9, <1>a, <1>b DEF Receiver, Read, Stamp, HandlePong
<1>10. ASSUME RebindStart \/ RebindEnd \/ BindClose \/ ConnClose \/ Tick PROVE OpenedGrows /\ GensGrow
  BY <1>10, <1>a, <1>b DEF RebindStart, RebindEnd, BindClose, ConnClose, CloseSockets, Tick
<1>11. ASSUME UNCHANGED vars PROVE OpenedGrows /\ GensGrow
  BY <1>11, <1>a, <1>b DEF vars
<1> HIDE DEF sockVars
<1> QED
  BY <1>c, <1>1, <1>2, <1>3, <1>4, <1>5, <1>6, <1>7, <1>8, <1>9, <1>10, <1>11
  DEF Next, ProberStep, SenderStep, Rotate, LinkStep

-----------------------------------------------------------------------------
(* A sample speaks for the UDP socket that its label names.                  *)

\* The source that a write goes out under was looked up before, so it is not
\* newer than the UDP socket that is there by now.
WriteInv ==
  \A t \in Threads : pc[t] = "write" =>
    /\ Len(opened[src[t].slot]) > 0
    /\ src[t].gen <= opened[src[t].slot][Len(opened[src[t].slot])]

\* Nor is it newer than the UDP socket that the probe did leave from.
WireInv ==
  \A m \in wire :
    /\ pc[m.tx] = "done"
    /\ m.via.slot = src[m.tx].slot
    /\ m.via.idx \in 1..Len(opened[m.via.slot])
    /\ src[m.tx].gen <= opened[m.via.slot][m.via.idx]

\* A packet is stamped after it is read, so its stamp is not older than the UDP
\* socket that it came in on.
RxInv ==
  \A s \in Slots :
    /\ rx[s].st # "wait" => [tx |-> rx[s].tx, via |-> rx[s].via] \in wire /\ rx[s].via.slot = s
    /\ rx[s].st = "stamped" => rx[s].meta.slot = s /\ opened[s][rx[s].via.idx] <= rx[s].meta.gen

\* A pending probe carries the source that its goroutine took.
PendInv ==
  \A x \in pending : x.source = src[x.tx] /\ pc[x.tx] \notin {"idle", "ping"}

\* So the stamp of a Pong can equal the source of its probe only if both are the
\* generation of the socket in between.
SampleInv ==
  \A x \in samples :
    /\ x.via.slot = x.source.slot
    /\ x.via.idx \in 1..Len(opened[x.via.slot])
    /\ opened[x.via.slot][x.via.idx] = x.source.gen

AttrInv == WriteInv /\ WireInv /\ RxInv /\ PendInv /\ SampleInv

LEMMA AttrInit == Init => AttrInv
BY DEF Init, AttrInv, WriteInv, WireInv, RxInv, PendInv, SampleInv

\* Calls only go forward, and keep the source that they took.
Forward ==
  /\ \A t \in Threads : pc[t] # "idle" => src'[t] = src[t]
  /\ \A t \in Threads : pc[t] = "done" => pc'[t] = "done"
  /\ \A t \in Threads : pc'[t] \in {"idle", "ping"} => pc[t] \in {"idle", "ping"}

NoNewWrite == \A t \in Threads : pc'[t] = "write" => pc[t] = "write"

\* The last UDP socket of a slot is the one of the highest generation.
LEMMA LastIsHighest ==
  ASSUME TypeOK, TypeOK', SockInv', OpenedGrows, NEW s \in Slots, NEW g \in Nat,
         Len(opened[s]) > 0, g <= opened[s][Len(opened[s])]
  PROVE  Len(opened'[s]) > 0 /\ g <= opened'[s][Len(opened'[s])]
<1> DEFINE m == Len(opened[s])
           n == Len(opened'[s])
<1>0. opened[s] \in Seq(Nat) /\ opened'[s] \in Seq(Nat)
  BY DEF TypeOK
<1>1. m \in Nat /\ n \in Nat /\ m <= n /\ m \in 1..m
  BY <1>0 DEF OpenedGrows
<1>2. m \in 1..n /\ n \in 1..n /\ opened'[s][m] = opened[s][m]
  BY <1>1 DEF OpenedGrows
<1>3. opened'[s][m] \in Nat /\ opened'[s][n] \in Nat
  BY <1>0, <1>2
<1>4. m = n \/ opened'[s][m] < opened'[s][n]
  <2>1. m = n \/ m < n
    BY <1>1
  <2> HIDE DEF m, n
  <2>2. \A i, j \in 1..n : i < j => opened'[s][i] < opened'[s][j]
    BY DEF SockInv, GenInv, n
  <2> QED BY <1>2, <2>1, <2>2
<1> QED BY <1>1, <1>2, <1>3, <1>4

\* A part of AttrInv stands unless a step touches just what it is about.
LEMMA KeepsAttr ==
  ASSUME TypeOK, TypeOK', SockInv', OpenedGrows, AttrInv, Forward
  PROVE  /\ NoNewWrite => WriteInv'
         /\ wire' = wire => WireInv'
         /\ rx' = rx /\ wire \subseteq wire' => RxInv'
         /\ pending' \subseteq pending => PendInv'
         /\ samples' \subseteq samples => SampleInv'
<1>a. Probes \subseteq Threads /\ src \in [Threads -> Source]
  BY DEF TypeOK, Threads
<1>b. \A t \in Threads : src[t].slot \in Slots /\ src[t].gen \in Nat
  BY <1>a DEF Source
<1>c. (\A x \in pending : x.tx \in Probes) /\ (\A m \in wire : m.tx \in Probes)
  <2>1. pending \subseteq Tx /\ wire \subseteq [tx : Probes, via : UdpSocket]
    BY DEF TypeOK
  <2> QED BY <2>1 DEF Tx
<1>d. \A s \in Slots : Len(opened[s]) \in Nat /\ Len(opened'[s]) \in Nat
  <2>1. \A s \in Slots : opened[s] \in Seq(Nat) /\ opened'[s] \in Seq(Nat)
    BY DEF TypeOK
  <2> QED BY <2>1
<1>0. /\ Probes \subseteq Threads
      /\ \A t \in Threads : src[t].slot \in Slots /\ src[t].gen \in Nat
      /\ \A x \in pending : x.tx \in Probes
      /\ \A m \in wire : m.tx \in Probes
      /\ \A s \in Slots : Len(opened[s]) \in Nat /\ Len(opened'[s]) \in Nat
  BY <1>a, <1>b, <1>c, <1>d
<1>1. ASSUME NoNewWrite PROVE WriteInv'
  <2> SUFFICES ASSUME NEW t \in Threads, pc'[t] = "write"
               PROVE  /\ Len(opened'[src'[t].slot]) > 0
                      /\ src'[t].gen <= opened'[src'[t].slot][Len(opened'[src'[t].slot])]
    BY DEF WriteInv
  <2>1. pc[t] = "write" /\ src'[t] = src[t]
    BY <1>1 DEF Forward, NoNewWrite
  <2>2. Len(opened[src[t].slot]) > 0 /\ src[t].gen <= opened[src[t].slot][Len(opened[src[t].slot])]
    BY <2>1 DEF AttrInv, WriteInv
  <2>3. src[t].slot \in Slots /\ src[t].gen \in Nat
    BY <1>0
  <2> QED BY <2>1, <2>2, <2>3, LastIsHighest
<1>2. ASSUME wire' = wire PROVE WireInv'
  <2> SUFFICES ASSUME NEW m \in wire
               PROVE  /\ pc'[m.tx] = "done"
                      /\ m.via.slot = src'[m.tx].slot
                      /\ m.via.idx \in 1..Len(opened'[m.via.slot])
                      /\ src'[m.tx].gen <= opened'[m.via.slot][m.via.idx]
    BY <1>2 DEF WireInv
  <2>1. /\ pc[m.tx] = "done" /\ m.via.slot = src[m.tx].slot /\ m.via.slot \in Slots
        /\ m.via.idx \in 1..Len(opened[m.via.slot])
        /\ src[m.tx].gen <= opened[m.via.slot][m.via.idx]
    BY <1>0 DEF AttrInv, WireInv
  <2>2. pc'[m.tx] = "done" /\ src'[m.tx] = src[m.tx]
    BY <1>0, <2>1 DEF Forward
  <2>3. /\ m.via.idx \in 1..Len(opened'[m.via.slot])
        /\ opened'[m.via.slot][m.via.idx] = opened[m.via.slot][m.via.idx]
    BY <1>0, <2>1 DEF OpenedGrows
  <2> QED BY <2>1, <2>2, <2>3
<1>3. ASSUME rx' = rx, wire \subseteq wire' PROVE RxInv'
  <2> SUFFICES ASSUME NEW s \in Slots
               PROVE  /\ rx[s].st # "wait" =>
                           [tx |-> rx[s].tx, via |-> rx[s].via] \in wire /\ rx[s].via.slot = s
                      /\ rx[s].st = "stamped" =>
                           rx[s].meta.slot = s /\ opened'[s][rx[s].via.idx] <= rx[s].meta.gen
    BY <1>3 DEF RxInv
  <2>1. rx[s].st # "wait" => [tx |-> rx[s].tx, via |-> rx[s].via] \in wire /\ rx[s].via.slot = s
    BY DEF AttrInv, RxInv
  <2>2. ASSUME rx[s].st = "stamped"
        PROVE  rx[s].meta.slot = s /\ opened'[s][rx[s].via.idx] <= rx[s].meta.gen
    <3>1. rx[s].meta.slot = s /\ opened[s][rx[s].via.idx] <= rx[s].meta.gen
      BY <2>2 DEF AttrInv, RxInv
    <3>2. rx[s].via.idx \in 1..Len(opened[s])
      BY <2>1, <2>2 DEF AttrInv, WireInv
    <3>3. opened'[s][rx[s].via.idx] = opened[s][rx[s].via.idx]
      BY <3>2 DEF OpenedGrows
    <3> QED BY <3>1, <3>3
  <2> QED BY <2>1, <2>2
<1>4. ASSUME pending' \subseteq pending PROVE PendInv'
  BY <1>0, <1>4 DEF AttrInv, PendInv, Forward
<1>5. ASSUME samples' \subseteq samples PROVE SampleInv'
  <2> SUFFICES ASSUME NEW x \in samples
               PROVE  /\ x.via.slot = x.source.slot
                      /\ x.via.idx \in 1..Len(opened'[x.via.slot])
                      /\ opened'[x.via.slot][x.via.idx] = x.source.gen
    BY <1>5 DEF SampleInv
  <2>1. x.via.slot \in Slots
    BY DEF TypeOK, Sample, UdpSocket
  <2>2. /\ x.via.slot = x.source.slot
        /\ x.via.idx \in 1..Len(opened[x.via.slot])
        /\ opened[x.via.slot][x.via.idx] = x.source.gen
    BY DEF AttrInv, SampleInv
  <2> QED BY <1>0, <2>1, <2>2 DEF OpenedGrows
<1> QED BY <1>1, <1>2, <1>3, <1>4, <1>5

LEMMA AttrStep ==
  TypeOK /\ TypeOK' /\ SockInv /\ SockInv' /\ AttrInv /\ [Next]_vars => AttrInv'
<1> SUFFICES ASSUME TypeOK, TypeOK', SockInv, SockInv', AttrInv, [Next]_vars PROVE AttrInv'
  OBVIOUS
<1> USE DEF sockVars, probeVars, threadVars, histVars
<1>a. OpenedGrows
  BY Grows
<1>b. Probes \subseteq Threads /\ Senders \subseteq Threads /\ pc \in [Threads -> PCs]
  BY DEF Threads, TypeOK
<1>c. ASSUME Forward, NoNewWrite, wire' = wire, rx' = rx, pending' \subseteq pending,
             samples' \subseteq samples
      PROVE  AttrInv'
  BY <1>a, <1>c, KeepsAttr DEF AttrInv
<1>d. ASSUME UNCHANGED <<pc, src, wire, rx>>, pending' \subseteq pending, samples' \subseteq samples
      PROVE  AttrInv'
  BY <1>c, <1>d DEF Forward, NoNewWrite
<1>1. ASSUME UNCHANGED vars PROVE AttrInv'
  BY <1>d, <1>1 DEF vars
<1>2. ASSUME \/ RebindStart \/ RebindBind \/ RebindEnd \/ BindClose \/ ConnClose \/ Tick
             \/ \E s \in Slots : RebindStore(s)
      PROVE  AttrInv'
  BY <1>d, <1>2 DEF RebindStart, RebindStore, RebindBind, RebindEnd, BindClose, ConnClose, Tick
<1>3. ASSUME NEW t \in Threads, Rotate(t) PROVE AttrInv'
  <2>1. CASE \E r \in todo[t] : RotateStale(t, r)
    BY <1>d, <2>1 DEF RotateStale
  <2>2. CASE \E r \in todo[t] : RotateStore(t, r)
    BY <1>b, <1>c, <2>2 DEF RotateStore, Forward, NoNewWrite
  <2>3. CASE RotateBind(t)
    BY <1>b, <1>c, <2>3 DEF RotateBind, Forward, NoNewWrite
  <2>4. CASE RotateDrop(t)
    <3>1. pending' \subseteq pending /\ samples' \subseteq samples
      BY <2>4 DEF RotateDrop, DropSource
    <3> QED BY <1>b, <1>c, <2>4, <3>1 DEF RotateDrop, Forward, NoNewWrite
  <2>5. CASE RotateEnd(t)
    BY <1>b, <1>c, <2>5 DEF RotateEnd, Forward, NoNewWrite
  <2> QED BY <1>3, <2>1, <2>2, <2>3, <2>4, <2>5 DEF Rotate
<1>4. ASSUME NEW t \in Threads, Look(t) PROVE AttrInv'
  <2>1. Forward /\ UNCHANGED <<src, opened, sockGen, wire, rx, pending, samples>>
    BY <1>4, <1>b DEF Look, Forward
  <2>2. ASSUME pc'[t] = "write"
        PROVE  /\ Len(opened[src[t].slot]) > 0
               /\ src[t].gen <= opened[src[t].slot][Len(opened[src[t].slot])]
    <3>1. bound[src[t].slot] /\ src[t].gen = sockGen[src[t].slot] /\ spMu = Free
      BY <1>4, <1>b, <2>2 DEF Look, rxMeta
    <3>2. src[t].slot \in Slots /\ binding # src[t].slot /\ sockGen[src[t].slot] \in Nat
      BY <3>1, ConstantsAssumption DEF SockInv, LockInv, TypeOK, Source
    <3>3. /\ Len(opened[src[t].slot]) > 0
          /\ opened[src[t].slot][Len(opened[src[t].slot])] = sockGen[src[t].slot]
      BY <3>1, <3>2 DEF SockInv, GenInv
    <3> QED BY <3>1, <3>2, <3>3
  <2>3. \A u \in Threads : u # t => pc'[u] = pc[u]
    BY <1>4, <1>b DEF Look
  <2>4. WriteInv'
    BY <2>1, <2>2, <2>3 DEF AttrInv, WriteInv
  <2> QED BY <1>a, <2>1, <2>4, KeepsAttr DEF AttrInv
<1>5. ASSUME NEW t \in Threads, WriteOk(t) PROVE AttrInv'
  <2>1. /\ Forward /\ NoNewWrite
        /\ UNCHANGED <<src, opened, rx, pending, samples>> /\ wire \subseteq wire'
        /\ pc[t] = "write" /\ \A u \in Threads : u # t => pc'[u] = pc[u]
    BY <1>5, <1>b DEF WriteOk, Forward, NoNewWrite
  <2>2. /\ Len(opened[src[t].slot]) > 0 /\ Len(opened[src[t].slot]) \in Nat
        /\ src[t].gen <= opened[src[t].slot][Len(opened[src[t].slot])]
    <3>1. src[t].slot \in Slots
      BY DEF TypeOK, Source
    <3>2. opened[src[t].slot] \in Seq(Nat)
      BY <3>1 DEF TypeOK
    <3> QED BY <2>1, <3>2 DEF AttrInv, WriteInv
  <2>3. WireInv'
    <3> SUFFICES ASSUME NEW m \in wire'
                 PROVE  /\ pc'[m.tx] = "done"
                        /\ m.via.slot = src[m.tx].slot
                        /\ m.via.idx \in 1..Len(opened[m.via.slot])
                        /\ src[m.tx].gen <= opened[m.via.slot][m.via.idx]
      BY <2>1 DEF WireInv
    <3>1. CASE m \in wire
      <4>1. m.tx \in Threads
        BY <3>1, <1>b DEF TypeOK
      <4>2. pc[m.tx] = "done"
        BY <3>1 DEF AttrInv, WireInv
      <4> QED BY <2>1, <3>1, <4>1, <4>2 DEF AttrInv, WireInv
    <3>2. CASE m \notin wire
      <4>1. t \in Probes /\ m = [tx |-> t, via |-> Socket(src[t].slot)] /\ pc' = [pc EXCEPT ![t] = "done"]
        BY <1>5, <3>2 DEF WriteOk
      <4>2. /\ m.tx = t /\ m.via.slot = src[t].slot /\ m.via.idx = Len(opened[src[t].slot])
            /\ pc'[t] = "done"
        BY <4>1, <1>b DEF Socket
      <4> QED BY <2>2, <4>2
    <3> QED BY <3>1, <3>2
  <2> QED BY <1>a, <2>1, <2>3, KeepsAttr DEF AttrInv
<1>6. ASSUME NEW t \in Threads, WriteFailed(t) PROVE AttrInv'
  BY <1>b, <1>c, <1>6 DEF WriteFailed, Forward, NoNewWrite
<1>7. ASSUME NEW p \in Probes, NEW s \in Slots, NEW d \in Dsts, ProbeTick(p, s, d) PROVE AttrInv'
  BY <1>b, <1>c, <1>7 DEF ProbeTick, TakeSource, TypeOK, Forward, NoNewWrite
<1>8. ASSUME NEW p \in Probes, PingRefused(p) PROVE AttrInv'
  BY <1>b, <1>c, <1>8 DEF PingRefused, Forward, NoNewWrite
<1>9. ASSUME NEW p \in Probes, Ping(p) PROVE AttrInv'
  <2> DEFINE probe == [tx |-> p, dst |-> dst[p], peer |-> PeerOf[dst[p]],
                       source |-> src[p], at |-> now]
  <2>1. Forward /\ NoNewWrite /\ UNCHANGED <<src, wire, rx, samples>>
    BY <1>9, <1>b DEF Ping, Forward, NoNewWrite
  <2>2. /\ \A u \in Threads : u # p => pc'[u] = pc[u]
        /\ pc'[p] \in {"rotate", "done"} /\ pending' \subseteq pending \cup {probe}
    BY <1>9, <1>b DEF Ping
  <2>3. \A x \in pending : x.tx \in Threads
    BY <1>b DEF TypeOK, Tx
  <2>4. PendInv'
    BY <2>1, <2>2, <2>3 DEF AttrInv, PendInv
  <2> QED BY <1>a, <2>1, <2>4, KeepsAttr DEF AttrInv
<1>10. ASSUME NEW p \in Probes, Forget(p) PROVE AttrInv'
  BY <1>b, <1>c, <1>10 DEF Forget, Forward, NoNewWrite
<1>11. ASSUME NEW n \in Senders, NEW s \in Slots, NEW d \in Dsts, SendTake(n, s, d) PROVE AttrInv'
  BY <1>b, <1>c, <1>11 DEF SendTake, TakeSource, TypeOK, Forward, NoNewWrite
<1>12. ASSUME NEW n \in Senders,
              SendChoose(n) \/ SendSucceeded(n) \/ DualSendFailed(n) \/ SingleSendFailed(n)
       PROVE  AttrInv'
  BY <1>b, <1>c, <1>12
  DEF SendChoose, SendSucceeded, DualSendFailed, SingleSendFailed, Forward, NoNewWrite
<1>13. ASSUME NEW s \in Slots, Receiver(s) PROVE AttrInv'
  <2>1. /\ Forward /\ NoNewWrite /\ UNCHANGED <<opened, sockGen, wire>>
        /\ \A u \in Slots : u # s => rx'[u] = rx[u]
    BY <1>13 DEF Receiver, Read, Stamp, HandlePong, Forward, NoNewWrite, TypeOK
  <2>2. CASE \E m \in wire, q \in Peers : Read(s, m, q)
    <3>1. PICK m \in wire, q \in Peers : Read(s, m, q)
      BY <2>2
    <3>2. /\ UNCHANGED <<pending, samples>>
          /\ rx'[s].st = "read" /\ rx'[s].tx = m.tx /\ rx'[s].via = m.via
          /\ m.via = Socket(s) /\ m = [tx |-> m.tx, via |-> m.via]
      BY <3>1 DEF Read, TypeOK
    <3>3. RxInv'
      BY <2>1, <3>2 DEF AttrInv, RxInv, Socket
    <3> QED BY <1>a, <2>1, <3>2, <3>3, KeepsAttr DEF AttrInv
  <2>3. CASE Stamp(s)
    <3>1. /\ UNCHANGED <<pending, samples>> /\ rx[s].st = "read"
          /\ rx'[s].tx = rx[s].tx /\ rx'[s].via = rx[s].via /\ rx'[s].meta = rxMeta(s)
      BY <2>3 DEF Stamp, TypeOK
    <3>2. [tx |-> rx[s].tx, via |-> rx[s].via] \in wire /\ rx[s].via.slot = s
      BY <3>1 DEF AttrInv, RxInv
    <3>3. rx[s].via.idx \in 1..Len(opened[s])
      BY <3>2 DEF AttrInv, WireInv
    <3>4. opened[s][rx[s].via.idx] <= sockGen[s]
      BY <3>3 DEF SockInv, GenInv
    <3>5. RxInv'
      BY <2>1, <3>1, <3>2, <3>4 DEF AttrInv, RxInv, rxMeta
    <3> QED BY <1>a, <2>1, <3>1, <3>5, KeepsAttr DEF AttrInv
  <2>4. CASE HandlePong(s)
    <3>1. rx[s].st = "stamped" /\ rx'[s].st = "wait"
      BY <2>4 DEF HandlePong, TypeOK
    <3>2. RxInv'
      BY <2>1, <3>1 DEF AttrInv, RxInv
    <3>3. pending' \subseteq pending
      BY <2>4 DEF HandlePong, PongIgnored, PongExpired, PongAccepted
    <3>4. CASE samples' \subseteq samples
      BY <1>a, <2>1, <3>2, <3>3, <3>4, KeepsAttr DEF AttrInv
    <3>5. ASSUME NEW x \in Matching(s), PongAccepted(s, x) PROVE AttrInv'
      <4> DEFINE sample == [tx |-> x.tx, dst |-> x.dst, source |-> rx[s].meta,
                            at |-> now, via |-> rx[s].via]
      <4>1. x \in pending /\ x.tx = rx[s].tx /\ x.source = rx[s].meta /\ x.tx \in Threads
        BY <1>b, <3>5 DEF Matching, PongAccepted, Answered, TypeOK, Tx
      <4>2. x.source = src[x.tx]
        BY <4>1 DEF AttrInv, PendInv
      <4>3. /\ [tx |-> rx[s].tx, via |-> rx[s].via] \in wire /\ rx[s].via.slot = s
            /\ rx[s].meta.slot = s /\ opened[s][rx[s].via.idx] <= rx[s].meta.gen
        BY <3>1 DEF AttrInv, RxInv
      <4>4. rx[s].via.idx \in 1..Len(opened[s]) /\ src[x.tx].gen <= opened[s][rx[s].via.idx]
        BY <4>1, <4>3 DEF AttrInv, WireInv
      <4>5. opened[s] \in Seq(Nat) /\ rx[s].meta.gen \in Nat
        BY DEF TypeOK, Source
      <4>6. opened[s][rx[s].via.idx] = rx[s].meta.gen
        BY <4>1, <4>2, <4>3, <4>4, <4>5
      <4>7. samples' \subseteq samples \cup {sample}
        BY <3>5 DEF PongAccepted, TrimmedTo
      <4>8. SampleInv'
        BY <2>1, <4>3, <4>4, <4>6, <4>7 DEF AttrInv, SampleInv
      <4> QED BY <1>a, <2>1, <3>2, <3>3, <4>8, KeepsAttr DEF AttrInv
    <3> QED BY <2>4, <3>4, <3>5 DEF HandlePong, PongIgnored, PongExpired
  <2> QED BY <1>13, <2>2, <2>3, <2>4 DEF Receiver
<1> HIDE DEF sockVars, probeVars, threadVars, histVars
<1> QED
  BY <1>b, <1>1, <1>2, <1>3, <1>4, <1>5, <1>6, <1>7, <1>8, <1>9, <1>10, <1>11, <1>12, <1>13
  DEF Next, ProberStep, SenderStep, LinkStep

\* What the inductive invariant says about samples is SampleAttribution.
LEMMA AttrImplies == TypeOK /\ SockInv /\ AttrInv => SampleAttribution
<1> SUFFICES ASSUME TypeOK, SockInv, AttrInv, NEW x \in samples,
                    NEW i \in 1..Len(opened[x.via.slot])
             PROVE  /\ x.via.slot = x.source.slot
                    /\ opened[x.via.slot][i] = x.source.gen <=> i = x.via.idx
  BY DEF SampleAttribution, AttrInv, SampleInv
<1> DEFINE s == x.via.slot
           j == x.via.idx
<1>1. s \in Slots
  BY DEF TypeOK, Sample, UdpSocket
<1>2. opened[s] \in Seq(Nat)
  BY <1>1 DEF TypeOK
<1>3. s = x.source.slot /\ j \in 1..Len(opened[s]) /\ opened[s][j] = x.source.gen
  BY DEF AttrInv, SampleInv
<1>4. (i < j => opened[s][i] < opened[s][j]) /\ (j < i => opened[s][j] < opened[s][i])
  BY <1>1, <1>3 DEF SockInv, GenInv
<1> HIDE DEF s, j
<1>5. i \in 1..Len(opened[s])
  BY DEF s
<1>6. opened[s][i] \in Nat /\ opened[s][j] \in Nat /\ i \in Nat /\ j \in Nat
  BY <1>2, <1>3, <1>5
<1>7. opened[s][i] = x.source.gen <=> i = j
  BY <1>3, <1>4, <1>6
<1> QED BY <1>3, <1>7 DEF s, j

\* Every sample names the one UDP socket that its probe left from and its Pong
\* came in on, for any number of sockets, goroutines and re-binds.
THEOREM SamplesAttributed == Spec => []SampleAttribution
<1>1. Init => TypeInv /\ SockInv /\ AttrInv
  BY TypeInit, SockInit, AttrInit
<1>2. TypeInv /\ SockInv /\ AttrInv /\ [Next]_vars => (TypeInv /\ SockInv /\ AttrInv)'
  BY TypeStep, SockStep, AttrStep DEF TypeInv
<1>3. TypeInv /\ SockInv /\ AttrInv => SampleAttribution
  BY AttrImplies DEF TypeInv
<1> QED BY <1>1, <1>2, <1>3, PTL DEF Spec

-----------------------------------------------------------------------------
(* No evidence comes back for a source that a rotation has dropped.          *)

\* What has been dropped, or is about to be, is no socket's current source.
StaleInv ==
  /\ \A r \in dropped : r.gen < sockGen[r.slot]
  /\ \A t \in Threads : pc[t] \in {"bind", "drop"} => rotating[t].gen < sockGen[rotating[t].slot]

\* A probe that is pending under a dropped source was added after the drop, by a
\* goroutine whose look-up has yet to fail: it is not on the wire.
GoneInv ==
  \A x \in pending : x.source \in dropped =>
    pc[x.tx] \in {"rotate", "bind", "drop", "look", "forget"}

DropInv == StaleInv /\ GoneInv /\ DroppedStaysDropped

LEMMA DropInit == Init => DropInv
BY DEF Init, DropInv, StaleInv, GoneInv, DroppedStaysDropped

\* StaleInv stands while nothing is dropped and nobody begins to rotate.
LEMMA KeepsStale ==
  ASSUME TypeOK, TypeOK', GensGrow, StaleInv, dropped' = dropped, rotating' = rotating,
         \A t \in Threads : pc'[t] \in {"bind", "drop"} => pc[t] \in {"bind", "drop"}
  PROVE  StaleInv'
<1>1. ASSUME NEW r \in Source, r.gen < sockGen[r.slot] PROVE r.gen < sockGen'[r.slot]
  <2>1. r.gen \in Nat /\ r.slot \in Slots
    BY DEF Source
  <2>2. sockGen[r.slot] \in Nat /\ sockGen'[r.slot] \in Nat /\ sockGen[r.slot] <= sockGen'[r.slot]
    BY <2>1 DEF TypeOK, GensGrow
  <2> QED BY <1>1, <2>1, <2>2
<1>2. dropped \subseteq Source /\ \A t \in Threads : rotating[t] \in Source
  BY DEF TypeOK
<1> QED BY <1>1, <1>2 DEF StaleInv

\* The calls that may still hold a pending probe under a dropped source.
Hopeless == {"rotate", "bind", "drop", "look", "forget"}

\* GoneInv stands while no probe is added and none gets past its look-up.
LEMMA KeepsGone ==
  ASSUME TypeOK, GoneInv, PendInv, dropped' = dropped, pending' \subseteq pending,
         \A t \in Threads : pc[t] \in Hopeless => pc'[t] \in Hopeless
  PROVE  GoneInv'
<1>1. \A x \in pending : x.tx \in Threads
  BY DEF TypeOK, Tx, Threads
<1> QED BY <1>1 DEF GoneInv, Hopeless

\* Outcomes that a step adds are lost ones, or are kept apart from dropped.
LEMMA NoteKeepsDropped ==
  ASSUME NEW new, NoteOutcomes(new), dropped' = dropped,
         \A x \in outcomes \cup new : ~x.lost => x.source \notin dropped
  PROVE  \A x \in outcomes' : ~x.lost => x.source \notin dropped'
<1>1. outcomes' \subseteq outcomes \cup new
  BY DEF NoteOutcomes, TrimmedTo
<1> QED BY <1>1

LEMMA DropStep ==
  TypeOK /\ TypeOK' /\ SockInv /\ AttrInv /\ DropInv /\ [Next]_vars => DropInv'
<1> SUFFICES ASSUME TypeOK, TypeOK', SockInv, AttrInv, DropInv, [Next]_vars PROVE DropInv'
  OBVIOUS
<1> USE DEF sockVars, probeVars, threadVars, histVars
<1>a. GensGrow
  BY Grows
<1>b. Probes \subseteq Threads /\ Senders \subseteq Threads /\ pc \in [Threads -> PCs]
  BY DEF Threads, TypeOK
<1>c. ASSUME UNCHANGED <<dropped, rotating>>, pending' \subseteq pending,
             samples' \subseteq samples, outcomes' \subseteq outcomes,
             \A t \in Threads : pc'[t] \in {"bind", "drop"} => pc[t] \in {"bind", "drop"},
             \A t \in Threads : pc[t] \in Hopeless => pc'[t] \in Hopeless
      PROVE  DropInv'
  <2>1. StaleInv' /\ GoneInv'
    BY <1>a, <1>c, KeepsStale, KeepsGone DEF DropInv, AttrInv
  <2> QED BY <1>c, <2>1 DEF DropInv, DroppedStaysDropped
<1>d. ASSUME UNCHANGED <<pc, dropped, rotating>>, pending' \subseteq pending,
             samples' \subseteq samples, outcomes' \subseteq outcomes
      PROVE  DropInv'
  BY <1>c, <1>d
<1>e. \A t \in Threads : \A v \in PCs :
        pc' = [pc EXCEPT ![t] = v] => pc'[t] = v /\ \A u \in Threads : u # t => pc'[u] = pc[u]
  BY <1>b
<1>1. ASSUME UNCHANGED vars PROVE DropInv'
  BY <1>d, <1>1 DEF vars
<1>2. ASSUME \/ RebindStart \/ RebindBind \/ RebindEnd \/ BindClose \/ ConnClose \/ Tick
             \/ \E s \in Slots : RebindStore(s)
      PROVE  DropInv'
  BY <1>d, <1>2 DEF RebindStart, RebindStore, RebindBind, RebindEnd, BindClose, ConnClose, Tick
<1>3. ASSUME NEW t \in Threads, NEW r \in todo[t], RotateStale(t, r) PROVE DropInv'
  BY <1>d, <1>3 DEF RotateStale
<1>4. ASSUME NEW t \in Threads, NEW r \in todo[t], RotateStore(t, r) PROVE DropInv'
  <2>1. r \in Source /\ r.slot \in Slots /\ r.gen \in Nat
    <3>1. r \in Source
      BY DEF TypeOK
    <3> QED BY <3>1 DEF Source
  <2>2. /\ rotating'[t] = r /\ pc'[t] = "bind" /\ pc[t] = "rotate"
        /\ \A u \in Threads : u # t => pc'[u] = pc[u] /\ rotating'[u] = rotating[u]
        /\ UNCHANGED <<dropped, pending, samples, outcomes>>
    BY <1>4, <1>b DEF RotateStore, TypeOK
  <2>3. r.gen < sockGen'[r.slot]
    <3>1. r.gen = sockGen[r.slot] /\ sockGen'[r.slot] = generation + 1
      BY <1>4, <2>1 DEF RotateStore, StoreGeneration, rxMeta, TypeOK
    <3>2. sockGen[r.slot] <= generation /\ generation \in Nat
      BY <2>1 DEF SockInv, GenInv, TypeOK
    <3> QED BY <2>1, <3>1, <3>2
  <2>4. ASSUME NEW q \in Source, q.gen < sockGen[q.slot] PROVE q.gen < sockGen'[q.slot]
    <3>1. q.gen \in Nat /\ q.slot \in Slots
      BY DEF Source
    <3>2. sockGen[q.slot] \in Nat /\ sockGen'[q.slot] \in Nat /\ sockGen[q.slot] <= sockGen'[q.slot]
      BY <1>a, <3>1 DEF TypeOK, GensGrow
    <3> QED BY <2>4, <3>1, <3>2
  <2>5. dropped \subseteq Source /\ \A u \in Threads : rotating[u] \in Source
    BY DEF TypeOK
  <2>6. StaleInv'
    BY <2>2, <2>3, <2>4, <2>5 DEF DropInv, StaleInv
  <2>7. GoneInv'
    BY <2>2, KeepsGone DEF DropInv, AttrInv, Hopeless
  <2> QED BY <2>2, <2>6, <2>7 DEF DropInv, DroppedStaysDropped
<1>5. ASSUME NEW t \in Threads, RotateBind(t) PROVE DropInv'
  BY <1>b, <1>c, <1>5 DEF RotateBind, Hopeless
<1>6. ASSUME NEW t \in Threads, RotateDrop(t) PROVE DropInv'
  <2>1. /\ pc[t] = "drop" /\ pc'[t] = "rotate" /\ dropped' = dropped \cup {rotating[t]}
        /\ \A u \in Threads : u # t => pc'[u] = pc[u]
        /\ UNCHANGED <<rotating, sockGen>>
    BY <1>6, <1>b DEF RotateDrop, DropSource
  <2>2. /\ \A x \in pending' : x \in pending /\ x.source # rotating[t]
        /\ \A x \in samples' : x \in samples /\ x.source # rotating[t]
        /\ \A x \in outcomes' : x \in outcomes /\ x.source # rotating[t]
    BY <1>6 DEF RotateDrop, DropSource
  <2>3. StaleInv'
    BY <2>1 DEF DropInv, StaleInv
  <2>4. \A x \in pending : x.tx \in Threads
    BY <1>b DEF TypeOK, Tx
  <2>5. GoneInv'
    BY <2>1, <2>2, <2>4 DEF DropInv, GoneInv
  <2>6. DroppedStaysDropped'
    BY <2>1, <2>2 DEF DropInv, DroppedStaysDropped
  <2> QED BY <2>3, <2>5, <2>6 DEF DropInv
<1>7. ASSUME NEW t \in Threads, RotateEnd(t) PROVE DropInv'
  <2>1. /\ UNCHANGED <<dropped, rotating, pending, samples, outcomes>>
        /\ \A u \in Threads : u # t => pc'[u] = pc[u]
        /\ pc[t] = "rotate" /\ pc'[t] \in {"done", "forget", "look"}
        /\ t \in Probes => pc'[t] \in {"forget", "look"}
    BY <1>7, <1>b, ConstantsAssumption DEF RotateEnd
  <2>2. StaleInv'
    BY <1>a, <2>1, KeepsStale DEF DropInv
  <2>3. \A x \in pending : x.tx \in Probes
    BY DEF TypeOK, Tx
  <2>4. GoneInv'
    BY <1>b, <2>1, <2>3 DEF DropInv, GoneInv
  <2> QED BY <2>1, <2>2, <2>4 DEF DropInv, DroppedStaysDropped
<1>8. ASSUME NEW t \in Threads, Look(t) PROVE DropInv'
  <2>1. /\ UNCHANGED <<dropped, rotating, pending, samples, outcomes, src>>
        /\ \A u \in Threads : u # t => pc'[u] = pc[u]
        /\ pc[t] = "look" /\ pc'[t] \in {"write", "forget", "failed"}
        /\ t \in Probes => pc'[t] \in {"write", "forget"}
        /\ pc'[t] = "write" => src[t].gen = sockGen[src[t].slot]
    BY <1>8, <1>b DEF Look, rxMeta
  <2>2. StaleInv'
    BY <1>a, <2>1, KeepsStale DEF DropInv
  <2>3. pc'[t] = "write" => src[t] \notin dropped
    <3>1. src[t].slot \in Slots /\ src[t].gen \in Nat
      BY DEF TypeOK, Source
    <3> QED BY <2>1, <3>1 DEF DropInv, StaleInv
  <2>4. \A x \in pending : x.tx \in Probes /\ x.source = src[x.tx]
    BY DEF TypeOK, Tx, AttrInv, PendInv
  <2>5. GoneInv'
    BY <1>b, <2>1, <2>3, <2>4 DEF DropInv, GoneInv
  <2> QED BY <2>1, <2>2, <2>5 DEF DropInv, DroppedStaysDropped
<1>9. ASSUME NEW t \in Threads, WriteOk(t) PROVE DropInv'
  BY <1>b, <1>c, <1>9 DEF WriteOk, Hopeless
<1>10. ASSUME NEW t \in Threads, WriteFailed(t) PROVE DropInv'
  BY <1>b, <1>c, <1>10 DEF WriteFailed, Hopeless
<1>11. ASSUME NEW p \in Probes, NEW s \in Slots, NEW d \in Dsts, ProbeTick(p, s, d) PROVE DropInv'
  BY <1>b, <1>c, <1>11 DEF ProbeTick, TakeSource, Hopeless
<1>12. ASSUME NEW p \in Probes, PingRefused(p) PROVE DropInv'
  BY <1>b, <1>c, <1>12 DEF PingRefused, Hopeless
<1>13. ASSUME NEW p \in Probes, Ping(p) PROVE DropInv'
  <2> DEFINE probe == [tx |-> p, dst |-> dst[p], peer |-> PeerOf[dst[p]],
                       source |-> src[p], at |-> now]
  <2>1. /\ UNCHANGED <<dropped, rotating, samples>>
        /\ \A u \in Threads : u # p => pc'[u] = pc[u]
        /\ pc[p] = "ping"
        /\ \/ pc'[p] = "rotate" /\ pending' \subseteq pending \cup {probe}
           \/ pc'[p] = "done" /\ pending' \subseteq pending
    BY <1>13, <1>b DEF Ping
  <2>2. StaleInv'
    BY <1>a, <2>1, KeepsStale DEF DropInv
  <2>3. \A x \in pending : x.tx \in Threads /\ x.tx # p
    BY <1>b, <2>1 DEF TypeOK, Tx, AttrInv, PendInv
  <2>4. GoneInv'
    BY <2>1, <2>3 DEF DropInv, GoneInv
  <2>5. \A x \in outcomes \cup {OutcomeOf(y, TRUE) : y \in Expired} : ~x.lost => x.source \notin dropped
    BY DEF DropInv, DroppedStaysDropped, OutcomeOf
  <2>6. \A x \in outcomes' : ~x.lost => x.source \notin dropped'
    BY <1>13, <2>1, <2>5, NoteKeepsDropped DEF Ping
  <2> QED BY <2>1, <2>2, <2>4, <2>6 DEF DropInv, DroppedStaysDropped
<1>14. ASSUME NEW p \in Probes, Forget(p) PROVE DropInv'
  <2>1. /\ UNCHANGED <<dropped, rotating, samples, outcomes>>
        /\ \A u \in Threads : u # p => pc'[u] = pc[u]
        /\ pc'[p] = "done" /\ \A x \in pending' : x \in pending /\ x.tx # p
    BY <1>14, <1>b DEF Forget
  <2>2. StaleInv'
    BY <1>a, <2>1, KeepsStale DEF DropInv
  <2>3. \A x \in pending : x.tx \in Threads
    BY <1>b DEF TypeOK, Tx
  <2> QED BY <2>1, <2>2, <2>3 DEF DropInv, GoneInv, DroppedStaysDropped
<1>15. ASSUME NEW n \in Senders, NEW s \in Slots, NEW d \in Dsts, SendTake(n, s, d) PROVE DropInv'
  BY <1>b, <1>c, <1>15 DEF SendTake, TakeSource, Hopeless
<1>16. ASSUME NEW n \in Senders,
              SendChoose(n) \/ SendSucceeded(n) \/ DualSendFailed(n) \/ SingleSendFailed(n)
       PROVE  DropInv'
  BY <1>b, <1>c, <1>16 DEF SendChoose, SendSucceeded, DualSendFailed, SingleSendFailed, Hopeless
<1>17. ASSUME NEW s \in Slots, Receiver(s) PROVE DropInv'
  <2>1. CASE \/ \E m \in wire, q \in Peers : Read(s, m, q)
             \/ Stamp(s)
    BY <1>d, <2>1 DEF Read, Stamp
  <2>2. CASE HandlePong(s)
    <3>1. UNCHANGED <<dropped, rotating, pc>> /\ rx[s].st = "stamped"
      BY <2>2 DEF HandlePong
    <3>2. CASE PongIgnored(s)
      BY <1>d, <3>1, <3>2 DEF PongIgnored
    <3>3. ASSUME pending' \subseteq pending, DroppedStaysDropped' PROVE DropInv'
      <4>1. StaleInv' /\ GoneInv'
        BY <1>a, <3>1, <3>3, KeepsStale, KeepsGone DEF DropInv, AttrInv
      <4> QED BY <3>3, <4>1 DEF DropInv
    <3>4. ASSUME NEW x \in Matching(s), PongExpired(s, x) PROVE DropInv'
      <4>1. \A y \in outcomes \cup {OutcomeOf(x, TRUE)} : ~y.lost => y.source \notin dropped
        BY DEF DropInv, DroppedStaysDropped, OutcomeOf
      <4>2. \A y \in outcomes' : ~y.lost => y.source \notin dropped'
        BY <3>1, <3>4, <4>1, NoteKeepsDropped DEF PongExpired
      <4> QED BY <3>1, <3>3, <3>4, <4>2 DEF PongExpired, DropInv, DroppedStaysDropped
    <3>5. ASSUME NEW x \in Matching(s), PongAccepted(s, x) PROVE DropInv'
      <4> DEFINE sample == [tx |-> x.tx, dst |-> x.dst, source |-> rx[s].meta,
                            at |-> now, via |-> rx[s].via]
      <4>1. x \in pending /\ x.tx = rx[s].tx /\ x.source = rx[s].meta
        BY <3>5 DEF Matching, PongAccepted, Answered
      <4>2. pc[x.tx] = "done"
        <5>1. [tx |-> rx[s].tx, via |-> rx[s].via] \in wire
          BY <3>1 DEF AttrInv, RxInv
        <5> QED BY <4>1, <5>1 DEF AttrInv, WireInv
      <4>3. x.source \notin dropped
        BY <4>1, <4>2 DEF DropInv, GoneInv
      <4>4. \A y \in outcomes \cup {OutcomeOf(x, FALSE)} : ~y.lost => y.source \notin dropped
        BY <4>3 DEF DropInv, DroppedStaysDropped, OutcomeOf
      <4>5. \A y \in outcomes' : ~y.lost => y.source \notin dropped'
        BY <3>1, <3>5, <4>4, NoteKeepsDropped DEF PongAccepted
      <4>6. samples' \subseteq samples \cup {sample} /\ pending' \subseteq pending
        BY <3>5 DEF PongAccepted, TrimmedTo
      <4> QED BY <3>1, <3>3, <4>1, <4>3, <4>5, <4>6 DEF DropInv, DroppedStaysDropped
    <3> QED BY <2>2, <3>2, <3>4, <3>5 DEF HandlePong
  <2> QED BY <1>17, <2>1, <2>2 DEF Receiver
<1> HIDE DEF sockVars, probeVars, threadVars, histVars
<1> QED
  BY <1>b, <1>1, <1>2, <1>3, <1>4, <1>5, <1>6, <1>7, <1>8, <1>9, <1>10, <1>11, <1>12, <1>13,
     <1>14, <1>15, <1>16, <1>17
  DEF Next, ProberStep, SenderStep, Rotate, LinkStep

\* A rotation's dropSourceLocked is final, however late a Pong is.
THEOREM DropIsFinal == Spec => []DroppedStaysDropped
<1> DEFINE IInv == TypeInv /\ SockInv /\ AttrInv /\ DropInv
<1>1. Init => IInv
  BY TypeInit, SockInit, AttrInit, DropInit
<1>2. IInv /\ [Next]_vars => IInv'
  BY TypeStep, SockStep, AttrStep, DropStep DEF TypeInv
<1>3. IInv => DroppedStaysDropped
  BY DEF DropInv
<1> HIDE DEF IInv
<1> QED BY <1>1, <1>2, <1>3, PTL DEF Spec

-----------------------------------------------------------------------------
(* Budgets and caps of the probe manager, and a closed Conn.                 *)

\* What addWithBudgetLocked promises of the pending probes P.
InBudget(P) ==
  /\ IsFiniteSet(P) /\ Cardinality(P) <= HardCap
  /\ MaxPeers > 0 => Cardinality({x.peer : x \in P}) <= MaxPeers
  /\ \A q \in Peers : Cardinality({x \in P : x.peer = q}) <= MaxBurst

BudgetInv ==
  /\ InBudget(pending)
  /\ IsFiniteSet(samples) /\ Cardinality(samples) <= SampleLimit
  /\ IsFiniteSet(outcomes) /\ Cardinality(outcomes) <= OutcomeLimit
  /\ ClosedKeepsNothing

LEMMA FewerCount ==
  ASSUME NEW S, NEW T, T \subseteq S, IsFiniteSet(S), NEW n \in Nat, Cardinality(S) <= n
  PROVE  IsFiniteSet(T) /\ Cardinality(T) \in Nat /\ Cardinality(T) <= n
<1>1. IsFiniteSet(T) /\ Cardinality(T) <= Cardinality(S)
  BY FS_Subset
<1>2. Cardinality(T) \in Nat /\ Cardinality(S) \in Nat
  BY <1>1, FS_CardinalityType
<1> QED BY <1>1, <1>2

\* The peers that finitely many probes are for are finitely many.
LEMMA PeersFinite ==
  ASSUME NEW P, IsFiniteSet(P)
  PROVE  IsFiniteSet({x.peer : x \in P})
<1> DEFINE T == {x.peer : x \in P}
           f == [x \in P |-> x.peer]
<1>1. f \in Surjection(P, T)
  BY DEF Surjection
<1> HIDE DEF T, f
<1>2. IsFiniteSet(T)
  BY <1>1, FS_Surjection
<1> QED BY <1>2 DEF T

LEMMA OutcomesFinite ==
  ASSUME NEW P, IsFiniteSet(P), NEW b
  PROVE  IsFiniteSet({OutcomeOf(x, b) : x \in P})
<1> DEFINE T == {OutcomeOf(x, b) : x \in P}
           f == [x \in P |-> OutcomeOf(x, b)]
<1>1. f \in Surjection(P, T)
  BY DEF Surjection
<1> HIDE DEF T, f
<1>2. IsFiniteSet(T)
  BY <1>1, FS_Surjection
<1> QED BY <1>2 DEF T

LEMMA FewerInBudget ==
  ASSUME NEW P, NEW Q, Q \subseteq P, InBudget(P)
  PROVE  InBudget(Q)
<1> USE ConstantsAssumption
<1>1. IsFiniteSet(Q) /\ Cardinality(Q) <= HardCap
  BY FewerCount DEF InBudget
<1>2. ASSUME MaxPeers > 0 PROVE Cardinality({x.peer : x \in Q}) <= MaxPeers
  <2> DEFINE S == {x.peer : x \in P}
             T == {x.peer : x \in Q}
  <2>1. T \subseteq S /\ IsFiniteSet(S) /\ Cardinality(S) <= MaxPeers
    BY <1>2, PeersFinite DEF InBudget
  <2> HIDE DEF S, T
  <2>2. Cardinality(T) <= MaxPeers
    BY <2>1, FewerCount
  <2> QED BY <2>2 DEF T
<1>3. ASSUME NEW q \in Peers PROVE Cardinality({x \in Q : x.peer = q}) <= MaxBurst
  <2> DEFINE S == {x \in P : x.peer = q}
             T == {x \in Q : x.peer = q}
  <2>1. T \subseteq S /\ S \subseteq P /\ Cardinality(S) <= MaxBurst
    BY DEF InBudget
  <2> HIDE DEF S, T
  <2>2. IsFiniteSet(S)
    BY <2>1, FS_Subset DEF InBudget
  <2>3. Cardinality(T) <= MaxBurst
    BY <2>1, <2>2, FewerCount
  <2> QED BY <2>3 DEF T
<1> QED BY <1>1, <1>2, <1>3 DEF InBudget

LEMMA OneMore ==
  ASSUME NEW S, NEW x, IsFiniteSet(S), NEW n \in Nat, Cardinality(S) < n
  PROVE  IsFiniteSet(S \cup {x}) /\ Cardinality(S \cup {x}) <= n
<1>1. Cardinality(S) \in Nat
  BY FS_CardinalityType
<1> QED BY <1>1, FS_AddElement

\* The check comes before the probe is added, and counts each limit on its own.
LEMMA AddedInBudget ==
  ASSUME NEW P, NEW x, InBudget(P), HasBudget(P, x.peer)
  PROVE  InBudget(P \cup {x})
<1> USE ConstantsAssumption
<1>1. IsFiniteSet(P \cup {x}) /\ Cardinality(P \cup {x}) <= HardCap
  BY OneMore DEF InBudget, HasBudget
<1>2. ASSUME MaxPeers > 0 PROVE Cardinality({y.peer : y \in P \cup {x}}) <= MaxPeers
  <2> DEFINE S == {y.peer : y \in P}
             T == {y.peer : y \in P \cup {x}}
  <2>1. IsFiniteSet(S) /\ Cardinality(S) <= MaxPeers
    BY <1>2, PeersFinite DEF InBudget
  <2>2. T = S \cup {x.peer}
    OBVIOUS
  <2>3. x.peer \in S \/ Cardinality(S) < MaxPeers
    BY <1>2 DEF HasBudget
  <2> HIDE DEF S, T
  <2>4. Cardinality(T) <= MaxPeers
    <3>1. CASE x.peer \in S
      BY <2>1, <2>2, <3>1, FS_AddElement
    <3>2. CASE Cardinality(S) < MaxPeers
      BY <2>1, <2>2, <3>2, OneMore
    <3> QED BY <2>3, <3>1, <3>2
  <2> QED BY <2>4 DEF T
<1>3. ASSUME NEW q \in Peers PROVE Cardinality({y \in P \cup {x} : y.peer = q}) <= MaxBurst
  <2> DEFINE S == {y \in P : y.peer = q}
             T == {y \in P \cup {x} : y.peer = q}
  <2>1. S \subseteq P /\ Cardinality(S) <= MaxBurst
    BY DEF InBudget
  <2>2. T = IF x.peer = q THEN S \cup {x} ELSE S
    OBVIOUS
  <2>3. x.peer = q => Cardinality(S) < MaxBurst
    BY DEF HasBudget
  <2> HIDE DEF S, T
  <2>4. IsFiniteSet(S)
    BY <2>1, FS_Subset DEF InBudget
  <2>5. Cardinality(T) <= MaxBurst
    <3>1. CASE x.peer = q
      BY <2>2, <2>3, <2>4, <3>1, OneMore
    <3>2. CASE x.peer # q
      BY <2>1, <2>2, <3>2
    <3> QED BY <3>1, <3>2
  <2> QED BY <2>5 DEF T
<1> QED BY <1>1, <1>2, <1>3 DEF InBudget

LEMMA TrimmedFits ==
  ASSUME NEW S, IsFiniteSet(S), NEW keep, NEW n \in Nat, TrimmedTo(keep, S, n)
  PROVE  IsFiniteSet(keep) /\ Cardinality(keep) <= n
<1>1. IsFiniteSet(keep)
  BY FS_Subset DEF TrimmedTo
<1> QED BY <1>1 DEF TrimmedTo

LEMMA NotedFits ==
  ASSUME BudgetInv, NEW new, IsFiniteSet(new), NoteOutcomes(new)
  PROVE  IsFiniteSet(outcomes') /\ Cardinality(outcomes') <= OutcomeLimit
<1> DEFINE recent == {o \in outcomes \cup new : now - o.at <= LossWindow}
<1>1. IsFiniteSet(outcomes \cup new)
  BY FS_Union DEF BudgetInv
<1>2. IsFiniteSet(recent)
  BY <1>1, FS_Subset
<1>3. PICK keep : TrimmedTo(keep, recent, OutcomeLimit) /\ outcomes' = keep
  BY DEF NoteOutcomes
<1> HIDE DEF recent
<1> QED BY <1>2, <1>3, TrimmedFits, ConstantsAssumption

\* Evidence only gets less, and a closed Conn stays closed.
LEMMA LessInBudget ==
  ASSUME BudgetInv, pending' \subseteq pending, samples' \subseteq samples,
         outcomes' \subseteq outcomes, closed' = closed
  PROVE  BudgetInv'
<1>1. InBudget(pending')
  BY FewerInBudget DEF BudgetInv
<1>2. /\ IsFiniteSet(samples') /\ Cardinality(samples') <= SampleLimit
      /\ IsFiniteSet(outcomes') /\ Cardinality(outcomes') <= OutcomeLimit
  BY FewerCount, ConstantsAssumption DEF BudgetInv
<1>3. ClosedKeepsNothing'
  BY DEF BudgetInv, ClosedKeepsNothing
<1> QED BY <1>1, <1>2, <1>3 DEF BudgetInv, InBudget

LEMMA PingInBudget ==
  ASSUME BudgetInv, NEW p \in Probes, Ping(p)
  PROVE  BudgetInv'
<1> DEFINE live == pending \ Expired
           probe == [tx |-> p, dst |-> dst[p], peer |-> PeerOf[dst[p]],
                     source |-> src[p], at |-> now]
           new == {OutcomeOf(x, TRUE) : x \in Expired}
<1>1. IsFiniteSet(new)
  <2>1. IsFiniteSet(Expired)
    BY FS_Subset DEF Expired, BudgetInv, InBudget
  <2> QED BY <2>1, OutcomesFinite
<1>2. IsFiniteSet(outcomes') /\ Cardinality(outcomes') <= OutcomeLimit
  BY <1>1, NotedFits DEF Ping
<1>3. InBudget(live)
  BY FewerInBudget DEF BudgetInv
<1>4. \/ HasBudget(live, probe.peer) /\ pending' = live \cup {probe}
      \/ pending' = live
  BY DEF Ping
<1> HIDE DEF live, probe
<1>5. InBudget(pending')
  BY <1>3, <1>4, AddedInBudget
<1>6. UNCHANGED samples /\ ~closed /\ ~closed'
  BY DEF Ping
<1> QED BY <1>2, <1>5, <1>6 DEF BudgetInv, ClosedKeepsNothing, InBudget

LEMMA PongInBudget ==
  ASSUME BudgetInv, NEW s \in Slots, HandlePong(s)
  PROVE  BudgetInv'
<1>1. CASE PongIgnored(s)
  BY <1>1, LessInBudget DEF PongIgnored, HandlePong
<1>2. ASSUME NEW x \in Matching(s), ~closed, PongExpired(s, x) \/ PongAccepted(s, x)
      PROVE  BudgetInv'
  <2>1. ~closed' /\ pending' \subseteq pending
    BY <1>2 DEF HandlePong, PongExpired, PongAccepted
  <2>2. InBudget(pending')
    BY <2>1, FewerInBudget DEF BudgetInv
  <2>3. \E b : NoteOutcomes({OutcomeOf(x, b)})
    BY <1>2 DEF PongExpired, PongAccepted
  <2>4. IsFiniteSet(outcomes') /\ Cardinality(outcomes') <= OutcomeLimit
    BY <2>3, NotedFits, FS_Singleton
  <2>5. IsFiniteSet(samples') /\ Cardinality(samples') <= SampleLimit
    <3>1. CASE PongExpired(s, x)
      BY <3>1 DEF PongExpired, BudgetInv
    <3>2. CASE PongAccepted(s, x)
      <4> DEFINE sample == [tx |-> x.tx, dst |-> x.dst, source |-> rx[s].meta,
                            at |-> now, via |-> rx[s].via]
                 old == {y \in samples : now - y.at <= SampleTTL}
      <4>1. PICK keep : TrimmedTo(keep, old \cup {sample}, SampleLimit) /\ samples' = keep
        BY <3>2 DEF PongAccepted
      <4>2. IsFiniteSet(old)
        BY FS_Subset DEF BudgetInv
      <4> HIDE DEF old, sample
      <4>3. IsFiniteSet(old \cup {sample})
        BY <4>2, FS_AddElement
      <4> QED BY <4>1, <4>3, TrimmedFits, ConstantsAssumption
    <3> QED BY <1>2, <3>1, <3>2
  <2> QED BY <2>1, <2>2, <2>4, <2>5 DEF BudgetInv, ClosedKeepsNothing, InBudget
<1> QED BY <1>1, <1>2 DEF HandlePong

LEMMA BudgetStep == BudgetInv /\ [Next]_vars => BudgetInv'
<1> SUFFICES ASSUME BudgetInv, [Next]_vars PROVE BudgetInv'
  OBVIOUS
<1> USE DEF sockVars, probeVars, threadVars, histVars
<1>1. CASE UNCHANGED <<closed, pending, samples, outcomes>>
  BY <1>1, LessInBudget
<1>2. ASSUME NEW t, Rotate(t) \/ Look(t) \/ WriteOk(t) \/ WriteFailed(t) PROVE BudgetInv'
  <2>1. CASE RotateDrop(t)
    BY <2>1, LessInBudget DEF RotateDrop, DropSource
  <2> QED BY <1>1, <1>2, <2>1
      DEF Rotate, RotateStale, RotateStore, RotateBind, RotateEnd, Look, WriteOk, WriteFailed
<1>3. ASSUME NEW p \in Probes, ProberStep(p) PROVE BudgetInv'
  <2>1. CASE Forget(p)
    BY <2>1, LessInBudget DEF Forget
  <2> QED BY <1>1, <1>2, <1>3, <2>1, PingInBudget DEF ProberStep, PingRefused
<1>4. ASSUME NEW n \in Senders, SenderStep(n) PROVE BudgetInv'
  <2>1. CASE SingleSendFailed(n)
    BY <2>1, LessInBudget DEF SingleSendFailed
  <2> QED BY <1>1, <1>2, <1>4, <2>1 DEF SenderStep, SendChoose, SendSucceeded, DualSendFailed
<1>5. ASSUME NEW s \in Slots, Receiver(s) PROVE BudgetInv'
  BY <1>1, <1>5, PongInBudget DEF Receiver, Read, Stamp
<1>6. CASE ConnClose
  <2>1. pending' = {} /\ samples' = {} /\ outcomes' = {}
    BY <1>6 DEF ConnClose
  <2>2. InBudget(pending') /\ IsFiniteSet(samples') /\ IsFiniteSet(outcomes')
    BY <2>1, FewerInBudget, FS_EmptySet DEF BudgetInv
  <2>3. Cardinality(samples') <= SampleLimit /\ Cardinality(outcomes') <= OutcomeLimit
    BY <2>1, FS_EmptySet, ConstantsAssumption
  <2> QED BY <2>1, <2>2, <2>3 DEF BudgetInv, InBudget, ClosedKeepsNothing
<1>7. ASSUME NEW t, NEW s \in Slots, NEW d \in Dsts, ProbeTick(t, s, d) \/ SendTake(t, s, d)
      PROVE  BudgetInv'
  BY <1>1, <1>7 DEF ProbeTick, SendTake
<1>8. CASE RebindStart \/ LinkStep \/ BindClose \/ Tick
  BY <1>1, <1>8 DEF RebindStart, LinkStep, RebindBind, RebindEnd, RebindStore, BindClose, Tick
<1>9. CASE UNCHANGED vars
  BY <1>1, <1>9 DEF vars
<1> HIDE DEF sockVars, probeVars, threadVars, histVars
<1> QED BY <1>3, <1>4, <1>5, <1>6, <1>7, <1>8, <1>9 DEF Next

LEMMA BudgetInit == Init => BudgetInv
<1> SUFFICES ASSUME Init PROVE BudgetInv
  OBVIOUS
<1>1. pending = {} /\ samples = {} /\ outcomes = {}
  BY DEF Init
<1>2. {x.peer : x \in pending} = {} /\ \A q : {x \in pending : x.peer = q} = {}
  BY <1>1
<1> QED BY <1>1, <1>2, FS_EmptySet, ConstantsAssumption
    DEF BudgetInv, InBudget, ClosedKeepsNothing

LEMMA BudgetAlways == Spec => []BudgetInv
BY BudgetInit, BudgetStep, PTL DEF Spec

\* addWithBudgetLocked and the caps on samples and outcomes hold whatever probes expire,
\* are answered or are dropped in between.
THEOREM AlwaysWithinBudgets == Spec => []WithinBudgets
<1>1. BudgetInv => WithinBudgets
  BY DEF BudgetInv, InBudget, WithinBudgets
<1> QED BY <1>1, BudgetAlways, PTL

\* clearLocked is final: a probe or a Pong still under way at Conn.Close leaves nothing.
THEOREM CloseKeepsNothing == Spec => []ClosedKeepsNothing
<1>1. BudgetInv => ClosedKeepsNothing
  BY DEF BudgetInv
<1> QED BY <1>1, BudgetAlways, PTL

-----------------------------------------------------------------------------
(* A sender rotates only a socket that failed it.                            *)

\* The source that a call took is the socket's current one.
Current(t) == src[t].gen = sockGen[src[t].slot]

\* From a failed write to the end of the rotation that it asks for.
Failing == {"failed", "rotate", "bind", "drop"}

\* A socket whose next generation is stored is nobody's source yet.
SourceInv ==
  \A t \in Threads : pc[t] # "idle" =>
    /\ src[t].gen <= sockGen[src[t].slot]
    /\ Current(t) => binding # src[t].slot

\* A sender rotates its own source; while that is current, the UDP socket is the one
\* that its write failed on.
BlameInv ==
  /\ \A s \in Slots : conn[s] = "open" => bound[s]
  /\ SourceInv
  /\ \A n \in Senders : todo[n] \subseteq {src[n]} /\ (pc[n] = "idle" => todo[n] = {})
  /\ \A n \in Senders : pc[n] \in Failing /\ Current(n) /\ conn[src[n].slot] = "open" =>
       Socket(src[n].slot) \in blamed

\* How a step may change the sockets: a slot's UDP socket is replaced, or opened, only
\* under a generation that was stored before.
SocketsMove ==
  /\ \A s \in Slots : conn'[s] = "open" => bound'[s]
  /\ \A s \in Slots :
       \/ sockGen[s] < sockGen'[s]
       \/ /\ sockGen'[s] = sockGen[s]
          /\ binding' = s => binding = s
          /\ binding # s => /\ conn'[s] = "open" => conn[s] = "open"
                            /\ Len(opened'[s]) = Len(opened[s])

\* How it may change a call.
CallsMove ==
  /\ \A t \in Threads : pc[t] # "idle" => src'[t] = src[t] /\ pc'[t] # "idle"
  /\ \A t \in Threads : pc[t] = "idle" =>
       pc'[t] = "idle" \/ (Current(t)' /\ binding' # src'[t].slot)
  /\ \A n \in Senders : todo'[n] \subseteq {src'[n]} /\ (pc'[n] = "idle" => todo'[n] = {})
  /\ blamed \subseteq blamed'
  /\ \A n \in Senders : pc'[n] \in Failing =>
       \/ pc[n] \in Failing
       \/ (Current(n) /\ conn[src[n].slot] = "open" => Socket(src[n].slot) \in blamed)'

LEMMA BlameInit == Init => BlameInv
BY DEF Init, BlameInv, SourceInv, Failing, Threads

LEMMA BlameMoves ==
  ASSUME TypeOK, TypeOK', BlameInv, SocketsMove, CallsMove
  PROVE  BlameInv'
<1>0. \A t \in Threads : /\ src[t].slot \in Slots /\ src[t].gen \in Nat
                         /\ src'[t].slot \in Slots /\ src'[t].gen \in Nat
  BY DEF TypeOK, Source
<1>1. \A s \in Slots : sockGen[s] \in Nat /\ sockGen'[s] \in Nat
  BY DEF TypeOK
<1>2. Senders \subseteq Threads
  BY DEF Threads
<1>3. ASSUME NEW t \in Threads, pc[t] # "idle"
      PROVE  /\ src'[t].gen <= sockGen'[src'[t].slot]
             /\ Current(t)' => /\ Current(t) /\ binding' # src'[t].slot /\ src'[t] = src[t]
                               /\ conn'[src[t].slot] = "open" => conn[src[t].slot] = "open"
                               /\ Len(opened'[src[t].slot]) = Len(opened[src[t].slot])
  <2> DEFINE s == src[t].slot
             g == src[t].gen
  <2>1. src'[t] = src[t] /\ s \in Slots /\ g \in Nat
    BY <1>0, <1>3 DEF CallsMove
  <2>2. g <= sockGen[s] /\ (g = sockGen[s] => binding # s)
    BY <1>3 DEF BlameInv, SourceInv, Current
  <2>3. \/ sockGen[s] < sockGen'[s]
        \/ /\ sockGen'[s] = sockGen[s]
           /\ binding' = s => binding = s
           /\ binding # s => /\ conn'[s] = "open" => conn[s] = "open"
                             /\ Len(opened'[s]) = Len(opened[s])
    BY <2>1 DEF SocketsMove
  <2>4. sockGen[s] \in Nat /\ sockGen'[s] \in Nat
    BY <1>1, <2>1
  <2>5. (Current(t) <=> g = sockGen[s]) /\ (Current(t)' <=> g = sockGen'[s])
    BY <2>1 DEF Current
  <2>6. /\ g <= sockGen'[s]
        /\ g = sockGen'[s] => g = sockGen[s] /\ sockGen'[s] = sockGen[s]
    BY <2>1, <2>2, <2>3, <2>4
  <2> QED BY <2>1, <2>2, <2>3, <2>5, <2>6
<1>4. SourceInv'
  <2> SUFFICES ASSUME NEW t \in Threads, pc'[t] # "idle"
               PROVE  /\ src'[t].gen <= sockGen'[src'[t].slot]
                      /\ Current(t)' => binding' # src'[t].slot
    BY DEF SourceInv
  <2>1. CASE pc[t] # "idle"
    BY <1>3, <2>1
  <2>2. CASE pc[t] = "idle"
    <3>1. src'[t].gen = sockGen'[src'[t].slot] /\ binding' # src'[t].slot
      BY <2>2 DEF CallsMove, Current
    <3> QED BY <1>0, <1>1, <3>1
  <2> QED BY <2>1, <2>2
<1>5. ASSUME NEW n \in Senders, pc'[n] \in Failing, Current(n)', conn'[src'[n].slot] = "open"
      PROVE  Socket(src[n].slot)' \in blamed'
  <2>1. CASE pc[n] \in Failing
    <3>1. pc[n] # "idle" /\ n \in Threads
      BY <1>2, <2>1 DEF Failing
    <3>2. /\ Current(n) /\ src'[n] = src[n] /\ conn[src[n].slot] = "open"
          /\ Len(opened'[src[n].slot]) = Len(opened[src[n].slot])
      BY <1>3, <1>5, <3>1 DEF CallsMove
    <3>3. Socket(src[n].slot) \in blamed
      BY <2>1, <3>2 DEF BlameInv
    <3>4. Socket(src[n].slot)' = Socket(src[n].slot)
      BY <3>2 DEF Socket
    <3> QED BY <3>3, <3>4 DEF CallsMove
  <2>2. CASE pc[n] \notin Failing
    BY <1>5, <2>2 DEF CallsMove
  <2> QED BY <2>1, <2>2
<1> QED BY <1>4, <1>5 DEF BlameInv, SocketsMove, CallsMove

LEMMA BindMoves ==
  ASSUME TypeOK, BlameInv, NEW s \in Slots, binding = s, BindOk(s) \/ BindFailed(s),
         UNCHANGED sockGen
  PROVE  SocketsMove
<1>1. NoSlot \notin Slots /\ binding' = NoSlot
  BY ConstantsAssumption DEF BindOk, BindFailed
<1>2. /\ conn'[s] = "open" => bound'[s]
      /\ \A u \in Slots : u # s => conn'[u] = conn[u] /\ bound'[u] = bound[u] /\ opened'[u] = opened[u]
  BY DEF BindOk, BindFailed, TypeOK
<1> QED BY <1>1, <1>2 DEF SocketsMove, BlameInv

LEMMA SocketsStep == TypeOK /\ SockInv /\ BlameInv /\ [Next]_vars => SocketsMove
<1> SUFFICES ASSUME TypeOK, SockInv, BlameInv, [Next]_vars PROVE SocketsMove
  OBVIOUS
<1> USE DEF sockVars
<1>1. CASE UNCHANGED <<sockGen, bound, conn, binding, opened>>
  BY <1>1 DEF SocketsMove, BlameInv
<1>2. CASE RebindBind
  BY <1>2, BindMoves DEF RebindBind, TypeOK
<1>3. ASSUME NEW s \in Slots, RebindStore(s) PROVE SocketsMove
  <2>1. /\ UNCHANGED <<bound, conn, opened>> /\ binding' = s
        /\ \A u \in Slots : sockGen'[u] = IF u = s THEN generation ELSE sockGen[u]
    BY <1>3 DEF RebindStore, StoreGeneration, TypeOK
  <2>2. sockGen[s] < generation
    BY <1>3 DEF RebindStore, SockInv, GenInv
  <2> QED BY <2>1, <2>2 DEF SocketsMove, BlameInv
<1>4. CASE CloseSockets
  <2>1. /\ UNCHANGED <<sockGen, binding, opened>>
        /\ \A s \in Slots : conn'[s] # "open"
    BY <1>4 DEF CloseSockets
  <2> QED BY <2>1 DEF SocketsMove
<1>5. ASSUME NEW t \in Threads, NEW r \in todo[t], RotateStore(t, r) PROVE SocketsMove
  <2>1. r.slot \in Slots
    BY DEF TypeOK, Source
  <2>2. /\ UNCHANGED <<bound, conn, opened>> /\ binding' = r.slot
        /\ \A u \in Slots : sockGen'[u] = IF u = r.slot THEN generation + 1 ELSE sockGen[u]
    BY <1>5, <2>1 DEF RotateStore, StoreGeneration, TypeOK
  <2>3. sockGen[r.slot] < generation + 1
    <3>1. sockGen[r.slot] \in Nat /\ generation \in Nat /\ sockGen[r.slot] <= generation
      BY <2>1 DEF SockInv, GenInv, TypeOK
    <3> QED BY <3>1
  <2> QED BY <2>2, <2>3 DEF SocketsMove, BlameInv
<1>6. ASSUME NEW t \in Threads, RotateBind(t) PROVE SocketsMove
  <2>1. spMu = t /\ binding = rotating[t].slot
    BY <1>6 DEF RotateBind, SockInv, LockInv
  <2>2. rotating[t].slot \in Slots
    BY DEF TypeOK, Source
  <2> QED BY <1>6, <2>1, <2>2, BindMoves DEF RotateBind
<1>7. ASSUME NEW t \in Threads, Rotate(t) \/ Look(t) \/ WriteOk(t) \/ WriteFailed(t)
      PROVE  SocketsMove
  BY <1>1, <1>5, <1>6, <1>7
  DEF Rotate, RotateStale, RotateDrop, RotateEnd, Look, WriteOk, WriteFailed
<1>8. ASSUME NEW p \in Probes, ProberStep(p) PROVE SocketsMove
  BY <1>1, <1>7, <1>8 DEF ProberStep, PingRefused, Ping, Forget, Threads
<1>9. ASSUME NEW n \in Senders, SenderStep(n) PROVE SocketsMove
  BY <1>1, <1>7, <1>9
  DEF SenderStep, SendChoose, SendSucceeded, DualSendFailed, SingleSendFailed, Threads
<1>10. ASSUME NEW s \in Slots, Receiver(s) PROVE SocketsMove
  BY <1>1, <1>10 DEF Receiver, Read, Stamp, HandlePong
<1>11. ASSUME NEW t, NEW s \in Slots, NEW d \in Dsts, ProbeTick(t, s, d) \/ SendTake(t, s, d)
       PROVE  SocketsMove
  BY <1>1, <1>11 DEF ProbeTick, SendTake
<1>12. CASE RebindStart \/ LinkStep \/ BindClose \/ ConnClose \/ Tick
  BY <1>1, <1>2, <1>3, <1>4, <1>12
  DEF RebindStart, LinkStep, RebindEnd, BindClose, ConnClose, Tick
<1>13. CASE UNCHANGED vars
  BY <1>1, <1>13 DEF vars
<1> HIDE DEF sockVars
<1> QED BY <1>8, <1>9, <1>10, <1>11, <1>12, <1>13 DEF Next

\* One call takes a step, and fails with nobody new to blame.
LEMMA CallMoves ==
  ASSUME TypeOK, BlameInv, NEW t \in Threads, NEW v \in PCs \ {"idle"},
         pc[t] # "idle", pc' = [pc EXCEPT ![t] = v],
         UNCHANGED <<src, blamed>>, \A u \in Threads : u # t => todo'[u] = todo[u],
         t \in Senders => todo'[t] \subseteq {src[t]},
         t \in Senders /\ v \in Failing => pc[t] \in Failing
  PROVE  CallsMove
<1>1. /\ pc'[t] = v /\ v # "idle" /\ \A u \in Threads : u # t => pc'[u] = pc[u]
      /\ Senders \subseteq Threads
  BY DEF TypeOK, Threads
<1> QED BY <1>1 DEF CallsMove, BlameInv

\* No call takes a step.
LEMMA CallsStand ==
  ASSUME BlameInv, UNCHANGED <<pc, src, todo, blamed>>
  PROVE  CallsMove
BY DEF CallsMove, BlameInv, Threads

LEMMA TakeMoves ==
  ASSUME TypeOK, SockInv, BlameInv, NEW t \in Threads, NEW s \in Slots, NEW d \in Dsts,
         TakeSource(t, s, d), NEW v \in {"ping", "choose", "look"}, pc' = [pc EXCEPT ![t] = v],
         UNCHANGED <<sockGen, binding, todo, blamed>>
  PROVE  CallsMove
<1>1. /\ pc[t] = "idle" /\ pc'[t] = v /\ \A u \in Threads : u # t => pc'[u] = pc[u]
      /\ Senders \subseteq Threads
  BY DEF TypeOK, Threads, TakeSource
<1>2. src'[t] = [slot |-> s, gen |-> sockGen[s]] /\ \A u \in Threads : u # t => src'[u] = src[u]
  BY DEF TakeSource, rxMeta, TypeOK
<1>3. binding' = NoSlot /\ NoSlot \notin Slots
  BY ConstantsAssumption DEF TakeSource, SockInv, LockInv
<1>4. Current(t)' /\ binding' # src'[t].slot
  BY <1>2, <1>3 DEF Current
<1> QED BY <1>1, <1>2, <1>4 DEF CallsMove, BlameInv, Failing

\* A call fails; the UDP socket that is current is blamed, or there is none.
LEMMA FailMoves ==
  ASSUME TypeOK, BlameInv, NEW t \in Threads, NEW v \in PCs \ {"idle"},
         pc[t] # "idle", pc' = [pc EXCEPT ![t] = v], UNCHANGED <<src, todo>>,
         blamed \subseteq blamed',
         t \in Senders /\ v \in Failing =>
           (Current(t) /\ conn[src[t].slot] = "open" => Socket(src[t].slot) \in blamed)'
  PROVE  CallsMove
<1>1. /\ pc'[t] = v /\ v # "idle" /\ \A u \in Threads : u # t => pc'[u] = pc[u]
      /\ Senders \subseteq Threads
  BY DEF TypeOK, Threads
<1> QED BY <1>1 DEF CallsMove, BlameInv

LEMMA CallsStep == TypeOK /\ SockInv /\ BlameInv /\ [Next]_vars => CallsMove
<1> SUFFICES ASSUME TypeOK, SockInv, BlameInv, [Next]_vars PROVE CallsMove
  OBVIOUS
<1> USE DEF sockVars, threadVars, histVars
<1>a. Threads = Probes \cup Senders /\ Probes \cap Senders = {}
  BY ConstantsAssumption DEF Threads
<1>b. {"rotate", "bind", "drop", "look", "write", "forget", "sent", "failed", "done"}
        \subseteq PCs \ {"idle"}
  BY DEF PCs
<1>c. \A n \in Senders : todo[n] \subseteq {src[n]}
  BY DEF BlameInv
<1>1. ASSUME NEW t \in Threads, NEW r \in todo[t], RotateStale(t, r) PROVE CallsMove
  <2>1. pc[t] = "rotate" /\ UNCHANGED <<pc, src, blamed>>
        /\ \A u \in Threads : todo'[u] \subseteq todo[u]
    BY <1>1 DEF RotateStale, TypeOK
  <2> QED BY <1>a, <2>1 DEF CallsMove, BlameInv
<1>2. ASSUME NEW t \in Threads, NEW r \in todo[t], RotateStore(t, r) PROVE CallsMove
  <2>1. /\ pc[t] = "rotate" /\ pc' = [pc EXCEPT ![t] = "bind"] /\ UNCHANGED <<src, blamed>>
        /\ todo'[t] \subseteq todo[t] /\ \A u \in Threads : u # t => todo'[u] = todo[u]
    BY <1>2 DEF RotateStore, TypeOK
  <2> QED BY <1>b, <1>c, <2>1, CallMoves DEF Failing
<1>3. ASSUME NEW t \in Threads, RotateBind(t) \/ RotateDrop(t) \/ RotateEnd(t) PROVE CallsMove
  <2>1. /\ pc[t] \in Failing /\ pc[t] # "idle" /\ UNCHANGED <<src, todo, blamed>>
        /\ \E v \in {"drop", "rotate", "done", "forget", "look"} : pc' = [pc EXCEPT ![t] = v]
    BY <1>3 DEF RotateBind, RotateDrop, RotateEnd, Failing
  <2> QED BY <1>b, <1>c, <2>1, CallMoves
<1>4. ASSUME NEW t \in Threads, Look(t) PROVE CallsMove
  <2> DEFINE found == bound[src[t].slot] /\ src[t] = rxMeta(src[t].slot)
             v == IF found THEN "write" ELSE IF t \in Probes THEN "forget" ELSE "failed"
  <2>1. /\ pc[t] = "look" /\ pc' = [pc EXCEPT ![t] = v]
        /\ UNCHANGED <<src, todo, blamed, sockGen, conn, opened>>
    BY <1>4 DEF Look
  <2>2. src[t] \in Source /\ src[t].slot \in Slots
    BY DEF TypeOK, Source
  <2>3. ~found => ~Current(t) \/ conn[src[t].slot] # "open"
    BY <2>2 DEF BlameInv, Current, rxMeta, Source
  <2>4. v \in PCs \ {"idle"} /\ (v \in Failing => ~found)
    BY <1>b DEF Failing
  <2>5. (Current(t)' <=> Current(t)) /\ conn'[src'[t].slot] = conn[src[t].slot]
    BY <2>1 DEF Current
  <2> HIDE DEF found, v
  <2> QED BY <2>1, <2>3, <2>4, <2>5, FailMoves
<1>5. ASSUME NEW t \in Threads, WriteOk(t) PROVE CallsMove
  <2>1. /\ pc[t] = "write" /\ UNCHANGED <<src, todo, blamed>>
        /\ \E v \in {"done", "sent"} : pc' = [pc EXCEPT ![t] = v]
    BY <1>5 DEF WriteOk
  <2> QED BY <1>b, <1>c, <2>1, CallMoves DEF Failing
<1>6. ASSUME NEW t \in Threads, WriteFailed(t) PROVE CallsMove
  <2>1. /\ pc[t] = "write" /\ UNCHANGED <<src, todo, conn, opened>> /\ blamed \subseteq blamed'
        /\ \E v \in {"forget", "failed"} : pc' = [pc EXCEPT ![t] = v]
        /\ conn[src[t].slot] = "open" => Socket(src[t].slot) \in blamed'
    BY <1>6 DEF WriteFailed
  <2>2. Socket(src[t].slot)' = Socket(src[t].slot) /\ conn'[src'[t].slot] = conn[src[t].slot]
    BY <2>1 DEF Socket
  <2> QED BY <1>b, <2>1, <2>2, FailMoves
<1>7. ASSUME NEW p \in Probes, PingRefused(p) \/ Forget(p) PROVE CallsMove
  <2>1. /\ pc[p] # "idle" /\ UNCHANGED <<src, todo, blamed>> /\ pc' = [pc EXCEPT ![p] = "done"]
    BY <1>7 DEF PingRefused, Forget
  <2> QED BY <1>a, <1>b, <2>1, CallMoves
<1>8. ASSUME NEW p \in Probes, Ping(p) PROVE CallsMove
  <2>1. /\ pc[p] = "ping" /\ UNCHANGED <<src, blamed>>
        /\ \E v \in {"rotate", "done"} : pc' = [pc EXCEPT ![p] = v]
        /\ \A u \in Threads : u # p => todo'[u] = todo[u]
    BY <1>8 DEF Ping, TypeOK
  <2> QED BY <1>a, <1>b, <2>1, CallMoves
<1>9. ASSUME NEW n \in Senders, SendChoose(n) \/ SendSucceeded(n) \/ SingleSendFailed(n)
      PROVE  CallsMove
  <2>1. /\ pc[n] # "idle" /\ UNCHANGED <<src, todo, blamed>>
        /\ \E v \in {"done", "look"} : pc' = [pc EXCEPT ![n] = v]
    BY <1>9 DEF SendChoose, SendSucceeded, SingleSendFailed
  <2> QED BY <1>a, <1>b, <1>c, <2>1, CallMoves DEF Failing
<1>10. ASSUME NEW n \in Senders, DualSendFailed(n) PROVE CallsMove
  <2>1. /\ pc[n] = "failed" /\ UNCHANGED <<src, blamed>> /\ pc' = [pc EXCEPT ![n] = "rotate"]
        /\ todo'[n] = {src[n]} /\ \A u \in Threads : u # n => todo'[u] = todo[u]
    BY <1>10, <1>a DEF DualSendFailed, TypeOK
  <2> QED BY <1>a, <1>b, <2>1, CallMoves DEF Failing
<1>11. ASSUME NEW t \in Threads, NEW s \in Slots, NEW d \in Dsts,
              ProbeTick(t, s, d) \/ SendTake(t, s, d)
       PROVE  CallsMove
  <2>1. /\ TakeSource(t, s, d) /\ UNCHANGED <<sockGen, binding, todo, blamed>>
        /\ \E v \in {"ping", "choose", "look"} : pc' = [pc EXCEPT ![t] = v]
    BY <1>11 DEF ProbeTick, SendTake
  <2> QED BY <2>1, TakeMoves
<1>12. ASSUME NEW s \in Slots, Receiver(s) PROVE CallsMove
  BY <1>12, CallsStand DEF Receiver, Read, Stamp, HandlePong
<1>13. CASE RebindStart \/ LinkStep \/ BindClose \/ ConnClose \/ Tick
  BY <1>13, CallsStand
  DEF RebindStart, LinkStep, RebindStore, RebindBind, RebindEnd, BindClose, ConnClose, Tick
<1>14. CASE UNCHANGED vars
  BY <1>14, CallsStand DEF vars
<1> HIDE DEF sockVars, threadVars, histVars
<1> QED BY <1>a, <1>1, <1>2, <1>3, <1>4, <1>5, <1>6, <1>7, <1>8, <1>9, <1>10, <1>11, <1>12,
           <1>13, <1>14
    DEF Next, ProberStep, SenderStep, Rotate

\* Only the store of a rotation gives sourcePath.mu to a sender.
LEMMA SenderLocks ==
  ASSUME TypeOK, BlameInv, Next, NEW n \in Senders, NEW s \in Slots, spMu = Free, spMu' = n,
         binding' = s, conn[s] = "open"
  PROVE  Socket(s) \in blamed
<1> USE DEF sockVars
<1>a. /\ n # Free /\ n # Link /\ n \notin Probes /\ n \in Threads
  BY ConstantsAssumption DEF Threads
<1>1. \E r \in todo[n] : RotateStore(n, r)
  <2>1. ASSUME UNCHANGED spMu PROVE FALSE
    BY <1>a, <2>1
  <2>2. ASSUME NEW t, Rotate(t) \/ Look(t) \/ WriteOk(t) \/ WriteFailed(t)
        PROVE  \E r \in todo[n] : RotateStore(n, r)
    BY <1>a, <2>1, <2>2
    DEF Rotate, RotateStale, RotateStore, RotateBind, RotateDrop, RotateEnd, Look, WriteOk,
        WriteFailed
  <2>3. ASSUME NEW p \in Probes, ProberStep(p) PROVE \E r \in todo[n] : RotateStore(n, r)
    BY <2>1, <2>2, <2>3 DEF ProberStep, PingRefused, Ping, Forget
  <2>4. ASSUME NEW m \in Senders, SenderStep(m) PROVE \E r \in todo[n] : RotateStore(n, r)
    BY <2>1, <2>2, <2>4
    DEF SenderStep, SendChoose, SendSucceeded, DualSendFailed, SingleSendFailed
  <2>5. ASSUME NEW u \in Slots, Receiver(u) PROVE FALSE
    BY <2>1, <2>5 DEF Receiver, Read, Stamp, HandlePong
  <2>6. ASSUME NEW t, NEW u \in Slots, NEW d \in Dsts, ProbeTick(t, u, d) \/ SendTake(t, u, d)
        PROVE  FALSE
    BY <2>1, <2>6 DEF ProbeTick, SendTake
  <2>7. ASSUME RebindStart \/ LinkStep \/ BindClose \/ ConnClose \/ Tick PROVE FALSE
    BY <1>a, <2>1, <2>7
    DEF RebindStart, LinkStep, RebindStore, RebindBind, RebindEnd, BindClose, ConnClose,
        CloseSockets, Tick
  <2> QED BY <2>3, <2>4, <2>5, <2>6, <2>7 DEF Next
<1>2. PICK r \in todo[n] : RotateStore(n, r)
  BY <1>1
<1>3. r = src[n] /\ pc[n] = "rotate" /\ r.slot = s /\ r.gen = sockGen[r.slot]
  BY <1>2 DEF RotateStore, StoreGeneration, rxMeta, BlameInv
<1>4. Current(n) /\ src[n].slot = s
  BY <1>3 DEF Current
<1> QED BY <1>3, <1>4 DEF BlameInv, Failing

\* Of two senders that fail on one UDP socket the second finds the source replaced, in
\* rebindSourcePathSocket, and leaves the new socket alone.
THEOREM RotatesOnlyBlamed == Spec => OnlyBlamedSocketsRotated
<1> DEFINE IInv == TypeInv /\ SockInv /\ BlameInv
<1>1. Init => IInv
  BY TypeInit, SockInit, BlameInit
<1>2. IInv /\ [Next]_vars => IInv'
  <2> SUFFICES ASSUME IInv, [Next]_vars PROVE IInv'
    OBVIOUS
  <2>1. TypeInv' /\ SockInv'
    BY TypeStep, SockStep DEF TypeInv
  <2>2. BlameInv'
    BY <2>1, SocketsStep, CallsStep, BlameMoves DEF TypeInv
  <2> QED BY <2>1, <2>2
<1>3. ASSUME IInv, [Next]_vars
      PROVE  [\A n \in Senders, s \in Slots :
                spMu = Free /\ spMu' = n /\ binding' = s /\ conn[s] = "open"
                  => Socket(s) \in blamed]_vars
  <2>1. CASE UNCHANGED vars
    BY <2>1
  <2>2. CASE Next
    BY <1>3, <2>2, SenderLocks DEF TypeInv
  <2> QED BY <1>3, <2>1, <2>2
<1> HIDE DEF IInv
<1> QED BY <1>1, <1>2, <1>3, PTL DEF Spec, OnlyBlamedSocketsRotated
=============================================================================
