------------------------------ MODULE SourcePath ------------------------------
(****************************************************************************)
(* The auxiliary UDP sockets of magicsock's source-path selection, the       *)
(* probe manager that collects evidence about them, and every goroutine that *)
(* touches them: the source-path probe goroutines, the senders of            *)
(* data, the receive loop of each auxiliary socket, a link change that       *)
(* re-binds all sockets, and the shutdown of the Conn.                       *)
(*                                                                          *)
(* Granularity.  One action is one critical section of Conn.mu or of         *)
(* sourcePath.mu, or one access to an atomic (a socket's generation, a       *)
(* RebindingUDPConn's pconn) made outside of them.  Conn.mu is never held    *)
(* between two actions; sourcePath.mu is (spMu), while a socket is re-bound, *)
(* because the receive loops read a socket's generation without it.          *)
(*                                                                          *)
(* One address family is modelled: aux4 and extraAux4, or aux6 and           *)
(* extraAux6.  The knobs that the code reads from the environment are        *)
(* constants, and at least one auxiliary socket is configured.               *)
(****************************************************************************)
EXTENDS Naturals, FiniteSets, Sequences

CONSTANTS
  Slots,            \* the auxiliary sockets (SourceSocketIDs other than 0)
  Dsts,             \* direct peer addresses that are probed and sent to
  Peers,            \* disco keys of the peers
  PeerOf,           \* the disco key that an address is probed under
  Probes,           \* transaction IDs; each is one sendSourcePathDiscoPing call
  Senders,          \* calls that send a batch of data through a source
  Free,             \* the value of spMu when nobody holds sourcePath.mu
  Link,             \* whoever runs Conn.Rebind (a link change, say)
  NoSlot,           \* no socket is between its generation store and its bind
  PingTimeout,      \* pingTimeoutDuration
  SampleTTL,        \* sourcePathSampleTTLValue
  LossWindow,       \* sourcePathLossWindowValue
  Recovery,         \* sourcePathDualSendRecoveryValue
  MaxPeers,         \* sourcePathProbeMaxPeerCount, 0 for no limit
  MaxBurst,         \* sourcePathProbeMaxBurstCount
  HardCap,          \* sourcePathProbeHardPendingCount
  SampleLimit,      \* sourcePathProbeSampleLimitCount
  OutcomeLimit,     \* sourcePathProbeOutcomeLimitCount
  ProbeDropStreak,  \* sourcePathDualSendAuxProbeDropStreakValue
  MaxRebinds,       \* bound: calls of Conn.Rebind explored
  MaxNow            \* bound: clock ticks explored

Threads == Probes \cup Senders

ASSUME ConstantsAssumption ==
  /\ Slots # {} /\ Dsts # {} /\ Probes # {}
  /\ PeerOf \in [Dsts -> Peers]
  /\ Probes \cap Senders = {}
  /\ Free \notin Threads \cup {Link}
  /\ Link \notin Threads
  /\ NoSlot \notin Slots
  /\ PingTimeout \in Nat \ {0} /\ SampleTTL \in Nat /\ LossWindow \in Nat
  /\ Recovery \in Nat
  /\ MaxPeers \in Nat /\ MaxBurst \in Nat \ {0} /\ HardCap \in Nat \ {0}
  /\ SampleLimit \in Nat \ {0} /\ OutcomeLimit \in Nat \ {0}
  /\ ProbeDropStreak \in Nat \ {0}
  /\ MaxRebinds \in Nat /\ MaxNow \in Nat

\* sourceRxMeta of an auxiliary socket: which socket, under which generation.
Source == [slot : Slots, gen : Nat]

\* sourcePathDualSendKey.
Key == [dst : Dsts, source : Source]

VARIABLES
  closed,       \* Conn.closed
  now,          \* mono.Now(), in ticks
  \* sourcePathState
  spMu,         \* who holds sourcePath.mu over more than one action
  generation,   \* sourcePath.generation
  sockGen,      \* the generation stored in each sourcePathSocket
  bound,        \* aux4Bound, extra4Bound[i]
  conn,         \* the socket's pconn: "open" UDP socket, "closed", "blocked"
  binding,      \* the slot whose generation is stored and bind is to come
  rebindTodo,   \* slots a running rebindSourcePathSockets has still to visit
  rebinds,      \* calls of Conn.Rebind so far
  \* sourcePathProbeManager
  pending, samples, outcomes, probeLoss, demotedTill,
  \* goroutines
  pc, src, dst, todo,
  rotating,     \* the source a thread is rotating
  rotatedSelf,  \* rotatedCurrentSource of a probe goroutine
  rx,           \* the receive loop of each auxiliary socket
  \* the network, and history that only the properties read
  wire,         \* probes that left, each with the UDP socket it left from
  opened,       \* generation under which each UDP socket of a slot was opened
  dropped,      \* sources whose evidence a finished rotation has dropped
  blamed,       \* UDP sockets on which a write has failed
  offUntil,     \* when the last demotion of an address is due to end
  answered      \* probes whose Pong was accepted

sockVars  == <<spMu, generation, sockGen, bound, conn, binding, rebindTodo,
              rebinds, opened>>
probeVars == <<pending, samples, outcomes, probeLoss, demotedTill, dropped>>
threadVars == <<pc, src, dst, todo, rotating, rotatedSelf>>
histVars == <<blamed, offUntil, answered>>
vars == <<closed, now, sockVars, probeVars, threadVars, rx, wire, histVars>>

\* sourcePathSocket.rxMeta: the two atomics, read without a lock.
rxMeta(s) == [slot |-> s, gen |-> sockGen[s]]

\* The key of a source at an address.
KeyOf(d, r) == [dst |-> d, source |-> r]

\* The i-th UDP socket that was opened for a slot; the current one is the last.
Socket(s) == [slot |-> s, idx |-> Len(opened[s])]

-----------------------------------------------------------------------------
(* sourcePathProbeManager: what its methods compute, under Conn.mu.          *)

\* keep is what is left of S once it is cut down to its newest n entries.
TrimmedTo(keep, S, n) ==
  /\ keep \subseteq S
  /\ IF Cardinality(S) <= n
       THEN keep = S
       ELSE /\ Cardinality(keep) = n
            /\ \A x \in keep, y \in S \ keep : x.at >= y.at

\* noteOutcomeLocked for every element of new: append, prune, enforce the cap.
NoteOutcomes(new) ==
  LET recent == {o \in outcomes \cup new : now - o.at <= LossWindow}
  IN  \E keep \in SUBSET recent :
        TrimmedTo(keep, recent, OutcomeLimit) /\ outcomes' = keep

OutcomeOf(tx, wasLost) ==
  [tx |-> tx.tx, dst |-> tx.dst, source |-> tx.source, at |-> now, lost |-> wasLost]

\* The pending probes that pruneExpiredLocked takes out.
Expired == {x \in pending : now - x.at >= PingTimeout}

\* hasRecentSampleLocked.
HasRecentSample(d, r) ==
  \E x \in samples : x.dst = d /\ x.source = r /\ now - x.at <= SampleTTL

\* noteProbeExpirationsLocked: losses count against a pair that once answered,
\* and wrap to zero when they reach the threshold.
Losses(k) ==
  Cardinality({x \in Expired : KeyOf(x.dst, x.source) = k /\ HasRecentSample(x.dst, x.source)})

LossStreak(k) == (IF k \in DOMAIN probeLoss THEN probeLoss[k] ELSE 0) + Losses(k)

LossKeys == DOMAIN probeLoss \cup {KeyOf(x.dst, x.source) : x \in Expired}

\* Variant: the streak is not reset when it reaches the threshold.
LossStreaksNotReset == [k \in {j \in LossKeys : LossStreak(j) # 0} |-> LossStreak(k)]

LossStreaksAfter ==
  [k \in {j \in LossKeys : LossStreak(j) % ProbeDropStreak # 0}
     |-> LossStreak(k) % ProbeDropStreak]

\* The sources that noteProbeExpirationsLocked asks to have rotated.
Rotations == {k.source : k \in {j \in LossKeys : LossStreak(j) >= ProbeDropStreak}}

\* Variant: the limits are off by one.
HasBudgetOffByOne(live, peer) ==
  /\ Cardinality(live) <= HardCap
  /\ Cardinality({x \in live : x.peer = peer}) <= MaxBurst

\* addWithBudgetLocked accepts one more probe of peer beside the probes live.
HasBudget(live, peer) ==
  /\ Cardinality(live) < HardCap
  /\ MaxPeers > 0 =>
       \/ \E x \in live : x.peer = peer
       \/ Cardinality({x.peer : x \in live}) < MaxPeers
  /\ Cardinality({x \in live : x.peer = peer}) < MaxBurst

\* What is left of a map after its keys in K are deleted.
Without(f, K) == [k \in DOMAIN f \ K |-> f[k]]

KeysOfSource(f, r) == {k \in DOMAIN f : k.source = r}

\* Variant: probes still pending are not dropped.
DropSourceKeepsPending(r) ==
  /\ samples' = {x \in samples : x.source # r}
  /\ outcomes' = {x \in outcomes : x.source # r}
  /\ probeLoss' = Without(probeLoss, KeysOfSource(probeLoss, r))
  /\ demotedTill' = Without(demotedTill, KeysOfSource(demotedTill, r))
  /\ dropped' = dropped \cup {r}
  /\ UNCHANGED pending

\* dropSourceLocked.
DropSource(r) ==
  /\ samples' = {x \in samples : x.source # r}
  /\ outcomes' = {x \in outcomes : x.source # r}
  /\ pending' = {x \in pending : x.source # r}
  /\ probeLoss' = Without(probeLoss, KeysOfSource(probeLoss, r))
  /\ demotedTill' = Without(demotedTill, KeysOfSource(demotedTill, r))
  /\ dropped' = dropped \cup {r}

-----------------------------------------------------------------------------
(* sourcePathState: binding a socket, with sourcePath.mu held.               *)

\* bindSourcePathSocketLocked closes the old UDP socket and opens a new one;
\* if that fails, setSourcePathBlockForeverLocked puts a stand-in in its place.
BindOk(s) ==
  /\ conn' = [conn EXCEPT ![s] = "open"]
  /\ bound' = [bound EXCEPT ![s] = TRUE]
  /\ opened' = [opened EXCEPT ![s] = Append(@, sockGen[s])]
  /\ binding' = NoSlot

BindFailed(s) ==
  /\ conn' = [conn EXCEPT ![s] = "blocked"]
  /\ bound' = [bound EXCEPT ![s] = FALSE]
  /\ binding' = NoSlot
  /\ UNCHANGED opened

\* The generation is stored before the bind, so a reader of the new UDP socket
\* can never see the old generation.
StoreGeneration(s, g) ==
  /\ sockGen' = [sockGen EXCEPT ![s] = g]
  /\ binding' = s

\* closeSourcePathSockets: generations stay.  A closed stand-in still swallows
\* writes.
CloseSockets ==
  /\ bound' = [s \in Slots |-> FALSE]
  /\ conn' = [s \in Slots |-> IF conn[s] = "open" THEN "closed" ELSE conn[s]]
  /\ UNCHANGED <<spMu, generation, sockGen, binding, rebindTodo, rebinds,
                 opened>>

\* rebindSourcePathSockets, called by Conn.Rebind: on a link change, on a send error,
\* and by updateEndpoints.  Nothing here looks at closed.
RebindStart ==
  /\ spMu = Free
  /\ rebinds < MaxRebinds
  /\ rebinds' = rebinds + 1
  /\ spMu' = Link
  /\ generation' = generation + 1
  /\ rebindTodo' = Slots
  /\ UNCHANGED <<closed, now, sockGen, bound, conn, binding, opened,
                 probeVars, threadVars, rx, wire, histVars>>

\* bindSourcePathSocketFamilyLocked, one socket: the store ...
RebindStore(s) ==
  /\ spMu = Link
  /\ binding = NoSlot
  /\ s \in rebindTodo
  /\ StoreGeneration(s, generation)
  /\ rebindTodo' = rebindTodo \ {s}
  /\ UNCHANGED <<closed, now, spMu, generation, bound, conn, rebinds, opened,
                 probeVars, threadVars, rx, wire, histVars>>

\* ... and the bind.
RebindBind ==
  /\ spMu = Link
  /\ binding # NoSlot
  /\ BindOk(binding) \/ BindFailed(binding)
  /\ UNCHANGED <<closed, now, spMu, generation, sockGen, rebindTodo,
                 rebinds, probeVars, threadVars, rx, wire, histVars>>

RebindEnd ==
  /\ spMu = Link
  /\ binding = NoSlot
  /\ rebindTodo = {}
  /\ spMu' = Free
  /\ UNCHANGED <<closed, now, generation, sockGen, bound, conn, binding,
                 rebindTodo, rebinds, opened, probeVars, threadVars, rx, wire, histVars>>

\* connBind.Close: wireguard-go takes the bind down; the Conn lives on.
BindClose ==
  /\ spMu = Free
  /\ \E s \in Slots : bound[s]
  /\ CloseSockets
  /\ UNCHANGED <<closed, now, probeVars, threadVars, rx, wire, histVars>>

\* Conn.Close: closed, closeSourcePathSockets and clearLocked under Conn.mu.
ConnClose ==
  /\ ~closed
  /\ spMu = Free
  /\ closed' = TRUE
  /\ CloseSockets
  /\ pending' = {} /\ samples' = {} /\ outcomes' = {}
  /\ probeLoss' = << >> /\ demotedTill' = << >>
  /\ UNCHANGED <<now, dropped, threadVars, rx, wire, histVars>>

-----------------------------------------------------------------------------
(* rotateSourcePathAuxSocket, run by a thread for each source in todo.       *)

\* rebindSourcePathSocket takes sourcePath.mu.  If the source is no longer the
\* socket's current one, somebody else has re-bound it: nothing to do.
RotateStale(t, r) ==
  /\ pc[t] = "rotate"
  /\ r \in todo[t]
  /\ spMu = Free
  /\ r # rxMeta(r.slot)
  /\ todo' = [todo EXCEPT ![t] = @ \ {r}]
  /\ UNCHANGED <<closed, now, sockVars, probeVars, pc, src, dst,
                 rotating, rotatedSelf, rx, wire, histVars>>

\* Variant: the source is not compared with the socket's current one.
RotateStoreUnchecked(t, r) ==
  /\ pc[t] = "rotate"
  /\ r \in todo[t]
  /\ spMu = Free
  /\ generation' = generation + 1
  /\ StoreGeneration(r.slot, generation + 1)
  /\ spMu' = t
  /\ todo' = [todo EXCEPT ![t] = @ \ {r}]
  /\ rotating' = [rotating EXCEPT ![t] = r]
  /\ pc' = [pc EXCEPT ![t] = "bind"]
  /\ UNCHANGED <<closed, now, bound, conn, rebindTodo, rebinds, opened, probeVars,
                 src, dst, rotatedSelf, rx, wire, histVars>>

RotateStore(t, r) ==
  /\ pc[t] = "rotate"
  /\ r \in todo[t]
  /\ spMu = Free
  /\ r = rxMeta(r.slot)
  /\ generation' = generation + 1
  /\ StoreGeneration(r.slot, generation + 1)
  /\ spMu' = t
  /\ todo' = [todo EXCEPT ![t] = @ \ {r}]
  /\ rotating' = [rotating EXCEPT ![t] = r]
  /\ pc' = [pc EXCEPT ![t] = "bind"]
  /\ UNCHANGED <<closed, now, bound, conn, rebindTodo, rebinds, opened, probeVars,
                 src, dst, rotatedSelf, rx, wire, histVars>>

\* Variant: the error return does not release sourcePath.mu.
RotateBindKeepsLock(t) ==
  /\ pc[t] = "bind"
  /\ \/ BindOk(rotating[t].slot) /\ pc' = [pc EXCEPT ![t] = "drop"] /\ spMu' = Free
     \/ BindFailed(rotating[t].slot) /\ pc' = [pc EXCEPT ![t] = "rotate"] /\ spMu' = spMu
  /\ UNCHANGED <<closed, now, generation, sockGen, rebindTodo, rebinds, probeVars,
                 src, dst, todo, rotating, rotatedSelf, rx, wire, histVars>>

\* The bind ends rebindSourcePathSocket.  Only a successful one is followed by
\* dropSourceLocked: after a failure the old source keeps its evidence.
RotateBind(t) ==
  /\ pc[t] = "bind"
  /\ \/ BindOk(rotating[t].slot) /\ pc' = [pc EXCEPT ![t] = "drop"]
     \/ BindFailed(rotating[t].slot) /\ pc' = [pc EXCEPT ![t] = "rotate"]
  /\ spMu' = Free
  /\ UNCHANGED <<closed, now, generation, sockGen, rebindTodo, rebinds, probeVars,
                 src, dst, todo, rotating, rotatedSelf, rx, wire, histVars>>

RotateDrop(t) ==
  /\ pc[t] = "drop"
  /\ DropSource(rotating[t])
  /\ pc' = [pc EXCEPT ![t] = "rotate"]
  /\ UNCHANGED <<closed, now, sockVars, src, dst, todo, rotating, rotatedSelf,
                 rx, wire, histVars>>

\* All rotations done.  A probe whose own source was among them is given up.
RotateEnd(t) ==
  /\ pc[t] = "rotate"
  /\ todo[t] = {}
  /\ pc' = [pc EXCEPT ![t] = IF t \in Senders THEN "done"
                             ELSE IF rotatedSelf[t] THEN "forget" ELSE "look"]
  /\ UNCHANGED <<closed, now, sockVars, probeVars, src, dst, todo, rotating,
                 rotatedSelf, rx, wire, histVars>>

-----------------------------------------------------------------------------
(* sourcePathWriteTo and sourcePathWriteWireGuardBatchTo.                    *)

\* sourcePathProbeSources, one of its elements: what a probe tick or a sender
\* takes as the source to use, long before it uses it.
TakeSource(t, s, d) ==
  /\ pc[t] = "idle"
  /\ spMu = Free
  /\ bound[s]
  /\ src' = [src EXCEPT ![t] = rxMeta(s)]
  /\ dst' = [dst EXCEPT ![t] = d]

\* The socket is looked up under sourcePath.mu: bound, and the very source.
Look(t) ==
  /\ pc[t] = "look"
  /\ spMu = Free
  /\ LET found == bound[src[t].slot] /\ src[t] = rxMeta(src[t].slot)
     IN  pc' = [pc EXCEPT ![t] = IF found THEN "write"
                                 ELSE IF t \in Probes THEN "forget" ELSE "failed"]
  /\ UNCHANGED <<closed, now, sockVars, probeVars, src, dst, todo, rotating,
                 rotatedSelf, rx, wire, histVars>>

\* The write happens after the unlock, on whatever the socket's pconn is by
\* then: RebindingUDPConn retries on the new pconn when it lost the old one.
WriteOk(t) ==
  /\ pc[t] = "write"
  /\ conn[src[t].slot] # "closed"
  /\ wire' = IF t \in Probes /\ conn[src[t].slot] = "open"
               THEN wire \cup {[tx |-> t, via |-> Socket(src[t].slot)]}
               ELSE wire
  /\ pc' = [pc EXCEPT ![t] = IF t \in Probes THEN "done" ELSE "sent"]
  /\ UNCHANGED <<closed, now, sockVars, probeVars, src, dst, todo, rotating,
                 rotatedSelf, rx, histVars>>

WriteFailed(t) ==
  /\ pc[t] = "write"
  /\ conn[src[t].slot] # "blocked"
  /\ pc' = [pc EXCEPT ![t] = IF t \in Probes THEN "forget" ELSE "failed"]
  /\ blamed' = IF conn[src[t].slot] = "open" THEN blamed \cup {Socket(src[t].slot)}
                                             ELSE blamed
  /\ UNCHANGED <<closed, now, sockVars, probeVars, src, dst, todo, rotating,
                 rotatedSelf, rx, wire, offUntil, answered>>

-----------------------------------------------------------------------------
(* sendSourcePathProbeTick and sendSourcePathDiscoPing.                      *)

\* The tick looks at closed and at the sources in two critical sections, so the
\* goroutine it starts may find the Conn closed.
ProbeTick(p, s, d) ==
  /\ TakeSource(p, s, d)
  /\ pc' = [pc EXCEPT ![p] = "ping"]
  /\ UNCHANGED <<closed, now, sockVars, probeVars, todo, rotating, rotatedSelf,
                 rx, wire, histVars>>

\* The Conn is closed, or the peer is no longer known.
PingRefused(p) ==
  /\ pc[p] = "ping"
  /\ pc' = [pc EXCEPT ![p] = "done"]
  /\ UNCHANGED <<closed, now, sockVars, probeVars, src, dst, todo, rotating,
                 rotatedSelf, rx, wire, histVars>>

\* Variant: the probe is added although the Conn is closed.
PingWhenClosed(p) ==
  /\ pc[p] = "ping"
  /\ pending' = pending \cup {[tx |-> p, dst |-> dst[p], peer |-> PeerOf[dst[p]],
                               source |-> src[p], at |-> now]}
  /\ pc' = [pc EXCEPT ![p] = "rotate"]
  /\ UNCHANGED <<closed, now, sockVars, samples, outcomes, probeLoss, demotedTill,
                 dropped, src, dst, todo, rotating, rotatedSelf, rx, wire, histVars>>

\* The critical section of sendSourcePathDiscoPing: expire old probes, count
\* their losses, then add this one.  When the budget refuses it, the function
\* returns before it comes to the rotations.
Ping(p) ==
  /\ pc[p] = "ping"
  /\ ~closed
  /\ NoteOutcomes({OutcomeOf(x, TRUE) : x \in Expired})
  /\ probeLoss' = LossStreaksAfter
  /\ LET live == pending \ Expired
         probe == [tx |-> p, dst |-> dst[p], peer |-> PeerOf[dst[p]],
                   source |-> src[p], at |-> now]
     IN  \/ /\ HasBudget(live, PeerOf[dst[p]])
            /\ pending' = live \cup {probe}
            /\ todo' = [todo EXCEPT ![p] = Rotations]
            /\ rotatedSelf' = [rotatedSelf EXCEPT ![p] = src[p] \in Rotations]
            /\ pc' = [pc EXCEPT ![p] = "rotate"]
         \/ /\ ~HasBudget(live, PeerOf[dst[p]])
            /\ pending' = live
            /\ pc' = [pc EXCEPT ![p] = "done"]
            /\ UNCHANGED <<todo, rotatedSelf>>
  /\ UNCHANGED <<closed, now, sockVars, samples, demotedTill, dropped, src, dst,
                 rotating, rx, wire, histVars>>

\* forgetLocked, after a failed write or a rotation of the probe's own source.
Forget(p) ==
  /\ pc[p] = "forget"
  /\ pending' = {x \in pending : x.tx # p}
  /\ pc' = [pc EXCEPT ![p] = "done"]
  /\ UNCHANGED <<closed, now, sockVars, samples, outcomes, probeLoss,
                 demotedTill, dropped, src, dst, todo, rotating, rotatedSelf,
                 rx, wire, histVars>>

-----------------------------------------------------------------------------
(* Data sent through an auxiliary source.                                    *)

\* Which bookkeeping a send does depends on the strategy in force, dual-send or
\* single-source; only dual-send asks whether the pair is demoted.
SendTake(n, s, d) ==
  /\ TakeSource(n, s, d)
  /\ \E step \in {"choose", "look"} : pc' = [pc EXCEPT ![n] = step]
  /\ UNCHANGED <<closed, now, sockVars, probeVars, todo, rotating, rotatedSelf,
                 rx, wire, histVars>>

\* dualSendDemotedLocked: a demoted pair is not used until its time is over.
Demoted(k) == k \in DOMAIN demotedTill /\ now < demotedTill[k]

SendChoose(n) ==
  /\ pc[n] = "choose"
  /\ LET k == KeyOf(dst[n], src[n])
     IN  /\ pc' = [pc EXCEPT ![n] = IF Demoted(k) THEN "done" ELSE "look"]
         /\ demotedTill' = IF Demoted(k) THEN demotedTill
                                         ELSE Without(demotedTill, {k})
  /\ UNCHANGED <<closed, now, sockVars, pending, samples, outcomes, probeLoss,
                 dropped, src, dst, todo, rotating, rotatedSelf, rx, wire, histVars>>

\* noteSourcePathDualSendAuxSuccess; a single-source send notes nothing.
SendSucceeded(n) ==
  /\ pc[n] = "sent"
  /\ probeLoss' \in {probeLoss, Without(probeLoss, {KeyOf(dst[n], src[n])})}
  /\ pc' = [pc EXCEPT ![n] = "done"]
  /\ UNCHANGED <<closed, now, sockVars, pending, samples, outcomes, demotedTill,
                 dropped, src, dst, todo, rotating, rotatedSelf, rx, wire, histVars>>

\* noteSourcePathDualSendAuxFailure.  Its callers pass the send error, so the
\* failure streak it counts is deleted where it is made and every failure
\* rotates.
DualSendFailed(n) ==
  /\ pc[n] = "failed"
  /\ LET k == KeyOf(dst[n], src[n])
     IN  demotedTill' = [j \in DOMAIN demotedTill \cup {k} |->
                           IF j = k THEN now + Recovery ELSE demotedTill[j]]
  /\ offUntil' = [offUntil EXCEPT ![dst[n]] = now + Recovery]
  /\ todo' = [todo EXCEPT ![n] = {src[n]}]
  /\ pc' = [pc EXCEPT ![n] = "rotate"]
  /\ UNCHANGED <<closed, now, sockVars, pending, samples, outcomes, probeLoss,
                 dropped, src, dst, rotating, rotatedSelf, rx, wire, blamed,
                 answered>>

\* noteSourcePathSendFailure, under the single-source strategies.
SingleSendFailed(n) ==
  /\ pc[n] = "failed"
  /\ samples' = {x \in samples : ~(x.dst = dst[n] /\ x.source = src[n])}
  /\ pc' = [pc EXCEPT ![n] = "done"]
  /\ UNCHANGED <<closed, now, sockVars, pending, outcomes, probeLoss,
                 demotedTill, dropped, src, dst, todo, rotating, rotatedSelf,
                 rx, wire, histVars>>

-----------------------------------------------------------------------------
(* mkReceiveFuncWithSource for an auxiliary socket.                          *)

\* ReadBatch returns a Pong.  The peer answers to the address the probe came
\* from, any number of times, at any time, or never.
Read(s, m, sender) ==
  /\ rx[s].st = "wait"
  /\ conn[s] = "open"
  /\ m \in wire
  /\ m.via = Socket(s)
  /\ rx' = [rx EXCEPT ![s] = [@ EXCEPT !.st = "read", !.tx = m.tx,
                                       !.via = m.via, !.sender = sender]]
  /\ UNCHANGED <<closed, now, sockVars, probeVars, threadVars, wire, histVars>>

\* rxMeta() is evaluated once the packet is out of the UDP socket.
Stamp(s) ==
  /\ rx[s].st = "read"
  /\ rx' = [rx EXCEPT ![s] = [@ EXCEPT !.st = "stamped", !.meta = rxMeta(s)]]
  /\ UNCHANGED <<closed, now, sockVars, probeVars, threadVars, wire, histVars>>

\* handleDiscoMessage and handlePongLocked.
Matching(s) == {x \in pending : x.tx = rx[s].tx}

\* Variant: the Pong's source is not compared with the probe's.
AnsweredAnySource(s, x) == now - x.at < PingTimeout /\ x.peer = rx[s].sender

Answered(s, x) ==
  /\ now - x.at < PingTimeout
  /\ x.source = rx[s].meta
  /\ x.peer = rx[s].sender

PongExpired(s, x) ==
  /\ now - x.at >= PingTimeout
  /\ pending' = pending \ {x}
  /\ NoteOutcomes({OutcomeOf(x, TRUE)})
  /\ UNCHANGED <<samples, probeLoss, answered>>

\* Variant: the probe stays pending, and a duplicate Pong finds it again.
PongAcceptedKeepsPending(s, x) ==
  /\ Answered(s, x)
  /\ NoteOutcomes({OutcomeOf(x, FALSE)})
  /\ probeLoss' = Without(probeLoss, {KeyOf(x.dst, x.source)})
  /\ answered' = answered \cup {x.tx}
  /\ samples' = samples \cup {[tx |-> x.tx, dst |-> x.dst, source |-> rx[s].meta,
                               at |-> now, via |-> rx[s].via]}
  /\ UNCHANGED pending

PongAccepted(s, x) ==
  /\ Answered(s, x)
  /\ pending' = pending \ {x}
  /\ NoteOutcomes({OutcomeOf(x, FALSE)})
  /\ probeLoss' = Without(probeLoss, {KeyOf(x.dst, x.source)})
  /\ answered' = answered \cup {x.tx}
  /\ LET sample == [tx |-> x.tx, dst |-> x.dst, source |-> rx[s].meta,
                    at |-> now, via |-> rx[s].via]
         fresh == {y \in samples : now - y.at <= SampleTTL} \cup {sample}
     IN  \E keep \in SUBSET fresh :
           TrimmedTo(keep, fresh, SampleLimit) /\ samples' = keep

PongIgnored(s) ==
  /\ closed \/ \A x \in Matching(s) : now - x.at < PingTimeout /\ ~Answered(s, x)
  /\ UNCHANGED <<pending, samples, outcomes, probeLoss, answered>>

HandlePong(s) ==
  /\ rx[s].st = "stamped"
  /\ \/ PongIgnored(s)
     \/ ~closed /\ \E x \in Matching(s) : PongExpired(s, x) \/ PongAccepted(s, x)
  /\ rx' = [rx EXCEPT ![s] = [@ EXCEPT !.st = "wait"]]
  /\ UNCHANGED <<closed, now, sockVars, demotedTill, dropped, threadVars, wire,
                 blamed, offUntil>>

-----------------------------------------------------------------------------
Tick ==
  /\ now < MaxNow
  /\ now' = now + 1
  /\ UNCHANGED <<closed, sockVars, probeVars, threadVars, rx, wire, histVars>>

\* NewConn, before its first rebind.  Locals hold values nobody reads yet.
Init ==
  /\ closed = FALSE /\ now = 0
  /\ spMu = Free /\ generation = 0
  /\ sockGen = [s \in Slots |-> 0]
  /\ bound = [s \in Slots |-> FALSE]
  /\ conn = [s \in Slots |-> "blocked"]
  /\ binding = NoSlot /\ rebindTodo = {} /\ rebinds = 0
  /\ opened = [s \in Slots |-> << >>]
  /\ pending = {} /\ samples = {} /\ outcomes = {}
  /\ probeLoss = << >> /\ demotedTill = << >>
  /\ dropped = {}
  /\ pc = [t \in Threads |-> "idle"]
  /\ src = [t \in Threads |-> [slot |-> CHOOSE s \in Slots : TRUE, gen |-> 0]]
  /\ rotating = src
  /\ dst = [t \in Threads |-> CHOOSE d \in Dsts : TRUE]
  /\ todo = [t \in Threads |-> {}]
  /\ rotatedSelf = [t \in Threads |-> FALSE]
  /\ rx = [s \in Slots |->
             [st |-> "wait", tx |-> CHOOSE p \in Probes : TRUE,
              sender |-> CHOOSE q \in Peers : TRUE,
              via |-> [slot |-> s, idx |-> 0], meta |-> [slot |-> s, gen |-> 0]]]
  /\ wire = {} /\ blamed = {} /\ answered = {}
  /\ offUntil = [d \in Dsts |-> 0]

Rotate(t) ==
  \/ \E r \in todo[t] : RotateStale(t, r) \/ RotateStore(t, r)
  \/ RotateBind(t) \/ RotateDrop(t) \/ RotateEnd(t)

\* The steps that a call takes once it has begun.
ProberStep(p) ==
  \/ PingRefused(p) \/ Ping(p) \/ Forget(p)
  \/ Rotate(p) \/ Look(p) \/ WriteOk(p) \/ WriteFailed(p)

SenderStep(n) ==
  \/ SendChoose(n) \/ SendSucceeded(n) \/ DualSendFailed(n) \/ SingleSendFailed(n)
  \/ Rotate(n) \/ Look(n) \/ WriteOk(n) \/ WriteFailed(n)

Receiver(s) ==
  \/ \E m \in wire, q \in Peers : Read(s, m, q)
  \/ Stamp(s) \/ HandlePong(s)

LinkStep ==
  \/ RebindBind \/ RebindEnd
  \/ \E s \in Slots : RebindStore(s)

Next ==
  \/ \E s \in Slots, d \in Dsts :
       \/ \E p \in Probes : ProbeTick(p, s, d)
       \/ \E n \in Senders : SendTake(n, s, d)
  \/ \E p \in Probes : ProberStep(p)
  \/ \E n \in Senders : SenderStep(n)
  \/ \E s \in Slots : Receiver(s)
  \/ RebindStart \/ LinkStep \/ BindClose \/ ConnClose \/ Tick

Spec == Init /\ [][Next]_vars

\* The Go scheduler runs every goroutine that can run, and a bind returns.
Fairness ==
  /\ \A p \in Probes : WF_vars(ProberStep(p))
  /\ \A n \in Senders : WF_vars(SenderStep(n))
  /\ WF_vars(LinkStep)

FairSpec == Spec /\ Fairness

-----------------------------------------------------------------------------
(* What is promised.                                                         *)

UdpSocket == [slot : Slots, idx : Nat]
Tx == [tx : Probes, dst : Dsts, peer : Peers, source : Source, at : Nat]
Sample == [tx : Probes, dst : Dsts, source : Source, at : Nat, via : UdpSocket]
Outcome == [tx : Probes, dst : Dsts, source : Source, at : Nat, lost : BOOLEAN]
PCs == {"idle", "ping", "choose", "rotate", "bind", "drop", "look", "write",
        "forget", "sent", "failed", "done"}

\* Every variable has the type of the Go value that it stands for.
TypeOK ==
  /\ closed \in BOOLEAN /\ now \in Nat
  /\ spMu \in Threads \cup {Free, Link} /\ generation \in Nat /\ rebinds \in Nat
  /\ sockGen \in [Slots -> Nat] /\ bound \in [Slots -> BOOLEAN]
  /\ conn \in [Slots -> {"open", "closed", "blocked"}]
  /\ binding \in Slots \cup {NoSlot} /\ rebindTodo \in SUBSET Slots
  /\ opened \in [Slots -> Seq(Nat)]
  /\ pending \in SUBSET Tx /\ samples \in SUBSET Sample /\ outcomes \in SUBSET Outcome
  /\ DOMAIN probeLoss \in SUBSET Key /\ \A k \in DOMAIN probeLoss : probeLoss[k] \in 1..(ProbeDropStreak - 1)
  /\ DOMAIN demotedTill \in SUBSET Key /\ \A k \in DOMAIN demotedTill : demotedTill[k] \in Nat
  /\ dropped \in SUBSET Source
  /\ pc \in [Threads -> PCs] /\ src \in [Threads -> Source] /\ dst \in [Threads -> Dsts]
  /\ todo \in [Threads -> SUBSET Source] /\ rotating \in [Threads -> Source]
  /\ rotatedSelf \in [Threads -> BOOLEAN]
  /\ rx \in [Slots -> [st : {"wait", "read", "stamped"}, tx : Probes, sender : Peers,
                      via : UdpSocket, meta : Source]]
  /\ wire \in SUBSET [tx : Probes, via : UdpSocket]
  /\ blamed \in SUBSET UdpSocket /\ offUntil \in [Dsts -> Nat]
  /\ answered \in SUBSET Probes

\* The label on a sample, (socketID, generation), names one UDP socket, and it
\* is the one the probe left from and its Pong came in on, whatever was re-bound
\* while the probe was looked up, written, answered, read and handled.
SampleAttribution ==
  \A x \in samples :
    /\ x.via.slot = x.source.slot
    /\ \A i \in 1..Len(opened[x.via.slot]) :
         opened[x.via.slot][i] = x.source.gen <=> i = x.via.idx

\* Once a rotation has dropped a source, no late Pong brings evidence for it
\* back: the scorer never again prefers a socket that is gone.
DroppedStaysDropped ==
  /\ \A x \in samples : x.source \notin dropped
  /\ \A x \in outcomes : ~x.lost => x.source \notin dropped

\* A failed send replaces an open UDP socket only if a write failed on that very
\* socket: of two senders that fail on one socket, the second leaves the new
\* socket alone.
OnlyBlamedSocketsRotated ==
  [][\A n \in Senders, s \in Slots :
       spMu = Free /\ spMu' = n /\ binding' = s /\ conn[s] = "open" => Socket(s) \in blamed]_vars

\* Pending probes, samples and outcomes stay within the budgets and hard caps.
WithinBudgets ==
  /\ Cardinality(pending) <= HardCap
  /\ MaxPeers > 0 => Cardinality({x.peer : x \in pending}) <= MaxPeers
  /\ \A q \in Peers : Cardinality({x \in pending : x.peer = q}) <= MaxBurst
  /\ Cardinality(samples) <= SampleLimit
  /\ Cardinality(outcomes) <= OutcomeLimit

\* After Conn.Close no goroutine still under way puts evidence back.
ClosedKeepsNothing == closed => pending = {} /\ samples = {} /\ outcomes = {}

\* Every probe and every send that has begun ends: nobody waits for sourcePath.mu
\* for ever, and no rotation goes round in circles.
CallsEnd == \A t \in Threads : pc[t] # "idle" ~> pc[t] = "done"

\* The UDP socket that a sample's label stands for, for the abstract view.
Evidence == INSTANCE PathEvidence WITH
  epoch    <- [s \in Slots |-> Len(opened[s])],
  evidence <- {[tx |-> x.tx, via |-> x.via] : x \in samples},
  retired  <- UNION {{[slot |-> s, idx |-> i] :
                        i \in {j \in 1..Len(opened[s]) :
                                 [slot |-> s, gen |-> opened[s][j]] \in dropped}}
                       : s \in Slots},
  taught   <- answered

\* To the scorer, (socketID, generation) labels behave like the UDP sockets they
\* stand for: sourcepath.go implements PathEvidence.
ImplementsPathEvidence == Evidence!Spec

(* What the repository says and its code does not do.                        *)

\* magicsock.go, Conn.Close: "We want everything else in the Conn to be
\* consistently in the closed state before we release mu".
ClosedStaysClosed == closed => \A s \in Slots : ~bound[s]

\* ROADMAP.md, Phase 23: "demote that dst to single-send for
\* TS_EXPERIMENTAL_SRCSEL_DUAL_SEND_RECOVERY_S seconds".
DemotedUntilRecovered ==
  [][\A n \in Senders :
       pc[n] = "choose" /\ pc'[n] = "look" => now >= offUntil[dst[n]]]_vars

\* TestSourcePathProbeTimeoutRebindsPreviouslyWorkingAuxSocket: lost probes that
\* reach the threshold have the socket re-bound.
LostProbesRotate ==
  [][\A p \in Probes :
       /\ pc[p] = "ping" /\ pc'[p] # "ping"
       /\ Expired # {} /\ Expired \cap pending' = {}
       => Rotations \subseteq todo'[p]]_vars
=============================================================================
