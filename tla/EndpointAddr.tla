----------------------------- MODULE EndpointAddr -----------------------------
(****************************************************************************)
(* endpoint: how one peer's bestAddr is chosen, trusted, replaced and given  *)
(* up.  Every method below runs under endpoint.mu from start to end, so each  *)
(* is one step, a function of the endpoint's fields (the record de) and of    *)
(* its inputs; what interleaves is the methods: pongs, ping timeouts, failed  *)
(* sends, the two timers, ready calls from relayManager, traffic, control.    *)
(*                                                                          *)
(* Time is abstract.  trust tells where now stands relative to               *)
(* trustBestAddrUntil, held whether now is in the hold window that starts at  *)
(* lastDirectVsRelaySwap; rate limits and idle times that nothing else        *)
(* depends on are choices.  A ping may be answered, lost or fail to be sent.  *)
(* The configured list of omitted addresses (omitEndpointAddrPort) is a       *)
(* choice too: candidates on it are not in the sets that the inputs offer.    *)
(*                                                                          *)
(* Path MTU (one size), WireGuard-only peers and DERP homes are left out, and *)
(* so is the dual-endpoint strategy of send, which writes bestAddr and trust  *)
(* without evidence (endpoint.go:595-601): no property below is claimed for   *)
(* it.  What relayManager does before a ready call is RelayManager.           *)
(****************************************************************************)
EXTENDS Integers, FiniteSets

CONSTANTS
  Direct,      \* direct addresses of the peer
  Relay,       \* addresses, with VNI, of the peer at relay servers
  ServerOf,    \* the relay server of each of those
  Derp,        \* the peer's DERP address
  Boost,       \* betterAddr's points for an address, whatever its latency
  Latencies,   \* measured round-trip times
  Threshold,   \* directVsRelayThresholdValue, percent
  Compare,     \* directVsRelayCompareEnabled
  LastCliff,   \* index of the last of ProbeUDPLifetimeConfig.Cliffs
  MaxCandidates,  \* the size beyond which addCandidateEndpoint cleans up
  TxIds,       \* bound: pings outstanding at a time
  NoAddr, NoServer   \* the zero addresses and keys

Addr == Direct \cup Relay

ASSUME EndpointAddrAssumption ==
  /\ DOMAIN ServerOf = Relay /\ \A r \in Relay : ServerOf[r] # NoServer
  /\ Boost \in [Addr -> Nat]
  /\ Latencies \subseteq Nat
  /\ Threshold \in 0 .. 100 /\ Compare \in BOOLEAN /\ LastCliff \in Nat
  /\ MaxCandidates \in Nat
  /\ Direct \cap Relay = {} /\ {NoAddr, Derp} \cap Addr = {}

VARIABLES
  de,       \* the fields of the endpoint: see Endpoint
  earned,   \* history: the address whose evidence last extended the trust
  crossed   \* history: bestAddr, if a relayed pong proved it by a direct ping

vars == <<de, earned, crossed>>

Quality   == [addr : Addr \cup {NoAddr}, server : {ServerOf[r] : r \in Relay} \cup {NoServer},
              lat : Latencies \cup {0}]
NoQuality == [addr |-> NoAddr, server |-> NoServer, lat |-> 0]

\* endpointState: mapped is index # indexSentinelDeleted (meaningless if got),
\* got and asked whether lastGotPing and callMeMaybeTime are set.
EpState == [mapped : BOOLEAN, got : BOOLEAN, asked : BOOLEAN]

\* sentPing: where to, and its purpose.
Ping   == [to : Addr \cup {Derp}, why : {"discovery", "heartbeat", "cli", "lifetime"}]
NoPing == [to |-> NoAddr, why |-> "discovery"]

\* probeUDPLifetime: on is p # nil.
Life    == [on : BOOLEAN, timer : BOOLEAN, addr : Addr \cup {NoAddr}, active : BOOLEAN,
            cliff : 0 .. LastCliff, tx : TxIds \cup {NoAddr}]
NewLife == [on |-> TRUE, timer |-> FALSE, addr |-> NoAddr, active |-> FALSE, cliff |-> 0,
            tx |-> NoAddr]

Endpoint ==
  [best  : Quality,
   trust : {"before", "at", "after"},      \* now, relative to trustBestAddrUntil
   held  : BOOLEAN,                        \* the hold window of the last swap runs
   eps   : UNION {[D -> EpState] : D \in SUBSET Direct},
   cmm   : SUBSET Direct,                  \* isCallMeMaybeEP
   sent  : [TxIds -> Ping \cup {NoPing}],
   life  : Life,
   beat  : BOOLEAN,                        \* heartBeatTimer is set
   quiet : BOOLEAN]                        \* heartbeatDisabled

(***************************************************************************)
(* Which of two addresses is better.                                        *)
(***************************************************************************)
relayBeatsDirect(direct, relay) ==
  /\ direct > 0 /\ relay > 0 /\ Threshold > 0
  /\ relay * 100 < direct * (100 - Threshold)

\* The points of a for being faster than b, in percent of the slower one.
Faster(a, b) ==
  IF b.lat > 0 /\ a.lat <= b.lat THEN 100 - (a.lat * 100) \div b.lat ELSE 0

\* Variant: the threshold is applied when the relayed path is the new one only.
betterAddrHalfGated(a, b) ==
  IF a.addr \in Relay /\ b.addr \in Direct THEN Compare /\ relayBeatsDirect(b.lat, a.lat)
  ELSE a.addr # NoAddr /\ (b.addr = NoAddr \/ (a.addr \in Direct /\ b.addr \in Relay))

betterAddr(a, b) ==
  /\ a.addr # b.addr
  /\ \/ b.addr = NoAddr
     \/ /\ a.addr \in Direct /\ b.addr \in Relay
        /\ ~(Compare /\ relayBeatsDirect(a.lat, b.lat))
     \/ /\ a.addr \in Relay /\ b.addr \in Direct
        /\ Compare /\ relayBeatsDirect(b.lat, a.lat)
     \/ /\ {a.addr, b.addr} \subseteq Direct \/ {a.addr, b.addr} \subseteq Relay
        /\ LET ap == Faster(a, b) + Boost[a.addr]
               bp == Faster(b, a) + Boost[b.addr]
           IN  ap > bp /\ ~(ap <= 1 /\ bp = 0)

Crosses(a, b) == a.addr # NoAddr /\ b.addr # NoAddr /\ (a.addr \in Relay) # (b.addr \in Relay)

wouldAllowSwap(s, q) == Compare /\ Crosses(s.best, q) => ~s.held

noteSwap(s, prev) ==
  IF Compare /\ Crosses(prev, s.best) THEN [s EXCEPT !.held = TRUE] ELSE s

(***************************************************************************)
(* Changing bestAddr, and the lifetime probes of that address.               *)
(***************************************************************************)
\* lastTxID matters in a cycle only, and every ping of a cycle sets it.
resetCycle(l) ==
  [l EXCEPT !.timer = FALSE, !.active = FALSE, !.cliff = 0, !.addr = NoAddr, !.tx = NoAddr]

\* Variant: the probing cycle outlives the path that it measures.
setBestAddrKeepsCycle(s, q) == [s EXCEPT !.best = q]

setBestAddr(s, q) ==
  [s EXCEPT !.best = q,
            !.life = IF q.addr # s.best.addr THEN resetCycle(s.life) ELSE s.life]

clearBestAddr(s) == [setBestAddr(s, NoQuality) EXCEPT !.trust = "after", !.held = FALSE]

deleteEndpoints(s, D) ==
  LET t == [s EXCEPT !.eps = [d \in DOMAIN s.eps \ D |-> s.eps[d]]]
  IN  IF s.best.addr \in D THEN setBestAddr(t, NoQuality) ELSE t

\* Addresses learned from the peer's pings.
Got(s) == {d \in DOMAIN s.eps : s.eps[d].got}

\* shouldDeleteLocked; old are the addresses last heard from too long ago.
shouldDelete(s, old) ==
  {d \in DOMAIN s.eps : ~s.eps[d].asked /\ (IF s.eps[d].got THEN d \in old ELSE ~s.eps[d].mapped)}

scheduleForLifetime(s) == [s EXCEPT !.life.addr = s.best.addr, !.life.timer = TRUE]

noteTxActivity(s) == [s EXCEPT !.beat = @ \/ ~s.quiet]

(***************************************************************************)
(* Pings.                                                                    *)
(***************************************************************************)
Free(s) == {i \in TxIds : s.sent[i] = NoPing}

\* A ping that is not for the CLI goes to a direct address only while the
\* endpoint has state for it.
Allowed(s, req) == req.why = "cli" \/ req.to \notin Direct \/ req.to \in DOMAIN s.eps

\* startDiscoPingLocked for each of a set of pings.
startPings(s, reqs) ==
  LET go == {q \in reqs : Allowed(s, q)}
      id == CHOOSE f \in [go -> Free(s)] : \A q, r \in go : f[q] = f[r] => q = r
      t  == [s EXCEPT !.sent = [i \in TxIds |->
                                  IF \E q \in go : id[q] = i
                                  THEN CHOOSE q \in go : id[q] = i ELSE @[i]],
                      !.life.tx = IF s.life.on /\ \E q \in go : q.why = "lifetime"
                                  THEN id[CHOOSE q \in go : q.why = "lifetime"] ELSE @]
  IN  IF \E q \in go : q.why = "cli" THEN noteTxActivity(t) ELSE t

\* sendDiscoPingsLocked; due are the candidates not pinged too recently.
sendDiscoPings(s, old, due) ==
  LET t == deleteEndpoints(s, shouldDelete(s, old))
  IN  startPings(t, {[to |-> d, why |-> "discovery"]
                       : d \in due \cap DOMAIN t.eps})

\* Variant: the last cliff is taken for one with another after it.
cliffDoneTooFar(s, i, pong) ==
  IF ~s.life.on \/ ~s.life.active \/ s.life.timer \/ s.life.tx # i THEN s
  ELSE IF ~pong \/ s.life.cliff > LastCliff THEN [s EXCEPT !.life = resetCycle(@)]
  ELSE scheduleForLifetime([s EXCEPT !.life.cliff = @ + 1])

\* probeUDPLifetimeCliffDoneLocked.
cliffDone(s, i, pong) ==
  IF ~s.life.on \/ ~s.life.active \/ s.life.timer \/ s.life.tx # i THEN s
  ELSE IF ~pong \/ s.life.cliff >= LastCliff THEN [s EXCEPT !.life = resetCycle(@)]
  ELSE LET t == [s EXCEPT !.life.cliff = @ + 1]
       IN  IF t.best.addr # NoAddr THEN scheduleForLifetime(t) ELSE t

removeSentPing(s, i, pong) ==
  LET t == IF s.sent[i].why = "lifetime" THEN cliffDone(s, i, pong) ELSE s
  IN  [t EXCEPT !.sent[i] = NoPing]

(***************************************************************************)
(* Evidence: ready relay paths, pongs, and packets received.                 *)
(***************************************************************************)
\* Variant: a relayed path that is ready is used whatever the hold window.
readyIgnoresHold(s, q) ==
  IF s.trust # "before" \/ betterAddr(q, s.best)
  THEN noteSwap([setBestAddr(s, q) EXCEPT !.trust = "before"], s.best) ELSE s

udpRelayEndpointReady(s, q) ==
  LET sameServer == s.best.addr \in Relay /\ q.server = s.best.server
      bypass     == s.trust # "before" \/ sameServer
  IN  IF bypass \/ (betterAddr(q, s.best) /\ wouldAllowSwap(s, q))
      THEN noteSwap([setBestAddr(s, q) EXCEPT !.trust = "before"], s.best)
      ELSE s

\* Variant: a pong extends the trust in bestAddr, whatever address it proves.
promoteTrustsAny(s, q) ==
  [(IF betterAddr(q, s.best) /\ wouldAllowSwap(s, q)
    THEN noteSwap(setBestAddr(s, q), s.best) ELSE s) EXCEPT !.trust = "before"]

\* The end of handlePongConnLocked; q has no relay server.
promote(s, q) ==
  LET untrusted == s.trust = "after"
      t == IF untrusted \/ (betterAddr(q, s.best) /\ wouldAllowSwap(s, q))
           THEN noteSwap(setBestAddr(s, q), s.best) ELSE s
  IN  IF t.best.addr = q.addr THEN [t EXCEPT !.best.lat = q.lat, !.trust = "before"] ELSE t

\* How a pong comes: src is a direct address, has a VNI, or is DERP's.
Ways == {"direct", "relay", "derp"}

\* A pong for a direct ping whose address is by now on the omitted list.
Omits(to, via, omitted) == omitted /\ via # "derp" /\ to \in Direct

\* Variant: a pong is heeded although its ping's address was deleted.
HeededAlways(s, to, via, omitted) ==
  ~Omits(to, via, omitted) /\ (via = "direct" => to \in Addr)

\* The check for endpointState of the ping's address is made only when src is
\* direct; a relayed or a DERP address has none.
Heeded(s, to, via, omitted) ==
  ~Omits(to, via, omitted) /\ (via = "direct" => to \in DOMAIN s.eps)

\* handlePongConnLocked, for the ping i.
handlePong(s, i, via, omitted, lat) ==
  LET to == s.sent[i].to
      t  == removeSentPing(s, i, TRUE)
  IN  IF Omits(to, via, omitted) THEN deleteEndpoints(t, {to})
      ELSE IF via # "derp" /\ Heeded(s, to, via, omitted)
      THEN promote(t, [addr |-> to, server |-> NoServer, lat |-> lat])
      ELSE t

\* The evidence is for the address a; what was never trusted is forgotten.
Faded   == IF de'.best.addr = NoAddr \/ de'.trust = "after" THEN NoAddr ELSE earned
Earn(a) == earned' = IF de'.trust = "before" /\ de'.best.addr = a THEN a ELSE Faded
Stay    == crossed' = IF de'.best.addr = crossed THEN crossed ELSE NoAddr
Keep    == earned' = Faded /\ Stay

Ready(r, lat) ==
  /\ de' = udpRelayEndpointReady(de, [addr |-> r, server |-> ServerOf[r], lat |-> lat])
  /\ Earn(r) /\ Stay

\* A relayed pong for a ping by DERP, which would make DERP's address bestAddr,
\* is left out: handlePingLocked answers by the way that the ping came.
RxPong(i, via, omitted, lat) ==
  /\ de.sent[i] # NoPing
  /\ de.sent[i].to = Derp => via # "relay"
  /\ de' = handlePong(de, i, via, omitted, lat)
  /\ IF via = "derp" THEN earned' = Faded ELSE Earn(de.sent[i].to)
  /\ IF via = "relay" /\ de.sent[i].to \in Direct /\ de'.best.addr = de.sent[i].to
     THEN crossed' = de'.best.addr ELSE Stay

\* noteRecvActivity.
Receive(a) ==
  /\ de.quiet /\ de.best.addr = a
  /\ de' = [de EXCEPT !.trust = "before"]
  /\ Earn(a) /\ Stay

(***************************************************************************)
(* Pings that come to nothing.                                               *)
(***************************************************************************)
discoPingTimeout(s, i) ==
  removeSentPing(IF s.sent[i].to = s.best.addr /\ s.trust = "after"
                 THEN clearBestAddr(s) ELSE s, i, FALSE)

PingTimeout(i) ==
  /\ de.sent[i] # NoPing
  /\ de' = discoPingTimeout(de, i)
  /\ Keep

ForgetPing(i) ==
  /\ de.sent[i] # NoPing
  /\ de' = removeSentPing(de, i, FALSE)
  /\ Keep

\* noteBadEndpoint: a send that was started earlier fails.
NoteBadEndpoint(a) ==
  /\ de' = LET t == clearBestAddr(de)
           IN  IF a \in DOMAIN t.eps THEN [t EXCEPT !.eps[a].asked = FALSE] ELSE t
  /\ Keep

NoteConnectivityChange ==
  /\ de' = [clearBestAddr(de) EXCEPT !.eps = [d \in DOMAIN @ |-> [@[d] EXCEPT !.asked = FALSE]]]
  /\ Keep

(***************************************************************************)
(* Timers and traffic.                                                       *)
(***************************************************************************)
wantFullPing(s, interval) == s.best.addr \notin Direct \/ s.trust = "after" \/ interval

PingBest(s) ==
  IF s.best.addr = NoAddr THEN s
  ELSE startPings(s, {[to |-> s.best.addr, why |-> "heartbeat"]})

\* heartbeat on a session that is in use.
HeartbeatActive(interval, old, due) ==
  /\ de.beat /\ Cardinality(due) < Cardinality(Free(de))
  /\ de' = LET s == [de EXCEPT !.life.timer = FALSE, !.beat = ~de.quiet]
               t == PingBest(s)
           IN  IF de.quiet THEN s
               ELSE IF wantFullPing(de, interval) THEN sendDiscoPings(t, old, due) ELSE t
  /\ Keep

\* heartbeat on an idle session; mayStart is that CycleCanStartEvery has passed
\* and that the order of the two disco keys leaves the probing to this side.
HeartbeatIdle(mayStart) ==
  /\ de.beat
  /\ de' = LET s == [de EXCEPT !.life.timer = FALSE, !.beat = FALSE]
           IN  IF ~de.quiet /\ s.life.on /\ s.best.addr # NoAddr /\ (s.life.active \/ mayStart)
               THEN scheduleForLifetime(s) ELSE s
  /\ Keep

\* heartbeatForLifetime: the path has been idle for too long, too briefly, or
\* just as long as the cliff to probe.
HeartbeatForLifetime(mayStart, idle) ==
  /\ de.life.timer /\ Free(de) # {}
  /\ de' = LET s == [de EXCEPT !.life.timer = FALSE]
               t == [s EXCEPT !.life.active = @ \/ s.life.cliff = 0]
           IN  IF s.life.addr = NoAddr \/ s.best.addr # s.life.addr
                  \/ ~(s.life.active \/ mayStart)
               THEN [s EXCEPT !.life = resetCycle(@)]
               ELSE CASE idle = "long"  -> s
                      [] idle = "brief" -> scheduleForLifetime(s)
                      [] idle = "cliff" -> startPings(t, {[to |-> s.best.addr, why |-> "lifetime"]})
  /\ Keep

\* send, up to the unlock, unless the dual-endpoint strategy applies.
Send(old, due) ==
  /\ Cardinality(due) <= Cardinality(Free(de))
  /\ de' = noteTxActivity(IF de.best.addr \notin Direct \/ de.trust = "after"
                          THEN sendDiscoPings(de, old, due) ELSE de)
  /\ Keep

\* discoPing, for the CLI; that the callback is called at most once is one
\* compare-and-swap (pingResultAndCallback.reply) and left out.
DiscoPing ==
  LET derp  == IF de.best.addr # NoAddr /\ de.trust # "after" THEN {} ELSE {Derp}
      known == de.best.addr # NoAddr /\ de.trust = "before"
      to    == derp \cup (IF known THEN {de.best.addr} ELSE {})
                    \cup (IF known /\ de.best.addr \in Direct THEN {} ELSE DOMAIN de.eps)
  IN  /\ Cardinality(to) <= Cardinality(Free(de))
      /\ de' = startPings(de, {[to |-> a, why |-> "cli"] : a \in to})
      /\ Keep

(***************************************************************************)
(* Candidates: from control, from the peer's pings and CallMeMaybes.         *)
(***************************************************************************)
NewEp == [mapped |-> TRUE, got |-> FALSE, asked |-> FALSE]

\* setEndpointsLocked.
setEndpoints(s, M, old) ==
  LET t == [s EXCEPT !.eps = [d \in DOMAIN s.eps \cup M |->
                                IF d \in DOMAIN s.eps THEN [s.eps[d] EXCEPT !.mapped = d \in M \/ s.eps[d].got]
                                ELSE NewEp]]
  IN  deleteEndpoints(t, shouldDelete(t, old))

UpdateFromNode(M, old, quiet, probe) ==
  /\ de' = setEndpoints([de EXCEPT !.quiet = quiet,
                                   !.life = CASE ~probe -> [NewLife EXCEPT !.on = FALSE]
                                              [] probe /\ ~@.on -> NewLife
                                              [] OTHER -> @], M, old)
  /\ Keep

\* addCandidateEndpoint.
AddCandidate(d, old) ==
  /\ de' = LET t == [de EXCEPT !.eps = [x \in DOMAIN @ \cup {d} |->
                                         IF x = d THEN [NewEp EXCEPT !.got = TRUE] ELSE @[x]]]
           IN  IF d \in DOMAIN de.eps THEN de
               ELSE IF Cardinality(DOMAIN t.eps) > MaxCandidates
                    THEN deleteEndpoints(t, shouldDelete(t, old)) ELSE t
  /\ Keep

HandleCallMeMaybe(M, old) ==
  /\ Cardinality(Free(de)) >= Cardinality(DOMAIN de.eps \cup M)
  /\ de' = LET s == [de EXCEPT !.cmm = M,
                               !.eps = [d \in DOMAIN de.eps \cup M |->
                                          IF d \in DOMAIN de.eps
                                          THEN [de.eps[d] EXCEPT !.asked = @ \/ d \in M]
                                          ELSE [NewEp EXCEPT !.asked = TRUE]]]
           IN  sendDiscoPings(deleteEndpoints(s, de.cmm \ M), old, Direct)
  /\ Keep

StopAndReset ==
  /\ de' = [clearBestAddr(de) EXCEPT !.sent = [i \in TxIds |-> NoPing],
                                     !.life = resetCycle(@), !.beat = FALSE]
  /\ Keep

(***************************************************************************)
(* Time passes.                                                              *)
(***************************************************************************)
TrustPasses ==
  /\ de.trust # "after"
  /\ \E t \in {"at", "after"} : de.trust # t /\ de' = [de EXCEPT !.trust = t]
  /\ Keep

HoldPasses ==
  /\ de.held
  /\ de' = [de EXCEPT !.held = FALSE]
  /\ Keep

Init ==
  /\ \E quiet \in BOOLEAN :
       de = [best |-> NoQuality, trust |-> "after", held |-> FALSE, eps |-> <<>>, cmm |-> {},
             sent |-> [i \in TxIds |-> NoPing], life |-> [NewLife EXCEPT !.on = FALSE],
             beat |-> FALSE, quiet |-> quiet]
  /\ earned = NoAddr /\ crossed = NoAddr

Evidence ==
  \/ \E r \in Relay, lat \in Latencies : Ready(r, lat)
  \/ \E i \in TxIds, via \in Ways, omitted \in BOOLEAN, lat \in Latencies :
       RxPong(i, via, omitted, lat)
  \/ \E a \in Addr : Receive(a)

Failures ==
  \/ \E i \in TxIds : PingTimeout(i) \/ ForgetPing(i)
  \/ \E a \in Addr : NoteBadEndpoint(a)
  \/ NoteConnectivityChange

TimersAndTraffic ==
  \/ \E interval \in BOOLEAN, old \in SUBSET Got(de), due \in SUBSET DOMAIN de.eps :
       HeartbeatActive(interval, old, due)
  \/ \E mayStart \in BOOLEAN : HeartbeatIdle(mayStart)
  \/ \E mayStart \in BOOLEAN, idle \in {"long", "brief", "cliff"} :
       HeartbeatForLifetime(mayStart, idle)
  \/ \E old \in SUBSET Got(de), due \in SUBSET DOMAIN de.eps : Send(old, due)
  \/ DiscoPing

Candidates ==
  \/ \E M \in SUBSET Direct, old \in SUBSET Got(de), quiet, probe \in BOOLEAN :
       UpdateFromNode(M, old, quiet, probe)
  \/ \E d \in Direct, old \in SUBSET Got(de) : AddCandidate(d, old)
  \/ \E M \in SUBSET Direct, old \in SUBSET Got(de) : HandleCallMeMaybe(M, old)
  \/ StopAndReset

TimePasses == TrustPasses \/ HoldPasses

Next == Evidence \/ Failures \/ TimersAndTraffic \/ Candidates \/ TimePasses

Spec == Init /\ [][Next]_vars

----------------------------------------------------------------------------
(* Properties.                                                              *)

\* Every field of the endpoint has its type.
TypeOK ==
  /\ de \in Endpoint
  /\ earned \in Addr \cup {NoAddr, Derp} /\ crossed \in Direct \cup {NoAddr}

\* An address is trusted only on its own evidence: as long as now is not after
\* trustBestAddrUntil, what set it was a pong for a ping sent to the address that
\* bestAddr holds now, a ready call for it or a packet received from it, whatever
\* was deleted, swapped or refused since.
TrustEarned ==
  de.best.addr # NoAddr /\ de.trust # "after" => earned = de.best.addr

\* startDiscoPingLocked meets "[unexpected] attempt to ping no longer live
\* endpoint" for bestAddr only after a pong that came by a relay for a direct
\* ping (the check of handlePongConnLocked is by the pong's src): otherwise the
\* endpoint has state for a direct bestAddr, whatever is deleted, pruned or
\* omitted, and however late its pongs are.
BestIsLive ==
  de.best.addr \in Direct => de.best.addr \in DOMAIN de.eps \cup {crossed}

\* "A probing cycle is 1:1 with the current endpoint.bestAddr.epAddr": a cycle
\* that is scheduled or active is about the address in use.
CycleOfBest ==
  (de.life.active \/ de.life.timer) => de.life.addr = de.best.addr

\* Where paths of the two kinds are compared, a trusted one is exchanged for one
\* of the other kind (direct or relayed) only when no such exchange was made
\* within the hold window, unless bestAddr was cleared; and the exchange starts a
\* new window.
HoldKept ==
  [][Compare /\ de.trust = "before" /\ Crosses(de.best, de'.best)
       => ~de.held /\ de'.held]_vars

\* Without new measurements bestAddr does not flap: an address that betterAddr
\* lets replace it would not be replaced by it in turn.
NoFlapping == \A q \in Quality : ~(betterAddr(q, de.best) /\ betterAddr(de.best, q))

\* "carrying it forward into the next path's install would block legitimate
\* cross-category swaps": with no best address no hold window is running.
NoHoldWithoutPath == de.best.addr = NoAddr => ~de.held

\* "We must set maybeBest as de.bestAddr if [...] maybeBest & de.bestAddr are
\* on the same relay": the relay drops packets of the address it replaces.
SameRelayReplaced ==
  \A r \in Relay, lat \in Latencies :
    de.best.addr \in Relay /\ ServerOf[de.best.addr] = ServerOf[r]
      => udpRelayEndpointReady(de, [addr |-> r, server |-> ServerOf[r], lat |-> lat]).best.addr = r
=============================================================================
