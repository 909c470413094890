------------------------- MODULE EndpointAddr_proofs -------------------------
(* Proofs about EndpointAddr, for every value of its constants.              *)
EXTENDS EndpointAddr, TLAPS

-----------------------------------------------------------------------------
(* What every method keeps, as a property of the endpoint.                   *)

Live(s)  == s.best.addr \in Direct => s.best.addr \in DOMAIN s.eps
Cycle(s) == (s.life.active \/ s.life.timer) => s.life.addr = s.best.addr

Good(s) == s \in Endpoint /\ Cycle(s)

\* From s to t no evidence came: bestAddr is given up, or it is the same and not
\* trusted for longer.
Loses(s, t) ==
  \/ t.best.addr = NoAddr
  \/ t.best.addr = s.best.addr /\ (t.trust # "after" => s.trust # "after")

\* A bestAddr without state was there before, without state.
Fresh(s, t) == Live(t) \/ (t.best.addr = s.best.addr /\ ~Live(s))

\* A method without evidence.
Quiet(s, t) == Good(t) /\ Loses(s, t) /\ Fresh(s, t)

LEMMA QuietTrans ==
  ASSUME NEW s, NEW t, NEW u, Quiet(s, t), Quiet(t, u)
  PROVE  Quiet(s, u)
BY DEF Quiet, Loses, Fresh

LEMMA QuietSame ==
  ASSUME NEW s, Good(s)
  PROVE  Quiet(s, s)
BY DEF Quiet, Loses, Fresh

EpMap == UNION {[D -> EpState] : D \in SUBSET Direct}

\* Candidate endpoints: functions from some of the direct addresses.
LEMMA EpMapIn ==
  ASSUME NEW D \in SUBSET Direct, NEW e \in [D -> EpState]
  PROVE  e \in EpMap
BY DEF EpMap

LEMMA EpMapOut ==
  ASSUME NEW e \in EpMap
  PROVE  /\ DOMAIN e \in SUBSET Direct
         /\ e \in [DOMAIN e -> EpState]
<1>1. PICK D \in SUBSET Direct : e \in [D -> EpState]
  BY DEF EpMap
<1> QED BY <1>1

\* The fields of an endpoint, by type.
LEMMA Fields ==
  ASSUME NEW s \in Endpoint
  PROVE  /\ s.best \in Quality /\ s.trust \in {"before", "at", "after"} /\ s.held \in BOOLEAN
         /\ s.eps \in EpMap /\ s.cmm \in SUBSET Direct
         /\ s.sent \in [TxIds -> Ping \cup {NoPing}] /\ s.life \in Life
         /\ s.beat \in BOOLEAN /\ s.quiet \in BOOLEAN
BY DEF Endpoint, EpMap

LEMMA NoQualityType == NoQuality \in Quality
BY DEF Quality, NoQuality

LEMMA NotAddr == NoAddr \notin Addr /\ Derp \notin Addr /\ Direct \cap Relay = {}
BY EndpointAddrAssumption DEF Addr

-----------------------------------------------------------------------------
(* The methods without evidence.                                             *)

LEMMA ResetCycleType ==
  ASSUME NEW l \in Life
  PROVE  /\ resetCycle(l) \in Life
         /\ ~resetCycle(l).active /\ ~resetCycle(l).timer
<1>1. 0 \in 0 .. LastCliff
  BY EndpointAddrAssumption
<1>2. resetCycle(l) \in Life
  BY <1>1 DEF Life, resetCycle
<1> QED BY <1>2 DEF Life, resetCycle

LEMMA SetBest ==
  ASSUME NEW s, Good(s), NEW q \in Quality
  PROVE  /\ Good(setBestAddr(s, q)) /\ setBestAddr(s, q).best = q
         /\ setBestAddr(s, q).trust = s.trust /\ setBestAddr(s, q).held = s.held
         /\ setBestAddr(s, q).eps = s.eps /\ setBestAddr(s, q).sent = s.sent
<1> DEFINE l == IF q.addr # s.best.addr THEN resetCycle(s.life) ELSE s.life
           t == [s EXCEPT !.best = q, !.life = l]
<1>1. s \in Endpoint /\ s.life \in Life
  BY Fields DEF Good
<1>2. l \in Life /\ (l.active \/ l.timer => l = s.life /\ q.addr = s.best.addr)
  BY <1>1, ResetCycleType
<1> HIDE DEF l
<1>3. t \in Endpoint /\ t.best = q /\ t.life = l /\ t.eps = s.eps /\ t.trust = s.trust
      /\ t.held = s.held /\ t.sent = s.sent
  BY <1>1, <1>2 DEF Endpoint
<1>4. setBestAddr(s, q) = t
  BY DEF setBestAddr, l
<1> HIDE DEF t
<1>5. Cycle(t)
  BY <1>2, <1>3 DEF Good, Cycle
<1> QED BY <1>3, <1>4, <1>5 DEF Good

LEMMA ClearBest ==
  ASSUME NEW s, Good(s)
  PROVE  Quiet(s, clearBestAddr(s))
<1> DEFINE t == setBestAddr(s, NoQuality)
           u == [t EXCEPT !.trust = "after", !.held = FALSE]
<1>1. Good(t) /\ t.best = NoQuality
  BY SetBest, NoQualityType
<1> HIDE DEF t
<1>2. u \in Endpoint /\ u.best = t.best /\ u.eps = t.eps /\ u.life = t.life
  BY <1>1 DEF Good, Endpoint
<1>3. Good(u)
  BY <1>1, <1>2 DEF Good, Cycle
<1>4. u.best.addr = NoAddr
  BY <1>1, <1>2 DEF NoQuality
<1>5. Live(u)
  BY <1>4, NotAddr DEF Live, Addr
<1> QED BY <1>3, <1>4, <1>5 DEF clearBestAddr, Quiet, Loses, Fresh, t

LEMMA SetEps ==
  ASSUME NEW s \in Endpoint, NEW e \in EpMap
  PROVE  /\ [s EXCEPT !.eps = e] \in Endpoint
         /\ [s EXCEPT !.eps = e].eps = e
         /\ [s EXCEPT !.eps = e].best = s.best /\ [s EXCEPT !.eps = e].life = s.life
         /\ [s EXCEPT !.eps = e].trust = s.trust /\ [s EXCEPT !.eps = e].sent = s.sent
BY DEF Endpoint, EpMap

\* Candidates that are no longer pinged take bestAddr with them.
LEMMA DeleteEndpoints ==
  ASSUME NEW s, Good(s), NEW D
  PROVE  /\ Quiet(s, deleteEndpoints(s, D))
         /\ DOMAIN deleteEndpoints(s, D).eps = DOMAIN s.eps \ D
<1> DEFINE e == [d \in DOMAIN s.eps \ D |-> s.eps[d]]
           t == [s EXCEPT !.eps = e]
<1>1. s \in Endpoint /\ s.eps \in EpMap
  BY Fields DEF Good
<1>2. e \in EpMap
  <2>1. DOMAIN s.eps \in SUBSET Direct /\ s.eps \in [DOMAIN s.eps -> EpState]
    BY <1>1, EpMapOut
  <2>2. e \in [DOMAIN s.eps \ D -> EpState]
    BY <2>1
  <2> QED BY <2>1, <2>2, EpMapIn
<1>3. DOMAIN e = DOMAIN s.eps \ D
  OBVIOUS
<1> HIDE DEF e
<1>4. t \in Endpoint /\ t.eps = e /\ t.best = s.best /\ t.life = s.life /\ t.trust = s.trust
  BY <1>1, <1>2, SetEps
<1> HIDE DEF t
<1>5. deleteEndpoints(s, D) = IF s.best.addr \in D THEN setBestAddr(t, NoQuality) ELSE t
  BY DEF deleteEndpoints, t, e
<1>6. CASE s.best.addr \notin D
  <2>1. Good(t)
    BY <1>4 DEF Good, Cycle
  <2>2. Fresh(s, t)
    BY <1>3, <1>4, <1>6 DEF Fresh, Live
  <2> QED BY <1>3, <1>4, <1>5, <1>6, <2>1, <2>2 DEF Quiet, Loses
<1>7. CASE s.best.addr \in D
  <2> DEFINE l == resetCycle(t.life)
             u == [t EXCEPT !.best = NoQuality,
                            !.life = IF NoQuality.addr # t.best.addr THEN l ELSE t.life]
  <2>1. t.life \in Life /\ NoQuality \in Quality /\ NoQuality.addr = NoAddr
    BY <1>4, Fields, NoQualityType DEF NoQuality
  <2>2. l \in Life /\ ~l.active /\ ~l.timer
    BY <2>1, ResetCycleType
  <2> HIDE DEF l
  <2>3. u \in Endpoint /\ u.best = NoQuality /\ u.eps = e
        /\ u.life = IF NoAddr # t.best.addr THEN l ELSE t.life
    BY <1>4, <2>1, <2>2 DEF Endpoint
  <2>4. deleteEndpoints(s, D) = u
    BY <1>5, <1>7 DEF setBestAddr, l
  <2> HIDE DEF u
  <2>5. Good(u)
    BY <1>4, <2>1, <2>2, <2>3 DEF Good, Cycle
  <2>6. Live(u)
    BY <2>1, <2>3, NotAddr DEF Live, Addr
  <2> QED BY <1>3, <2>1, <2>3, <2>4, <2>5, <2>6 DEF Quiet, Loses, Fresh
<1> QED BY <1>6, <1>7

LEMMA ScheduleForLifetime ==
  ASSUME NEW s, Good(s)
  PROVE  /\ Quiet(s, scheduleForLifetime(s))
         /\ scheduleForLifetime(s).best = s.best /\ scheduleForLifetime(s).trust = s.trust
         /\ scheduleForLifetime(s).eps = s.eps /\ scheduleForLifetime(s).sent = s.sent
         /\ scheduleForLifetime(s).held = s.held
<1> DEFINE l == [s.life EXCEPT !.addr = s.best.addr, !.timer = TRUE]
           t == [s EXCEPT !.life = l]
<1>1. s \in Endpoint /\ s.life \in Life /\ s.best.addr \in Addr \cup {NoAddr}
  BY Fields DEF Good, Quality
<1>2. l \in Life /\ l.addr = s.best.addr
  BY <1>1 DEF Life
<1> HIDE DEF l
<1>3. /\ t \in Endpoint /\ t.best = s.best /\ t.life = l /\ t.eps = s.eps /\ t.trust = s.trust
      /\ t.sent = s.sent /\ t.held = s.held
  BY <1>1, <1>2 DEF Endpoint
<1>4. scheduleForLifetime(s) = t
  BY <1>1 DEF scheduleForLifetime, l, Endpoint
<1> HIDE DEF t
<1> QED BY <1>2, <1>3, <1>4 DEF Good, Live, Cycle, Quiet, Loses, Fresh

LEMMA NoteTxActivity ==
  ASSUME NEW s, Good(s)
  PROVE  Quiet(s, noteTxActivity(s))
<1> DEFINE b == s.beat \/ ~s.quiet
           t == [s EXCEPT !.beat = b]
<1>1. s \in Endpoint /\ b \in BOOLEAN
  BY DEF Good
<1> HIDE DEF b
<1>2. t \in Endpoint /\ t.best = s.best /\ t.life = s.life /\ t.eps = s.eps /\ t.trust = s.trust
  BY <1>1 DEF Endpoint
<1>3. noteTxActivity(s) = t
  BY DEF noteTxActivity, b
<1> HIDE DEF t
<1> QED BY <1>2, <1>3 DEF Good, Live, Cycle, Quiet, Loses, Fresh

\* Pings are registered under unused identities; a lifetime probe is started alone.
LEMMA StartPings ==
  ASSUME NEW s, Good(s), NEW reqs \in SUBSET Ping,
         \/ \A q \in reqs : q.why # "lifetime"
         \/ \E q : reqs = {q} /\ Free(s) # {}
  PROVE  /\ Quiet(s, startPings(s, reqs))
         /\ startPings(s, reqs).eps = s.eps
<1> DEFINE go == {q \in reqs : Allowed(s, q)}
           id == CHOOSE f \in [go -> Free(s)] : \A q, r \in go : f[q] = f[r] => q = r
           sent == [i \in TxIds |-> IF \E q \in go : id[q] = i
                                    THEN CHOOSE q \in go : id[q] = i ELSE s.sent[i]]
           tx == IF s.life.on /\ \E q \in go : q.why = "lifetime"
                 THEN id[CHOOSE q \in go : q.why = "lifetime"] ELSE s.life.tx
           l == [s.life EXCEPT !.tx = tx]
           t == [s EXCEPT !.sent = sent, !.life = l]
<1>1. /\ s \in Endpoint /\ s.life \in Life /\ s.life.tx \in TxIds \cup {NoAddr}
      /\ s.sent \in [TxIds -> Ping \cup {NoPing}]
  BY Fields DEF Good, Life
<1>2. sent \in [TxIds -> Ping \cup {NoPing}]
  <2> SUFFICES ASSUME NEW i \in TxIds, NEW q \in go, id[q] = i
               PROVE  (CHOOSE r \in go : id[r] = i) \in Ping
    BY <1>1
  <2> HIDE DEF id
  <2>1. (CHOOSE r \in go : id[r] = i) \in go
    OBVIOUS
  <2> QED BY <2>1
<1>3. tx \in TxIds \cup {NoAddr}
  <2>1. CASE \A q \in go : q.why # "lifetime"
    BY <1>1, <2>1
  <2>2. CASE \E q \in go : q.why = "lifetime"
    <3>1. PICK q : reqs = {q} /\ Free(s) # {}
      BY <2>2
    <3>2. go = {q}
      BY <2>2, <3>1
    <3>3. PICK i \in Free(s) : TRUE
      BY <3>1
    <3>4. [x \in go |-> i] \in [go -> Free(s)]
      BY <3>3
    <3>5. \E f \in [go -> Free(s)] : \A x, r \in go : f[x] = f[r] => x = r
      <4> HIDE DEF go
      <4> QED BY <3>2, <3>4
    <3>6. id \in [go -> Free(s)]
      BY <3>5
    <3>7. (CHOOSE x \in go : x.why = "lifetime") \in go
      BY <2>2
    <3> HIDE DEF id, go
    <3> QED BY <1>1, <3>6, <3>7 DEF Free
  <2> QED BY <2>1, <2>2
<1> HIDE DEF sent, tx
<1>4. l \in Life /\ l.active = s.life.active /\ l.timer = s.life.timer /\ l.addr = s.life.addr
  BY <1>1, <1>3 DEF Life
<1> HIDE DEF l
<1>5. t \in Endpoint /\ t.best = s.best /\ t.life = l /\ t.eps = s.eps /\ t.trust = s.trust
  BY <1>1, <1>2, <1>4 DEF Endpoint
<1> HIDE DEF t
<1>6. Quiet(s, t)
  BY <1>4, <1>5 DEF Good, Live, Cycle, Quiet, Loses, Fresh
<1>7. startPings(s, reqs) = IF \E q \in go : q.why = "cli" THEN noteTxActivity(t) ELSE t
  BY <1>1 DEF startPings, t, l, sent, tx, Endpoint
<1>8. Quiet(t, noteTxActivity(t)) /\ noteTxActivity(t).eps = t.eps
  BY <1>6, NoteTxActivity DEF Quiet, Good, Endpoint, noteTxActivity
<1>9. Quiet(s, noteTxActivity(t))
  BY <1>6, <1>8, QuietTrans
<1> QED BY <1>5, <1>6, <1>7, <1>8, <1>9

LEMMA SendDiscoPings ==
  ASSUME NEW s, Good(s), NEW old, NEW due
  PROVE  Quiet(s, sendDiscoPings(s, old, due))
<1> DEFINE t == deleteEndpoints(s, shouldDelete(s, old))
           reqs == {[to |-> d, why |-> "discovery"] : d \in due \cap DOMAIN t.eps}
<1>1. Quiet(s, t)
  BY DeleteEndpoints
<1> HIDE DEF t
<1>2. DOMAIN t.eps \in SUBSET Direct
  BY <1>1, Fields, EpMapOut DEF Quiet, Good
<1>3. reqs \in SUBSET Ping /\ \A q \in reqs : q.why # "lifetime"
  BY <1>2 DEF Ping, Addr
<1> HIDE DEF reqs
<1>4. Quiet(t, startPings(t, reqs))
  BY <1>1, <1>3, StartPings DEF Quiet
<1>5. sendDiscoPings(s, old, due) = startPings(t, reqs)
  BY DEF sendDiscoPings, t, reqs
<1> QED BY <1>1, <1>4, <1>5, QuietTrans

LEMMA CliffDone ==
  ASSUME NEW s, Good(s), NEW i, NEW pong \in BOOLEAN
  PROVE  /\ Quiet(s, cliffDone(s, i, pong))
         /\ cliffDone(s, i, pong).best = s.best /\ cliffDone(s, i, pong).trust = s.trust
         /\ cliffDone(s, i, pong).eps = s.eps /\ cliffDone(s, i, pong).sent = s.sent
         /\ cliffDone(s, i, pong).held = s.held
<1> DEFINE r == [s EXCEPT !.life = resetCycle(s.life)]
           c == s.life.cliff + 1
           n == [s.life EXCEPT !.cliff = c]
           t == [s EXCEPT !.life = n]
           Same(x) == /\ x.best = s.best /\ x.trust = s.trust /\ x.eps = s.eps
                      /\ x.sent = s.sent /\ x.held = s.held
<1>1. s \in Endpoint /\ s.life \in Life
  BY Fields DEF Good
<1>2. Quiet(s, r) /\ Same(r)
  <2> DEFINE l == resetCycle(s.life)
  <2>1. l \in Life /\ ~l.active /\ ~l.timer
    BY <1>1, ResetCycleType
  <2> HIDE DEF l
  <2>2. r = [s EXCEPT !.life = l]
    BY DEF l
  <2>3. r \in Endpoint /\ r.life = l /\ Same(r)
    BY <1>1, <2>1, <2>2 DEF Endpoint
  <2> HIDE DEF r
  <2> QED BY <2>1, <2>3 DEF Quiet, Good, Loses, Live, Cycle, Fresh
<1>3. ASSUME s.life.active, ~(s.life.cliff >= LastCliff)
      PROVE  /\ Quiet(s, t) /\ Same(t)
             /\ Quiet(s, scheduleForLifetime(t)) /\ Same(scheduleForLifetime(t))
  <2>0. c \in 0 .. LastCliff
    <3>1. s.life.cliff \in 0 .. LastCliff
      BY <1>1 DEF Life
    <3> QED BY <1>3, <3>1, EndpointAddrAssumption
  <2> HIDE DEF c
  <2>1. n \in Life /\ n.active = s.life.active /\ n.timer = s.life.timer /\ n.addr = s.life.addr
    BY <1>1, <2>0 DEF Life
  <2> HIDE DEF n
  <2>2. t \in Endpoint /\ t.life = n /\ Same(t)
    BY <1>1, <2>1 DEF Endpoint
  <2> HIDE DEF t
  <2>3. Quiet(s, t)
    BY <2>1, <2>2 DEF Quiet, Good, Loses, Live, Cycle, Fresh
  <2>4. Same(scheduleForLifetime(t))
    BY <2>2, <2>3, ScheduleForLifetime DEF Quiet
  <2>5. Quiet(t, scheduleForLifetime(t))
    BY <2>3, ScheduleForLifetime DEF Quiet
  <2> QED BY <2>2, <2>3, <2>4, <2>5, QuietTrans
<1>4. Quiet(s, s)
  BY QuietSame
<1>5. t = [s EXCEPT !.life.cliff = @ + 1]
  BY <1>1 DEF Endpoint
<1>6. /\ [s EXCEPT !.life = resetCycle(@)] = r
  BY <1>1 DEF Endpoint
<1>7. cliffDone(s, i, pong) \in {s, r, t, scheduleForLifetime(t)}
  BY <1>5, <1>6 DEF cliffDone
<1>8. cliffDone(s, i, pong) \in {t, scheduleForLifetime(t)} =>
        cliffDone(s, i, pong) \in {s, r} \/ (s.life.active /\ ~(s.life.cliff >= LastCliff))
  BY <1>5, <1>6 DEF cliffDone
<1> HIDE DEF r, t
<1> QED BY <1>2, <1>3, <1>4, <1>7, <1>8

LEMMA RemoveSentPing ==
  ASSUME NEW s, Good(s), NEW i \in TxIds, NEW pong \in BOOLEAN
  PROVE  /\ Quiet(s, removeSentPing(s, i, pong))
         /\ removeSentPing(s, i, pong).best = s.best /\ removeSentPing(s, i, pong).trust = s.trust
         /\ removeSentPing(s, i, pong).eps = s.eps /\ removeSentPing(s, i, pong).held = s.held
<1> DEFINE t == IF s.sent[i].why = "lifetime" THEN cliffDone(s, i, pong) ELSE s
           sent == [t.sent EXCEPT ![i] = NoPing]
           u == [t EXCEPT !.sent = sent]
<1>1. /\ Quiet(s, t)
      /\ t.best = s.best /\ t.trust = s.trust /\ t.eps = s.eps /\ t.held = s.held
  BY CliffDone, QuietSame
<1> HIDE DEF t
<1>2. t \in Endpoint /\ t.sent \in [TxIds -> Ping \cup {NoPing}]
  BY <1>1, Fields DEF Quiet, Good
<1>3. sent \in [TxIds -> Ping \cup {NoPing}]
  BY <1>2
<1> HIDE DEF sent
<1>4. /\ u \in Endpoint /\ u.life = t.life
      /\ u.best = t.best /\ u.trust = t.trust /\ u.eps = t.eps /\ u.held = t.held
  BY <1>2, <1>3 DEF Endpoint
<1>5. removeSentPing(s, i, pong) = u
  BY <1>2 DEF removeSentPing, t, sent, Endpoint
<1> HIDE DEF u
<1>6. Quiet(s, u)
  BY <1>1, <1>4 DEF Quiet, Good, Loses, Live, Cycle, Fresh
<1> QED BY <1>1, <1>4, <1>5, <1>6

-----------------------------------------------------------------------------
(* The methods with evidence.                                                *)

\* Evidence for the address a: either it is now trusted, or nothing was gained;
\* and a trusted path gives way to one of the other kind only outside of the hold
\* window, which then starts.
Gains(s, t, a) == (t.trust = "before" /\ t.best.addr = a) \/ Loses(s, t)

Holds(s, t) ==
  Compare /\ s.trust = "before" /\ Crosses(s.best, t.best) => ~s.held /\ t.held

Evident(s, t, a) == Good(t) /\ Gains(s, t, a) /\ Holds(s, t)

LEMMA QuietHolds ==
  ASSUME NEW s, NEW t, Loses(s, t)
  PROVE  Holds(s, t)
BY DEF Loses, Holds, Crosses

LEMMA NoteSwap ==
  ASSUME NEW s, Good(s), NEW prev
  PROVE  /\ Good(noteSwap(s, prev)) /\ noteSwap(s, prev).best = s.best
         /\ noteSwap(s, prev).trust = s.trust /\ noteSwap(s, prev).eps = s.eps
         /\ Compare /\ Crosses(prev, s.best) => noteSwap(s, prev).held
<1> DEFINE t == [s EXCEPT !.held = TRUE]
<1>1. s \in Endpoint
  BY DEF Good
<1>2. /\ t \in Endpoint /\ t.held
      /\ t.best = s.best /\ t.life = s.life /\ t.eps = s.eps /\ t.trust = s.trust
  BY <1>1 DEF Endpoint
<1>3. noteSwap(s, prev) = IF Compare /\ Crosses(prev, s.best) THEN t ELSE s
  BY DEF noteSwap
<1> HIDE DEF t
<1>4. Good(t)
  BY <1>2 DEF Good, Live, Cycle
<1> QED BY <1>2, <1>3, <1>4

LEMMA SetTrust ==
  ASSUME NEW s, Good(s)
  PROVE  /\ Good([s EXCEPT !.trust = "before"])
         /\ [s EXCEPT !.trust = "before"].trust = "before"
         /\ [s EXCEPT !.trust = "before"].best = s.best
         /\ [s EXCEPT !.trust = "before"].held = s.held
         /\ [s EXCEPT !.trust = "before"].eps = s.eps
<1> DEFINE t == [s EXCEPT !.trust = "before"]
<1>1. /\ t \in Endpoint /\ t.trust = "before" /\ t.held = s.held
      /\ t.best = s.best /\ t.life = s.life /\ t.eps = s.eps
  BY DEF Good, Endpoint
<1> HIDE DEF t
<1>2. Good(t)
  BY <1>1 DEF Good, Live, Cycle
<1> QED BY <1>1, <1>2 DEF t

\* A relay that relayManager has found ready.
LEMMA UdpRelayEndpointReady ==
  ASSUME NEW s, Good(s), NEW q \in Quality, q.addr \in Relay
  PROVE  /\ Evident(s, udpRelayEndpointReady(s, q), q.addr)
         /\ Fresh(s, udpRelayEndpointReady(s, q))
<1> DEFINE b == setBestAddr(s, q)
           t == [b EXCEPT !.trust = "before"]
           u == noteSwap(t, s.best)
           Swap == \/ s.trust # "before"
                   \/ s.best.addr \in Relay
                   \/ wouldAllowSwap(s, q)
<1>1. Good(b) /\ b.best = q
  BY SetBest
<1> HIDE DEF b
<1>2. Good(t) /\ t.trust = "before" /\ t.best = q
  BY <1>1, SetTrust
<1> HIDE DEF t
<1>3. /\ Good(u) /\ u.best = q /\ u.trust = "before"
      /\ Compare /\ Crosses(s.best, q) => u.held
  BY <1>2, NoteSwap
<1>4. udpRelayEndpointReady(s, q) = s \/ (Swap /\ udpRelayEndpointReady(s, q) = u)
  BY DEF udpRelayEndpointReady, t, b
<1> HIDE DEF u
<1>5. CASE udpRelayEndpointReady(s, q) = s
  BY <1>5, QuietSame, QuietHolds DEF Quiet, Gains, Evident
<1>6. CASE Swap /\ udpRelayEndpointReady(s, q) = u
  <2>1. Gains(s, u, q.addr)
    BY <1>3 DEF Gains
  <2>2. Holds(s, u)
    BY <1>3, <1>6 DEF Holds, Crosses, wouldAllowSwap
  <2>3. Live(u)
    BY <1>3, NotAddr DEF Live
  <2> QED BY <1>3, <1>6, <2>1, <2>2, <2>3 DEF Evident, Fresh
<1> QED BY <1>4, <1>5, <1>6

\* A pong for a ping to q.addr: bestAddr stays, or it is that address.
LEMMA Promote ==
  ASSUME NEW s, Good(s), NEW q \in Quality
  PROVE  /\ Evident(s, promote(s, q), q.addr)
         /\ promote(s, q).eps = s.eps
         /\ promote(s, q).best.addr \in {s.best.addr, q.addr}
<1> DEFINE b == setBestAddr(s, q)
           n == noteSwap(b, s.best)
           Swap == s.trust = "after" \/ wouldAllowSwap(s, q)
           t == IF s.trust = "after" \/ (betterAddr(q, s.best) /\ wouldAllowSwap(s, q))
                THEN n ELSE s
           bl == [t.best EXCEPT !.lat = q.lat]
           u == [t EXCEPT !.best = bl, !.trust = "before"]
<1>1. Good(b) /\ b.best = q /\ b.held = s.held /\ b.eps = s.eps
  BY SetBest
<1> HIDE DEF b
<1>2. /\ Good(n) /\ n.best = q /\ n.eps = s.eps
      /\ Compare /\ Crosses(s.best, q) => n.held
  BY <1>1, NoteSwap
<1> HIDE DEF n
<1>3. /\ Good(t) /\ t.eps = s.eps
      /\ t = s \/ (Swap /\ t = n)
  BY <1>2
<1>4. promote(s, q) = IF t.best.addr = q.addr THEN u ELSE t
  <2>1. [t EXCEPT !.best.lat = q.lat, !.trust = "before"] = u
    BY <1>3 DEF Good, Endpoint
  <2> QED BY <2>1 DEF promote, n, b
<1> HIDE DEF t
<1>5. /\ u \in Endpoint /\ u.trust = "before" /\ u.held = t.held
      /\ u.best.addr = t.best.addr /\ u.life = t.life /\ u.eps = t.eps
  <2>1. t.best \in Quality
    BY <1>3, Fields DEF Good
  <2>2. bl \in Quality /\ bl.addr = t.best.addr
    BY <2>1 DEF Quality
  <2> HIDE DEF bl
  <2> QED BY <1>3, <2>2 DEF Good, Endpoint
<1> HIDE DEF u
<1>6. Good(u)
  BY <1>3, <1>5 DEF Good, Cycle
<1>7. Holds(s, t)
  <2>1. CASE t = s
    BY <2>1 DEF Holds, Crosses
  <2>2. CASE Swap /\ t = n
    BY <1>2, <2>2 DEF Holds, wouldAllowSwap
  <2> QED BY <1>3, <2>1, <2>2
<1>8. CASE t.best.addr = q.addr
  <2>1. Holds(s, u)
    BY <1>5, <1>7 DEF Holds, Crosses
  <2> QED BY <1>3, <1>4, <1>5, <1>6, <1>8, <2>1 DEF Evident, Gains
<1>9. CASE t.best.addr # q.addr
  <2>1. t = s
    BY <1>2, <1>3, <1>9
  <2> QED BY <1>3, <1>4, <1>7, <1>9, <2>1 DEF Evident, Gains, Loses
<1> QED BY <1>8, <1>9

LEMMA HandlePong ==
  ASSUME NEW s, Good(s), NEW i \in TxIds, NEW via \in Ways, NEW omitted, NEW lat \in Latencies,
         s.sent[i].to \in Addr \cup {Derp}, s.sent[i].to = Derp => via # "relay"
  PROVE  /\ Evident(s, handlePong(s, i, via, omitted, lat), s.sent[i].to)
         /\ via = "derp" => Loses(s, handlePong(s, i, via, omitted, lat))
         /\ \/ Fresh(s, handlePong(s, i, via, omitted, lat))
            \/ /\ via = "relay" /\ s.sent[i].to \in Direct
               /\ handlePong(s, i, via, omitted, lat).best.addr = s.sent[i].to
<1> DEFINE to == s.sent[i].to
           t == removeSentPing(s, i, TRUE)
           u == deleteEndpoints(t, {to})
           q == [addr |-> to, server |-> NoServer, lat |-> lat]
           p == promote(t, q)
           h == handlePong(s, i, via, omitted, lat)
           Up == via # "derp" /\ Heeded(s, to, via, omitted)
<1>1. /\ Quiet(s, t)
      /\ t.best = s.best /\ t.trust = s.trust /\ t.eps = s.eps /\ t.held = s.held
  BY RemoveSentPing
<1>2. \/ h \in {t, u}
      \/ Up /\ h = p
  BY DEF handlePong
<1> HIDE DEF t, h
<1>3. Quiet(t, u)
  BY <1>1, DeleteEndpoints DEF Quiet
<1>4. Quiet(s, u)
  BY <1>1, <1>3, QuietTrans
<1> HIDE DEF u
<1>5. ASSUME h \in {t, u}
      PROVE  Evident(s, h, to) /\ Loses(s, h) /\ Fresh(s, h)
  BY <1>1, <1>4, <1>5, QuietHolds DEF Quiet, Evident, Gains
<1>6. ASSUME Up, h = p
      PROVE  /\ Evident(s, h, to)
             /\ via # "derp"
             /\ Fresh(s, h) \/ (via = "relay" /\ to \in Direct /\ h.best.addr = to)
  <2>0. DOMAIN s.eps \in SUBSET Direct
    BY Fields, EpMapOut DEF Good
  <2>1. to \in Addr /\ (via = "direct" => to \in DOMAIN s.eps)
    BY <1>6, <2>0 DEF Heeded, Ways, Addr
  <2>2. q \in Quality /\ q.addr = to
    BY <2>1 DEF Quality
  <2> HIDE DEF q, to
  <2>3. Evident(t, p, to) /\ p.eps = t.eps /\ p.best.addr \in {t.best.addr, to}
    BY <1>1, <2>2, Promote DEF Quiet
  <2> HIDE DEF p
  <2>4. Evident(s, p, to)
    BY <1>1, <2>3 DEF Evident, Gains, Loses, Holds
  <2>5. CASE p.best.addr = t.best.addr
    BY <1>1, <1>6, <2>3, <2>4, <2>5 DEF Fresh, Live
  <2>6. CASE p.best.addr = to
    BY <1>1, <1>6, <2>1, <2>3, <2>4, <2>6 DEF Fresh, Live, Ways
  <2> QED BY <2>3, <2>5, <2>6
<1> QED BY <1>2, <1>5, <1>6 DEF h

-----------------------------------------------------------------------------
(* The actions without evidence.                                             *)

\* More candidates, or other facts about them.
LEMMA MoreEps ==
  ASSUME NEW s, Good(s), NEW e \in EpMap, DOMAIN s.eps \subseteq DOMAIN e
  PROVE  Quiet(s, [s EXCEPT !.eps = e])
<1> DEFINE t == [s EXCEPT !.eps = e]
<1>1. t \in Endpoint /\ t.eps = e /\ t.best = s.best /\ t.life = s.life /\ t.trust = s.trust
  BY SetEps DEF Good
<1> HIDE DEF t
<1>2. Quiet(s, t)
  BY <1>1 DEF Good, Live, Cycle, Quiet, Loses, Fresh
<1> QED BY <1>2 DEF t

\* Another state of the lifetime probes, of the address that was probed or of
\* bestAddr.
LEMMA SetLife ==
  ASSUME NEW s, Good(s), NEW l \in Life,
         l.active \/ l.timer =>
           \/ l.addr = s.best.addr
           \/ (s.life.active \/ s.life.timer) /\ l.addr = s.life.addr
  PROVE  /\ Quiet(s, [s EXCEPT !.life = l]) /\ [s EXCEPT !.life = l].life = l
         /\ [s EXCEPT !.life = l].best = s.best /\ [s EXCEPT !.life = l].sent = s.sent
<1> DEFINE t == [s EXCEPT !.life = l]
<1>1. /\ t \in Endpoint /\ t.eps = s.eps /\ t.best = s.best /\ t.life = l /\ t.trust = s.trust
      /\ t.sent = s.sent
  BY DEF Good, Endpoint
<1> HIDE DEF t
<1>2. Quiet(s, t)
  BY <1>1 DEF Good, Live, Cycle, Quiet, Loses, Fresh
<1> QED BY <1>1, <1>2 DEF t

LEMMA SetBeat ==
  ASSUME NEW s, Good(s), NEW b \in BOOLEAN
  PROVE  /\ Quiet(s, [s EXCEPT !.beat = b]) /\ [s EXCEPT !.beat = b].best = s.best
         /\ [s EXCEPT !.beat = b].life = s.life
<1> DEFINE t == [s EXCEPT !.beat = b]
<1>1. /\ t \in Endpoint /\ t.eps = s.eps /\ t.best = s.best /\ t.life = s.life
      /\ t.trust = s.trust
  BY DEF Good, Endpoint
<1> HIDE DEF t
<1>2. Quiet(s, t)
  BY <1>1 DEF Good, Live, Cycle, Quiet, Loses, Fresh
<1> QED BY <1>1, <1>2 DEF t

\* The lifetime timer is stopped.
LEMMA StopTimer ==
  ASSUME NEW l \in Life
  PROVE  /\ [l EXCEPT !.timer = FALSE] \in Life
         /\ ~[l EXCEPT !.timer = FALSE].timer
         /\ [l EXCEPT !.timer = FALSE].active = l.active
         /\ [l EXCEPT !.timer = FALSE].addr = l.addr
BY DEF Life

LEMMA PingTimeoutStep ==
  ASSUME Good(de), NEW i \in TxIds, PingTimeout(i)
  PROVE  Quiet(de, de')
<1> DEFINE s == IF de.sent[i].to = de.best.addr /\ de.trust = "after"
                THEN clearBestAddr(de) ELSE de
<1>1. Quiet(de, s)
  BY ClearBest, QuietSame
<1>2. de' = removeSentPing(s, i, FALSE)
  BY DEF PingTimeout, discoPingTimeout
<1> HIDE DEF s
<1>3. Quiet(s, de')
  BY <1>1, <1>2, RemoveSentPing DEF Quiet
<1> QED BY <1>1, <1>3, QuietTrans

LEMMA ForgetPingStep ==
  ASSUME Good(de), NEW i \in TxIds, ForgetPing(i)
  PROVE  Quiet(de, de')
BY RemoveSentPing DEF ForgetPing

LEMMA NoteBadEndpointStep ==
  ASSUME Good(de), NEW a \in Addr, NoteBadEndpoint(a)
  PROVE  Quiet(de, de')
<1> DEFINE t == clearBestAddr(de)
           x == [t.eps[a] EXCEPT !.asked = FALSE]
           e == [t.eps EXCEPT ![a] = x]
<1>1. Quiet(de, t)
  BY ClearBest
<1>2. de' = IF a \in DOMAIN t.eps THEN [t EXCEPT !.eps[a].asked = FALSE] ELSE t
  BY DEF NoteBadEndpoint
<1> HIDE DEF t
<1>3. CASE a \notin DOMAIN t.eps
  BY <1>1, <1>2, <1>3
<1>4. CASE a \in DOMAIN t.eps
  <2>1. t \in Endpoint /\ DOMAIN t.eps \in SUBSET Direct /\ t.eps \in [DOMAIN t.eps -> EpState]
    BY <1>1, Fields, EpMapOut DEF Quiet, Good
  <2>2. x \in EpState
    BY <1>4, <2>1 DEF EpState
  <2>3. de' = [t EXCEPT !.eps = e]
    BY <1>2, <1>4, <2>1 DEF Endpoint
  <2> HIDE DEF x
  <2>4. e \in [DOMAIN t.eps -> EpState]
    BY <2>1, <2>2
  <2> HIDE DEF e
  <2>5. e \in EpMap /\ DOMAIN e = DOMAIN t.eps
    BY <2>1, <2>4, EpMapIn
  <2>6. Quiet(t, de')
    BY <1>1, <2>3, <2>5, MoreEps DEF Quiet
  <2> QED BY <1>1, <2>6, QuietTrans
<1> QED BY <1>3, <1>4

LEMMA NoteConnectivityChangeStep ==
  ASSUME Good(de), NoteConnectivityChange
  PROVE  Quiet(de, de')
<1> DEFINE t == clearBestAddr(de)
           e == [d \in DOMAIN t.eps |-> [t.eps[d] EXCEPT !.asked = FALSE]]
<1>1. Quiet(de, t)
  BY ClearBest
<1>2. de' = [t EXCEPT !.eps = [d \in DOMAIN @ |-> [@[d] EXCEPT !.asked = FALSE]]]
  BY DEF NoteConnectivityChange
<1> HIDE DEF t
<1>3. t \in Endpoint /\ DOMAIN t.eps \in SUBSET Direct /\ t.eps \in [DOMAIN t.eps -> EpState]
  BY <1>1, Fields, EpMapOut DEF Quiet, Good
<1>4. e \in [DOMAIN t.eps -> EpState]
  <2> SUFFICES ASSUME NEW d \in DOMAIN t.eps
               PROVE  [t.eps[d] EXCEPT !.asked = FALSE] \in EpState
    OBVIOUS
  <2> QED BY <1>3 DEF EpState
<1>5. de' = [t EXCEPT !.eps = e]
  BY <1>2, <1>3 DEF Endpoint
<1> HIDE DEF e
<1>6. e \in EpMap /\ DOMAIN e = DOMAIN t.eps
  BY <1>3, <1>4, EpMapIn
<1>7. Quiet(t, de')
  BY <1>1, <1>5, <1>6, MoreEps DEF Quiet
<1> QED BY <1>1, <1>7, QuietTrans

LEMMA PingBestQuiet ==
  ASSUME NEW s, Good(s)
  PROVE  Quiet(s, PingBest(s))
<1> DEFINE q == [to |-> s.best.addr, why |-> "heartbeat"]
<1>1. CASE s.best.addr = NoAddr
  BY <1>1, QuietSame DEF PingBest
<1>2. CASE s.best.addr # NoAddr
  <2>1. s.best.addr \in Addr
    BY <1>2, Fields DEF Good, Quality
  <2>2. q \in Ping /\ q.why # "lifetime"
    BY <2>1 DEF Ping
  <2>3. PingBest(s) = startPings(s, {q})
    BY <1>2 DEF PingBest
  <2> HIDE DEF q
  <2> QED BY <2>2, <2>3, StartPings
<1> QED BY <1>1, <1>2

\* The two heartbeats first stop the lifetime timer, and the timer of their own.
LEMMA HeartbeatStops ==
  ASSUME Good(de), NEW b \in BOOLEAN
  PROVE  Quiet(de, [de EXCEPT !.life.timer = FALSE, !.beat = b])
<1> DEFINE l == [de.life EXCEPT !.timer = FALSE]
           s == [de EXCEPT !.life = l]
<1>1. de \in Endpoint /\ de.life \in Life
  BY Fields DEF Good
<1>2. l \in Life /\ ~l.timer /\ l.active = de.life.active /\ l.addr = de.life.addr
  BY <1>1, StopTimer
<1>3. [de EXCEPT !.life.timer = FALSE, !.beat = b] = [s EXCEPT !.beat = b]
  BY <1>1 DEF Endpoint
<1> HIDE DEF l
<1>4. Quiet(de, s)
  BY <1>2, SetLife
<1> HIDE DEF s
<1>5. Quiet(s, [s EXCEPT !.beat = b])
  BY <1>4, SetBeat DEF Quiet
<1> QED BY <1>3, <1>4, <1>5, QuietTrans

LEMMA HeartbeatActiveStep ==
  ASSUME Good(de), NEW interval, NEW old, NEW due, HeartbeatActive(interval, old, due)
  PROVE  Quiet(de, de')
<1> DEFINE b == ~de.quiet
           s == [de EXCEPT !.life.timer = FALSE, !.beat = b]
           t == PingBest(s)
<1>1. b \in BOOLEAN
  OBVIOUS
<1>2. de' \in {s, t, sendDiscoPings(t, old, due)}
  BY DEF HeartbeatActive
<1> HIDE DEF b
<1>3. Quiet(de, s)
  BY <1>1, HeartbeatStops
<1> HIDE DEF s
<1>4. Quiet(s, t)
  BY <1>3, PingBestQuiet DEF Quiet
<1> HIDE DEF t
<1>5. Quiet(t, sendDiscoPings(t, old, due))
  BY <1>4, SendDiscoPings DEF Quiet
<1> QED BY <1>2, <1>3, <1>4, <1>5, QuietTrans

LEMMA HeartbeatIdleStep ==
  ASSUME Good(de), NEW mayStart, HeartbeatIdle(mayStart)
  PROVE  Quiet(de, de')
<1> DEFINE s == [de EXCEPT !.life.timer = FALSE, !.beat = FALSE]
<1>1. de' \in {s, scheduleForLifetime(s)}
  BY DEF HeartbeatIdle
<1>2. Quiet(de, s)
  BY HeartbeatStops
<1> HIDE DEF s
<1>3. Quiet(s, scheduleForLifetime(s))
  BY <1>2, ScheduleForLifetime DEF Quiet
<1> QED BY <1>1, <1>2, <1>3, QuietTrans

LEMMA HeartbeatForLifetimeStep ==
  ASSUME Good(de), NEW mayStart, NEW idle \in {"long", "brief", "cliff"},
         HeartbeatForLifetime(mayStart, idle)
  PROVE  Quiet(de, de')
<1> DEFINE l == [de.life EXCEPT !.timer = FALSE]
           s == [de EXCEPT !.life = l]
           r == resetCycle(s.life)
           a == s.life.active \/ s.life.cliff = 0
           m == [s.life EXCEPT !.active = a]
           t == [s EXCEPT !.life = m]
           q == [to |-> s.best.addr, why |-> "lifetime"]
           Gone == s.life.addr = NoAddr \/ s.best.addr # s.life.addr
<1>1. de \in Endpoint /\ de.life \in Life
  BY Fields DEF Good
<1>2. l \in Life /\ ~l.timer /\ l.active = de.life.active /\ l.addr = de.life.addr
  BY <1>1, StopTimer
<1>3. s = [de EXCEPT !.life.timer = FALSE]
  BY <1>1 DEF Endpoint
<1> HIDE DEF l
<1>4. Quiet(de, s) /\ s.sent = de.sent /\ s.life = l /\ s.best = de.best
  BY <1>2, SetLife
<1>5. s \in Endpoint
  BY <1>4 DEF Quiet, Good
<1>6. t = [s EXCEPT !.life.active = @ \/ s.life.cliff = 0]
  BY <1>5 DEF Endpoint
<1>7. [s EXCEPT !.life = resetCycle(@)] = [s EXCEPT !.life = r]
  BY <1>5 DEF Endpoint
<1>8. \/ de' \in {[s EXCEPT !.life = r], s, scheduleForLifetime(s)}
      \/ ~Gone /\ de' = startPings(t, {q})
  BY <1>3, <1>6, <1>7 DEF HeartbeatForLifetime
<1>9. Quiet(s, [s EXCEPT !.life = r])
  <2>1. r \in Life /\ ~r.active /\ ~r.timer
    BY <1>5, Fields, ResetCycleType
  <2> HIDE DEF r, s
  <2> QED BY <1>4, <2>1, SetLife DEF Quiet
<1>10. Quiet(s, scheduleForLifetime(s))
  BY <1>4, ScheduleForLifetime DEF Quiet
<1>11. ASSUME ~Gone
       PROVE  Quiet(s, startPings(t, {q}))
  <2>1. s.life \in Life /\ s.best.addr \in Addr \cup {NoAddr} /\ s.best.addr # NoAddr
    BY <1>5, <1>11, Fields DEF Quality
  <2>2. q \in Ping
    BY <2>1 DEF Ping
  <2>3. a \in BOOLEAN
    <3>1. s.life.active \in BOOLEAN
      BY <2>1 DEF Life
    <3> QED BY <3>1
  <2> HIDE DEF a, q, s
  <2>4. m \in Life /\ m.addr = s.life.addr
    BY <2>1, <2>3 DEF Life
  <2> HIDE DEF m
  <2>5. Quiet(s, t) /\ t.sent = s.sent
    BY <1>4, <1>11, <2>4, SetLife DEF Quiet
  <2>6. Free(t) # {}
    BY <1>4, <2>5 DEF HeartbeatForLifetime, Free
  <2> HIDE DEF t
  <2>7. Quiet(t, startPings(t, {q}))
    BY <2>2, <2>5, <2>6, StartPings DEF Quiet
  <2> QED BY <2>5, <2>7, QuietTrans
<1> HIDE DEF s, r, t, q
<1>12. Quiet(s, de')
  BY <1>4, <1>8, <1>9, <1>10, <1>11, QuietSame DEF Quiet
<1> QED BY <1>4, <1>12, QuietTrans

LEMMA SendStep ==
  ASSUME Good(de), NEW old, NEW due, Send(old, due)
  PROVE  Quiet(de, de')
<1> DEFINE s == IF de.best.addr \notin Direct \/ de.trust = "after"
                THEN sendDiscoPings(de, old, due) ELSE de
<1>1. Quiet(de, s)
  BY SendDiscoPings, QuietSame
<1>2. de' = noteTxActivity(s)
  BY DEF Send
<1> HIDE DEF s
<1>3. Quiet(s, de')
  BY <1>1, <1>2, NoteTxActivity DEF Quiet
<1> QED BY <1>1, <1>3, QuietTrans

LEMMA DiscoPingStep ==
  ASSUME Good(de), DiscoPing
  PROVE  Quiet(de, de')
<1> DEFINE derp  == IF de.best.addr # NoAddr /\ de.trust # "after" THEN {} ELSE {Derp}
           known == de.best.addr # NoAddr /\ de.trust = "before"
           to    == derp \cup (IF known THEN {de.best.addr} ELSE {})
                         \cup (IF known /\ de.best.addr \in Direct THEN {} ELSE DOMAIN de.eps)
           reqs  == {[to |-> a, why |-> "cli"] : a \in to}
<1>1. de.best.addr \in Addr \cup {NoAddr} /\ DOMAIN de.eps \in SUBSET Direct
  BY Fields, EpMapOut DEF Good, Quality
<1>2. to \in SUBSET (Addr \cup {Derp})
  BY <1>1 DEF Addr
<1>3. de' \in {de, startPings(de, reqs)}
  BY DEF DiscoPing
<1> HIDE DEF to
<1>4. reqs \in SUBSET Ping /\ \A q \in reqs : q.why # "lifetime"
  BY <1>2 DEF Ping
<1> HIDE DEF reqs
<1> QED BY <1>3, <1>4, StartPings, QuietSame

LEMMA NewEpType == NewEp \in EpState
BY DEF NewEp, EpState

LEMMA SetEndpoints ==
  ASSUME NEW s, Good(s), NEW M \in SUBSET Direct, NEW old
  PROVE  Quiet(s, setEndpoints(s, M, old))
<1> DEFINE x(d) == [s.eps[d] EXCEPT !.mapped = d \in M \/ s.eps[d].got]
           e == [d \in DOMAIN s.eps \cup M |-> IF d \in DOMAIN s.eps THEN x(d) ELSE NewEp]
           t == [s EXCEPT !.eps = e]
<1>1. DOMAIN s.eps \in SUBSET Direct /\ s.eps \in [DOMAIN s.eps -> EpState]
  BY Fields, EpMapOut DEF Good
<1>2. \A d \in DOMAIN s.eps : x(d) \in EpState
  BY <1>1 DEF EpState
<1>3. setEndpoints(s, M, old) = deleteEndpoints(t, shouldDelete(t, old))
  BY DEF setEndpoints
<1> HIDE DEF x
<1>4. e \in [DOMAIN s.eps \cup M -> EpState]
  BY <1>2, NewEpType
<1> HIDE DEF e
<1>5. e \in EpMap /\ DOMAIN s.eps \subseteq DOMAIN e
  BY <1>1, <1>4, EpMapIn
<1>6. Quiet(s, t)
  BY <1>5, MoreEps
<1> HIDE DEF t
<1>7. Quiet(t, deleteEndpoints(t, shouldDelete(t, old)))
  BY <1>6, DeleteEndpoints DEF Quiet
<1> QED BY <1>3, <1>6, <1>7, QuietTrans

LEMMA UpdateFromNodeStep ==
  ASSUME Good(de), NEW M \in SUBSET Direct, NEW old, NEW quiet \in BOOLEAN, NEW probe \in BOOLEAN,
         UpdateFromNode(M, old, quiet, probe)
  PROVE  Quiet(de, de')
<1> DEFINE l == CASE ~probe -> [NewLife EXCEPT !.on = FALSE]
                  [] probe /\ ~de.life.on -> NewLife
                  [] OTHER -> de.life
           s == [de EXCEPT !.quiet = quiet, !.life = l]
<1>1. de \in Endpoint /\ de.life \in Life
  BY Fields DEF Good
<1>2. l \in Life /\ (l = de.life \/ (~l.active /\ ~l.timer))
  <2>1. 0 \in 0 .. LastCliff
    BY EndpointAddrAssumption
  <2>2. /\ NewLife \in Life /\ ~NewLife.active /\ ~NewLife.timer
        /\ [NewLife EXCEPT !.on = FALSE] \in Life
        /\ ~[NewLife EXCEPT !.on = FALSE].active /\ ~[NewLife EXCEPT !.on = FALSE].timer
    BY <2>1 DEF NewLife, Life
  <2> QED BY <1>1, <2>2
<1>3. de' = setEndpoints(s, M, old)
  <2>1. s = [de EXCEPT !.quiet = quiet,
                       !.life = CASE ~probe -> [NewLife EXCEPT !.on = FALSE]
                                  [] probe /\ ~@.on -> NewLife
                                  [] OTHER -> @]
    BY <1>1 DEF Endpoint
  <2> QED BY <2>1 DEF UpdateFromNode
<1> HIDE DEF l
<1>4. s \in Endpoint /\ s.life = l /\ s.best = de.best /\ s.eps = de.eps /\ s.trust = de.trust
  BY <1>1, <1>2 DEF Endpoint
<1> HIDE DEF s
<1>5. Quiet(de, s)
  BY <1>2, <1>4 DEF Quiet, Good, Loses, Live, Cycle, Fresh
<1>6. Quiet(s, de')
  BY <1>3, <1>5, SetEndpoints DEF Quiet
<1> QED BY <1>5, <1>6, QuietTrans

LEMMA AddCandidateStep ==
  ASSUME Good(de), NEW d \in Direct, NEW old, AddCandidate(d, old)
  PROVE  Quiet(de, de')
<1> DEFINE n == [NewEp EXCEPT !.got = TRUE]
           e == [x \in DOMAIN de.eps \cup {d} |-> IF x = d THEN n ELSE de.eps[x]]
           t == [de EXCEPT !.eps = e]
<1>1. DOMAIN de.eps \in SUBSET Direct /\ de.eps \in [DOMAIN de.eps -> EpState]
  BY Fields, EpMapOut DEF Good
<1>2. n \in EpState
  BY DEF NewEp, EpState
<1>3. de' \in {de, t, deleteEndpoints(t, shouldDelete(t, old))}
  <2>1. t = [de EXCEPT !.eps = [x \in DOMAIN @ \cup {d} |->
                                  IF x = d THEN [NewEp EXCEPT !.got = TRUE] ELSE @[x]]]
    BY DEF Good, Endpoint
  <2> QED BY <2>1 DEF AddCandidate
<1> HIDE DEF n
<1>4. e \in [DOMAIN de.eps \cup {d} -> EpState]
  BY <1>1, <1>2
<1> HIDE DEF e
<1>5. e \in EpMap /\ DOMAIN de.eps \subseteq DOMAIN e
  BY <1>1, <1>4, EpMapIn
<1>6. Quiet(de, t)
  BY <1>5, MoreEps
<1> HIDE DEF t
<1>7. Quiet(t, deleteEndpoints(t, shouldDelete(t, old)))
  BY <1>6, DeleteEndpoints DEF Quiet
<1> QED BY <1>3, <1>6, <1>7, QuietSame, QuietTrans

LEMMA HandleCallMeMaybeStep ==
  ASSUME Good(de), NEW M \in SUBSET Direct, NEW old, HandleCallMeMaybe(M, old)
  PROVE  Quiet(de, de')
<1> DEFINE n == [NewEp EXCEPT !.asked = TRUE]
           x(d) == [de.eps[d] EXCEPT !.asked = @ \/ d \in M]
           e == [d \in DOMAIN de.eps \cup M |-> IF d \in DOMAIN de.eps THEN x(d) ELSE n]
           c == [de EXCEPT !.cmm = M]
           s == [c EXCEPT !.eps = e]
           t == deleteEndpoints(s, de.cmm \ M)
<1>1. DOMAIN de.eps \in SUBSET Direct /\ de.eps \in [DOMAIN de.eps -> EpState]
  BY Fields, EpMapOut DEF Good
<1>2. n \in EpState /\ \A d \in DOMAIN de.eps : x(d) \in EpState
  BY <1>1 DEF NewEp, EpState
<1>3. de' = sendDiscoPings(t, old, Direct)
  <2>1. s = [de EXCEPT !.cmm = M,
                       !.eps = [d \in DOMAIN de.eps \cup M |->
                                  IF d \in DOMAIN de.eps
                                  THEN [de.eps[d] EXCEPT !.asked = @ \/ d \in M]
                                  ELSE [NewEp EXCEPT !.asked = TRUE]]]
    BY DEF Good, Endpoint
  <2> QED BY <2>1 DEF HandleCallMeMaybe
<1> HIDE DEF n, x
<1>4. e \in [DOMAIN de.eps \cup M -> EpState]
  BY <1>2
<1> HIDE DEF e
<1>5. e \in EpMap /\ DOMAIN de.eps \subseteq DOMAIN e
  BY <1>1, <1>4, EpMapIn
<1>6. Quiet(de, c) /\ c.eps = de.eps
  <2>1. /\ c \in Endpoint /\ c.eps = de.eps /\ c.best = de.best /\ c.life = de.life
        /\ c.trust = de.trust
    BY DEF Good, Endpoint
  <2> HIDE DEF c
  <2> QED BY <2>1 DEF Quiet, Good, Loses, Live, Cycle, Fresh
<1> HIDE DEF c
<1>7. Quiet(c, s)
  BY <1>5, <1>6, MoreEps DEF Quiet
<1> HIDE DEF s
<1>8. Quiet(s, t)
  BY <1>7, DeleteEndpoints DEF Quiet
<1> HIDE DEF t
<1>9. Quiet(t, de')
  BY <1>3, <1>8, SendDiscoPings DEF Quiet
<1> QED BY <1>6, <1>7, <1>8, <1>9, QuietTrans

LEMMA StopAndResetStep ==
  ASSUME Good(de), StopAndReset
  PROVE  Quiet(de, de')
<1> DEFINE t == clearBestAddr(de)
           sent == [i \in TxIds |-> NoPing]
           l == resetCycle(t.life)
           u == [t EXCEPT !.sent = sent, !.life = l, !.beat = FALSE]
<1>1. Quiet(de, t) /\ t \in Endpoint /\ t.life \in Life
  BY ClearBest, Fields DEF Quiet, Good
<1>2. l \in Life /\ ~l.active /\ ~l.timer
  BY <1>1, ResetCycleType
<1>3. sent \in [TxIds -> Ping \cup {NoPing}]
  OBVIOUS
<1>4. de' = u
  BY <1>1 DEF StopAndReset, Endpoint
<1> HIDE DEF t, l, sent
<1>5. u \in Endpoint /\ u.life = l /\ u.eps = t.eps /\ u.best = t.best /\ u.trust = t.trust
  BY <1>1, <1>2, <1>3 DEF Endpoint
<1> HIDE DEF u
<1>6. Quiet(t, u)
  BY <1>1, <1>2, <1>5 DEF Quiet, Good, Loses, Live, Cycle, Fresh
<1> QED BY <1>1, <1>4, <1>6, QuietTrans

LEMMA TimeStep ==
  ASSUME Good(de), TimePasses
  PROVE  Quiet(de, de')
<1>1. /\ de' \in Endpoint /\ de'.best = de.best /\ de'.life = de.life /\ de'.eps = de.eps
      /\ de'.trust # "after" => de.trust # "after"
  <2>1. CASE TrustPasses
    BY <2>1 DEF TrustPasses, Good, Endpoint
  <2>2. CASE HoldPasses
    BY <2>2 DEF HoldPasses, Good, Endpoint
  <2> QED BY <2>1, <2>2 DEF TimePasses
<1> QED BY <1>1 DEF Quiet, Good, Loses, Live, Cycle, Fresh

-----------------------------------------------------------------------------
(* The theorems.                                                             *)

\* The inductive invariant.
AddrInv ==
  /\ Good(de)
  /\ earned \in Addr \cup {NoAddr, Derp} /\ crossed \in Direct \cup {NoAddr}
  /\ TrustEarned /\ BestIsLive

LEMMA InitAddrInv == Init => AddrInv
<1> SUFFICES ASSUME Init PROVE AddrInv
  OBVIOUS
<1> DEFINE l == [NewLife EXCEPT !.on = FALSE]
           sent == [i \in TxIds |-> NoPing]
           d(q) == [best |-> NoQuality, trust |-> "after", held |-> FALSE, eps |-> <<>>, cmm |-> {},
                    sent |-> sent, life |-> l, beat |-> FALSE, quiet |-> q]
<1>1. PICK q \in BOOLEAN : de = d(q)
  BY DEF Init
<1>2. l \in Life /\ ~l.active /\ ~l.timer
  <2>1. 0 \in 0 .. LastCliff
    BY EndpointAddrAssumption
  <2> QED BY <2>1 DEF NewLife, Life
<1>3. sent \in [TxIds -> Ping \cup {NoPing}]
  OBVIOUS
<1>4. <<>> \in EpMap
  <2>1. <<>> \in [{} -> EpState]
    OBVIOUS
  <2> QED BY <2>1, EpMapIn
<1> HIDE DEF l, sent
<1>5. d(q) \in Endpoint
  BY <1>2, <1>3, <1>4, NoQualityType DEF Endpoint, EpMap
<1>6. de \in Endpoint /\ de.best = NoQuality /\ de.life = l /\ NoQuality.addr = NoAddr
  BY <1>1, <1>5 DEF NoQuality
<1>7. Good(de) /\ TrustEarned /\ BestIsLive
  BY <1>2, <1>6, NotAddr DEF Good, Cycle, TrustEarned, BestIsLive, Addr
<1> QED BY <1>7 DEF AddrInv, Init

\* A bestAddr without state stays so only as long as it is marked.
LEMMA StayKeeps ==
  ASSUME AddrInv, Fresh(de, de'), Stay
  PROVE  BestIsLive' /\ crossed' \in Direct \cup {NoAddr}
BY DEF AddrInv, Fresh, Live, Stay, BestIsLive

\* Without evidence, what is trusted was trusted before.
LEMMA FadedKeeps ==
  ASSUME AddrInv, Loses(de, de'), earned' = Faded
  PROVE  TrustEarned' /\ earned' \in Addr \cup {NoAddr, Derp}
BY DEF AddrInv, Loses, Faded, TrustEarned

LEMMA QuietKeeps ==
  ASSUME AddrInv, Quiet(de, de'), Keep
  PROVE  AddrInv' /\ Holds(de, de')
<1>1. Good(de') /\ Loses(de, de') /\ Fresh(de, de')
  BY DEF Quiet
<1>2. Holds(de, de')
  BY <1>1, QuietHolds
<1> QED BY <1>1, <1>2, StayKeeps, FadedKeeps DEF AddrInv, Keep

\* With evidence, it is the address that the evidence is for.
LEMMA EarnKeeps ==
  ASSUME AddrInv, NEW a \in Addr \cup {Derp}, Evident(de, de', a), Earn(a)
  PROVE  TrustEarned' /\ earned' \in Addr \cup {NoAddr, Derp}
BY DEF AddrInv, Evident, Gains, Loses, Earn, Faded, TrustEarned

LEMMA NextAddrInv ==
  ASSUME AddrInv, Next
  PROVE  AddrInv' /\ Holds(de, de')
<1>1. Good(de)
  BY DEF AddrInv
<1>2. ASSUME NEW r \in Relay, NEW lat \in Latencies, Ready(r, lat)
      PROVE  AddrInv' /\ Holds(de, de')
  <2> DEFINE q == [addr |-> r, server |-> ServerOf[r], lat |-> lat]
  <2>1. q \in Quality /\ q.addr = r
    BY DEF Quality, Addr
  <2>2. de' = udpRelayEndpointReady(de, q) /\ Earn(r) /\ Stay
    BY <1>2 DEF Ready
  <2> HIDE DEF q
  <2>3. Evident(de, de', r) /\ Fresh(de, de')
    BY <1>1, <2>1, <2>2, UdpRelayEndpointReady
  <2>4. r \in Addr \cup {Derp}
    BY DEF Addr
  <2> QED BY <2>2, <2>3, <2>4, EarnKeeps, StayKeeps DEF AddrInv, Evident
<1>3. ASSUME NEW i \in TxIds, NEW via \in Ways, NEW omitted, NEW lat \in Latencies,
             RxPong(i, via, omitted, lat)
      PROVE  AddrInv' /\ Holds(de, de')
  <2> DEFINE to == de.sent[i].to
             Odd == via = "relay" /\ to \in Direct /\ de'.best.addr = to
  <2>1. to \in Addr \cup {Derp}
    BY <1>1, <1>3, Fields DEF RxPong, Good, Ping
  <2>2. to = Derp => via # "relay"
    BY <1>3 DEF RxPong
  <2>3. /\ Evident(de, de', to) /\ (via = "derp" => Loses(de, de'))
        /\ Fresh(de, de') \/ Odd
    <3>1. de' = handlePong(de, i, via, omitted, lat)
      BY <1>3 DEF RxPong
    <3> QED BY <1>1, <2>1, <2>2, <3>1, HandlePong
  <2>4. TrustEarned' /\ earned' \in Addr \cup {NoAddr, Derp}
    <3>1. CASE via = "derp"
      <4>1. earned' = Faded
        BY <1>3, <3>1 DEF RxPong
      <4> QED BY <2>3, <3>1, <4>1, FadedKeeps
    <3>2. CASE via # "derp"
      <4>1. Earn(to)
        BY <1>3, <3>2 DEF RxPong
      <4> QED BY <2>1, <2>3, <4>1, EarnKeeps
    <3> QED BY <3>1, <3>2
  <2>5. BestIsLive' /\ crossed' \in Direct \cup {NoAddr}
    <3>1. CASE Odd
      <4>1. crossed' = de'.best.addr
        BY <1>3, <3>1 DEF RxPong
      <4> QED BY <3>1, <4>1 DEF BestIsLive
    <3>2. CASE ~Odd
      <4>1. Stay
        BY <1>3, <3>2 DEF RxPong
      <4> QED BY <2>3, <3>2, <4>1, StayKeeps
    <3> QED BY <3>1, <3>2
  <2> QED BY <2>3, <2>4, <2>5 DEF AddrInv, Evident
<1>4. ASSUME NEW a \in Addr, Receive(a)
      PROVE  AddrInv' /\ Holds(de, de')
  <2> DEFINE t == [de EXCEPT !.trust = "before"]
  <2>1. de' = t /\ Earn(a) /\ Stay /\ de.best.addr = a
    BY <1>4 DEF Receive
  <2>2. Good(t) /\ t.trust = "before" /\ t.best = de.best /\ t.eps = de.eps
    BY <1>1, SetTrust
  <2> HIDE DEF t
  <2>3. Evident(de, de', a) /\ Fresh(de, de')
    BY <2>1, <2>2 DEF Evident, Gains, Holds, Crosses, Fresh, Live
  <2> QED BY <2>1, <2>3, EarnKeeps, StayKeeps DEF AddrInv, Evident
<1>5. ASSUME NEW i \in TxIds, PingTimeout(i) \/ ForgetPing(i)
      PROVE  AddrInv' /\ Holds(de, de')
  <2>1. Quiet(de, de') /\ Keep
    BY <1>1, <1>5, PingTimeoutStep, ForgetPingStep DEF PingTimeout, ForgetPing
  <2> QED BY <1>1, <2>1, QuietKeeps
<1>6. ASSUME NEW a \in Addr, NoteBadEndpoint(a)
      PROVE  AddrInv' /\ Holds(de, de')
  <2>1. Quiet(de, de') /\ Keep
    BY <1>1, <1>6, NoteBadEndpointStep DEF NoteBadEndpoint
  <2> QED BY <1>1, <2>1, QuietKeeps
<1>7. ASSUME NoteConnectivityChange
      PROVE  AddrInv' /\ Holds(de, de')
  <2>1. Quiet(de, de') /\ Keep
    BY <1>1, <1>7, NoteConnectivityChangeStep DEF NoteConnectivityChange
  <2> QED BY <1>1, <2>1, QuietKeeps
<1>8. ASSUME NEW interval, NEW old, NEW due, HeartbeatActive(interval, old, due)
      PROVE  AddrInv' /\ Holds(de, de')
  <2>1. Quiet(de, de') /\ Keep
    BY <1>1, <1>8, HeartbeatActiveStep DEF HeartbeatActive
  <2> QED BY <1>1, <2>1, QuietKeeps
<1>9. ASSUME NEW mayStart, HeartbeatIdle(mayStart)
      PROVE  AddrInv' /\ Holds(de, de')
  <2>1. Quiet(de, de') /\ Keep
    BY <1>1, <1>9, HeartbeatIdleStep DEF HeartbeatIdle
  <2> QED BY <1>1, <2>1, QuietKeeps
<1>10. ASSUME NEW mayStart, NEW idle \in {"long", "brief", "cliff"},
              HeartbeatForLifetime(mayStart, idle)
       PROVE  AddrInv' /\ Holds(de, de')
  <2>1. Quiet(de, de')
    BY <1>1, <1>10, HeartbeatForLifetimeStep
  <2>2. Keep
    BY <1>10 DEF HeartbeatForLifetime
  <2> QED BY <1>1, <2>1, <2>2, QuietKeeps
<1>11. ASSUME NEW old, NEW due, Send(old, due)
       PROVE  AddrInv' /\ Holds(de, de')
  <2>1. Quiet(de, de') /\ Keep
    BY <1>1, <1>11, SendStep DEF Send
  <2> QED BY <1>1, <2>1, QuietKeeps
<1>12. ASSUME DiscoPing
       PROVE  AddrInv' /\ Holds(de, de')
  <2>1. Quiet(de, de') /\ Keep
    BY <1>1, <1>12, DiscoPingStep DEF DiscoPing
  <2> QED BY <2>1, QuietKeeps
<1>13. ASSUME NEW M \in SUBSET Direct, NEW old, NEW quiet \in BOOLEAN, NEW probe \in BOOLEAN,
              UpdateFromNode(M, old, quiet, probe)
       PROVE  AddrInv' /\ Holds(de, de')
  <2>1. Quiet(de, de')
    BY <1>1, <1>13, UpdateFromNodeStep
  <2>2. Keep
    BY <1>13 DEF UpdateFromNode
  <2> QED BY <1>1, <2>1, <2>2, QuietKeeps
<1>14. ASSUME NEW d \in Direct, NEW old, AddCandidate(d, old)
       PROVE  AddrInv' /\ Holds(de, de')
  <2>1. Quiet(de, de') /\ Keep
    BY <1>1, <1>14, AddCandidateStep DEF AddCandidate
  <2> QED BY <1>1, <2>1, QuietKeeps
<1>15. ASSUME NEW M \in SUBSET Direct, NEW old, HandleCallMeMaybe(M, old)
       PROVE  AddrInv' /\ Holds(de, de')
  <2>1. Quiet(de, de') /\ Keep
    BY <1>1, <1>15, HandleCallMeMaybeStep DEF HandleCallMeMaybe
  <2> QED BY <1>1, <2>1, QuietKeeps
<1>16. ASSUME StopAndReset
       PROVE  AddrInv' /\ Holds(de, de')
  <2>1. Quiet(de, de') /\ Keep
    BY <1>1, <1>16, StopAndResetStep DEF StopAndReset
  <2> QED BY <1>1, <2>1, QuietKeeps
<1>17. ASSUME TimePasses
       PROVE  AddrInv' /\ Holds(de, de')
  <2>1. Quiet(de, de') /\ Keep
    BY <1>1, <1>17, TimeStep DEF TimePasses, TrustPasses, HoldPasses
  <2> QED BY <1>1, <2>1, QuietKeeps
<1>18. CASE Evidence
  BY <1>2, <1>3, <1>4, <1>18 DEF Evidence
<1>19. CASE Failures
  BY <1>5, <1>6, <1>7, <1>19 DEF Failures
<1>20. CASE TimersAndTraffic
  BY <1>8, <1>9, <1>10, <1>11, <1>12, <1>20 DEF TimersAndTraffic
<1>21. CASE Candidates
  BY <1>13, <1>14, <1>15, <1>16, <1>21 DEF Candidates
<1> QED BY <1>17, <1>18, <1>19, <1>20, <1>21 DEF Next

LEMMA AddrInvKept == AddrInv /\ [Next]_vars => AddrInv'
<1> SUFFICES ASSUME AddrInv, [Next]_vars PROVE AddrInv'
  OBVIOUS
<1>1. CASE Next
  BY <1>1, NextAddrInv
<1>2. CASE UNCHANGED vars
  BY <1>2 DEF vars, AddrInv, Good, Cycle, TrustEarned, BestIsLive
<1> QED BY <1>1, <1>2

\* The methods of endpoint, in any order, keep the record good and the trust earned.
THEOREM AddrAlwaysInv == Spec => []AddrInv
BY InitAddrInv, AddrInvKept, PTL DEF Spec

\* Every field of the endpoint keeps its type, whatever the methods called on it
\* and their order.
THEOREM AddrTypeCorrect == Spec => []TypeOK
<1>1. AddrInv => TypeOK
  BY DEF AddrInv, Good, TypeOK
<1> QED BY <1>1, AddrAlwaysInv, PTL

\* bestAddr is trusted only on a pong for a ping sent to that very address, a
\* ready call for it or a packet received from it.
THEOREM TrustIsEarned == Spec => []TrustEarned
<1>1. AddrInv => TrustEarned
  BY DEF AddrInv
<1> QED BY <1>1, AddrAlwaysInv, PTL

\* A direct bestAddr is a candidate the endpoint still has state for, unless a
\* relayed pong for a direct ping made it bestAddr.
THEOREM BestStaysLive == Spec => []BestIsLive
<1>1. AddrInv => BestIsLive
  BY DEF AddrInv
<1> QED BY <1>1, AddrAlwaysInv, PTL

\* A lifetime-probing cycle that is scheduled or active is about bestAddr.
THEOREM CycleFollowsBest == Spec => []CycleOfBest
<1>1. AddrInv => CycleOfBest
  BY DEF AddrInv, Good, Cycle, CycleOfBest
<1> QED BY <1>1, AddrAlwaysInv, PTL

\* Where the two kinds of path are compared, a trusted path is exchanged for one
\* of the other kind only outside of the hold window, and the exchange starts one.
THEOREM HoldWindowKept == Spec => HoldKept
<1> DEFINE Step == Compare /\ de.trust = "before" /\ Crosses(de.best, de'.best)
                     => ~de.held /\ de'.held
<1>1. AddrInv /\ [Next]_vars => [Step]_vars
  <2>1. AddrInv /\ Next => Step
    BY NextAddrInv DEF Holds
  <2> QED BY <2>1
<1> HIDE DEF Step
<1>2. Spec => [][Step]_vars
  BY <1>1, AddrAlwaysInv, PTL DEF Spec
<1> QED BY <1>2 DEF HoldKept, Step

LEMMA FasterType ==
  ASSUME NEW a \in Quality, NEW b \in Quality
  PROVE  Faster(a, b) \in Int
<1>1. a.lat \in Nat /\ b.lat \in Nat
  <2>1. a.lat \in Latencies \cup {0} /\ b.lat \in Latencies \cup {0}
    BY DEF Quality
  <2>2. Latencies \subseteq Nat /\ 0 \in Nat
    BY EndpointAddrAssumption
  <2> QED BY <2>1, <2>2
<1>2. \A m, n \in Nat : n > 0 => (m * 100) \div n \in Int
  OBVIOUS
<1>3. CASE b.lat > 0 /\ a.lat <= b.lat
  BY <1>1, <1>2, <1>3 DEF Faster
<1>4. CASE ~(b.lat > 0 /\ a.lat <= b.lat)
  BY <1>4 DEF Faster
<1> QED BY <1>3, <1>4

\* betterAddr never prefers each of two addresses to the other.
LEMMA BetterAsymmetric ==
  ASSUME NEW a \in Quality, NEW b \in Quality, betterAddr(a, b)
  PROVE  ~betterAddr(b, a)
<1> SUFFICES ASSUME betterAddr(b, a) PROVE FALSE
  OBVIOUS
<1> DEFINE ap == Faster(a, b) + Boost[a.addr]
           bp == Faster(b, a) + Boost[b.addr]
           Same == {a.addr, b.addr} \subseteq Direct \/ {a.addr, b.addr} \subseteq Relay
<1>1. a.addr # NoAddr /\ b.addr # NoAddr
  BY NotAddr DEF betterAddr, Addr
<1>2. a.addr \in Addr /\ b.addr \in Addr
  BY <1>1 DEF Quality
<1>3. Same
  BY <1>1, <1>2, NotAddr DEF betterAddr, Addr
<1>4. ap > bp /\ bp > ap
  BY <1>1, <1>3, NotAddr DEF betterAddr
<1>5. ap \in Int /\ bp \in Int
  <2>1. Boost[a.addr] \in Int /\ Boost[b.addr] \in Int
    BY <1>2, EndpointAddrAssumption
  <2> QED BY <2>1, FasterType
<1> HIDE DEF ap, bp
<1> QED BY <1>4, <1>5

\* An address that would replace bestAddr would not be replaced by it in turn.
THEOREM NeverFlaps == Spec => []NoFlapping
<1>1. AddrInv => NoFlapping
  <2> SUFFICES ASSUME AddrInv, NEW q \in Quality PROVE ~(betterAddr(q, de.best) /\ betterAddr(de.best, q))
    BY DEF NoFlapping
  <2>1. de.best \in Quality
    BY Fields DEF AddrInv, Good
  <2> QED BY <2>1, BetterAsymmetric
<1> QED BY <1>1, AddrAlwaysInv, PTL
=============================================================================
