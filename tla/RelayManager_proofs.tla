------------------------- MODULE RelayManager_proofs -------------------------
(* Proofs about RelayManager, for every value of its constants.              *)
EXTENDS RelayManager, FiniteSetTheorems, SequenceTheorems, TLAPS

-----------------------------------------------------------------------------
(* Allocation work.                                                          *)

AllocWork ==
  [pc : {"none", "wait", "send", "end"}, ep : Peers \cup {None},
   node : Servers \cup {None}, cancelled : BOOLEAN, full : BOOLEAN,
   got : ServerEndpoint \cup {None}]

\* An identity without work has reported nothing; work has an endpoint and a server.
AllocSound(r) ==
  /\ r \in AllocWork
  /\ r.pc = "none" => ~r.full
  /\ r.pc # "none" => r.ep \in Peers /\ r.node \in Servers

AllocInv ==
  /\ alloc \in [AllocIds -> AllocWork] /\ \A w \in AllocIds : AllocSound(alloc[w])
  /\ allocByEp \subseteq AllocIds /\ allocByEp = allocByKeys
  /\ \A w \in allocByEp : alloc[w].pc = "wait" \/ alloc[w].full
  /\ \A v, w \in allocByEp :
       alloc[v].node = alloc[w].node /\ DiscoOf[alloc[v].ep] = DiscoOf[alloc[w].ep] => v = w

LEMMA NoAllocSound == AllocSound(NoAlloc) /\ NoAlloc.pc = "none"
BY DEF AllocSound, AllocWork, NoAlloc

\* One piece of work changes; if it stays in the maps it keeps its keys, and will report.
LEMMA AllocUpdate ==
  ASSUME AllocInv, NEW w \in AllocIds, NEW r, AllocSound(r),
         alloc' = [alloc EXCEPT ![w] = r],
         allocByEp' = allocByEp \/ allocByEp' = allocByEp \ {w}, allocByKeys' = allocByEp',
         w \in allocByEp' =>
           r.ep = alloc[w].ep /\ r.node = alloc[w].node /\ (r.pc = "wait" \/ r.full)
  PROVE  AllocInv'
<1>1. alloc' \in [AllocIds -> AllocWork] /\ \A v \in AllocIds : AllocSound(alloc'[v])
  BY DEF AllocInv, AllocSound
<1>2. \A v \in AllocIds : alloc'[v] = IF v = w THEN r ELSE alloc[v]
  BY DEF AllocInv
<1>3. allocByEp' \subseteq allocByEp /\ allocByEp \subseteq AllocIds
  BY DEF AllocInv
<1>4. \A v \in allocByEp' : alloc'[v].pc = "wait" \/ alloc'[v].full
  BY <1>2, <1>3 DEF AllocInv
<1>5. \A v \in allocByEp' : alloc'[v].node = alloc[v].node /\ alloc'[v].ep = alloc[v].ep
  BY <1>2, <1>3
<1>6. \A v, x \in allocByEp' :
        alloc'[v].node = alloc'[x].node /\ DiscoOf[alloc'[v].ep] = DiscoOf[alloc'[x].ep] => v = x
  BY <1>3, <1>5 DEF AllocInv
<1> QED BY <1>1, <1>3, <1>4, <1>6 DEF AllocInv

LEMMA AllocReturned ==
  ASSUME NEW r, AllocSound(r), r.pc # "none"
  PROVE  /\ AllocSound(Returned(r)) /\ Returned(r).full
         /\ Returned(r).ep = r.ep /\ Returned(r).node = r.node /\ Returned(r).pc = "send"
<1> DEFINE t == [r EXCEPT !.pc = "send", !.full = TRUE]
<1>1. t \in AllocWork /\ t.full /\ t.pc = "send" /\ t.ep = r.ep /\ t.node = r.node
  BY DEF AllocSound, AllocWork
<1>2. Returned(r) = t
  BY DEF Returned
<1> HIDE DEF t
<1> QED BY <1>1, <1>2 DEF AllocSound

LEMMA AllocDoneMaps ==
  ASSUME AllocInv, NEW w \in AllocIds, NEW rest, AllocDone(w, rest)
  PROVE  /\ allocByKeys' = allocByEp' /\ w \notin allocByEp'
         /\ allocByEp' = allocByEp \/ allocByEp' = allocByEp \ {w}
<1>1. CASE w \in allocByEp
  <2>1. allocByEp' = allocByEp \ {w} /\ allocByKeys' = allocByKeys \ {w}
    BY <1>1 DEF AllocDone
  <2> QED BY <2>1 DEF AllocInv
<1>2. CASE w \notin allocByEp
  <2>1. allocByEp' = allocByEp /\ allocByKeys' = allocByKeys
    BY <1>2 DEF AllocDone
  <2> QED BY <1>2, <2>1 DEF AllocInv
<1> QED BY <1>1, <1>2

\* What is read from doneCh is then handled, which takes the work out of the maps.
LEMMA AllocReadDone ==
  ASSUME AllocInv, NEW w \in AllocIds, NEW rest, AllocRead(w), AllocDone(w, rest)
  PROVE  AllocInv'
<1> DEFINE u == [alloc[w] EXCEPT !.full = FALSE]
           r == IF alloc[w].pc = "end" THEN NoAlloc ELSE u
<1>1. AllocSound(alloc[w])
  BY DEF AllocInv
<1>2. AllocSound(u)
  <2>1. u \in AllocWork /\ ~u.full /\ u.pc = alloc[w].pc /\ u.ep = alloc[w].ep
        /\ u.node = alloc[w].node
    BY <1>1 DEF AllocSound, AllocWork
  <2> HIDE DEF u
  <2> QED BY <1>1, <2>1 DEF AllocSound
<1>3. alloc' = [alloc EXCEPT ![w] = r]
  BY DEF AllocRead, AllocInv
<1> HIDE DEF u
<1>4. AllocSound(r)
  BY <1>2, NoAllocSound
<1> HIDE DEF r
<1>5. /\ allocByKeys' = allocByEp' /\ w \notin allocByEp'
      /\ allocByEp' = allocByEp \/ allocByEp' = allocByEp \ {w}
  BY AllocDoneMaps
<1> QED BY <1>3, <1>4, <1>5, AllocUpdate

LEMMA AllocSendsKeeps ==
  ASSUME AllocInv, NEW w \in AllocIds, AllocSends(w)
  PROVE  AllocInv'
<1> DEFINE u == [alloc[w] EXCEPT !.pc = "end"]
<1>1. AllocSound(alloc[w]) /\ alloc[w].pc = "send"
  BY DEF AllocInv, AllocSends
<1>2. u \in AllocWork /\ u.full = alloc[w].full /\ u.pc = "end" /\ u.ep = alloc[w].ep
      /\ u.node = alloc[w].node
  BY <1>1 DEF AllocSound, AllocWork
<1>3. CASE /\ alloc' = [alloc EXCEPT ![w] = IF w \in allocByEp THEN u ELSE NoAlloc]
           /\ allocByEp' = allocByEp /\ allocByKeys' = allocByKeys
  <2> DEFINE r == IF w \in allocByEp THEN u ELSE NoAlloc
  <2> HIDE DEF u
  <2>1. AllocSound(r)
    BY <1>1, <1>2, NoAllocSound DEF AllocSound
  <2>2. w \in allocByEp => r.ep = alloc[w].ep /\ r.node = alloc[w].node /\ r.full
    BY <1>1, <1>2 DEF AllocInv
  <2>3. alloc' = [alloc EXCEPT ![w] = r] /\ allocByEp' = allocByEp /\ allocByKeys' = allocByEp'
    BY <1>3 DEF AllocInv
  <2> HIDE DEF r
  <2> QED BY <2>1, <2>2, <2>3, AllocUpdate
<1>4. CASE alloc' = [alloc EXCEPT ![w] = NoAlloc] /\ AllocDone(w, <<>>)
  <2>1. /\ allocByKeys' = allocByEp' /\ w \notin allocByEp'
        /\ allocByEp' = allocByEp \/ allocByEp' = allocByEp \ {w}
    BY <1>4, AllocDoneMaps
  <2> QED BY <1>4, <2>1, NoAllocSound, AllocUpdate
<1>5. \/ /\ alloc' = [alloc EXCEPT ![w] = IF w \in allocByEp THEN u ELSE NoAlloc]
         /\ allocByEp' = allocByEp /\ allocByKeys' = allocByKeys
      \/ alloc' = [alloc EXCEPT ![w] = NoAlloc] /\ AllocDone(w, <<>>)
  BY DEF AllocSends, AllocInv
<1> QED BY <1>3, <1>4, <1>5

LEMMA AllocGivesUpKeeps ==
  ASSUME AllocInv, NEW w \in AllocIds, AllocGivesUp(w)
  PROVE  AllocInv'
<1> DEFINE r == Returned(alloc[w])
<1>1. AllocSound(alloc[w]) /\ alloc[w].pc # "none"
  BY DEF AllocInv, AllocGivesUp
<1>2. AllocSound(r) /\ r.full /\ r.ep = alloc[w].ep /\ r.node = alloc[w].node
  BY <1>1, AllocReturned
<1>3. alloc' = [alloc EXCEPT ![w] = r] /\ allocByEp' = allocByEp /\ allocByKeys' = allocByEp'
  BY DEF AllocGivesUp, AllocInv
<1> HIDE DEF r
<1> QED BY <1>2, <1>3, AllocUpdate

LEMMA GiveAllocKeeps ==
  ASSUME AllocInv, NEW w \in AllocIds, GiveAlloc(w), UNCHANGED <<allocByEp, allocByKeys>>
  PROVE  AllocInv'
<1>1. CASE UNCHANGED alloc
  BY <1>1 DEF AllocInv
<1>2. ASSUME NEW se \in ServerEndpoint,
             alloc' = [alloc EXCEPT ![w] = Returned([@ EXCEPT !.got = se])]
      PROVE  AllocInv'
  <2> DEFINE u == [alloc[w] EXCEPT !.got = se]
             r == Returned(u)
  <2>1. AllocSound(alloc[w]) /\ alloc[w].pc # "none"
    BY DEF AllocInv, GiveAlloc
  <2>2. /\ u \in AllocWork /\ u.full = alloc[w].full /\ u.pc = alloc[w].pc
        /\ u.ep = alloc[w].ep /\ u.node = alloc[w].node
    BY <2>1 DEF AllocSound, AllocWork
  <2>3. alloc' = [alloc EXCEPT ![w] = r]
    BY <1>2 DEF AllocInv
  <2> HIDE DEF u
  <2>4. AllocSound(u) /\ u.pc # "none"
    BY <2>1, <2>2 DEF AllocSound
  <2>5. AllocSound(r) /\ r.full /\ r.ep = u.ep /\ r.node = u.node
    BY <2>4, AllocReturned
  <2> HIDE DEF r
  <2>6. allocByEp' = allocByEp /\ allocByKeys' = allocByEp'
    BY DEF AllocInv
  <2> QED BY <2>2, <2>3, <2>5, <2>6, AllocUpdate
<1> QED BY <1>1, <1>2 DEF GiveAlloc

\* New work is for servers that have none under these keys, under identities of its own.
LEMMA StartDiscoveryKeepsAlloc ==
  ASSUME AllocInv, NEW p \in Peers, StartDiscovery(p)
  PROVE  AllocInv'
<1> DEFINE new == {s \in Servers : servers[s] # None /\ AllocFor(s, DiscoOf[p]) = {}}
           free == {w \in AllocIds : alloc[w].pc = "none"}
           work(s) == [NoAlloc EXCEPT !.pc = "wait", !.ep = p, !.node = s]
<1>1. CASE UNCHANGED allocVars
  BY <1>1 DEF allocVars, AllocInv
<1>2. ASSUME NEW id \in [new -> free],
             \A s, t \in new : id[s] = id[t] => s = t,
             alloc' = [w \in AllocIds |->
                         IF \E s \in new : id[s] = w THEN work(CHOOSE s \in new : id[s] = w)
                         ELSE alloc[w]],
             allocByEp' = allocByEp \cup {id[s] : s \in new},
             allocByKeys' = allocByKeys \cup {id[s] : s \in new}
      PROVE  AllocInv'
  <2>1. \A s \in Servers : /\ work(s) \in AllocWork /\ work(s).pc = "wait"
                           /\ work(s).ep = p /\ work(s).node = s
    BY DEF AllocWork, NoAlloc
  <2>2. \A s \in Servers : AllocSound(work(s))
    BY <2>1 DEF AllocSound
  <2>3. \A s \in new : s \in Servers /\ AllocFor(s, DiscoOf[p]) = {}
    OBVIOUS
  <2>4. \A s \in new : id[s] \in AllocIds /\ alloc[id[s]].pc = "none"
    OBVIOUS
  <2> HIDE DEF new, work
  <2>5. \A s \in new : alloc'[id[s]] = work(s)
    <3> SUFFICES ASSUME NEW s \in new PROVE alloc'[id[s]] = work(s)
      OBVIOUS
    <3>1. (CHOOSE t \in new : id[t] = id[s]) = s
      BY <1>2
    <3> QED BY <1>2, <2>4, <3>1
  <2>6. \A w \in AllocIds : (\A s \in new : id[s] # w) => alloc'[w] = alloc[w]
    BY <1>2
  <2>7. \A w \in allocByEp : w \in AllocIds /\ alloc[w].pc # "none"
    BY DEF AllocInv, AllocSound
  <2>8. \A w \in allocByEp : alloc'[w] = alloc[w]
    BY <2>4, <2>6, <2>7
  <2>9. \A w \in AllocIds : AllocSound(alloc'[w])
    BY <2>2, <2>3, <2>5, <2>6 DEF AllocInv
  <2>10. alloc' \in [AllocIds -> AllocWork]
    <3>1. alloc' = [w \in AllocIds |-> alloc'[w]]
      BY <1>2
    <3> QED BY <2>9, <3>1 DEF AllocSound
  <2>11. /\ allocByEp' \subseteq AllocIds /\ allocByEp' = allocByKeys'
         /\ \A w \in allocByEp' : alloc'[w].pc = "wait" \/ alloc'[w].full
    BY <1>2, <2>1, <2>3, <2>4, <2>5, <2>8 DEF AllocInv
  <2>12. ASSUME NEW v \in allocByEp', NEW w \in allocByEp',
                alloc'[v].node = alloc'[w].node, DiscoOf[alloc'[v].ep] = DiscoOf[alloc'[w].ep]
         PROVE  v = w
    <3>1. ASSUME NEW s \in new, NEW x \in allocByEp,
                 work(s).node = alloc[x].node, DiscoOf[work(s).ep] = DiscoOf[alloc[x].ep]
          PROVE  FALSE
      <4>1. x \in AllocFor(s, DiscoOf[p])
        BY <2>1, <2>3, <3>1 DEF AllocFor, AllocInv
      <4> QED BY <2>3, <4>1
    <3>2. CASE v \in allocByEp /\ w \in allocByEp
      BY <2>8, <2>12, <3>2 DEF AllocInv
    <3>3. ASSUME NEW s \in new, v = id[s], w \in allocByEp PROVE FALSE
      BY <2>5, <2>8, <2>12, <3>1, <3>3
    <3>4. ASSUME NEW s \in new, w = id[s], v \in allocByEp PROVE FALSE
      BY <2>5, <2>8, <2>12, <3>1, <3>4
    <3>5. ASSUME NEW s \in new, NEW t \in new, v = id[s], w = id[t] PROVE v = w
      BY <2>1, <2>3, <2>5, <2>12, <3>5
    <3> QED BY <1>2, <3>2, <3>3, <3>4, <3>5
  <2> QED BY <2>9, <2>10, <2>11, <2>12 DEF AllocInv
<1> QED BY <1>1, <1>2 DEF StartDiscovery

\* What a pass of stopWork still has to cancel is in the maps.
StopLeft ==
  todo # <<>> /\ Head(todo).k = "stop" =>
    /\ Head(todo).pass = "alloc" => Head(todo).left \subseteq allocByEp
    /\ Head(todo).pass = "hand" => Head(todo).left \subseteq handByEp

LEMMA CancelKeepsAlloc ==
  ASSUME AllocInv, NEW w \in allocByEp, alloc' = [alloc EXCEPT ![w].cancelled = TRUE],
         UNCHANGED <<allocByEp, allocByKeys>>
  PROVE  AllocInv'
<1> DEFINE r == [alloc[w] EXCEPT !.cancelled = TRUE]
<1>1. AllocSound(alloc[w]) /\ w \in AllocIds
  BY DEF AllocInv
<1>2. /\ r \in AllocWork /\ r.full = alloc[w].full /\ r.pc = alloc[w].pc
      /\ r.ep = alloc[w].ep /\ r.node = alloc[w].node
  BY <1>1 DEF AllocSound, AllocWork
<1>3. alloc' = [alloc EXCEPT ![w] = r]
  BY DEF AllocInv
<1> HIDE DEF r
<1>4. AllocSound(r) /\ (r.pc = "wait" \/ r.full)
  BY <1>1, <1>2 DEF AllocSound, AllocInv
<1>5. allocByEp' = allocByEp /\ allocByKeys' = allocByEp'
  BY DEF AllocInv
<1> QED BY <1>1, <1>2, <1>3, <1>4, <1>5, AllocUpdate

LEMMA AllocInvKept ==
  ASSUME AllocInv, todo \in Seq(Task), StopLeft, Next
  PROVE  AllocInv'
<1>1. CASE UNCHANGED allocVars
  BY <1>1 DEF allocVars, AllocInv
<1>2. ASSUME NEW e \in Event, Call(e) PROVE AllocInv'
  BY <1>1, <1>2 DEF Call
<1>3. CASE \/ StartLoop \/ LoopEnters \/ LoopReturns
           \/ RxChallenge \/ Rx \/ ServersUpdate \/ NewServerEndpoint
  BY <1>1, <1>3
  DEF StartLoop, LoopEnters, LoopReturns, RxChallenge, Rx, ServersUpdate, NewServerEndpoint
<1>4. ASSUME NEW c, NEW k, NEW t, TakeTask(c, k, t) PROVE AllocInv'
  BY <1>1, <1>4 DEF TakeTask
<1>10. ASSUME NEW p \in Peers, TakeStop(p) PROVE AllocInv'
  BY <1>4, <1>10 DEF TakeStop
<1>11. CASE StopWork
  BY <1>1, <1>11, CancelKeepsAlloc DEF StopWork, StopLeft, allocVars
<1>5. ASSUME NEW w \in HandIds, HandBegins(w) \/ HandGivesUp(w) \/ HandReturns(w) \/ HandSends(w)
      PROVE  AllocInv'
  BY <1>1, <1>5 DEF HandBegins, HandGivesUp, HandReturns, HandSends, HandDone, allocVars
<1>6. ASSUME NEW p \in Peers, EndpointReady(p) PROVE AllocInv'
  BY <1>1, <1>6 DEF EndpointReady
<1>7. CASE GiveToHand
  BY <1>1, <1>7 DEF GiveToHand, HandDone, allocVars
<1>8. CASE AwaitDone
  <2>1. Head(todo).k = "awaitAlloc" => Head(todo).w \in AllocIds
    <3>1. Head(todo) \in Task
      BY <1>8 DEF AwaitDone
    <3> QED BY <3>1 DEF Task
  <2> QED BY <1>1, <1>8, <2>1, AllocReadDone DEF AwaitDone, HandDone, allocVars
<1>9. CASE GiveToAlloc
  BY <1>9, GiveAllocKeeps, AllocReadDone DEF GiveToAlloc
<1> QED BY <1>2, <1>3, <1>4, <1>5, <1>6, <1>7, <1>8, <1>9, <1>10, <1>11,
           StartDiscoveryKeepsAlloc, AllocGivesUpKeeps, AllocSendsKeeps
    DEF Next, RunLoop

-----------------------------------------------------------------------------
(* Handshake work.                                                           *)

HandWork ==
  [pc : {"none", "begin", "wait", "return", "send", "end"}, ep : Peers \cup {None},
   se : ServerEndpoint \cup {None}, cancelled : BOOLEAN, full : BOOLEAN,
   answered : BOOLEAN, pong : BOOLEAN]

\* A handshake that goes on has not succeeded yet, and has not reported.
HandSound(r) ==
  /\ r \in HandWork
  /\ r.pc = "none" => ~r.full
  /\ r.pc # "none" => r.ep \in Peers /\ r.se \in ServerEndpoint
  /\ r.pc \in {"none", "begin", "wait"} => ~r.pong

HandMaps ==
  /\ hand \in [HandIds -> HandWork] /\ \A w \in HandIds : HandSound(hand[w])
  /\ handByEp \subseteq HandIds /\ handByEp = handByVNI
  /\ \A w \in handByEp : hand[w].pc \in {"begin", "wait", "return"} \/ hand[w].full
  /\ \A v, w \in handByEp : hand[v].se.srv = hand[w].se.srv =>
       (v = w <=> hand[v].ep = hand[w].ep) /\ (v = w <=> hand[v].se.vni = hand[w].se.vni)

\* The two maps by which messages are routed are each other's inverse.
Routes ==
  /\ DOMAIN awaiting \subseteq handByEp /\ \A w \in DOMAIN awaiting : awaiting[w] \in APV
  /\ DOMAIN apvTo = {awaiting[w] : w \in DOMAIN awaiting}
  /\ \A w \in DOMAIN awaiting : apvTo[awaiting[w]] = w

InfoHeld == discoInfo \in [Servers -> SUBSET HandIds] /\ DiscoInfoHeld

Successes == {w \in handByEp : hand[w].pong}
Told == IsFiniteSet(Successes) /\ owed = Cardinality(Successes)

HandInv == HandMaps /\ Routes /\ InfoHeld /\ Told

LEMMA NoHandSound == HandSound(NoHand) /\ NoHand.pc = "none" /\ ~NoHand.pong
BY DEF HandSound, HandWork, NoHand

\* One handshake changes; if it stays in the maps it keeps its keys, and will report.
LEMMA HandUpdate ==
  ASSUME HandMaps, NEW w \in HandIds, NEW r, HandSound(r),
         hand' = [hand EXCEPT ![w] = r],
         handByEp' = handByEp \/ handByEp' = handByEp \ {w}, handByVNI' = handByEp',
         w \in handByEp' =>
           /\ r.ep = hand[w].ep /\ r.se = hand[w].se
           /\ r.pc \in {"begin", "wait", "return"} \/ r.full
  PROVE  HandMaps'
<1>1. hand' \in [HandIds -> HandWork] /\ \A v \in HandIds : HandSound(hand'[v])
  BY DEF HandMaps, HandSound
<1>2. \A v \in HandIds : hand'[v] = IF v = w THEN r ELSE hand[v]
  BY DEF HandMaps
<1>3. handByEp' \subseteq handByEp /\ handByEp \subseteq HandIds
  BY DEF HandMaps
<1>4. \A v \in handByEp' : hand'[v].pc \in {"begin", "wait", "return"} \/ hand'[v].full
  BY <1>2, <1>3 DEF HandMaps
<1>5. \A v \in handByEp' : hand'[v].se = hand[v].se /\ hand'[v].ep = hand[v].ep
  BY <1>2, <1>3
<1>6. \A v, x \in handByEp' : hand'[v].se.srv = hand'[x].se.srv =>
        (v = x <=> hand'[v].ep = hand'[x].ep) /\ (v = x <=> hand'[v].se.vni = hand'[x].se.vni)
  BY <1>3, <1>5 DEF HandMaps
<1> QED BY <1>1, <1>3, <1>4, <1>6 DEF HandMaps

\* The disco key of a server is held as before if the handshake goes on as before.
LEMMA InfoUpdate ==
  ASSUME HandMaps, InfoHeld, NEW w \in HandIds, NEW r, hand' = [hand EXCEPT ![w] = r],
         discoInfo' = discoInfo,
         r.pc \in {"wait", "return"} <=> hand[w].pc \in {"wait", "return"},
         r.pc \in {"wait", "return"} => r.se = hand[w].se
  PROVE  InfoHeld'
<1>1. \A v \in HandIds : hand'[v] = IF v = w THEN r ELSE hand[v]
  BY DEF HandMaps
<1>2. ASSUME NEW s \in Servers
      PROVE  {v \in HandIds : hand'[v].pc \in {"wait", "return"} /\ hand'[v].se.srv = s}
               = {v \in HandIds : hand[v].pc \in {"wait", "return"} /\ hand[v].se.srv = s}
  BY <1>1
<1> QED BY <1>2 DEF InfoHeld, DiscoInfoHeld

\* Successes are told as before if none is added, and none of the maps' changes.
LEMMA ToldSame ==
  ASSUME Told, owed' = owed, handByEp' = handByEp,
         \A w \in handByEp : hand'[w].pong = hand[w].pong
  PROVE  Told'
<1>1. Successes' = Successes
  BY DEF Successes
<1> QED BY <1>1 DEF Told

LEMMA RoutesSame ==
  ASSUME Routes, UNCHANGED <<awaiting, apvTo>>, handByEp \subseteq handByEp'
  PROVE  Routes'
BY DEF Routes

LEMMA RoutesForget ==
  ASSUME Routes, NEW w, Forget(w)
  PROVE  Routes'
<1> DEFINE D == DOMAIN awaiting \ {w}
           A == {b \in DOMAIN apvTo : apvTo[b] # w}
<1>1. /\ awaiting' = [v \in D |-> awaiting[v]] /\ apvTo' = [a \in A |-> apvTo[a]]
      /\ handByEp' = handByEp \ {w}
  BY DEF Forget
<1>2. DOMAIN awaiting' = D /\ DOMAIN apvTo' = A /\ \A v \in D : awaiting'[v] = awaiting[v]
  BY <1>1
<1>3. A = {awaiting[v] : v \in D}
  BY DEF Routes
<1>4. \A v \in D : awaiting[v] \in A /\ apvTo'[awaiting[v]] = v
  BY <1>1, <1>3 DEF Routes
<1>5. D \subseteq handByEp' /\ \A v \in D : awaiting[v] \in APV
  BY <1>1 DEF Routes
<1> HIDE DEF D, A
<1>6. A = {awaiting'[v] : v \in D}
  BY <1>2, <1>3
<1> QED BY <1>2, <1>4, <1>5, <1>6 DEF Routes

LEMMA HandDoneMaps ==
  ASSUME HandMaps, NEW w \in HandIds, NEW rest, HandDone(w, rest)
  PROVE  /\ handByVNI' = handByEp' /\ w \notin handByEp'
         /\ handByEp' = handByEp \/ handByEp' = handByEp \ {w}
<1>1. CASE w \in handByEp
  <2>1. handByEp' = handByEp \ {w} /\ handByVNI' = handByVNI \ {w}
    BY <1>1 DEF HandDone, Registered, Forget
  <2> QED BY <2>1 DEF HandMaps
<1>2. CASE w \notin handByEp
  <2>1. handByEp' = handByEp /\ handByVNI' = handByVNI
    BY <1>2 DEF HandDone, Registered
  <2> QED BY <1>2, <2>1 DEF HandMaps
<1> QED BY <1>1, <1>2

LEMMA HandDoneRoutes ==
  ASSUME Routes, NEW w \in HandIds, NEW rest, HandDone(w, rest)
  PROVE  Routes'
<1>1. CASE w \in handByEp
  <2>1. Forget(w)
    BY <1>1 DEF HandDone, Registered
  <2> QED BY <2>1, RoutesForget
<1>2. CASE w \notin handByEp
  <2>1. UNCHANGED <<handByEp, awaiting, apvTo>>
    BY <1>2 DEF HandDone, Registered
  <2> QED BY <2>1, RoutesSame
<1> QED BY <1>1, <1>2

\* The first report of a success is told, and no other.
LEMMA HandDoneTold ==
  ASSUME HandMaps, Told, NEW w \in HandIds, NEW rest, HandDone(w, rest), NEW r,
         hand' = [hand EXCEPT ![w] = r]
  PROVE  Told'
<1>1. \A v \in HandIds : v # w => hand'[v] = hand[v]
  BY DEF HandMaps
<1>2. CASE w \notin handByEp
  <2>1. UNCHANGED <<handByEp, owed>>
    BY <1>2 DEF HandDone, Registered
  <2>2. \A v \in handByEp : hand'[v].pong = hand[v].pong
    BY <1>1, <1>2 DEF HandMaps
  <2> QED BY <2>1, <2>2, ToldSame
<1>3. CASE w \in handByEp
  <2> DEFINE S == Successes
  <2>1. /\ handByEp' = handByEp \ {w}
        /\ owed' = IF hand[w].pong THEN owed - 1 ELSE owed
    BY <1>3 DEF HandDone, Registered, Forget
  <2>2. Successes' = S \ {w} /\ (w \in S <=> hand[w].pong)
    BY <1>1, <1>3, <2>1 DEF Successes, HandMaps
  <2>3. IsFiniteSet(S) /\ owed = Cardinality(S)
    BY DEF Told
  <2> HIDE DEF S
  <2>4. /\ IsFiniteSet(S \ {w})
        /\ Cardinality(S \ {w}) = IF w \in S THEN Cardinality(S) - 1 ELSE Cardinality(S)
    BY <2>3, FS_RemoveElement
  <2> QED BY <2>1, <2>2, <2>3, <2>4 DEF Told
<1> QED BY <1>2, <1>3

\* What is read from doneCh is then handled, and what the loop is sent.
LEMMA HandEnds ==
  ASSUME HandInv, NEW w \in HandIds, NEW rest, NEW r, HandSound(r),
         hand' = [hand EXCEPT ![w] = r], discoInfo' = discoInfo, HandDone(w, rest),
         r.pc \in {"wait", "return"} <=> hand[w].pc \in {"wait", "return"},
         r.pc \in {"wait", "return"} => r.se = hand[w].se
  PROVE  HandInv'
<1>1. /\ handByVNI' = handByEp' /\ w \notin handByEp'
      /\ handByEp' = handByEp \/ handByEp' = handByEp \ {w}
  BY HandDoneMaps DEF HandInv
<1>2. HandMaps'
  BY <1>1, HandUpdate DEF HandInv
<1>3. InfoHeld'
  BY InfoUpdate DEF HandInv
<1> QED BY <1>2, <1>3, HandDoneRoutes, HandDoneTold DEF HandInv

LEMMA HandReadDone ==
  ASSUME HandInv, NEW w \in HandIds, NEW rest, HandRead(w), HandDone(w, rest),
         discoInfo' = discoInfo
  PROVE  HandInv'
<1> DEFINE u == [hand[w] EXCEPT !.full = FALSE]
           r == IF hand[w].pc = "end" THEN NoHand ELSE u
<1>1. HandSound(hand[w])
  BY DEF HandInv, HandMaps
<1>2. /\ u \in HandWork /\ ~u.full /\ u.pc = hand[w].pc /\ u.ep = hand[w].ep
      /\ u.se = hand[w].se /\ u.pong = hand[w].pong
  BY <1>1 DEF HandSound, HandWork
<1>3. hand' = [hand EXCEPT ![w] = r]
  BY DEF HandRead, HandInv, HandMaps
<1> HIDE DEF u
<1>4. HandSound(u)
  BY <1>1, <1>2 DEF HandSound
<1>5. /\ HandSound(r)
      /\ r.pc \in {"wait", "return"} <=> hand[w].pc \in {"wait", "return"}
      /\ r.pc \in {"wait", "return"} => r.se = hand[w].se
  BY <1>2, <1>4, NoHandSound
<1> HIDE DEF r
<1> QED BY <1>3, <1>5, HandEnds

\* A handshake changes and no map does.
LEMMA HandGoesOn ==
  ASSUME HandInv, NEW w \in HandIds, NEW r, HandSound(r), hand' = [hand EXCEPT ![w] = r],
         UNCHANGED <<handByEp, handByVNI, awaiting, apvTo, owed>>, InfoHeld',
         w \in handByEp =>
           /\ r.ep = hand[w].ep /\ r.se = hand[w].se /\ r.pong = hand[w].pong
           /\ r.pc \in {"begin", "wait", "return"} \/ r.full
  PROVE  HandInv'
<1>1. handByEp' = handByEp /\ handByVNI' = handByEp'
  BY DEF HandInv, HandMaps
<1>2. HandMaps'
  BY <1>1, HandUpdate DEF HandInv
<1>3. Told'
  <2>1. \A v \in handByEp : hand'[v].pong = hand[v].pong
    BY DEF HandInv, HandMaps
  <2> QED BY <2>1, ToldSame DEF HandInv
<1>4. Routes'
  BY RoutesSame DEF HandInv
<1> QED BY <1>2, <1>3, <1>4 DEF HandInv

LEMMA HandSendsKeeps ==
  ASSUME HandInv, NEW w \in HandIds, HandSends(w)
  PROVE  HandInv'
<1> DEFINE u == [hand[w] EXCEPT !.pc = "end"]
<1>1. HandSound(hand[w]) /\ hand[w].pc = "send" /\ discoInfo' = discoInfo
  BY DEF HandInv, HandMaps, HandSends
<1>2. /\ u \in HandWork /\ u.full = hand[w].full /\ u.pc = "end" /\ u.ep = hand[w].ep
      /\ u.se = hand[w].se /\ u.pong = hand[w].pong
  BY <1>1 DEF HandSound, HandWork
<1>3. CASE /\ hand' = [hand EXCEPT ![w] = IF w \in handByEp THEN u ELSE NoHand]
           /\ UNCHANGED <<handByEp, handByVNI, awaiting, apvTo, owed>>
  <2> DEFINE r == IF w \in handByEp THEN u ELSE NoHand
  <2> HIDE DEF u
  <2>1. HandSound(r) /\ r.pc \in {"end", "none"}
    BY <1>1, <1>2, NoHandSound DEF HandSound
  <2>2. w \in handByEp =>
          r.ep = hand[w].ep /\ r.se = hand[w].se /\ r.pong = hand[w].pong /\ r.full
    BY <1>1, <1>2 DEF HandInv, HandMaps
  <2>3. hand' = [hand EXCEPT ![w] = r]
    BY <1>3
  <2> HIDE DEF r
  <2>4. InfoHeld'
    BY <1>1, <2>1, <2>3, InfoUpdate DEF HandInv
  <2> QED BY <1>3, <2>1, <2>2, <2>3, <2>4, HandGoesOn
<1>4. CASE hand' = [hand EXCEPT ![w] = NoHand] /\ HandDone(w, <<>>)
  BY <1>1, <1>4, NoHandSound, HandEnds
<1>5. \/ /\ hand' = [hand EXCEPT ![w] = IF w \in handByEp THEN u ELSE NoHand]
         /\ UNCHANGED <<handByEp, handByVNI, awaiting, apvTo, owed>>
      \/ hand' = [hand EXCEPT ![w] = NoHand] /\ HandDone(w, <<>>)
  BY DEF HandSends, HandInv, HandMaps
<1> QED BY <1>3, <1>4, <1>5

\* Cancelling only sets a flag, which the goroutine sees later.
LEMMA CancelKeeps ==
  ASSUME HandInv, NEW w \in handByEp, hand' = [hand EXCEPT ![w].cancelled = TRUE],
         UNCHANGED <<handByEp, handByVNI, awaiting, apvTo, owed, discoInfo>>
  PROVE  HandInv'
<1> DEFINE r == [hand[w] EXCEPT !.cancelled = TRUE]
<1>1. HandSound(hand[w]) /\ w \in HandIds
      /\ (hand[w].pc \in {"begin", "wait", "return"} \/ hand[w].full)
  BY DEF HandInv, HandMaps
<1>2. /\ r \in HandWork /\ r.full = hand[w].full /\ r.pc = hand[w].pc
      /\ r.ep = hand[w].ep /\ r.se = hand[w].se /\ r.pong = hand[w].pong
  BY <1>1 DEF HandSound, HandWork
<1>3. hand' = [hand EXCEPT ![w] = r]
  BY DEF HandInv, HandMaps
<1> HIDE DEF r
<1>4. HandSound(r)
  BY <1>1, <1>2 DEF HandSound
<1>5. InfoHeld'
  BY <1>1, <1>2, <1>3, InfoUpdate DEF HandInv
<1> QED BY <1>1, <1>2, <1>3, <1>4, <1>5, HandGoesOn

LEMMA HandGivesUpKeeps ==
  ASSUME HandInv, NEW w \in HandIds, HandGivesUp(w)
  PROVE  HandInv'
<1> DEFINE r == [hand[w] EXCEPT !.pc = "return"]
<1>1. HandSound(hand[w]) /\ hand[w].pc = "wait" /\ discoInfo' = discoInfo
  BY DEF HandInv, HandMaps, HandGivesUp
<1>2. /\ r \in HandWork /\ r.full = hand[w].full /\ r.pc = "return"
      /\ r.ep = hand[w].ep /\ r.se = hand[w].se /\ r.pong = hand[w].pong
  BY <1>1 DEF HandSound, HandWork
<1>3. /\ hand' = [hand EXCEPT ![w] = r]
      /\ UNCHANGED <<handByEp, handByVNI, awaiting, apvTo, owed>>
  BY DEF HandInv, HandMaps, HandGivesUp
<1> HIDE DEF r
<1>4. HandSound(r)
  BY <1>1, <1>2 DEF HandSound
<1>5. InfoHeld'
  BY <1>1, <1>2, <1>3, InfoUpdate DEF HandInv
<1> QED BY <1>1, <1>2, <1>3, <1>4, <1>5, HandGoesOn

\* The server's disco key is asked for by the handshake that begins.
LEMMA HandBeginsKeeps ==
  ASSUME HandInv, NEW w \in HandIds, HandBegins(w)
  PROVE  HandInv'
<1>1. HandSound(hand[w]) /\ hand[w].pc = "begin"
  BY DEF HandInv, HandMaps, HandBegins
<1>2. hand[w].se.srv \in Servers
  BY <1>1, RelayAssumption DEF HandSound, ServerEndpoint
<1>3. PICK pc \in {"wait", "return"} : hand' = [hand EXCEPT ![w].pc = pc]
  BY DEF HandBegins
<1> DEFINE r == [hand[w] EXCEPT !.pc = pc]
<1>4. /\ r \in HandWork /\ r.full = hand[w].full /\ r.pc = pc
      /\ r.ep = hand[w].ep /\ r.se = hand[w].se /\ r.pong = hand[w].pong
  BY <1>1 DEF HandSound, HandWork
<1>5. /\ hand' = [hand EXCEPT ![w] = r]
      /\ UNCHANGED <<handByEp, handByVNI, awaiting, apvTo, owed>>
  BY <1>3 DEF HandInv, HandMaps, HandBegins
<1> HIDE DEF r
<1>6. HandSound(r)
  BY <1>1, <1>4 DEF HandSound
<1>7. InfoHeld'
  <2>1. \A v \in HandIds : hand'[v] = IF v = w THEN r ELSE hand[v]
    BY <1>5 DEF HandInv, HandMaps
  <2>2. discoInfo' = [discoInfo EXCEPT ![hand[w].se.srv] = @ \cup {w}]
    BY DEF HandBegins
  <2>3. discoInfo' \in [Servers -> SUBSET HandIds]
    BY <2>2 DEF HandInv, InfoHeld
  <2>4. ASSUME NEW s \in Servers
        PROVE  discoInfo'[s]
                 = {v \in HandIds : hand'[v].pc \in {"wait", "return"} /\ hand'[v].se.srv = s}
    <3>1. discoInfo'[s] = IF s = hand[w].se.srv THEN discoInfo[s] \cup {w} ELSE discoInfo[s]
      BY <1>2, <2>2 DEF HandInv, InfoHeld
    <3>2. discoInfo[s]
            = {v \in HandIds : hand[v].pc \in {"wait", "return"} /\ hand[v].se.srv = s}
      BY DEF HandInv, InfoHeld, DiscoInfoHeld
    <3> QED BY <1>1, <1>4, <2>1, <3>1, <3>2
  <2> QED BY <2>3, <2>4 DEF InfoHeld, DiscoInfoHeld
<1> QED BY <1>1, <1>4, <1>5, <1>6, <1>7, HandGoesOn

\* It is given back when the handshake returns.
LEMMA HandReturnsKeeps ==
  ASSUME HandInv, NEW w \in HandIds, HandReturns(w)
  PROVE  HandInv'
<1> DEFINE r == [hand[w] EXCEPT !.pc = "send", !.full = TRUE]
<1>1. HandSound(hand[w]) /\ hand[w].pc = "return"
  BY DEF HandInv, HandMaps, HandReturns
<1>2. hand[w].se.srv \in Servers
  BY <1>1, RelayAssumption DEF HandSound, ServerEndpoint
<1>3. /\ r \in HandWork /\ r.full /\ r.pc = "send"
      /\ r.ep = hand[w].ep /\ r.se = hand[w].se /\ r.pong = hand[w].pong
  BY <1>1 DEF HandSound, HandWork
<1>4. /\ hand' = [hand EXCEPT ![w] = r]
      /\ UNCHANGED <<handByEp, handByVNI, awaiting, apvTo, owed>>
  BY DEF HandInv, HandMaps, HandReturns, Returned
<1> HIDE DEF r
<1>5. HandSound(r)
  BY <1>1, <1>3 DEF HandSound
<1>6. InfoHeld'
  <2>1. \A v \in HandIds : hand'[v] = IF v = w THEN r ELSE hand[v]
    BY <1>4 DEF HandInv, HandMaps
  <2>2. discoInfo' = [discoInfo EXCEPT ![hand[w].se.srv] = @ \ {w}]
    BY DEF HandReturns
  <2>3. discoInfo' \in [Servers -> SUBSET HandIds]
    BY <2>2 DEF HandInv, InfoHeld
  <2>4. ASSUME NEW s \in Servers
        PROVE  discoInfo'[s]
                 = {v \in HandIds : hand'[v].pc \in {"wait", "return"} /\ hand'[v].se.srv = s}
    <3>1. discoInfo'[s] = IF s = hand[w].se.srv THEN discoInfo[s] \ {w} ELSE discoInfo[s]
      BY <1>2, <2>2 DEF HandInv, InfoHeld
    <3>2. discoInfo[s]
            = {v \in HandIds : hand[v].pc \in {"wait", "return"} /\ hand[v].se.srv = s}
      BY DEF HandInv, InfoHeld, DiscoInfoHeld
    <3> QED BY <1>1, <1>3, <2>1, <3>1, <3>2
  <2> QED BY <2>3, <2>4 DEF InfoHeld, DiscoInfoHeld
<1> QED BY <1>1, <1>3, <1>4, <1>5, <1>6, HandGoesOn

\* A message reaches a handshake that is in the maps; a pong is one more success owed.
LEMMA GiveHandKeeps ==
  ASSUME HandInv, NEW w \in handByEp, NEW m, GiveHand(w, m),
         UNCHANGED <<handByEp, handByVNI, awaiting, apvTo, discoInfo>>
  PROVE  HandInv'
<1>1. HandSound(hand[w]) /\ hand[w].pc = "wait" /\ w \in HandIds
  BY DEF HandInv, HandMaps, GiveHand
<1>2. CASE UNCHANGED <<hand, owed>>
  BY <1>2 DEF HandInv, HandMaps, Routes, InfoHeld, DiscoInfoHeld, Told, Successes
<1>3. CASE hand' = [hand EXCEPT ![w].answered = TRUE] /\ owed' = owed
  <2> DEFINE r == [hand[w] EXCEPT !.answered = TRUE]
  <2>1. /\ r \in HandWork /\ r.full = hand[w].full /\ r.pc = "wait"
        /\ r.ep = hand[w].ep /\ r.se = hand[w].se /\ r.pong = hand[w].pong
    BY <1>1 DEF HandSound, HandWork
  <2>2. hand' = [hand EXCEPT ![w] = r]
    BY <1>3 DEF HandInv, HandMaps
  <2> HIDE DEF r
  <2>3. HandSound(r)
    BY <1>1, <2>1 DEF HandSound
  <2>4. InfoHeld'
    BY <1>1, <2>1, <2>2, InfoUpdate DEF HandInv
  <2> QED BY <1>1, <1>3, <2>1, <2>2, <2>3, <2>4, HandGoesOn
<1>4. CASE hand' = [hand EXCEPT ![w].pong = TRUE, ![w].pc = "return"] /\ owed' = owed + 1
  <2> DEFINE r == [hand[w] EXCEPT !.pong = TRUE, !.pc = "return"]
             S == Successes
  <2>1. /\ r \in HandWork /\ r.full = hand[w].full /\ r.pc = "return"
        /\ r.ep = hand[w].ep /\ r.se = hand[w].se /\ r.pong
    BY <1>1 DEF HandSound, HandWork
  <2>2. hand' = [hand EXCEPT ![w] = r]
    BY <1>4 DEF HandInv, HandMaps
  <2> HIDE DEF r
  <2>3. HandSound(r)
    BY <1>1, <2>1 DEF HandSound
  <2>4. InfoHeld'
    BY <1>1, <2>1, <2>2, InfoUpdate DEF HandInv
  <2>5. handByEp' = handByEp /\ handByVNI' = handByEp'
    BY DEF HandInv, HandMaps
  <2>6. HandMaps'
    BY <1>1, <2>1, <2>2, <2>3, <2>5, HandUpdate DEF HandInv
  <2>7. Routes'
    BY RoutesSame DEF HandInv
  <2>8. Successes' = S \cup {w} /\ w \notin S
    <3>1. \A v \in HandIds : hand'[v] = IF v = w THEN r ELSE hand[v]
      BY <2>2 DEF HandInv, HandMaps
    <3> QED BY <1>1, <2>1, <3>1 DEF Successes, HandInv, HandMaps, HandSound
  <2>9. IsFiniteSet(S) /\ owed = Cardinality(S)
    BY DEF HandInv, Told
  <2> HIDE DEF S
  <2>10. IsFiniteSet(S \cup {w}) /\ Cardinality(S \cup {w}) = Cardinality(S) + 1
    BY <2>8, <2>9, FS_AddElement
  <2>11. Told'
    BY <1>4, <2>8, <2>9, <2>10 DEF Told
  <2> QED BY <2>4, <2>6, <2>7, <2>11 DEF HandInv
<1> QED BY <1>2, <1>3, <1>4 DEF GiveHand

\* A handshake is started only where neither key is taken.
LEMMA NewHandKeeps ==
  ASSUME HandInv, NEW p \in Peers, NEW se \in ServerEndpoint, NEW w \in HandIds,
         hand[w].pc = "none", HandForVNI(se.srv, se.vni) = {}, HandForEp(p, se.srv) = {},
         hand' = [hand EXCEPT ![w] = [NoHand EXCEPT !.pc = "begin", !.ep = p, !.se = se]],
         handByEp' = handByEp \cup {w}, handByVNI' = handByVNI \cup {w},
         UNCHANGED <<awaiting, apvTo, discoInfo, owed>>
  PROVE  HandInv'
<1> DEFINE r == [NoHand EXCEPT !.pc = "begin", !.ep = p, !.se = se]
<1>1. r \in HandWork /\ r.pc = "begin" /\ r.ep = p /\ r.se = se /\ ~r.pong
  BY DEF HandWork, NoHand
<1>2. hand' = [hand EXCEPT ![w] = r]
  OBVIOUS
<1> HIDE DEF r
<1>3. HandSound(r)
  BY <1>1 DEF HandSound
<1>4. w \notin handByEp /\ handByEp \subseteq HandIds /\ handByEp = handByVNI
  BY DEF HandInv, HandMaps, HandSound
<1>5. \A v \in HandIds : hand'[v] = IF v = w THEN r ELSE hand[v]
  BY <1>2 DEF HandInv, HandMaps
<1>6. InfoHeld'
  BY <1>1, <1>2, InfoUpdate DEF HandInv
<1>7. Told'
  <2>1. Successes' = Successes
    BY <1>1, <1>4, <1>5 DEF Successes
  <2> QED BY <2>1 DEF HandInv, Told
<1>8. HandMaps'
  <2>1. hand' \in [HandIds -> HandWork] /\ \A v \in HandIds : HandSound(hand'[v])
    BY <1>1, <1>2, <1>3 DEF HandInv, HandMaps
  <2>2. handByEp' \subseteq HandIds /\ handByEp' = handByVNI'
    BY <1>4
  <2>3. \A v \in handByEp' : hand'[v].pc \in {"begin", "wait", "return"} \/ hand'[v].full
    BY <1>1, <1>4, <1>5 DEF HandInv, HandMaps
  <2>4. \A v \in handByEp : hand[v].se.srv = se.srv => hand[v].ep # p /\ hand[v].se.vni # se.vni
    BY <1>4 DEF HandForVNI, HandForEp
  <2>5. ASSUME NEW v \in handByEp', NEW x \in handByEp', hand'[v].se.srv = hand'[x].se.srv
        PROVE  (v = x <=> hand'[v].ep = hand'[x].ep) /\ (v = x <=> hand'[v].se.vni = hand'[x].se.vni)
    <3>1. CASE v \in handByEp /\ x \in handByEp
      BY <1>4, <1>5, <2>5, <3>1 DEF HandInv, HandMaps
    <3>2. CASE v = w \/ x = w
      BY <1>1, <1>4, <1>5, <2>4, <2>5, <3>2
    <3> QED BY <3>1, <3>2
  <2> QED BY <2>1, <2>2, <2>3, <2>5 DEF HandMaps
<1>9. Routes'
  BY RoutesSame DEF HandInv
<1> QED BY <1>6, <1>7, <1>8, <1>9 DEF HandInv

LEMMA NewServerEndpointKeepsHand ==
  ASSUME HandInv, todo \in Seq(Task), NewServerEndpoint
  PROVE  HandInv'
<1> DEFINE e == Head(todo)
           same == HandForVNI(e.se.srv, e.se.vni)
           mine == HandForEp(e.ep, e.se.srv)
           old == IF same # {} THEN same ELSE mine
<1>1. e \in Task /\ e.k = "new"
  BY DEF NewServerEndpoint
<1>2. e.ep \in Peers /\ e.se \in ServerEndpoint
  BY <1>1 DEF Task
<1>3. old \subseteq handByEp /\ (old = {} => same = {} /\ mine = {})
  BY DEF HandForVNI, HandForEp, HandInv, HandMaps
<1>4. UNCHANGED <<awaiting, apvTo, discoInfo, owed>>
  BY DEF NewServerEndpoint
<1>5. \/ UNCHANGED <<hand, handByEp, handByVNI>>
      \/ \E w \in old : /\ hand' = [hand EXCEPT ![w].cancelled = TRUE]
                        /\ UNCHANGED <<handByEp, handByVNI>>
      \/ /\ old = {}
         /\ \E w \in HandIds :
              /\ hand[w].pc = "none"
              /\ hand' = [hand EXCEPT ![w] = [NoHand EXCEPT !.pc = "begin", !.ep = e.ep,
                                                            !.se = e.se]]
              /\ handByEp' = (handByEp \ mine) \cup {w}
              /\ handByVNI' = (handByVNI \ same) \cup {w}
  BY DEF NewServerEndpoint
<1> HIDE DEF e, old
<1>6. CASE UNCHANGED <<hand, handByEp, handByVNI>>
  BY <1>4, <1>6 DEF HandInv, HandMaps, Routes, InfoHeld, DiscoInfoHeld, Told, Successes
<1>7. ASSUME NEW w \in old, hand' = [hand EXCEPT ![w].cancelled = TRUE],
             UNCHANGED <<handByEp, handByVNI>>
      PROVE  HandInv'
  BY <1>3, <1>4, <1>7, CancelKeeps
<1>8. ASSUME NEW w \in HandIds, old = {}, hand[w].pc = "none",
             hand' = [hand EXCEPT ![w] = [NoHand EXCEPT !.pc = "begin", !.ep = e.ep, !.se = e.se]],
             handByEp' = (handByEp \ mine) \cup {w}, handByVNI' = (handByVNI \ same) \cup {w}
      PROVE  HandInv'
  <2>1. same = {} /\ mine = {}
    BY <1>3, <1>8
  <2>2. handByEp' = handByEp \cup {w} /\ handByVNI' = handByVNI \cup {w}
    BY <1>8, <2>1
  <2>3. HandForVNI(e.se.srv, e.se.vni) = {} /\ HandForEp(e.ep, e.se.srv) = {}
    BY <2>1
  <2> QED BY <1>2, <1>4, <1>8, <2>2, <2>3, NewHandKeeps
<1> QED BY <1>5, <1>6, <1>7, <1>8

\* A challenge ties a free address to a handshake that has none.
LEMMA RxChallengeKeepsHand ==
  ASSUME HandInv, calls[Conn] \in Event, RxChallenge
  PROVE  HandInv'
<1> DEFINE e == calls[Conn]
<1>1. e.apv \in APV
  <2>1. e.k = "chal"
    BY DEF RxChallenge, Take
  <2> QED BY <2>1 DEF Event
<1>2. UNCHANGED <<hand, handByEp, handByVNI, discoInfo, owed>>
  BY DEF RxChallenge
<1>3. HandMaps' /\ InfoHeld' /\ Told'
  BY <1>2 DEF HandInv, HandMaps, InfoHeld, DiscoInfoHeld, Told, Successes
<1>4. ASSUME NEW w \in handByEp, w \notin DOMAIN awaiting, e.apv \notin DOMAIN apvTo,
             awaiting' = [v \in DOMAIN awaiting \cup {w} |->
                            IF v = w THEN e.apv ELSE awaiting[v]],
             apvTo' = [a \in DOMAIN apvTo \cup {e.apv} |-> IF a = e.apv THEN w ELSE apvTo[a]]
      PROVE  Routes'
  <2> DEFINE D == DOMAIN awaiting \cup {w}
  <2>1. /\ DOMAIN awaiting' = D /\ awaiting'[w] = e.apv
        /\ \A v \in DOMAIN awaiting : awaiting'[v] = awaiting[v]
    BY <1>4
  <2>2. /\ DOMAIN apvTo' = DOMAIN apvTo \cup {e.apv} /\ apvTo'[e.apv] = w
        /\ \A a \in DOMAIN apvTo : apvTo'[a] = apvTo[a]
    BY <1>4
  <2>3. D \subseteq handByEp' /\ \A v \in D : awaiting'[v] \in APV
    BY <1>1, <1>2, <1>4, <2>1 DEF HandInv, Routes
  <2>4. DOMAIN apvTo = {awaiting[v] : v \in DOMAIN awaiting}
    BY DEF HandInv, Routes
  <2>5. DOMAIN apvTo' = {awaiting'[v] : v \in D}
    BY <2>1, <2>2, <2>4
  <2>6. \A v \in D : apvTo'[awaiting'[v]] = v
    BY <1>4, <2>1, <2>2, <2>4 DEF HandInv, Routes
  <2> QED BY <2>1, <2>3, <2>5, <2>6 DEF Routes
<1>5. \A w : w \in HandForVNI(e.srv, e.apv[2]) => w \in handByEp
  BY DEF HandForVNI, HandInv, HandMaps
<1>6. Routes'
  <2>1. \/ UNCHANGED <<awaiting, apvTo>>
        \/ \E w \in HandForVNI(e.srv, e.apv[2]) :
             /\ w \notin DOMAIN awaiting /\ e.apv \notin DOMAIN apvTo
             /\ awaiting' = [v \in DOMAIN awaiting \cup {w} |->
                               IF v = w THEN e.apv ELSE awaiting[v]]
             /\ apvTo' = [a \in DOMAIN apvTo \cup {e.apv} |->
                            IF a = e.apv THEN w ELSE apvTo[a]]
    BY DEF RxChallenge
  <2> HIDE DEF e
  <2>2. CASE UNCHANGED <<awaiting, apvTo>>
    BY <1>2, <2>2, RoutesSame DEF HandInv
  <2> QED BY <1>4, <1>5, <2>1, <2>2
<1> QED BY <1>3, <1>6 DEF HandInv

-----------------------------------------------------------------------------
(* The loop's call stack.  What is not on top waits for nobody.              *)

Plain(s) == \A i \in 1..Len(s) : s[i].k \in {"stop", "new"}

\* A task that waits for work, or has a message for it, is about work in the maps.
Valid(t) ==
  /\ t.k = "awaitAlloc" => t.w \in allocByEp
  /\ t.k = "awaitHand" => t.w \in handByEp
  /\ t.k = "give" => t.w \in allocByEp \cup handByEp

StackInv ==
  /\ todo \in Seq(Task)
  /\ todo # <<>> => Plain(Tail(todo)) /\ Valid(Head(todo))

LoopInv ==
  /\ StackInv
  /\ loop \in {"off", "select", "busy", "returning"} /\ (loop = "busy" <=> todo # <<>>)

LEMMA PushedSeq ==
  ASSUME NEW T, NEW t \in T, NEW s \in Seq(T)
  PROVE  /\ <<t>> \o s \in Seq(T) /\ <<t>> \o s # <<>>
         /\ Head(<<t>> \o s) = t /\ Tail(<<t>> \o s) = s /\ Len(<<t>> \o s) = Len(s) + 1
<1>1. <<t>> \in Seq(T) /\ Len(<<t>>) = 1 /\ <<t>>[1] = t
  OBVIOUS
<1>2. <<t>> \o s \in Seq(T) /\ Len(<<t>> \o s) = Len(s) + 1
  BY <1>1
<1>3. (<<t>> \o s)[1] = t /\ \A i \in 1..Len(s) : (<<t>> \o s)[i + 1] = s[i]
  BY <1>1
<1>4. <<t>> \o s # <<>> /\ Head(<<t>> \o s) = t
  BY <1>2, <1>3
<1>5. Tail(<<t>> \o s) = s
  <2> DEFINE u == Tail(<<t>> \o s)
  <2>1. u \in Seq(T) /\ Len(u) = Len(s)
    BY <1>2, <1>4
  <2>2. \A i \in 1..Len(s) : u[i] = s[i]
    BY <1>2, <1>3, <1>4
  <2> HIDE DEF u
  <2> QED BY <2>1, <2>2, SeqEqual
<1> QED BY <1>2, <1>4, <1>5

LEMMA PlainWhole ==
  ASSUME NEW s \in Seq(Task), s # <<>>, Head(s).k \in {"stop", "new"}, Plain(Tail(s))
  PROVE  Plain(s)
<1> SUFFICES ASSUME NEW i \in 1..Len(s) PROVE s[i].k \in {"stop", "new"}
  BY DEF Plain
<1>1. CASE i = 1
  BY <1>1
<1>2. CASE i # 1
  <2>1. i - 1 \in 1..Len(Tail(s)) /\ s[i] = Tail(s)[i - 1]
    BY <1>2
  <2> QED BY <2>1 DEF Plain
<1> QED BY <1>1, <1>2

\* The stack is empty, or nothing on it waits.
LEMMA PlainStack ==
  ASSUME todo' \in Seq(Task), Plain(todo')
  PROVE  StackInv'
<1> SUFFICES ASSUME todo' # <<>> PROVE Plain(Tail(todo))' /\ Valid(Head(todo))'
  BY DEF StackInv
<1>1. Head(todo').k \in {"stop", "new"}
  BY DEF Plain
<1>2. Valid(Head(todo))'
  BY <1>1 DEF Valid
<1>3. ASSUME NEW i \in 1..Len(Tail(todo')) PROVE Tail(todo')[i].k \in {"stop", "new"}
  <2>1. i + 1 \in 1..Len(todo') /\ Tail(todo')[i] = todo'[i + 1]
    OBVIOUS
  <2> QED BY <2>1 DEF Plain
<1> QED BY <1>2, <1>3 DEF Plain

\* A task on top of such a stack is about work in the maps.
LEMMA PushedStack ==
  ASSUME NEW t \in Task, NEW s \in Seq(Task), Plain(s), todo' = <<t>> \o s, Valid(t)'
  PROVE  StackInv'
<1>1. todo' \in Seq(Task) /\ Head(todo') = t /\ Tail(todo') = s
  BY PushedSeq
<1> QED BY <1>1 DEF StackInv

\* Every handler ends with a look at the stack and at the maps.
LEMMA TurnKeeps ==
  ASSUME StackInv', Turn
  PROVE  LoopInv'
BY DEF LoopInv, Turn

\* Popping the task that is done.
LEMMA PoppedStack ==
  ASSUME StackInv, todo # <<>>, todo' = Tail(todo)
  PROVE  StackInv'
<1>1. todo' \in Seq(Task) /\ Plain(todo')
  BY DEF StackInv
<1> QED BY <1>1, PlainStack

LEMMA EmptyStack ==
  ASSUME todo' = <<>>
  PROVE  StackInv'
<1>1. todo' \in Seq(Task) /\ Plain(todo')
  BY DEF Plain
<1> QED BY <1>1, PlainStack

-----------------------------------------------------------------------------
(* stopWorkRunLoop's passes.                                                 *)

On(s) == {s[i] : i \in 1..Len(s)}

StopLast(s) == \A i \in 1..Len(s) : s[i].k = "stop" => i = Len(s)

\* A pass is at the bottom of the stack, and so is a message that is to be given.
ShapeInv ==
  /\ StopLast(todo)
  /\ todo # <<>> /\ Head(todo).k = "give" => Tail(todo) = <<>>

\* The pass t, with h on top of the stack and A and H the endpoint's work: what there is
\* is left to do or just waited for; the second pass finds no allocation, and none starts
\* a handshake under it.
Sound(t, h, A, H) ==
  /\ t.pass = "alloc" =>
       /\ t.left \subseteq A
       /\ \A w \in A : w \in t.left \/ (h.k = "awaitAlloc" /\ h.w = w)
       /\ h.k = "awaitAlloc" => h.w \notin t.left
  /\ t.pass = "hand" =>
       /\ A = {}
       /\ t.left \subseteq H
       /\ \A w \in H : w \in t.left \/ (h.k = "awaitHand" /\ h.w = w)
       /\ h.k = "awaitHand" => h.w \notin t.left

StopInv ==
  \A t \in On(todo) : t.k = "stop" =>
    /\ Sound(t, Head(todo), AllocsOf(t.ep), HandsOf(t.ep))
    /\ t.pass = "hand" => \A u \in On(todo) : u.k \in {"stop", "awaitHand"}

PassInv == ShapeInv /\ StopInv

LEMMA OnParts ==
  ASSUME NEW T, NEW s \in Seq(T), s # <<>>
  PROVE  On(s) = {Head(s)} \cup On(Tail(s))
<1>1. Len(s) \in Nat /\ Len(s) >= 1 /\ Head(s) = s[1] /\ Len(Tail(s)) = Len(s) - 1
  OBVIOUS
<1>2. \A i \in 1..Len(Tail(s)) : Tail(s)[i] = s[i + 1] /\ i + 1 \in 1..Len(s)
  BY <1>1
<1>3. \A i \in 1..Len(s) : i = 1 \/ (i - 1 \in 1..Len(Tail(s)) /\ s[i] = Tail(s)[i - 1])
  BY <1>1
<1>4. On(s) \subseteq {Head(s)} \cup On(Tail(s))
  BY <1>1, <1>3 DEF On
<1>5. {Head(s)} \cup On(Tail(s)) \subseteq On(s)
  BY <1>1, <1>2 DEF On
<1> QED BY <1>4, <1>5

LEMMA OnPushed ==
  ASSUME NEW t \in Task, NEW s \in Seq(Task)
  PROVE  On(<<t>> \o s) = {t} \cup On(s)
<1> DEFINE u == <<t>> \o s
<1>1. u \in Seq(Task) /\ u # <<>> /\ Head(u) = t /\ Tail(u) = s
  BY PushedSeq
<1> HIDE DEF u
<1>2. On(u) = {t} \cup On(s)
  BY <1>1, OnParts
<1> QED BY <1>2 DEF u

LEMMA StopLastPushed ==
  ASSUME NEW t \in Task, NEW s \in Seq(Task), t.k # "stop", StopLast(s)
  PROVE  StopLast(<<t>> \o s)
<1> DEFINE u == <<t>> \o s
<1>1. u \in Seq(Task) /\ Len(u) = Len(s) + 1 /\ u[1] = t /\ Len(s) \in Nat
  OBVIOUS
<1>2. \A i \in 1..Len(s) : u[i + 1] = s[i]
  OBVIOUS
<1> HIDE DEF u
<1>3. ASSUME NEW i \in 1..Len(u), u[i].k = "stop" PROVE i = Len(u)
  <2>1. i # 1
    BY <1>1, <1>3
  <2>2. PICK j \in 1..Len(s) : i = j + 1
    <3>1. i - 1 \in 1..Len(s) /\ i = (i - 1) + 1
      BY <1>1, <2>1
    <3> QED BY <3>1
  <2>3. s[j].k = "stop"
    BY <1>2, <1>3, <2>2
  <2> QED BY <1>1, <2>2, <2>3 DEF StopLast
<1> QED BY <1>3 DEF StopLast, u

LEMMA StopLastParts ==
  ASSUME NEW s \in Seq(Task), s # <<>>, StopLast(s)
  PROVE  /\ StopLast(Tail(s))
         /\ Head(s).k = "stop" => Tail(s) = <<>> /\ On(s) = {Head(s)}
<1>1. /\ Len(s) \in Nat /\ Len(s) >= 1 /\ Head(s) = s[1]
      /\ Tail(s) \in Seq(Task) /\ Len(Tail(s)) = Len(s) - 1
  OBVIOUS
<1>2. \A i \in 1..Len(Tail(s)) : Tail(s)[i] = s[i + 1] /\ i + 1 \in 1..Len(s)
  BY <1>1
<1>5. PICK n \in Nat : n = Len(s)
  BY <1>1
<1>6. Len(Tail(s)) = n - 1 /\ n >= 1
  BY <1>1, <1>5
<1>3. StopLast(Tail(s))
  <2>1. ASSUME NEW i \in 1..(n - 1), Tail(s)[i].k = "stop" PROVE i = n - 1
    <3>1. i + 1 \in 1..Len(s) /\ s[i + 1].k = "stop"
      BY <1>2, <1>6, <2>1
    <3>2. i + 1 = n
      BY <1>5, <3>1 DEF StopLast
    <3> QED BY <3>2
  <2> QED BY <1>6, <2>1 DEF StopLast
<1>4. ASSUME Head(s).k = "stop" PROVE Tail(s) = <<>> /\ On(s) = {Head(s)}
  <2>1. 1 \in 1..Len(s) /\ s[1].k = "stop"
    BY <1>1, <1>4
  <2>2. Len(s) = 1
    BY <2>1 DEF StopLast
  <2>3. Len(Tail(s)) = 0
    BY <1>1, <2>2
  <2>4. Tail(s) = <<>>
    BY <1>1, <2>3, EmptySeq
  <2>5. On(Tail(s)) = {}
    BY <2>3 DEF On
  <2> QED BY <2>4, <2>5, OnParts
<1> QED BY <1>3, <1>4

LEMMA ShortStacks ==
  ASSUME NEW t \in Task, NEW u \in Task
  PROVE  <<t>> \o <<>> = <<t>> /\ <<t>> \o (<<u>> \o <<>>) = <<t, u>>
<1>1. \A x \in Task : <<x>> \o <<>> = <<x>>
  OBVIOUS
<1>2. <<t>> \o <<u>> = <<t, u>>
  <2> DEFINE x == <<t>> \o <<u>>
             y == <<t, u>>
  <2>1. x \in Seq(Task) /\ Len(x) = 2 /\ x[1] = t /\ x[2] = u
    OBVIOUS
  <2>2. y \in Seq(Task) /\ Len(y) = 2 /\ y[1] = t /\ y[2] = u
    OBVIOUS
  <2> HIDE DEF x, y
  <2>3. \A i \in 1..2 : x[i] = y[i]
    BY <2>1, <2>2
  <2> QED BY <2>1, <2>2, <2>3, SeqEqual DEF x, y
<1> QED BY <1>1, <1>2

LEMMA LessIsTask ==
  ASSUME NEW t \in Task, t.k = "stop"
  PROVE  \A w : LET u == [t EXCEPT !.left = @ \ {w}]
               IN  /\ u \in Task /\ u.k = "stop" /\ u.ep = t.ep /\ u.pass = t.pass
                   /\ u.left = t.left \ {w}
<1>1. CASE t \in [k : {"stop"}, ep : Peers, pass : {"alloc"}, left : SUBSET AllocIds]
  BY <1>1 DEF Task
<1>2. CASE t \in [k : {"stop"}, ep : Peers, pass : {"hand"}, left : SUBSET HandIds]
  BY <1>2 DEF Task
<1> QED BY <1>1, <1>2 DEF Task

LEMMA FreshPass ==
  ASSUME AllocInv, HandInv, NEW p \in Peers, NEW pass \in {"alloc", "hand"}
  PROVE  /\ StopPass(p, pass) \in Task /\ StopPass(p, pass).k = "stop"
         /\ StopPass(p, pass).ep = p /\ StopPass(p, pass).pass = pass
         /\ pass = "alloc" => StopPass(p, pass).left = AllocsOf(p)
         /\ pass = "hand" => StopPass(p, pass).left = HandsOf(p)
<1>1. AllocsOf(p) \in SUBSET AllocIds /\ HandsOf(p) \in SUBSET HandIds
  BY DEF AllocsOf, HandsOf, AllocInv, HandInv, HandMaps
<1>2. CASE pass = "alloc"
  BY <1>1, <1>2 DEF StopPass, Task
<1>3. CASE pass = "hand"
  BY <1>1, <1>3 DEF StopPass, Task
<1> QED BY <1>2, <1>3

-----------------------------------------------------------------------------
(* The token of runLoopStoppedCh.                                            *)

RunInv == stopped \in Nat /\ started \in Nat /\ OneLoop

\* Every handler starts from a running loop and leaves one, if only to return.
LEMMA TurnKeepsRun ==
  ASSUME RunInv, Turn, loop # "off"
  PROVE  RunInv'
<1>1. loop' # "off" /\ UNCHANGED startVars
  BY DEF Turn
<1> QED BY <1>1 DEF RunInv, OneLoop, startVars

-----------------------------------------------------------------------------
(* Callers, servers and counters.                                            *)

CallsInv ==
  /\ calls \in [Callers -> Event \cup {None}]
  /\ \A c \in Callers : calls[c] # None => calls[c] \in Event /\ CallerOf(calls[c]) = c

CountInv ==
  /\ servers \in [Servers -> Regions \cup {None}] /\ hasServers \in BOOLEAN
  /\ ready \in [Peers -> Nat]
  /\ ncalls \in [Kinds -> Nat] /\ \A k \in Kinds : ncalls[k] <= Budget[k]

LEMMA CallKeepsCalls ==
  ASSUME CallsInv, NEW e \in Event, Call(e)
  PROVE  CallsInv'
<1>1. CallerOf(e) \in Callers
  BY DEF CallerOf, Callers, Event
<1>2. calls' = [calls EXCEPT ![CallerOf(e)] = e]
  BY DEF Call
<1> QED BY <1>1, <1>2 DEF CallsInv

LEMMA TakeKeepsCalls ==
  ASSUME CallsInv, NEW c, NEW k, Take(c, k)
  PROVE  CallsInv'
<1>1. calls' = [calls EXCEPT ![c] = None]
  BY DEF Take
<1>2. calls' \in [Callers -> Event \cup {None}]
  BY <1>1 DEF CallsInv
<1>3. \A d \in Callers : calls'[d] = None \/ calls'[d] = calls[d]
  BY <1>1 DEF CallsInv
<1> QED BY <1>2, <1>3 DEF CallsInv

LEMMA CallsInvKept ==
  ASSUME CallsInv, Next
  PROVE  CallsInv'
<1>1. CASE UNCHANGED calls
  BY <1>1 DEF CallsInv
<1>2. CASE \E c, k : Take(c, k)
  BY <1>2, TakeKeepsCalls
<1>3. CASE RunLoop
  BY <1>1, <1>2, <1>3
  DEF RunLoop, StartDiscovery, TakeStop, TakeTask, RxChallenge, Rx, ServersUpdate, StopWork,
      AwaitDone, NewServerEndpoint, GiveToAlloc, GiveToHand
<1> QED BY <1>1, <1>3, CallKeepsCalls
    DEF Next, StartLoop, LoopEnters, LoopReturns, AllocGivesUp, AllocSends, HandBegins, HandGivesUp, HandReturns,
        HandSends, EndpointReady

LEMMA CallKeepsCount ==
  ASSUME CountInv, NEW e \in Event, Call(e)
  PROVE  CountInv'
<1> DEFINE k == KindOf(e)
<1>1. /\ ncalls[k] < Budget[k] /\ ncalls' = [ncalls EXCEPT ![k] = @ + 1]
      /\ UNCHANGED <<servers, hasServers, ready>>
  BY DEF Call
<1>2. ncalls' \in [Kinds -> Nat]
  <2>1. k \in Kinds
    BY DEF KindOf, CallerOf, Kinds, Event
  <2> HIDE DEF k
  <2> QED BY <1>1, <2>1 DEF CountInv
<1> HIDE DEF k
<1>3. \A j \in Kinds : ncalls'[j] = IF j = k THEN ncalls[j] + 1 ELSE ncalls[j]
  BY <1>1 DEF CountInv
<1>4. \A j \in Kinds : ncalls'[j] <= Budget[j]
  <2>1. \A j \in Kinds : ncalls[j] \in Nat /\ Budget[j] \in Nat /\ ncalls[j] <= Budget[j]
    BY RelayAssumption DEF CountInv
  <2> QED BY <1>1, <1>3, <2>1
<1> QED BY <1>1, <1>2, <1>4 DEF CountInv

LEMMA ServersUpdateKeepsCount ==
  ASSUME CountInv, CallsInv, ServersUpdate
  PROVE  CountInv'
<1> DEFINE e == calls[Admin]
<1>1. e # None /\ UNCHANGED <<ready, ncalls>>
  BY DEF ServersUpdate, Take
<1>2. e \in Event
  BY <1>1 DEF CallsInv, Callers
<1>3. /\ e.k = "set" => e.servers \in [Servers -> Regions \cup {None}]
      /\ e.k \in {"upsert", "home"} => e.node \in Servers /\ e.region \in Regions
  BY <1>2 DEF Event
<1>4. servers' \in [Servers -> Regions \cup {None}]
  <2> HIDE DEF e
  <2>1. \/ e.k = "set" /\ servers' = e.servers
        \/ e.k = "upsert" /\ servers' = [servers EXCEPT ![e.node] = e.region]
        \/ servers' = [servers EXCEPT ![e.node] = None]
        \/ /\ e.k = "home"
           /\ servers' = [servers EXCEPT ![e.node] = IF @ = None THEN None ELSE e.region]
        \/ servers' = servers
    BY DEF ServersUpdate, Take, e
  <2> QED BY <1>3, <2>1 DEF CountInv
<1>5. hasServers' \in BOOLEAN
  <2>1. Publish \/ UNCHANGED hasServers
    BY DEF ServersUpdate
  <2>2. CASE Publish
    BY <2>2 DEF Publish
  <2> QED BY <2>1, <2>2 DEF CountInv
<1> QED BY <1>1, <1>4, <1>5 DEF CountInv

LEMMA HandDoneReady ==
  ASSUME HandInv, ready \in [Peers -> Nat], NEW w \in HandIds, NEW rest, HandDone(w, rest)
  PROVE  ready' \in [Peers -> Nat]
<1>1. CASE w \in handByEp
  <2>1. hand[w].ep \in Peers
    BY <1>1 DEF HandInv, HandMaps, HandSound
  <2>2. ready' = ready \/ ready' = [ready EXCEPT ![hand[w].ep] = @ + 1]
    BY <1>1 DEF HandDone, Registered
  <2> QED BY <2>1, <2>2
<1>2. CASE w \notin handByEp
  BY <1>2 DEF HandDone, Registered
<1> QED BY <1>1, <1>2

LEMMA ReadyKeeps ==
  ASSUME CountInv, ready' \in [Peers -> Nat], UNCHANGED <<servers, hasServers, ncalls>>
  PROVE  CountInv'
BY DEF CountInv

LEMMA CountInvKept ==
  ASSUME CountInv, CallsInv, HandInv, todo \in Seq(Task), Next
  PROVE  CountInv'
<1> USE ReadyKeeps
<1>1. ready \in [Peers -> Nat]
  BY DEF CountInv
<1>2. CASE UNCHANGED <<servers, hasServers, ready, ncalls>>
  BY <1>1, <1>2
<1>3. CASE AwaitDone
  <2>1. Head(todo).k = "awaitHand" => Head(todo).w \in HandIds
    <3>1. Head(todo) \in Task
      BY <1>3 DEF AwaitDone
    <3> QED BY <3>1 DEF Task
  <2> QED BY <1>1, <1>2, <1>3, <2>1, HandDoneReady DEF AwaitDone, AllocDone
<1>4. CASE GiveToHand
  BY <1>1, <1>2, <1>4, HandDoneReady DEF GiveToHand
<1>5. ASSUME NEW w \in HandIds, HandSends(w) PROVE CountInv'
  BY <1>1, <1>2, <1>5, HandDoneReady DEF HandSends
<1>6. ASSUME NEW p \in Peers, EndpointReady(p) PROVE CountInv'
  BY <1>1, <1>6 DEF EndpointReady
<1>7. CASE RunLoop
  BY <1>2, <1>3, <1>4, <1>7, ServersUpdateKeepsCount
  DEF RunLoop, StartDiscovery, TakeStop, TakeTask, Take, RxChallenge, Rx, StopWork,
      NewServerEndpoint, GiveToAlloc, AllocDone
<1>8. ASSUME NEW w \in AllocIds, AllocGivesUp(w) \/ AllocSends(w) PROVE CountInv'
  BY <1>2, <1>8 DEF AllocGivesUp, AllocSends, AllocDone
<1>9. ASSUME NEW w \in HandIds, HandBegins(w) \/ HandGivesUp(w) \/ HandReturns(w) PROVE CountInv'
  BY <1>2, <1>9 DEF HandBegins, HandGivesUp, HandReturns
<1> QED BY <1>2, <1>5, <1>6, <1>7, <1>8, <1>9, CallKeepsCount
    DEF Next, StartLoop, LoopEnters, LoopReturns

-----------------------------------------------------------------------------
(* The whole invariant, and what follows from it.                            *)

Inv == AllocInv /\ HandInv /\ LoopInv /\ PassInv /\ RunInv /\ CallsInv /\ CountInv

\* The task on top, when it is about a handshake, is about one in the maps.
LEMMA HeadOfStack ==
  ASSUME Inv, todo # <<>>
  PROVE  /\ Head(todo) \in Task /\ todo \in Seq(Task)
         /\ Head(todo).k = "awaitAlloc" => Head(todo).w \in AllocIds
         /\ Head(todo).k = "awaitHand" => Head(todo).w \in HandIds
         /\ Head(todo).k = "give" /\ Head(todo).w \in HandIds => Head(todo).w \in handByEp
<1>1. Head(todo) \in Task /\ todo \in Seq(Task) /\ Valid(Head(todo))
  BY DEF Inv, LoopInv, StackInv
<1>2. /\ Head(todo).k = "awaitAlloc" => Head(todo).w \in AllocIds
      /\ Head(todo).k = "awaitHand" => Head(todo).w \in HandIds
  BY <1>1 DEF Task
<1>3. Head(todo).k = "give" /\ Head(todo).w \in HandIds => Head(todo).w \in handByEp
  BY <1>1, RelayAssumption DEF Valid, Inv, AllocInv
<1> QED BY <1>1, <1>2, <1>3

LEMMA PassLeft == Inv => StopLeft
<1> SUFFICES ASSUME Inv, todo # <<>>, Head(todo).k = "stop"
             PROVE  /\ Head(todo).pass = "alloc" => Head(todo).left \subseteq allocByEp
                    /\ Head(todo).pass = "hand" => Head(todo).left \subseteq handByEp
  BY DEF StopLeft
<1>1. Head(todo) \in On(todo)
  BY HeadOfStack, OnParts
<1>2. Sound(Head(todo), Head(todo), AllocsOf(Head(todo).ep), HandsOf(Head(todo).ep))
  BY <1>1 DEF Inv, PassInv, StopInv
<1> QED BY <1>2 DEF Sound, AllocsOf, HandsOf

LEMMA HandInvKept ==
  ASSUME Inv, Next
  PROVE  HandInv'
<1>1. CASE UNCHANGED <<handVars, discoInfo, owed>>
  BY <1>1 DEF Inv, handVars, HandInv, HandMaps, Routes, InfoHeld, DiscoInfoHeld, Told, Successes
<1>2. CASE StopWork
  <2>1. CASE UNCHANGED hand
    BY <1>1, <1>2, <2>1 DEF StopWork, handVars
  <2>2. ASSUME NEW w \in Head(todo).left, Head(todo).pass = "hand",
               hand' = [hand EXCEPT ![w].cancelled = TRUE]
        PROVE  HandInv'
    <3>1. w \in handByEp
      BY <1>2, <2>2, PassLeft DEF StopWork, StopLeft
    <3>2. UNCHANGED <<handByEp, handByVNI, awaiting, apvTo, owed, discoInfo>>
      BY <1>2 DEF StopWork
    <3> QED BY <2>2, <3>1, <3>2, CancelKeeps DEF Inv
  <2> QED BY <1>2, <2>1, <2>2 DEF StopWork
<1>3. CASE AwaitDone
  <2>1. CASE UNCHANGED <<handVars, owed>>
    BY <1>1, <1>3, <2>1 DEF AwaitDone
  <2> QED BY <1>3, <2>1, HeadOfStack, HandReadDone DEF AwaitDone, AllocDone, Inv, handVars
<1>4. CASE GiveToHand
  <2> DEFINE w == Head(todo).w
             m == Head(todo).msg
  <2>1. w \in HandIds /\ w \in handByEp /\ discoInfo' = discoInfo
    BY <1>4, HeadOfStack DEF GiveToHand
  <2>2. \/ GiveHand(w, m) /\ UNCHANGED <<handByEp, handByVNI, awaiting, apvTo>>
        \/ HandRead(w) /\ HandDone(w, Tail(todo))
    BY <1>4 DEF GiveToHand
  <2> HIDE DEF w, m
  <2> QED BY <2>1, <2>2, GiveHandKeeps, HandReadDone DEF Inv
<1>5. CASE RxChallenge
  <2>1. calls[Conn] \in Event
    BY <1>5 DEF RxChallenge, Take, Inv, CallsInv, Callers
  <2> QED BY <1>5, <2>1, RxChallengeKeepsHand DEF Inv
<1>6. CASE NewServerEndpoint
  BY <1>6, NewServerEndpointKeepsHand DEF Inv, LoopInv, StackInv
<1>7. CASE GiveToAlloc
  BY <1>1, <1>7 DEF GiveToAlloc, AllocDone, handVars
<1>8. CASE RunLoop
  BY <1>1, <1>2, <1>3, <1>4, <1>5, <1>6, <1>7, <1>8
  DEF RunLoop, StartDiscovery, TakeStop, TakeTask, Rx, ServersUpdate
<1>9. ASSUME NEW w \in AllocIds, AllocGivesUp(w) \/ AllocSends(w) PROVE HandInv'
  BY <1>1, <1>9 DEF AllocGivesUp, AllocSends, AllocDone, handVars
<1>10. ASSUME NEW w \in HandIds,
              HandBegins(w) \/ HandGivesUp(w) \/ HandReturns(w) \/ HandSends(w)
       PROVE  HandInv'
  BY <1>10, HandBeginsKeeps, HandGivesUpKeeps, HandReturnsKeeps, HandSendsKeeps DEF Inv
<1>11. \/ \E e \in Event : Call(e)
       \/ StartLoop \/ LoopEnters \/ LoopReturns
       \/ \E p \in Peers : EndpointReady(p)
       => HandInv'
  BY <1>1 DEF Call, StartLoop, LoopEnters, LoopReturns, EndpointReady
<1> QED BY <1>8, <1>9, <1>10, <1>11 DEF Next

\* A handler that leaves the stack empty or pops its task.
LEMMA PopKeepsLoop ==
  ASSUME LoopInv, Turn, todo' = <<>> \/ (todo # <<>> /\ todo' = Tail(todo))
  PROVE  LoopInv'
BY PoppedStack, EmptyStack, TurnKeeps DEF LoopInv

\* handleAllocWorkDoneRunLoop is done, or goes on with a server endpoint.
LEMMA AllocDoneStack ==
  ASSUME AllocInv, NEW w \in AllocIds, NEW rest, AllocDone(w, rest)
  PROVE  todo' = rest \/ \E t \in Task : t.k = "new" /\ todo' = <<t>> \o rest
<1>1. todo' = rest \/ (alloc[w].got # None /\ w \in allocByEp
        /\ todo' = <<[k |-> "new", ep |-> alloc[w].ep, se |-> alloc[w].got]>> \o rest)
  BY DEF AllocDone
<1>2. CASE alloc[w].got # None /\ w \in allocByEp
  <2>1. PICK t : t = [k |-> "new", ep |-> alloc[w].ep, se |-> alloc[w].got]
    OBVIOUS
  <2>2. alloc[w].ep \in Peers /\ alloc[w].got \in ServerEndpoint
    BY <1>2 DEF AllocInv, AllocSound, AllocWork
  <2>3. t \in Task /\ t.k = "new"
    BY <2>1, <2>2 DEF Task
  <2> QED BY <1>1, <2>1, <2>3
<1> QED BY <1>1, <1>2

LEMMA AllocDoneKeepsLoop ==
  ASSUME Inv, NEW w \in AllocIds, NEW rest \in Seq(Task), Plain(rest), AllocDone(w, rest)
  PROVE  LoopInv'
<1>1. Turn
  BY DEF AllocDone
<1>2. CASE todo' = rest
  BY <1>1, <1>2, PlainStack, TurnKeeps
<1>3. ASSUME NEW t \in Task, t.k = "new", todo' = <<t>> \o rest PROVE LoopInv'
  <2>1. Valid(t)'
    BY <1>3 DEF Valid
  <2> QED BY <1>1, <1>3, <2>1, PushedStack, TurnKeeps
<1> QED BY <1>2, <1>3, AllocDoneStack DEF Inv

LEMMA HandDoneKeepsLoop ==
  ASSUME Inv, NEW w, NEW rest \in Seq(Task), Plain(rest), HandDone(w, rest)
  PROVE  LoopInv'
BY PlainStack, TurnKeeps DEF HandDone

\* Waiting for work that is in the maps.
LEMMA AwaitKeepsLoop ==
  ASSUME LoopInv, todo # <<>>, Head(todo).k \in {"stop", "new"}, NEW t \in Task,
         todo' = <<t>> \o todo, Turn, Valid(t)'
  PROVE  LoopInv'
<1>1. todo \in Seq(Task) /\ Plain(todo)
  BY PlainWhole DEF LoopInv, StackInv
<1> QED BY <1>1, PushedStack, TurnKeeps

LEMMA StopWorkKeepsLoop ==
  ASSUME Inv, StopWork
  PROVE  LoopInv'
<1> DEFINE t == Head(todo)
           Less(w) == [t EXCEPT !.left = @ \ {w}]
<1>1. /\ todo # <<>> /\ t.k = "stop" /\ Turn /\ t \in Task /\ todo \in Seq(Task)
      /\ UNCHANGED <<allocByEp, handByEp>>
  BY HeadOfStack DEF StopWork
<1>2. Tail(todo) \in Seq(Task) /\ Plain(Tail(todo))
  BY <1>1 DEF Inv, LoopInv, StackInv
<1>3. \A w : Less(w) \in Task /\ Less(w).k = "stop"
  BY <1>1, LessIsTask
<1>4. CASE todo' = Tail(todo)
  BY <1>1, <1>4, PopKeepsLoop DEF Inv
<1>5. CASE todo' = <<StopPass(t.ep, "hand")>> \o Tail(todo)
  <2>1. PICK u : u = StopPass(t.ep, "hand")
    OBVIOUS
  <2>2. t.ep \in Peers
    BY <1>1 DEF Task
  <2>3. u \in Task /\ u.k = "stop"
    BY <2>1, <2>2, FreshPass DEF Inv
  <2>4. Valid(u)'
    BY <2>3 DEF Valid
  <2> QED BY <1>1, <1>2, <1>5, <2>1, <2>3, <2>4, PushedStack, TurnKeeps
<1>6. ASSUME NEW w, NEW u \in Task, Valid(u)', todo' = <<u>> \o (<<Less(w)>> \o Tail(todo))
      PROVE  LoopInv'
  <2> DEFINE r == <<Less(w)>> \o Tail(todo)
  <2>1. r \in Seq(Task) /\ r # <<>> /\ Head(r) = Less(w) /\ Tail(r) = Tail(todo)
    BY <1>2, <1>3, PushedSeq
  <2> HIDE DEF r
  <2>2. Plain(r)
    BY <1>2, <1>3, <2>1, PlainWhole
  <2> QED BY <1>1, <1>6, <2>1, <2>2, PushedStack, TurnKeeps DEF r
<1>7. /\ t.pass = "alloc" => t.left \subseteq allocByEp
      /\ t.pass = "hand" => t.left \subseteq handByEp
  BY <1>1, PassLeft DEF StopLeft
<1>8. ASSUME NEW w \in allocByEp, todo' = <<AwaitAlloc(w)>> \o (<<Less(w)>> \o Tail(todo))
      PROVE  LoopInv'
  <2>1. AwaitAlloc(w) \in Task /\ Valid(AwaitAlloc(w))'
    BY <1>1 DEF AwaitAlloc, Task, Valid, Inv, AllocInv
  <2> QED BY <1>6, <1>8, <2>1
<1>9. ASSUME NEW w \in handByEp, todo' = <<AwaitHand(w)>> \o (<<Less(w)>> \o Tail(todo))
      PROVE  LoopInv'
  <2>1. AwaitHand(w) \in Task /\ Valid(AwaitHand(w))'
    BY <1>1 DEF AwaitHand, Task, Valid, Inv, HandInv, HandMaps
  <2> QED BY <1>6, <1>9, <2>1
<1>10. \/ \E w \in t.left : t.pass = "alloc"
                             /\ todo' = <<AwaitAlloc(w)>> \o (<<Less(w)>> \o Tail(todo))
       \/ \E w \in t.left : t.pass = "hand"
                             /\ todo' = <<AwaitHand(w)>> \o (<<Less(w)>> \o Tail(todo))
       \/ todo' = <<StopPass(t.ep, "hand")>> \o Tail(todo)
       \/ todo' = Tail(todo)
  BY DEF StopWork, StopPasses
<1> HIDE DEF t, Less
<1> QED BY <1>4, <1>5, <1>7, <1>8, <1>9, <1>10

LEMMA NewServerEndpointKeepsLoop ==
  ASSUME Inv, NewServerEndpoint
  PROVE  LoopInv'
<1>1. todo # <<>> /\ Head(todo).k = "new" /\ Turn
  BY DEF NewServerEndpoint
<1>2. CASE todo' = Tail(todo)
  BY <1>1, <1>2, PopKeepsLoop DEF Inv
<1>3. ASSUME NEW w \in handByEp, todo' = <<AwaitHand(w)>> \o todo, handByEp' = handByEp
      PROVE  LoopInv'
  <2>1. AwaitHand(w) \in Task /\ Valid(AwaitHand(w))'
    BY <1>3 DEF AwaitHand, Task, Valid, Inv, HandInv, HandMaps
  <2> QED BY <1>1, <1>3, <2>1, AwaitKeepsLoop DEF Inv
<1>4. handByVNI = handByEp
  BY DEF Inv, HandInv, HandMaps
<1>5. \/ todo' = Tail(todo)
      \/ \E w \in handByEp : todo' = <<AwaitHand(w)>> \o todo /\ handByEp' = handByEp
  BY <1>4 DEF NewServerEndpoint, HandForVNI, HandForEp
<1> QED BY <1>2, <1>3, <1>5

\* A message goes to work that a map has under the message's key.
LEMMA GiveKeepsLoop ==
  ASSUME Turn, NEW w \in AllocIds \cup HandIds, w \in allocByEp' \cup handByEp',
         calls[Conn] \in Event, todo' = <<[k |-> "give", w |-> w, msg |-> calls[Conn]]>>
  PROVE  LoopInv'
<1>1. PICK t : t = [k |-> "give", w |-> w, msg |-> calls[Conn]]
  OBVIOUS
<1>2. t \in Task /\ t.k = "give" /\ t.w = w
  BY <1>1 DEF Task
<1>3. Valid(t)'
  BY <1>2 DEF Valid
<1>4. <<>> \in Seq(Task) /\ Plain(<<>>)
  BY DEF Plain
<1>5. todo' = <<t>> \o <<>>
  BY <1>1, <1>2
<1> QED BY <1>2, <1>3, <1>4, <1>5, PushedStack, TurnKeeps

LEMMA RxKeepsLoop ==
  ASSUME Inv, RxChallenge \/ Rx
  PROVE  LoopInv'
<1> DEFINE e == calls[Conn]
<1>1. e \in Event /\ Turn /\ UNCHANGED <<allocByEp, handByEp>>
  BY DEF RxChallenge, Rx, Take, Inv, CallsInv, Callers, allocVars, handVars
<1>2. ASSUME NEW w \in AllocFor(e.node, e.disco) PROVE w \in AllocIds /\ w \in allocByEp
  BY DEF AllocFor, Inv, AllocInv
<1>3. ASSUME NEW w \in HandForVNI(e.srv, e.apv[2]) PROVE w \in HandIds /\ w \in handByEp
  BY DEF HandForVNI, Inv, HandInv, HandMaps
<1>4. ASSUME NEW w \in HandForAPV(e.apv) PROVE w \in HandIds /\ w \in handByEp
  BY DEF HandForAPV, Inv, HandInv, Routes
<1>5. \/ todo' = <<>>
      \/ \E w \in AllocFor(e.node, e.disco) \cup HandForVNI(e.srv, e.apv[2])
                    \cup HandForAPV(e.apv) :
           todo' = <<[k |-> "give", w |-> w, msg |-> e]>>
  BY DEF RxChallenge, Rx
<1>6. CASE todo' = <<>>
  BY <1>1, <1>6, PopKeepsLoop DEF Inv
<1>7. ASSUME NEW w \in AllocIds \cup HandIds, w \in allocByEp \cup handByEp,
             todo' = <<[k |-> "give", w |-> w, msg |-> e]>>
      PROVE  LoopInv'
  BY <1>1, <1>7, GiveKeepsLoop
<1> HIDE DEF e
<1> QED BY <1>2, <1>3, <1>4, <1>5, <1>6, <1>7

LEMMA TakeTaskKeepsLoop ==
  ASSUME NEW c, NEW k, NEW t \in Task, t.k \in {"stop", "new"}, TakeTask(c, k, t)
  PROVE  LoopInv'
<1>1. todo' = <<t>> /\ Turn
  BY DEF TakeTask
<1>2. todo' \in Seq(Task) /\ Plain(todo')
  BY <1>1 DEF Plain
<1> QED BY <1>1, <1>2, PlainStack, TurnKeeps

\* A call that becomes a task.
LEMMA TakenTasks ==
  ASSUME Inv
  PROVE  /\ TakeTask(Conn, "new", calls[Conn]) => calls[Conn] \in Task /\ calls[Conn].k = "new"
         /\ \A p \in Peers : StopPass(p, "alloc") \in Task /\ StopPass(p, "alloc").k = "stop"
<1>1. ASSUME TakeTask(Conn, "new", calls[Conn])
      PROVE  calls[Conn] \in Task /\ calls[Conn].k = "new"
  <2>1. calls[Conn] \in Event /\ calls[Conn].k = "new"
    BY <1>1 DEF TakeTask, Take, Inv, CallsInv, Callers
  <2> QED BY <2>1 DEF Event, Task
<1> QED BY <1>1, FreshPass DEF Inv

LEMMA LoopInvKept ==
  ASSUME Inv, Next
  PROVE  LoopInv'
<1>1. CASE UNCHANGED <<loop, todo, allocByEp, handByEp>>
  BY <1>1 DEF Inv, LoopInv, StackInv, Plain, Valid
<1>2. CASE StartLoop \/ LoopEnters \/ LoopReturns
  <2>1. /\ loop' = loop \/ (loop # "busy" /\ loop' \in {"off", "select"})
        /\ UNCHANGED <<todo, allocByEp, handByEp>>
    BY <1>2 DEF StartLoop, LoopEnters, LoopReturns, allocVars, handVars
  <2> QED BY <2>1 DEF Inv, LoopInv, StackInv, Plain, Valid
<1>3. ASSUME todo # <<>> PROVE Tail(todo) \in Seq(Task) /\ Plain(Tail(todo))
  BY <1>3 DEF Inv, LoopInv, StackInv
<1>4. CASE AwaitDone
  BY <1>3, <1>4, HeadOfStack, AllocDoneKeepsLoop, HandDoneKeepsLoop DEF AwaitDone
<1>5. CASE GiveToAlloc
  <2>1. CASE todo' = Tail(todo) /\ Turn
    BY <1>5, <2>1, PopKeepsLoop DEF Inv, GiveToAlloc
  <2> QED BY <1>3, <1>5, <2>1, AllocDoneKeepsLoop DEF GiveToAlloc
<1>6. CASE GiveToHand
  <2>1. CASE todo' = Tail(todo) /\ Turn
    BY <1>6, <2>1, PopKeepsLoop DEF Inv, GiveToHand
  <2> QED BY <1>3, <1>6, <2>1, HandDoneKeepsLoop DEF GiveToHand
<1>7. CASE ServersUpdate \/ \E p \in Peers : StartDiscovery(p)
  BY <1>7, PopKeepsLoop DEF Inv, ServersUpdate, StartDiscovery
<1>13. CASE TakeTask(Conn, "new", calls[Conn])
  BY <1>13, TakenTasks, TakeTaskKeepsLoop
<1>14. ASSUME NEW p \in Peers, TakeStop(p) PROVE LoopInv'
  BY <1>14, TakenTasks, TakeTaskKeepsLoop DEF TakeStop, StopPasses
<1>8. CASE RunLoop
  BY <1>4, <1>5, <1>6, <1>7, <1>8, <1>13, <1>14, RxKeepsLoop, StopWorkKeepsLoop,
     NewServerEndpointKeepsLoop
  DEF RunLoop
<1>9. <<>> \in Seq(Task) /\ Plain(<<>>)
  BY DEF Plain
<1>10. ASSUME NEW w \in AllocIds, AllocGivesUp(w) \/ AllocSends(w) PROVE LoopInv'
  BY <1>1, <1>9, <1>10, AllocDoneKeepsLoop DEF AllocGivesUp, AllocSends, handVars
<1>11. ASSUME NEW w \in HandIds,
              HandBegins(w) \/ HandGivesUp(w) \/ HandReturns(w) \/ HandSends(w)
       PROVE  LoopInv'
  BY <1>1, <1>9, <1>11, HandDoneKeepsLoop
  DEF HandBegins, HandGivesUp, HandReturns, HandSends, allocVars
<1>12. (\E e \in Event : Call(e)) \/ (\E p \in Peers : EndpointReady(p)) => LoopInv'
  BY <1>1 DEF Call, EndpointReady, allocVars, handVars
<1> QED BY <1>2, <1>8, <1>10, <1>11, <1>12 DEF Next

-----------------------------------------------------------------------------
(* The passes again: every step keeps them sound.                            *)

\* The stack holds no pass.
LEMMA NoPass ==
  ASSUME todo' = <<>> \/ \E t \in Task : todo' = <<t>> /\ t.k # "stop"
  PROVE  PassInv'
<1>1. CASE todo' = <<>>
  BY <1>1 DEF PassInv, ShapeInv, StopLast, StopInv, On
<1>2. ASSUME NEW t \in Task, todo' = <<t>>, t.k # "stop" PROVE PassInv'
  <2>1. Len(todo') = 1 /\ todo'[1] = t /\ Tail(todo') = <<>>
    BY <1>2
  <2> QED BY <1>2, <2>1 DEF PassInv, ShapeInv, StopLast, StopInv, On
<1> QED BY <1>1, <1>2

\* The stack does not change, nor does the work that the maps hold.
LEMMA SamePass ==
  ASSUME Inv, todo' = todo, \A p : AllocsOf(p)' = AllocsOf(p), \A p : HandsOf(p)' = HandsOf(p)
  PROVE  PassInv'
<1>1. ShapeInv' /\ On(todo') = On(todo)
  BY DEF Inv, PassInv, ShapeInv, StopLast, On
<1>2. ASSUME NEW t \in On(todo'), t.k = "stop"
      PROVE  /\ Sound(t, Head(todo'), AllocsOf(t.ep)', HandsOf(t.ep)')
             /\ t.pass = "hand" => \A u \in On(todo') : u.k \in {"stop", "awaitHand"}
  <2>1. AllocsOf(t.ep)' = AllocsOf(t.ep) /\ HandsOf(t.ep)' = HandsOf(t.ep)
    OBVIOUS
  <2>2. /\ Sound(t, Head(todo), AllocsOf(t.ep), HandsOf(t.ep))
        /\ t.pass = "hand" => \A u \in On(todo) : u.k \in {"stop", "awaitHand"}
    BY <1>1, <1>2 DEF Inv, PassInv, StopInv
  <2> QED BY <1>1, <2>1, <2>2
<1> QED BY <1>1, <1>2 DEF PassInv, StopInv

\* Work in the maps stays with its endpoint.
LEMMA AllocsSame ==
  ASSUME allocByEp' = allocByEp, \A w \in allocByEp : alloc'[w].ep = alloc[w].ep
  PROVE  \A p : AllocsOf(p)' = AllocsOf(p)
BY DEF AllocsOf

LEMMA HandsSame ==
  ASSUME handByEp' = handByEp, \A w \in handByEp : hand'[w].ep = hand[w].ep
  PROVE  \A p : HandsOf(p)' = HandsOf(p)
BY DEF HandsOf

\* Only the top of the stack goes, and what takes its place is neither a pass nor a
\* message; the rest stays as it is.
LEMMA TopShape ==
  ASSUME Inv, todo # <<>>,
         \/ todo' = Tail(todo)
         \/ \E t \in Task : t.k \notin {"stop", "give"} /\ todo' = <<t>> \o Tail(todo)
  PROVE  /\ ShapeInv' /\ todo' \in Seq(Task)
         /\ On(Tail(todo)) \subseteq On(todo) /\ Head(todo) \in On(todo)
         /\ \A u \in On(todo') : u.k = "stop" => u \in On(Tail(todo))
<1>1. /\ todo \in Seq(Task) /\ Tail(todo) \in Seq(Task) /\ Plain(Tail(todo))
      /\ On(todo) = {Head(todo)} \cup On(Tail(todo))
  BY OnParts DEF Inv, LoopInv, StackInv
<1>2. StopLast(Tail(todo))
  BY <1>1, StopLastParts DEF Inv, PassInv, ShapeInv
<1>3. CASE todo' = Tail(todo)
  <2>1. todo' # <<>> => Head(todo').k \in {"stop", "new"}
    BY <1>1, <1>3 DEF Plain
  <2> QED BY <1>1, <1>2, <1>3, <2>1 DEF ShapeInv
<1>4. ASSUME NEW t \in Task, t.k \notin {"stop", "give"}, todo' = <<t>> \o Tail(todo)
      PROVE  /\ ShapeInv' /\ todo' \in Seq(Task)
             /\ \A u \in On(todo') : u.k = "stop" => u \in On(Tail(todo))
  <2>1. todo' \in Seq(Task) /\ Head(todo') = t /\ todo' # <<>>
    BY <1>1, <1>4, PushedSeq
  <2>2. On(todo') = {t} \cup On(Tail(todo))
    BY <1>1, <1>4, OnPushed
  <2>3. StopLast(todo')
    BY <1>1, <1>2, <1>4, StopLastPushed
  <2> QED BY <1>4, <2>1, <2>2, <2>3 DEF ShapeInv
<1> QED BY <1>1, <1>3, <1>4

\* The next in the stack, once the top is gone, waits for nobody.
LEMMA NewTop ==
  ASSUME Inv, todo # <<>>, todo' = Tail(todo), todo' # <<>>
  PROVE  Head(todo').k \in {"stop", "new"}
<1>1. Tail(todo) \in Seq(Task) /\ Plain(Tail(todo))
  BY DEF Inv, LoopInv, StackInv
<1> QED BY <1>1 DEF Plain

\* A finished allocation leaves its pass; the first pass goes on.
LEMMA AllocAwaitedKeepsPass ==
  ASSUME Inv, todo # <<>>, Head(todo).k = "awaitAlloc", AllocRead(Head(todo).w),
         AllocDone(Head(todo).w, Tail(todo)), UNCHANGED hand
  PROVE  PassInv'
<1> DEFINE w == Head(todo).w
<1>1. w \in AllocIds /\ w \in allocByEp
  BY HeadOfStack DEF Inv, LoopInv, StackInv, Valid
<1>2. allocByEp' = allocByEp \ {w} /\ handByEp' = handByEp
  BY <1>1 DEF AllocDone
<1>3. \A v \in allocByEp' : alloc'[v] = alloc[v]
  BY <1>1, <1>2 DEF AllocRead, Inv, AllocInv
<1>4. \A p : AllocsOf(p)' = AllocsOf(p) \ {w} /\ HandsOf(p)' = HandsOf(p)
  BY <1>2, <1>3 DEF AllocsOf, HandsOf
<1>5. \/ todo' = Tail(todo)
      \/ \E t \in Task : t.k = "new" /\ todo' = <<t>> \o Tail(todo)
  BY <1>1, AllocDoneStack DEF Inv
<1>6. /\ ShapeInv' /\ On(Tail(todo)) \subseteq On(todo) /\ Head(todo) \in On(todo)
      /\ \A u \in On(todo') : u.k = "stop" => u \in On(Tail(todo))
  BY <1>5, TopShape
<1>7. todo' # <<>> => Head(todo').k \in {"stop", "new"}
  <2>1. Tail(todo) \in Seq(Task)
    BY DEF Inv, LoopInv, StackInv
  <2>2. ASSUME NEW t \in Task, t.k = "new", todo' = <<t>> \o Tail(todo)
        PROVE  Head(todo').k \in {"stop", "new"}
    BY <2>1, <2>2, PushedSeq
  <2> QED BY <1>5, <2>2, NewTop
<1>8. ASSUME NEW t \in On(todo'), t.k = "stop"
      PROVE  /\ Sound(t, Head(todo'), AllocsOf(t.ep)', HandsOf(t.ep)')
             /\ t.pass # "hand"
  <2>1. t \in On(todo) /\ todo' # <<>>
    BY <1>6, <1>8 DEF On
  <2>2. /\ Sound(t, Head(todo), AllocsOf(t.ep), HandsOf(t.ep))
        /\ t.pass = "hand" => \A u \in On(todo) : u.k \in {"stop", "awaitHand"}
    BY <1>8, <2>1 DEF Inv, PassInv, StopInv
  <2>3. t.pass # "hand"
    BY <1>6, <2>2
  <2>4. AllocsOf(t.ep)' = AllocsOf(t.ep) \ {w} /\ Head(todo').k \in {"stop", "new"}
    BY <1>4, <1>7, <2>1
  <2> HIDE DEF w
  <2>5. t.pass = "alloc" =>
          /\ t.left \subseteq AllocsOf(t.ep)
          /\ \A v \in AllocsOf(t.ep) : v \in t.left \/ v = w
          /\ w \notin t.left
    BY <2>2 DEF Sound, w
  <2> QED BY <2>3, <2>4, <2>5 DEF Sound
<1> QED BY <1>6, <1>8 DEF PassInv, StopInv

\* A finished handshake leaves its pass; under the first pass it does not matter.
LEMMA HandAwaitedKeepsPass ==
  ASSUME Inv, todo # <<>>, Head(todo).k = "awaitHand", HandRead(Head(todo).w),
         HandDone(Head(todo).w, Tail(todo)), UNCHANGED alloc
  PROVE  PassInv'
<1> DEFINE w == Head(todo).w
<1>1. w \in HandIds /\ w \in handByEp
  BY HeadOfStack DEF Inv, LoopInv, StackInv, Valid
<1>2. handByEp' = handByEp \ {w} /\ allocByEp' = allocByEp /\ todo' = Tail(todo)
  BY <1>1 DEF HandDone, Registered, Forget
<1>3. \A v \in handByEp' : hand'[v] = hand[v]
  BY <1>1, <1>2 DEF HandRead, Inv, HandInv, HandMaps
<1>4. \A p : HandsOf(p)' = HandsOf(p) \ {w} /\ AllocsOf(p)' = AllocsOf(p)
  BY <1>2, <1>3 DEF AllocsOf, HandsOf
<1>5. /\ ShapeInv' /\ On(todo') \subseteq On(todo)
  BY <1>2, TopShape
<1>6. todo' # <<>> => Head(todo').k \in {"stop", "new"}
  BY <1>2, NewTop
<1>7. ASSUME NEW t \in On(todo'), t.k = "stop"
      PROVE  /\ Sound(t, Head(todo'), AllocsOf(t.ep)', HandsOf(t.ep)')
             /\ t.pass = "hand" => \A u \in On(todo') : u.k \in {"stop", "awaitHand"}
  <2>1. t \in On(todo) /\ todo' # <<>>
    BY <1>5, <1>7 DEF On
  <2>2. /\ Sound(t, Head(todo), AllocsOf(t.ep), HandsOf(t.ep))
        /\ t.pass = "hand" => \A u \in On(todo) : u.k \in {"stop", "awaitHand"}
    BY <1>7, <2>1 DEF Inv, PassInv, StopInv
  <2>3. /\ HandsOf(t.ep)' = HandsOf(t.ep) \ {w} /\ AllocsOf(t.ep)' = AllocsOf(t.ep)
        /\ Head(todo').k \in {"stop", "new"}
    BY <1>4, <1>6, <2>1
  <2>4. t.pass = "alloc" =>
          /\ t.left \subseteq AllocsOf(t.ep)
          /\ \A v \in AllocsOf(t.ep) : v \in t.left
    BY <2>2 DEF Sound
  <2> HIDE DEF w
  <2>5. t.pass = "hand" =>
          /\ AllocsOf(t.ep) = {}
          /\ t.left \subseteq HandsOf(t.ep)
          /\ \A v \in HandsOf(t.ep) : v \in t.left \/ v = w
          /\ w \notin t.left
    BY <2>2 DEF Sound, w
  <2> QED BY <1>5, <2>2, <2>3, <2>4, <2>5 DEF Sound
<1> QED BY <1>5, <1>7 DEF PassInv, StopInv

\* A server endpoint is handled on top of the first pass only, whose work it leaves alone.
LEMMA NewServerEndpointKeepsPass ==
  ASSUME Inv, NewServerEndpoint
  PROVE  PassInv'
<1>1. /\ todo # <<>> /\ Head(todo).k = "new" /\ Head(todo) \in Task /\ todo \in Seq(Task)
      /\ UNCHANGED <<alloc, allocByEp>>
  BY HeadOfStack DEF NewServerEndpoint, allocVars
<1>2. \A p : AllocsOf(p)' = AllocsOf(p)
  BY <1>1 DEF AllocsOf
<1>3. handByVNI = handByEp /\ handByEp \subseteq HandIds
  BY DEF Inv, HandInv, HandMaps
<1>4. \/ todo' = Tail(todo)
      \/ \E w \in HandIds : todo' = <<AwaitHand(w)>> \o todo
  BY <1>3 DEF NewServerEndpoint, HandForVNI, HandForEp
<1>5. ASSUME NEW t \in On(todo), t.k = "stop"
      PROVE  /\ t.pass # "hand"
             /\ t.pass = "alloc" => t.left \subseteq AllocsOf(t.ep)
                                    /\ AllocsOf(t.ep) \subseteq t.left
  <2>1. /\ Sound(t, Head(todo), AllocsOf(t.ep), HandsOf(t.ep))
        /\ t.pass = "hand" => \A u \in On(todo) : u.k \in {"stop", "awaitHand"}
    BY <1>5 DEF Inv, PassInv, StopInv
  <2>2. Head(todo) \in On(todo)
    BY <1>1, OnParts
  <2> QED BY <1>1, <2>1, <2>2 DEF Sound
<1>6. /\ ShapeInv' /\ \A u \in On(todo') : u.k = "stop" => u \in On(todo)
      /\ todo' # <<>> => Head(todo').k # "awaitAlloc"
  <2>1. CASE todo' = Tail(todo)
    BY <1>1, <2>1, TopShape, NewTop
  <2>2. ASSUME NEW w \in HandIds, todo' = <<AwaitHand(w)>> \o todo
        PROVE  /\ ShapeInv' /\ \A u \in On(todo') : u.k = "stop" => u \in On(todo)
               /\ Head(todo').k # "awaitAlloc"
    <3>1. PICK h : h = AwaitHand(w)
      OBVIOUS
    <3>2. h \in Task /\ h.k = "awaitHand"
      BY <3>1 DEF AwaitHand, Task
    <3>3. todo' \in Seq(Task) /\ Head(todo') = h /\ todo' # <<>>
      BY <1>1, <2>2, <3>1, <3>2, PushedSeq
    <3>4. On(todo') = {h} \cup On(todo)
      BY <1>1, <2>2, <3>1, <3>2, OnPushed
    <3>5. StopLast(todo')
      BY <1>1, <2>2, <3>1, <3>2, StopLastPushed DEF Inv, PassInv, ShapeInv
    <3> QED BY <3>2, <3>3, <3>4, <3>5 DEF ShapeInv
  <2> QED BY <1>4, <2>1, <2>2
<1>7. ASSUME NEW t \in On(todo'), t.k = "stop"
      PROVE  /\ Sound(t, Head(todo'), AllocsOf(t.ep)', HandsOf(t.ep)')
             /\ t.pass # "hand"
  <2>1. t \in On(todo) /\ todo' # <<>>
    BY <1>6, <1>7 DEF On
  <2>2. AllocsOf(t.ep)' = AllocsOf(t.ep)
    BY <1>2
  <2> QED BY <1>5, <1>6, <1>7, <2>1, <2>2 DEF Sound
<1> QED BY <1>6, <1>7 DEF PassInv, StopInv

\* The stack is one pass, or a pass with the work it waits for on top.
LEMMA PassAlone ==
  ASSUME NEW t \in Task, t.k = "stop", t.pass \in {"alloc", "hand"},
         \/ todo' = <<t>> /\ Sound(t, t, AllocsOf(t.ep)', HandsOf(t.ep)')
         \/ \E h \in Task : /\ todo' = <<h, t>>
                            /\ (h.k = "awaitAlloc" /\ t.pass = "alloc") \/ h.k = "awaitHand"
                            /\ Sound(t, h, AllocsOf(t.ep)', HandsOf(t.ep)')
  PROVE  PassInv'
<1>1. CASE todo' = <<t>> /\ Sound(t, t, AllocsOf(t.ep)', HandsOf(t.ep)')
  <2>1. Len(todo') = 1 /\ todo'[1] = t /\ Head(todo') = t /\ On(todo') = {t}
    BY <1>1 DEF On
  <2>2. ShapeInv'
    BY <2>1 DEF ShapeInv, StopLast
  <2> QED BY <1>1, <2>1, <2>2 DEF PassInv, StopInv
<1>2. ASSUME NEW h \in Task, todo' = <<h, t>>,
             (h.k = "awaitAlloc" /\ t.pass = "alloc") \/ h.k = "awaitHand",
             Sound(t, h, AllocsOf(t.ep)', HandsOf(t.ep)')
      PROVE  PassInv'
  <2>1. Len(todo') = 2 /\ todo'[1] = h /\ todo'[2] = t /\ Head(todo') = h /\ On(todo') = {h, t}
    BY <1>2 DEF On
  <2>2. ShapeInv'
    BY <1>2, <2>1 DEF ShapeInv, StopLast
  <2> QED BY <1>2, <2>1, <2>2 DEF PassInv, StopInv
<1> QED BY <1>1, <1>2

LEMMA TakeStopKeepsPass ==
  ASSUME Inv, NEW p \in Peers, TakeStop(p)
  PROVE  PassInv'
<1>1. PICK t : t = StopPass(p, "alloc")
  OBVIOUS
<1>2. t \in Task /\ t.k = "stop" /\ t.ep = p /\ t.pass = "alloc" /\ t.left = AllocsOf(p)
  BY <1>1, FreshPass DEF Inv
<1>3. todo' = <<t>> /\ UNCHANGED <<alloc, allocByEp>>
  BY <1>1 DEF TakeStop, TakeTask, StopPasses, allocVars
<1>4. AllocsOf(p)' = AllocsOf(p)
  BY <1>3 DEF AllocsOf
<1>5. Sound(t, t, AllocsOf(t.ep)', HandsOf(t.ep)')
  BY <1>2, <1>4 DEF Sound
<1> QED BY <1>2, <1>3, <1>5, PassAlone

\* stopWorkRunLoop: the pass that ends leaves nothing of its kind behind.
LEMMA StopWorkKeepsPass ==
  ASSUME Inv, StopWork, NEW p, p = Head(todo).ep
  PROVE  /\ PassInv'
         /\ (\E t \in On(todo') : t.k = "stop" /\ t.ep = p) \/ ~HasActiveWork(p)'
<1>1. PICK t : t = Head(todo)
  OBVIOUS
<1>2. /\ todo # <<>> /\ t.k = "stop" /\ t \in Task /\ todo \in Seq(Task)
      /\ UNCHANGED <<allocByEp, handByEp>>
  BY <1>1, HeadOfStack DEF StopWork
<1>3. Tail(todo) = <<>> /\ On(todo) = {t}
  BY <1>1, <1>2, StopLastParts DEF Inv, PassInv, ShapeInv
<1>4. Sound(t, t, AllocsOf(t.ep), HandsOf(t.ep))
  BY <1>1, <1>2, <1>3 DEF Inv, PassInv, StopInv
<1>5. t.ep \in Peers /\ t.pass \in {"alloc", "hand"}
  BY <1>2 DEF Task
<1>6. \A w : LET u == [t EXCEPT !.left = @ \ {w}]
            IN  /\ u \in Task /\ u.k = "stop" /\ u.ep = t.ep /\ u.pass = t.pass
                /\ u.left = t.left \ {w}
  BY <1>2, LessIsTask
<1>7. /\ t.pass = "alloc" => t.left \subseteq allocByEp
      /\ t.pass = "hand" => t.left \subseteq handByEp
  BY <1>1, <1>2, PassLeft DEF StopLeft
<1>8. ASSUME NEW w \in t.left, t.pass = "alloc", alloc' = [alloc EXCEPT ![w].cancelled = TRUE],
             todo' = <<AwaitAlloc(w)>> \o (<<[t EXCEPT !.left = @ \ {w}]>> \o Tail(todo))
      PROVE  PassInv' /\ \E u \in On(todo') : u.k = "stop" /\ u.ep = t.ep
  <2>1. PICK u \in Task : /\ u = [t EXCEPT !.left = @ \ {w}] /\ u.k = "stop" /\ u.ep = t.ep
                         /\ u.pass = t.pass /\ u.left = t.left \ {w}
    BY <1>6
  <2>2. w \in AllocIds
    BY <1>7, <1>8 DEF Inv, AllocInv
  <2>8. PICK h : h = AwaitAlloc(w)
    OBVIOUS
  <2>3. h \in Task /\ h.k = "awaitAlloc" /\ h.w = w
    BY <2>2, <2>8 DEF AwaitAlloc, Task
  <2>4. todo' = <<h, u>>
    BY <1>3, <1>8, <2>1, <2>3, <2>8, ShortStacks
  <2>5. AllocsOf(t.ep)' = AllocsOf(t.ep)
    <3>1. \A v \in allocByEp : alloc'[v].ep = alloc[v].ep
      BY <1>8, <2>2 DEF Inv, AllocInv, AllocWork
    <3> QED BY <1>2, <3>1, AllocsSame
  <2>6. Sound(u, h, AllocsOf(u.ep)', HandsOf(u.ep)')
    BY <1>2, <1>4, <1>8, <2>1, <2>3, <2>5 DEF Sound
  <2>7. u \in On(todo')
    BY <2>4 DEF On
  <2> QED BY <1>5, <1>8, <2>1, <2>3, <2>4, <2>6, <2>7, PassAlone
<1>9. ASSUME NEW w \in t.left, t.pass = "hand", hand' = [hand EXCEPT ![w].cancelled = TRUE],
             todo' = <<AwaitHand(w)>> \o (<<[t EXCEPT !.left = @ \ {w}]>> \o Tail(todo)),
             UNCHANGED alloc
      PROVE  PassInv' /\ \E u \in On(todo') : u.k = "stop" /\ u.ep = t.ep
  <2>1. PICK u \in Task : /\ u = [t EXCEPT !.left = @ \ {w}] /\ u.k = "stop" /\ u.ep = t.ep
                         /\ u.pass = t.pass /\ u.left = t.left \ {w}
    BY <1>6
  <2>2. w \in HandIds
    BY <1>7, <1>9 DEF Inv, HandInv, HandMaps
  <2>8. PICK h : h = AwaitHand(w)
    OBVIOUS
  <2>3. h \in Task /\ h.k = "awaitHand" /\ h.w = w
    BY <2>2, <2>8 DEF AwaitHand, Task
  <2>4. todo' = <<h, u>>
    BY <1>3, <1>9, <2>1, <2>3, <2>8, ShortStacks
  <2>5. HandsOf(t.ep)' = HandsOf(t.ep) /\ AllocsOf(t.ep)' = AllocsOf(t.ep)
    <3>1. \A v \in handByEp : hand'[v].ep = hand[v].ep
      BY <1>9, <2>2 DEF Inv, HandInv, HandMaps, HandWork
    <3>2. HandsOf(t.ep)' = HandsOf(t.ep)
      BY <1>2, <3>1, HandsSame
    <3> QED BY <1>2, <1>9, <3>2 DEF AllocsOf
  <2>6. Sound(u, h, AllocsOf(u.ep)', HandsOf(u.ep)')
    BY <1>2, <1>4, <1>9, <2>1, <2>3, <2>5 DEF Sound
  <2>7. u \in On(todo')
    BY <2>4 DEF On
  <2> QED BY <1>5, <1>9, <2>1, <2>3, <2>4, <2>6, <2>7, PassAlone
<1>10. ASSUME t.left = {}, t.pass = "alloc", UNCHANGED <<alloc, hand>>,
              todo' = <<StopPass(t.ep, "hand")>> \o Tail(todo)
       PROVE  PassInv' /\ \E u \in On(todo') : u.k = "stop" /\ u.ep = t.ep
  <2>1. PICK u : u = StopPass(t.ep, "hand")
    OBVIOUS
  <2>2. /\ u \in Task /\ u.k = "stop" /\ u.ep = t.ep /\ u.pass = "hand"
        /\ u.left = HandsOf(t.ep)
    BY <1>5, <2>1, FreshPass DEF Inv
  <2>3. todo' = <<u>>
    BY <1>3, <1>10, <2>1, <2>2, ShortStacks
  <2>4. AllocsOf(t.ep)' = {} /\ HandsOf(t.ep)' = HandsOf(t.ep)
    <3>1. AllocsOf(t.ep) = {}
      BY <1>2, <1>4, <1>10 DEF Sound
    <3> QED BY <1>2, <1>10, <3>1 DEF AllocsOf, HandsOf
  <2>5. Sound(u, u, AllocsOf(u.ep)', HandsOf(u.ep)')
    BY <2>2, <2>4 DEF Sound
  <2>6. u \in On(todo')
    BY <2>3 DEF On
  <2> QED BY <2>2, <2>3, <2>5, <2>6, PassAlone
<1>11. ASSUME t.left = {}, t.pass = "hand", UNCHANGED <<alloc, hand>>, todo' = Tail(todo)
       PROVE  PassInv' /\ ~HasActiveWork(t.ep)'
  <2>1. AllocsOf(t.ep) = {} /\ HandsOf(t.ep) = {}
    BY <1>2, <1>4, <1>11 DEF Sound
  <2>2. ~HasActiveWork(t.ep)'
    BY <1>2, <1>11, <2>1 DEF HasActiveWork, AllocsOf, HandsOf
  <2> QED BY <1>3, <1>11, <2>2, NoPass
<1>12. StopPasses[1] = "alloc" /\ StopPasses[2] = "hand"
  BY DEF StopPasses
<1>13. \/ \E w \in t.left :
            /\ t.pass = "alloc" /\ alloc' = [alloc EXCEPT ![w].cancelled = TRUE]
            /\ todo' = <<AwaitAlloc(w)>> \o (<<[t EXCEPT !.left = @ \ {w}]>> \o Tail(todo))
       \/ \E w \in t.left :
            /\ t.pass = "hand" /\ hand' = [hand EXCEPT ![w].cancelled = TRUE]
            /\ todo' = <<AwaitHand(w)>> \o (<<[t EXCEPT !.left = @ \ {w}]>> \o Tail(todo))
            /\ UNCHANGED alloc
       \/ /\ t.left = {} /\ UNCHANGED <<alloc, hand>>
          /\ t.pass = "alloc" => todo' = <<StopPass(t.ep, "hand")>> \o Tail(todo)
          /\ t.pass = "hand" => todo' = Tail(todo)
  BY <1>1, <1>12 DEF StopWork
<1>14. t.ep = p
  BY <1>1
<1> QED BY <1>5, <1>8, <1>9, <1>10, <1>11, <1>13, <1>14

\* What a step may do to the stack.
LEMMA Moves ==
  ASSUME Inv, Next
  PROVE  \/ /\ todo' = todo
            /\ \A p : AllocsOf(p)' = AllocsOf(p)
            /\ \A p : HandsOf(p)' = HandsOf(p)
         \/ /\ loop = "select"
            /\ todo' = <<>> \/ \E t \in Task : todo' = <<t>> /\ t.k # "stop"
         \/ \E p \in Peers : TakeStop(p)
         \/ StopWork \/ AwaitDone \/ NewServerEndpoint
         \/ /\ todo # <<>> /\ Head(todo).k = "give"
            /\ \/ todo' = Tail(todo)
               \/ \E t \in Task : t.k = "new" /\ todo' = <<t>> \o Tail(todo)
<1> DEFINE Still == /\ todo' = todo
                    /\ \A p : AllocsOf(p)' = AllocsOf(p)
                    /\ \A p : HandsOf(p)' = HandsOf(p)
           Taken == /\ loop = "select"
                    /\ todo' = <<>> \/ \E t \in Task : todo' = <<t>> /\ t.k # "stop"
           Given == /\ todo # <<>> /\ Head(todo).k = "give"
                    /\ \/ todo' = Tail(todo)
                       \/ \E t \in Task : t.k = "new" /\ todo' = <<t>> \o Tail(todo)
<1>1. ASSUME UNCHANGED <<todo, alloc, hand, allocByEp, handByEp>> PROVE Still
  BY <1>1 DEF AllocsOf, HandsOf
<1>2. (\E e \in Event : Call(e)) \/ (\E p \in Peers : EndpointReady(p)) => Still
  BY <1>1 DEF Call, EndpointReady, allocVars, handVars
<1>3. StartLoop \/ LoopEnters \/ LoopReturns => Still
  BY <1>1 DEF StartLoop, LoopEnters, LoopReturns, allocVars, handVars
<1>4. ASSUME NEW w \in AllocIds, AllocGivesUp(w) PROVE Still
  <2>1. UNCHANGED <<todo, hand, allocByEp, handByEp>> /\ alloc' = [alloc EXCEPT ![w] = Returned(@)]
    BY <1>4 DEF AllocGivesUp, handVars
  <2>2. Returned(alloc[w]).ep = alloc[w].ep
    BY <1>4, AllocReturned DEF AllocGivesUp, Inv, AllocInv
  <2>3. \A v \in allocByEp : alloc'[v].ep = alloc[v].ep
    BY <2>1, <2>2 DEF Inv, AllocInv
  <2> QED BY <2>1, <2>3, AllocsSame DEF HandsOf
<1>5. \A t : <<t>> \o <<>> = <<t>>
  OBVIOUS
<1>6. ASSUME NEW w \in AllocIds, AllocSends(w) PROVE Still \/ Taken
  <2>1. CASE loop = "select" /\ AllocDone(w, <<>>)
    BY <1>5, <2>1, AllocDoneStack DEF Inv
  <2>2. CASE /\ alloc' = [alloc EXCEPT ![w] = IF w \in allocByEp THEN [@ EXCEPT !.pc = "end"]
                                                                 ELSE NoAlloc]
             /\ UNCHANGED <<todo, hand, allocByEp, handByEp>>
    <3>1. w \in allocByEp => [alloc[w] EXCEPT !.pc = "end"].ep = alloc[w].ep
      BY DEF Inv, AllocInv, AllocWork
    <3>2. \A v \in allocByEp : alloc'[v].ep = alloc[v].ep
      BY <2>2, <3>1 DEF Inv, AllocInv
    <3> QED BY <2>2, <3>2, AllocsSame DEF HandsOf
  <2> QED BY <1>6, <2>1, <2>2 DEF AllocSends
<1>7. ASSUME NEW w \in HandIds, HandBegins(w) \/ HandGivesUp(w) \/ HandReturns(w) PROVE Still
  <2>1. PICK r : /\ UNCHANGED <<todo, alloc, allocByEp, handByEp>>
                 /\ hand' = [hand EXCEPT ![w] = r] /\ r.ep = hand[w].ep
    <3>1. \A pc : [hand[w] EXCEPT !.pc = pc].ep = hand[w].ep
      BY DEF Inv, HandInv, HandMaps, HandWork
    <3>2. Returned(hand[w]).ep = hand[w].ep
      BY DEF Returned, Inv, HandInv, HandMaps, HandWork
    <3>3. CASE HandReturns(w)
      BY <3>2, <3>3 DEF HandReturns, allocVars
    <3>4. CASE HandBegins(w) \/ HandGivesUp(w)
      BY <3>1, <3>4 DEF HandBegins, HandGivesUp, allocVars
    <3> QED BY <1>7, <3>3, <3>4
  <2>2. \A v \in handByEp : hand'[v].ep = hand[v].ep
    BY <2>1 DEF Inv, HandInv, HandMaps
  <2> QED BY <2>1, <2>2, HandsSame DEF AllocsOf
<1>8. ASSUME NEW w \in HandIds, HandSends(w) PROVE Still \/ Taken
  <2>1. CASE loop = "select" /\ HandDone(w, <<>>)
    BY <2>1 DEF HandDone
  <2>2. CASE /\ hand' = [hand EXCEPT ![w] = IF w \in handByEp THEN [@ EXCEPT !.pc = "end"]
                                                              ELSE NoHand]
             /\ UNCHANGED <<todo, alloc, allocByEp, handByEp>>
    <3>1. w \in handByEp => [hand[w] EXCEPT !.pc = "end"].ep = hand[w].ep
      BY DEF Inv, HandInv, HandMaps, HandWork
    <3>2. \A v \in handByEp : hand'[v].ep = hand[v].ep
      BY <2>2, <3>1 DEF Inv, HandInv, HandMaps
    <3> QED BY <2>2, <3>2, HandsSame DEF AllocsOf
  <2> QED BY <1>8, <2>1, <2>2 DEF HandSends
<1>9. ASSUME ServersUpdate \/ \E p \in Peers : StartDiscovery(p) PROVE Taken
  BY <1>9 DEF ServersUpdate, StartDiscovery, Take
<1>10. ASSUME TakeTask(Conn, "new", calls[Conn]) PROVE Taken
  BY <1>10, TakenTasks DEF TakeTask, Take
<1>11. ASSUME RxChallenge \/ Rx PROVE Taken
  <2>1. calls[Conn] \in Event /\ loop = "select"
    BY <1>11 DEF RxChallenge, Rx, Take, Inv, CallsInv, Callers
  <2>2. \A e : AllocFor(e.node, e.disco) \cup HandForVNI(e.srv, e.apv[2]) \cup HandForAPV(e.apv)
                 \subseteq AllocIds \cup HandIds
    BY DEF AllocFor, HandForVNI, HandForAPV, Inv, AllocInv, HandInv, HandMaps
  <2>3. ASSUME NEW w \in AllocIds \cup HandIds
        PROVE  LET g == [k |-> "give", w |-> w, msg |-> calls[Conn]] IN g \in Task /\ g.k # "stop"
    BY <2>1 DEF Task
  <2>4. \/ todo' = <<>>
        \/ \E w \in AllocIds \cup HandIds :
             todo' = <<[k |-> "give", w |-> w, msg |-> calls[Conn]]>>
    BY <1>11, <2>2 DEF RxChallenge, Rx
  <2> QED BY <2>1, <2>3, <2>4
<1>12. ASSUME GiveToAlloc \/ GiveToHand PROVE Given
  BY <1>12, AllocDoneStack DEF GiveToAlloc, GiveToHand, HandDone, Inv
<1> QED BY <1>2, <1>3, <1>4, <1>6, <1>7, <1>8, <1>9, <1>10, <1>11, <1>12 DEF Next, RunLoop

LEMMA PassInvKept ==
  ASSUME Inv, Next
  PROVE  PassInv'
<1>1. CASE AwaitDone
  BY <1>1, AllocAwaitedKeepsPass, HandAwaitedKeepsPass DEF AwaitDone
<1>2. CASE /\ todo # <<>> /\ Head(todo).k = "give"
           /\ \/ todo' = Tail(todo)
              \/ \E t \in Task : t.k = "new" /\ todo' = <<t>> \o Tail(todo)
  <2>1. Tail(todo) = <<>> /\ \A t : <<t>> \o <<>> = <<t>>
    BY <1>2 DEF Inv, PassInv, ShapeInv
  <2> QED BY <1>2, <2>1, NoPass
<1> QED BY <1>1, <1>2, Moves, SamePass, NoPass, TakeStopKeepsPass, StopWorkKeepsPass,
           NewServerEndpointKeepsPass

\* The token goes from the channel to the goroutine that is started, to the loop and back.
LEMMA RunInvKept ==
  ASSUME Inv, Next
  PROVE  RunInv'
<1>1. CASE UNCHANGED <<startVars, loop>>
  BY <1>1 DEF Inv, RunInv, OneLoop, startVars
<1>2. CASE StartLoop
  BY <1>2 DEF StartLoop, Inv, RunInv, OneLoop
<1>3. CASE LoopEnters
  BY <1>3 DEF LoopEnters, Inv, RunInv, OneLoop
<1>4. CASE LoopReturns
  BY <1>4 DEF LoopReturns, Inv, RunInv, OneLoop
<1>5. ASSUME Turn, loop = "select" \/ todo # <<>> PROVE RunInv'
  <2>1. loop # "off"
    BY <1>5 DEF Inv, LoopInv
  <2> QED BY <1>5, <2>1, TurnKeepsRun DEF Inv
<1>6. CASE RunLoop
  BY <1>5, <1>6
  DEF RunLoop, StartDiscovery, TakeStop, TakeTask, Take, RxChallenge, Rx, ServersUpdate, StopWork,
      AwaitDone, NewServerEndpoint, GiveToAlloc, GiveToHand, AllocDone, HandDone
<1>7. ASSUME NEW w \in AllocIds, AllocGivesUp(w) \/ AllocSends(w) PROVE RunInv'
  BY <1>1, <1>5, <1>7 DEF AllocGivesUp, AllocSends, AllocDone
<1>8. ASSUME NEW w \in HandIds, HandBegins(w) \/ HandGivesUp(w) \/ HandReturns(w) \/ HandSends(w)
      PROVE  RunInv'
  BY <1>1, <1>5, <1>8 DEF HandBegins, HandGivesUp, HandReturns, HandSends, HandDone
<1>9. (\E e \in Event : Call(e)) \/ (\E p \in Peers : EndpointReady(p)) => RunInv'
  BY <1>1 DEF Call, EndpointReady
<1> QED BY <1>2, <1>3, <1>4, <1>6, <1>7, <1>8, <1>9 DEF Next

-----------------------------------------------------------------------------
LEMMA InitInv == Init => Inv
<1> SUFFICES ASSUME Init PROVE Inv
  OBVIOUS
<1>1. AllocInv
  BY NoAllocSound DEF Init, AllocInv, AllocSound
<1>2. HandInv
  <2>1. HandMaps
    BY NoHandSound DEF Init, HandMaps, HandSound
  <2>2. Routes
    BY DEF Init, Routes
  <2>3. InfoHeld
    BY NoHandSound DEF Init, InfoHeld, DiscoInfoHeld
  <2>4. Told
    <3>1. Successes = {}
      BY DEF Init, Successes
    <3> QED BY <3>1, FS_EmptySet DEF Init, Told
  <2> QED BY <2>1, <2>2, <2>3, <2>4 DEF HandInv
<1>3. LoopInv
  BY DEF Init, LoopInv, StackInv
<1>6. PassInv /\ RunInv
  BY DEF Init, PassInv, ShapeInv, StopLast, StopInv, On, RunInv, OneLoop
<1>4. CallsInv
  BY DEF Init, CallsInv
<1>5. CountInv
  <2>1. ncalls \in [Kinds -> Nat] /\ \A k \in Kinds : ncalls[k] = 0 /\ Budget[k] \in Nat
    BY RelayAssumption DEF Init
  <2>2. hasServers \in BOOLEAN
    BY DEF Init
  <2>3. servers \in [Servers -> Regions \cup {None}] /\ ready \in [Peers -> Nat]
    BY DEF Init
  <2> QED BY <2>1, <2>2, <2>3 DEF CountInv
<1> QED BY <1>1, <1>2, <1>3, <1>4, <1>5, <1>6 DEF Inv

LEMMA InvKept == Inv /\ [Next]_vars => Inv'
<1> SUFFICES ASSUME Inv, [Next]_vars PROVE Inv'
  OBVIOUS
<1>1. CASE UNCHANGED vars
  <2>1. AllocInv' /\ CallsInv' /\ CountInv'
    BY <1>1 DEF vars, allocVars, Inv, AllocInv, CallsInv, CountInv
  <2>2. HandInv'
    BY <1>1
    DEF vars, handVars, Inv, HandInv, HandMaps, Routes, InfoHeld, DiscoInfoHeld, Told, Successes
  <2>3. LoopInv'
    BY <1>1 DEF vars, allocVars, handVars, Inv, LoopInv, StackInv, Plain, Valid
  <2>4. PassInv' /\ RunInv'
    BY <1>1
    DEF vars, startVars, allocVars, handVars, Inv, PassInv, ShapeInv, StopInv, On, AllocsOf,
        HandsOf, Sound, StopLast, RunInv, OneLoop
  <2> QED BY <2>1, <2>2, <2>3, <2>4 DEF Inv
<1>2. CASE Next
  <2>1. todo \in Seq(Task)
    BY DEF Inv, LoopInv, StackInv
  <2> QED BY <1>2, <2>1, PassLeft, AllocInvKept, HandInvKept, LoopInvKept, PassInvKept,
             RunInvKept, CallsInvKept, CountInvKept
      DEF Inv
<1> QED BY <1>1, <1>2

\* The invariant of the relay manager: what its maps, goroutines and call stack are.
THEOREM RelayAlwaysInv == Spec => []Inv
BY InitInv, InvKept, PTL DEF Spec

\* Types, with the work that every waiting task is about under way.
LEMMA InvTypeOK == Inv => TypeOK
<1> SUFFICES ASSUME Inv PROVE TypeOK
  OBVIOUS
<1>1. /\ servers \in [Servers -> Regions \cup {None}] /\ hasServers \in BOOLEAN
      /\ ready \in [Peers -> Nat]
  BY DEF Inv, CountInv
<1>2. \A k \in Kinds : ncalls[k] \in 0..Budget[k]
  <2>1. \A k \in Kinds : ncalls[k] \in Nat /\ Budget[k] \in Nat /\ ncalls[k] <= Budget[k]
    BY RelayAssumption DEF Inv, CountInv
  <2> QED BY <2>1
<1>3. owed \in Int
  <2>1. Cardinality(Successes) \in Nat
    BY FS_CardinalityType DEF Inv, HandInv, Told
  <2> QED BY <2>1 DEF Inv, HandInv, Told
<1>4. /\ alloc \in [AllocIds -> AllocWork] /\ hand \in [HandIds -> HandWork]
      /\ allocByEp \subseteq AllocIds /\ allocByKeys \subseteq AllocIds
      /\ handByEp \subseteq HandIds /\ handByVNI \subseteq HandIds
  BY DEF Inv, AllocInv, HandInv, HandMaps
<1>5. /\ DOMAIN awaiting \subseteq HandIds /\ \A w \in DOMAIN awaiting : awaiting[w] \in APV
      /\ DOMAIN apvTo \subseteq APV /\ \A a \in DOMAIN apvTo : apvTo[a] \in HandIds
  BY <1>4 DEF Inv, HandInv, Routes
<1>6. discoInfo \in [Servers -> SUBSET HandIds]
  BY DEF Inv, HandInv, InfoHeld
<1>7. /\ loop \in {"off", "select", "busy", "returning"} /\ (loop = "busy" <=> todo # <<>>)
      /\ stopped \in 0..1 /\ started \in Nat
  BY DEF Inv, LoopInv, RunInv, OneLoop
<1>8. ASSUME NEW i \in DOMAIN todo
      PROVE  /\ todo[i] \in Task
             /\ todo[i].k = "awaitAlloc" => alloc[todo[i].w].pc # "none"
             /\ todo[i].k = "awaitHand" => hand[todo[i].w].pc # "none"
  <2>1. todo \in Seq(Task) /\ todo # <<>> /\ i \in 1..Len(todo)
    BY DEF Inv, LoopInv, StackInv
  <2>2. CASE i = 1
    <3>1. todo[i] = Head(todo) /\ Valid(Head(todo)) /\ todo[i] \in Task
      BY <2>1, <2>2 DEF Inv, LoopInv, StackInv
    <3>2. \A w \in allocByEp : alloc[w].pc # "none"
      BY DEF Inv, AllocInv, AllocSound
    <3>3. \A w \in handByEp : hand[w].pc # "none"
      BY DEF Inv, HandInv, HandMaps, HandSound
    <3> QED BY <3>1, <3>2, <3>3 DEF Valid
  <2>3. CASE i # 1
    <3>1. i - 1 \in 1..Len(Tail(todo)) /\ todo[i] = Tail(todo)[i - 1] /\ todo[i] \in Task
      BY <2>1, <2>3
    <3>2. todo[i].k \in {"stop", "new"}
      BY <2>1, <3>1 DEF Inv, LoopInv, StackInv, Plain
    <3> QED BY <3>1, <3>2
  <2> QED BY <2>2, <2>3
<1>9. \A c \in Callers : calls[c] # None => calls[c] \in Event /\ CallerOf(calls[c]) = c
  BY DEF Inv, CallsInv
<1> QED BY <1>1, <1>2, <1>3, <1>4, <1>5, <1>6, <1>7, <1>8, <1>9 DEF TypeOK, AllocWork, HandWork

\* Types; and runLoop never waits for work whose goroutine was never started.
THEOREM RelayTypeCorrect == Spec => []TypeOK
BY InvTypeOK, RelayAlwaysInv, PTL

\* The six maps of relayManager agree key by key, whatever is cancelled, reported twice
\* or answered late.
THEOREM MapsAlwaysAgree == Spec => []MapsAgree
<1>1. Inv => MapsAgree
  BY DEF Inv, AllocInv, HandInv, HandMaps, Routes, MapsAgree
<1> QED BY <1>1, RelayAlwaysInv, PTL

\* runLoop waits on a doneCh only if something will still be written to it, or has been.
THEOREM WorkWillReport == Spec => []RegisteredWillReport
<1>1. Inv => RegisteredWillReport
  BY DEF Inv, AllocInv, HandInv, HandMaps, RegisteredWillReport
<1> QED BY <1>1, RelayAlwaysInv, PTL

\* ensureDiscoInfoFor and derefDiscoInfoFor are paired on every path of a handshake.
THEOREM DiscoInfoAlwaysHeld == Spec => []DiscoInfoHeld
<1>1. Inv => DiscoInfoHeld
  BY DEF Inv, HandInv, InfoHeld
<1> QED BY <1>1, RelayAlwaysInv, PTL

\* handleHandshakeWorkDoneRunLoop tells each success once, though it may hear of it twice.
THEOREM SuccessesToldOnce == Spec => []SuccessToldOnce
<1>1. Inv => SuccessToldOnce
  BY DEF Inv, HandInv, Told, Successes, SuccessToldOnce
<1> QED BY <1>1, RelayAlwaysInv, PTL

\* runLoop is alone with its maps, and there is always a way to start it: exactly one of
\* the token, a goroutine on its way and a running loop, through every restart.
THEOREM LoopIsSingle == Spec => []OneLoop
<1>1. Inv => OneLoop
  BY DEF Inv, RunInv
<1> QED BY <1>1, RelayAlwaysInv, PTL

\* No step but the end of stopWorkRunLoop takes its task off the stack.
LEMMA StopStep ==
  ASSUME Inv, Next, NEW p \in Peers, Stopping(p), ~Stopping(p)'
  PROVE  ~HasActiveWork(p)'
<1>1. LoopInv /\ todo \in Seq(Task) /\ todo' \in Seq(Task)
  <2>1. LoopInv'
    BY LoopInvKept
  <2> QED BY <2>1 DEF Inv, LoopInv, StackInv
<1>2. PICK t \in On(todo) : t.k = "stop" /\ t.ep = p
  BY <1>1 DEF Stopping, On
<1>3. \A u \in On(todo') : u.k = "stop" => u.ep # p
  BY <1>1 DEF Stopping, On
<1>4. t \notin On(todo') /\ todo # <<>>
  BY <1>2, <1>3 DEF On
<1>5. todo' # todo /\ loop # "select"
  BY <1>1, <1>2, <1>4 DEF LoopInv
<1>6. ~\E q \in Peers : TakeStop(q)
  BY <1>5 DEF TakeStop, TakeTask, Take
<1>7. On(todo) = {Head(todo)} \cup On(Tail(todo)) /\ Tail(todo) \in Seq(Task)
  BY <1>1, <1>4, OnParts
<1>8. ASSUME todo' = Tail(todo) \/ \E u \in Task : todo' = <<u>> \o Tail(todo)
      PROVE  Head(todo) = t
  <2>1. CASE todo' = Tail(todo)
    BY <1>2, <1>4, <1>7, <2>1
  <2>2. ASSUME NEW u \in Task, todo' = <<u>> \o Tail(todo) PROVE Head(todo) = t
    <3>1. On(todo') = {u} \cup On(Tail(todo))
      BY <1>7, <2>2, OnPushed
    <3> QED BY <1>2, <1>4, <1>7, <3>1
  <2> QED BY <1>8, <2>1, <2>2
<1>9. ASSUME NEW u \in Task, todo' = <<u>> \o todo PROVE FALSE
  BY <1>1, <1>2, <1>4, <1>9, OnPushed
<1>10. ~AwaitDone
  <2> SUFFICES ASSUME AwaitDone PROVE FALSE
    OBVIOUS
  <2>1. /\ Head(todo).k \in {"awaitAlloc", "awaitHand"}
        /\ todo' = Tail(todo) \/ \E u \in Task : todo' = <<u>> \o Tail(todo)
    BY <1>4, HeadOfStack, AllocDoneStack DEF AwaitDone, HandDone, Inv
  <2> QED BY <1>2, <1>8, <2>1
<1>11. ~NewServerEndpoint
  <2> SUFFICES ASSUME NewServerEndpoint PROVE FALSE
    OBVIOUS
  <2>1. \A w \in handByEp : AwaitHand(w) \in Task
    BY DEF AwaitHand, Task, Inv, HandInv, HandMaps
  <2>2. handByVNI = handByEp
    BY DEF Inv, HandInv, HandMaps
  <2>3. todo' = Tail(todo) \/ \E w \in handByEp : todo' = <<AwaitHand(w)>> \o todo
    BY <2>2 DEF NewServerEndpoint, HandForVNI, HandForEp
  <2>4. Head(todo).k = "new"
    BY DEF NewServerEndpoint
  <2> QED BY <1>2, <1>8, <1>9, <2>1, <2>3, <2>4
<1>12. StopWork
  BY <1>2, <1>5, <1>6, <1>8, <1>10, <1>11, Moves
<1>13. Head(todo).ep = p
  <2>1. On(todo) = {Head(todo)}
    BY <1>1, <1>4, <1>12, StopLastParts DEF StopWork, Inv, PassInv, ShapeInv
  <2> QED BY <1>2, <2>1
<1> QED BY <1>3, <1>12, <1>13, StopWorkKeepsPass

\* stopWorkRunLoop goes once over the allocations and once over the handshakes, and that
\* is thorough: what an allocation starts on its last breath is stopped too.
THEOREM StopAlwaysThorough == Spec => StopIsThorough
<1>1. ASSUME Inv, [Next]_vars
      PROVE  [\A p \in Peers : Stopping(p) /\ ~Stopping(p)' => ~HasActiveWork(p)']_vars
  <2>1. CASE UNCHANGED vars
    BY <2>1
  <2>2. CASE Next
    BY <1>1, <2>2, StopStep
  <2> QED BY <1>1, <2>1, <2>2
<1> QED BY <1>1, RelayAlwaysInv, PTL DEF Spec, StopIsThorough
===============================================================================
