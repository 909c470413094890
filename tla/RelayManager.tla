----------------------------- MODULE RelayManager -----------------------------
(****************************************************************************)
(* relayManager: one event loop, runLoop, that owns the maps of outstanding  *)
(* work; goroutines that allocate an endpoint on a relay server or handshake *)
(* with it; and callers that block until the loop takes their event, often   *)
(* with endpoint.mu or Conn.mu held.  Whoever takes the token that a loop    *)
(* leaves in runLoopStoppedCh starts the next; the loop returns when there   *)
(* is no work left.                                                          *)
(*                                                                          *)
(* The loop's call stack is the variable todo: a handler that has to wait    *)
(* for a goroutine (<-work.doneCh, or the select in handleRxDiscoMsgRunLoop) *)
(* is a task on it, and the loop takes no event until the stack is empty.    *)
(* Messages from servers and peers may come at any time, any number of times *)
(* or never.  Latency, pings sent and the texts of messages are left out.    *)
(****************************************************************************)
EXTENDS Integers, Sequences, FiniteSets

CONSTANTS
  Peers,       \* endpoints
  DiscoOf,     \* the disco key of each of them
  Servers,     \* relay servers, by node key and server disco key
  Regions,     \* DERP home regions of servers
  Offers,      \* server endpoints that servers hand out
  Addrs,       \* addresses of servers
  AllocIds,    \* identities for relayEndpointAllocWork
  HandIds,     \* identities for relayHandshakeWork
  Conn,        \* the caller that holds Conn.mu
  Admin,       \* callers that hold no lock: the relay server set
  None,
  Budget       \* bound: calls of relayManager methods, by kind

\* Calls, by what they are about.
Kinds == {"start", "stop", "new", "resp", "chal", "pong", "servers"}

ASSUME RelayAssumption ==
  /\ DOMAIN DiscoOf = Peers
  /\ \A o \in Offers : o.srv \in Servers /\ o.lam \in Nat
  /\ Budget \in [Kinds -> Nat]
  /\ AllocIds \cap HandIds = {}
  /\ None \notin Servers \cup Peers \cup Addrs \cup Regions
  /\ {Conn, Admin} \cap Peers = {}

VARIABLES
  servers,      \* serversByNodeKey, as each server's region or None
  hasServers,   \* hasPeerRelayServers
  alloc, hand,  \* work, with the goroutine that does it
  allocByEp, allocByKeys,   \* work that the two maps of allocation work hold
  handByEp, handByVNI,      \* work that the two maps of handshake work hold
  awaiting,     \* handshakeWorkAwaitingPong
  apvTo,        \* addrPortVNIToHandshakeWork
  discoInfo,    \* discoInfoByServerDisco, as the work that holds a reference
  stopped,      \* tokens in runLoopStoppedCh
  started,      \* goroutines that are to run runLoop and have not begun
  loop, todo,   \* runLoop: "off", "select", "busy" or "returning", and its call stack
  calls,        \* what a caller waits to hand to the loop
  ready,        \* goroutines about to run udpRelayEndpointReady, by endpoint
  owed,         \* history: handshakes that succeeded, less those told to the endpoint
  ncalls

allocVars == <<alloc, allocByEp, allocByKeys>>
handVars  == <<hand, handByEp, handByVNI, awaiting, apvTo>>
startVars == <<stopped, started>>
vars == <<servers, hasServers, allocVars, handVars, discoInfo, startVars, loop, todo, calls,
          ready, owed, ncalls>>

Callers == Peers \cup {Conn, Admin}

\* udprelay.ServerEndpoint, as far as it is told apart: a server's disco key, the VNI
\* and the LamportID.
ServerEndpoint == Offers

\* addrPortVNI
APV == Addrs \X {o.vni : o \in Offers}


NoAlloc == [pc |-> "none", ep |-> None, node |-> None, cancelled |-> FALSE,
            full |-> FALSE, got |-> None]
NoHand  == [pc |-> "none", ep |-> None, se |-> None, cancelled |-> FALSE, full |-> FALSE,
            answered |-> FALSE, pong |-> FALSE]

-----------------------------------------------------------------------------
(* Callers: relayManagerInputEvent with a nil context.  What is in a message *)
(* beyond that which routes it is looked at, and chosen, by the work it is   *)
(* given to; so is lastBest by handleNewServerEndpointRunLoop.               *)

Event ==
       [k : {"start", "stop"}, ep : Peers]
  \cup [k : {"new"}, ep : Peers, se : ServerEndpoint]
  \cup [k : {"resp"}, node : Servers, disco : {DiscoOf[p] : p \in Peers}]
  \cup [k : {"chal"}, srv : Servers, apv : APV]
  \cup [k : {"ping", "pong"}, apv : APV]
  \cup [k : {"set"}, servers : [Servers -> Regions \cup {None}]]
  \cup [k : {"upsert"}, node : Servers, region : Regions]
  \cup [k : {"remove"}, node : Servers]
  \cup [k : {"home"}, node : Servers, region : Regions]
  \cup [k : {"get"}]

\* Which lock the caller holds meanwhile; endpoint.mu of the peer itself for
\* discovery and reset, Conn.mu for whatever came in a disco message.
CallerOf(e) ==
  CASE e.k \in {"start", "stop"} -> e.ep
    [] e.k \in {"new", "resp", "chal", "ping", "pong"} -> Conn
    [] OTHER -> Admin

\* wantUDPRelayPathDiscoveryLocked: no discovery without servers.  A challenge is only
\* read while there is a discoInfo for the server.
Wanted(e) ==
  /\ e.k = "start" => hasServers
  /\ e.k = "chal" => discoInfo[e.srv] # {}

KindOf(e) == IF CallerOf(e) = Admin THEN "servers"
             ELSE IF e.k = "ping" THEN "pong" ELSE e.k

\* A method of relayManager is called.
Call(e) ==
  /\ ncalls[KindOf(e)] < Budget[KindOf(e)]
  /\ calls[CallerOf(e)] = None
  /\ Wanted(e)
  /\ calls' = [calls EXCEPT ![CallerOf(e)] = e]
  /\ ncalls' = [ncalls EXCEPT ![KindOf(e)] = @ + 1]
  /\ UNCHANGED <<servers, hasServers, allocVars, handVars, discoInfo, startVars, loop,
                 todo, ready, owed>>

\* Goroutines in relayManagerInputEvent: callers, and work that has ended.
Sending ==
  {c \in Callers : calls[c] # None} \cup {w \in AllocIds : alloc[w].pc = "send"}
                                    \cup {w \in HandIds : hand[w].pc = "send"}

\* Variant: one of them sees the token, and does not take it.
StartLoopPeeks ==
  /\ stopped > 0
  /\ Sending # {}
  /\ started' = started + 1
  /\ UNCHANGED <<servers, hasServers, allocVars, handVars, discoInfo, stopped, loop, todo, calls,
                 ready, owed, ncalls>>

\* One of them reads runLoopStoppedCh and starts a goroutine for the loop; it then goes
\* on trying to send.
StartLoop ==
  /\ stopped > 0
  /\ Sending # {}
  /\ stopped' = stopped - 1
  /\ started' = started + 1
  /\ UNCHANGED <<servers, hasServers, allocVars, handVars, discoInfo, loop, todo, calls, ready,
                 owed, ncalls>>

-----------------------------------------------------------------------------
(* The run loop.                                                             *)

\* The goroutine gets to run, and to the select.
LoopEnters ==
  /\ started > 0
  /\ loop = "off"
  /\ started' = started - 1
  /\ loop' = "select"
  /\ UNCHANGED <<servers, hasServers, allocVars, handVars, discoInfo, stopped, todo, calls, ready,
                 owed, ncalls>>

\* The deferred send to runLoopStoppedCh, which has room for one.
LoopReturns ==
  /\ loop = "returning"
  /\ stopped = 0
  /\ stopped' = 1
  /\ loop' = "off"
  /\ UNCHANGED <<servers, hasServers, allocVars, handVars, discoInfo, started, todo, calls, ready,
                 owed, ncalls>>

\* Variant: the loop goes on while a handler waits.
TurnTooEarly ==
  /\ loop' = IF allocByEp' \cup handByEp' # {} THEN "select" ELSE "returning"
  /\ UNCHANGED startVars

\* The end of every handler: hasActiveWorkRunLoop.
Turn ==
  /\ loop' = IF todo' # <<>> THEN "busy"
             ELSE IF allocByEp' \cup handByEp' # {} THEN "select" ELSE "returning"
  /\ UNCHANGED startVars

\* Work that is looked up under a key: at most one, see MapsAgree.
AllocFor(node, disco) ==
  {w \in allocByKeys : alloc[w].node = node /\ DiscoOf[alloc[w].ep] = disco}
HandForVNI(srv, vni) == {w \in handByVNI : hand[w].se.srv = srv /\ hand[w].se.vni = vni}
HandForEp(ep, srv)   == {w \in handByEp : hand[w].ep = ep /\ hand[w].se.srv = srv}
HandForAPV(a)        == {w \in HandIds : a \in DOMAIN apvTo /\ apvTo[a] = w}

AllocsOf(ep) == {w \in allocByEp : alloc[w].ep = ep}
HandsOf(ep)  == {w \in handByEp : hand[w].ep = ep}

\* hasActiveWorkForEndpointRunLoop
HasActiveWork(ep) ==
  \/ \E w \in allocByEp : alloc[w].ep = ep
  \/ \E w \in handByEp : hand[w].ep = ep

\* The loop takes the event that c waits with.
Take(c, k) ==
  /\ loop = "select"
  /\ calls[c] # None
  /\ calls[c].k = k
  /\ calls' = [calls EXCEPT ![c] = None]
  /\ UNCHANGED ncalls

\* allocateAllServersRunLoop, with work for every server that has none under these
\* disco keys; nothing at all when the endpoint has work, or no disco key yet.
StartDiscovery(p) ==
  /\ Take(p, "start")
  /\ \/ /\ ~HasActiveWork(p)
        /\ LET new == {s \in Servers : servers[s] # None /\ AllocFor(s, DiscoOf[p]) = {}}
           IN \E id \in [new -> {w \in AllocIds : alloc[w].pc = "none"}] :
                /\ \A s, t \in new : id[s] = id[t] => s = t
                /\ alloc' = [w \in AllocIds |->
                     IF \E s \in new : id[s] = w
                       THEN [NoAlloc EXCEPT !.pc = "wait", !.ep = p,
                                            !.node = CHOOSE s \in new : id[s] = w]
                       ELSE alloc[w]]
                /\ allocByEp' = allocByEp \cup {id[s] : s \in new}
                /\ allocByKeys' = allocByKeys \cup {id[s] : s \in new}
     \/ UNCHANGED allocVars
  /\ todo' = <<>>
  /\ UNCHANGED <<servers, hasServers, handVars, discoInfo, ready, owed>>
  /\ Turn

\* publishHasServersRunLoop
Publish == hasServers' = (\E s \in Servers : servers'[s] # None)

\* handleServersUpdateRunLoop, handleServerUpsertRunLoop, handleServerRemoveRunLoop,
\* handleDERPHomeChangeRunLoop and handleGetServersRunLoop.
ServersUpdate ==
  /\ \/ /\ Take(Admin, "set")
        /\ servers' = calls[Admin].servers
        /\ Publish
     \/ /\ Take(Admin, "upsert")
        /\ servers' = [servers EXCEPT ![calls[Admin].node] = calls[Admin].region]
        /\ Publish
     \/ /\ Take(Admin, "remove")
        /\ servers' = [servers EXCEPT ![calls[Admin].node] = None]
        /\ Publish
     \/ /\ Take(Admin, "home")
        /\ servers' = [servers EXCEPT ![calls[Admin].node] =
                         IF @ = None THEN None ELSE calls[Admin].region]
        /\ UNCHANGED hasServers
     \/ /\ Take(Admin, "get")
        /\ UNCHANGED <<servers, hasServers>>
  /\ todo' = <<>>
  /\ UNCHANGED <<allocVars, handVars, discoInfo, ready, owed>>
  /\ Turn

\* Events whose handler may have to wait become a task.
TakeTask(c, k, t) ==
  /\ Take(c, k)
  /\ todo' = <<t>>
  /\ UNCHANGED <<servers, hasServers, allocVars, handVars, discoInfo, ready, owed>>
  /\ Turn

AwaitAlloc(w) == [k |-> "awaitAlloc", w |-> w]
AwaitHand(w)  == [k |-> "awaitHand", w |-> w]

\* handleAllocWorkDoneRunLoop: work that is no longer the registered one is ignored,
\* a server endpoint that was allocated goes on to handleNewServerEndpointRunLoop.
AllocDone(w, rest) ==
  /\ IF w \in allocByEp
       THEN /\ allocByEp' = allocByEp \ {w}
            /\ allocByKeys' = allocByKeys \ {w}
            /\ todo' = IF alloc[w].got = None THEN rest
                       ELSE <<[k |-> "new", ep |-> alloc[w].ep, se |-> alloc[w].got]>> \o rest
       ELSE /\ UNCHANGED <<allocByEp, allocByKeys>>
            /\ todo' = rest
  /\ UNCHANGED <<handByEp, handByVNI, awaiting, apvTo, ready, owed>>
  /\ Turn

\* Variant: the address of the work's messages stays in the maps.
ForgetKeepsAddr(w) ==
  /\ handByEp' = handByEp \ {w}
  /\ handByVNI' = handByVNI \ {w}
  /\ UNCHANGED <<awaiting, apvTo>>

\* The work leaves all four maps.
Forget(w) ==
  /\ handByEp' = handByEp \ {w}
  /\ handByVNI' = handByVNI \ {w}
  /\ awaiting' = [v \in DOMAIN awaiting \ {w} |-> awaiting[v]]
  /\ apvTo' = [a \in {b \in DOMAIN apvTo : apvTo[b] # w} |-> apvTo[a]]

\* Variant: a second report of the same work is not told from the first.
RegisteredUnchecked(w) == TRUE

\* The work reported is the one in the maps.
Registered(w) == w \in handByEp

\* handleHandshakeWorkDoneRunLoop: a pong is told to the endpoint, from a goroutine of
\* its own.
HandDone(w, rest) ==
  /\ IF Registered(w)
       THEN /\ Forget(w)
            /\ ready' = IF hand[w].pong THEN [ready EXCEPT ![hand[w].ep] = @ + 1] ELSE ready
            /\ owed' = IF hand[w].pong THEN owed - 1 ELSE owed
       ELSE UNCHANGED <<handByEp, handByVNI, awaiting, apvTo, ready, owed>>
  /\ todo' = rest
  /\ UNCHANGED <<allocByEp, allocByKeys>>
  /\ Turn

\* The loop reads a work's doneCh.  Work whose goroutine is gone and that is in no map
\* has no reference left, and its identity may be used again.
AllocRead(w) ==
  /\ alloc[w].full
  /\ alloc' = [alloc EXCEPT ![w] = IF @.pc = "end" THEN NoAlloc ELSE [@ EXCEPT !.full = FALSE]]
HandRead(w) ==
  /\ hand[w].full
  /\ hand' = [hand EXCEPT ![w] = IF @.pc = "end" THEN NoHand ELSE [@ EXCEPT !.full = FALSE]]

\* Variant: handshakes first.
StopPassesSwapped == <<"hand", "alloc">>

\* stopWorkRunLoop makes one pass over the allocations of an endpoint, then one over
\* its handshakes.
StopPasses == <<"alloc", "hand">>

\* A pass goes over the work that it finds when it begins.
StopPass(ep, pass) ==
  [k |-> "stop", ep |-> ep, pass |-> pass,
   left |-> IF pass = "alloc" THEN AllocsOf(ep) ELSE HandsOf(ep)]

TakeStop(p) == TakeTask(p, "stop", StopPass(p, StopPasses[1]))

\* Cancel the next one and wait for it; after the last, go on to the next pass.
StopWork ==
  /\ todo # <<>>
  /\ Head(todo).k = "stop"
  /\ LET t == Head(todo)
         Without(w) == <<[t EXCEPT !.left = @ \ {w}]>> \o Tail(todo)
     IN \/ \E w \in t.left :
             /\ t.pass = "alloc"
             /\ alloc' = [alloc EXCEPT ![w].cancelled = TRUE]
             /\ todo' = <<AwaitAlloc(w)>> \o Without(w)
             /\ UNCHANGED hand
        \/ \E w \in t.left :
             /\ t.pass = "hand"
             /\ hand' = [hand EXCEPT ![w].cancelled = TRUE]
             /\ todo' = <<AwaitHand(w)>> \o Without(w)
             /\ UNCHANGED alloc
        \/ /\ t.left = {}
           /\ todo' = IF t.pass = StopPasses[1]
                      THEN <<StopPass(t.ep, StopPasses[2])>> \o Tail(todo) ELSE Tail(todo)
           /\ UNCHANGED <<alloc, hand>>
  /\ UNCHANGED <<servers, hasServers, allocByEp, allocByKeys, handByEp, handByVNI,
                 awaiting, apvTo, discoInfo, ready, owed, calls, ncalls>>
  /\ Turn

\* <-work.doneCh
AwaitDone ==
  /\ todo # <<>>
  /\ LET w == Head(todo).w
     IN \/ /\ Head(todo).k = "awaitAlloc"
           /\ AllocRead(w)
           /\ AllocDone(w, Tail(todo))
           /\ UNCHANGED hand
        \/ /\ Head(todo).k = "awaitHand"
           /\ HandRead(w)
           /\ HandDone(w, Tail(todo))
           /\ UNCHANGED alloc
  /\ UNCHANGED <<servers, hasServers, discoInfo, calls, ncalls>>

\* handleNewServerEndpointRunLoop.  Work for the same server and VNI, or the same
\* endpoint and server, is kept if it is as new by LamportID, else cancelled and
\* waited for; the checks are made again after that.  No handshake is started if the
\* server is that of the endpoint's trusted lastBest.
NewServerEndpoint ==
  /\ todo # <<>>
  /\ Head(todo).k = "new"
  /\ LET e == Head(todo)
         same == HandForVNI(e.se.srv, e.se.vni)
         old  == IF same # {} THEN same ELSE HandForEp(e.ep, e.se.srv)
     IN \/ /\ \E w \in old : hand[w].se.lam >= e.se.lam
           /\ todo' = Tail(todo)
           /\ UNCHANGED <<hand, handByEp, handByVNI>>
        \/ \E w \in old :
             /\ hand[w].se.lam < e.se.lam
             /\ hand' = [hand EXCEPT ![w].cancelled = TRUE]
             /\ todo' = <<AwaitHand(w)>> \o todo
             /\ UNCHANGED <<handByEp, handByVNI>>
        \/ /\ old = {}
           /\ todo' = Tail(todo)
           /\ UNCHANGED <<hand, handByEp, handByVNI>>
        \/ /\ old = {}
           /\ \E w \in HandIds :
                /\ hand[w].pc = "none"
                /\ hand' = [hand EXCEPT ![w] = [NoHand EXCEPT !.pc = "begin", !.ep = e.ep,
                                                              !.se = e.se]]
                /\ handByEp' = (handByEp \ HandForEp(e.ep, e.se.srv)) \cup {w}
                /\ handByVNI' = (handByVNI \ same) \cup {w}
           /\ todo' = Tail(todo)
  /\ UNCHANGED <<servers, hasServers, allocVars, awaiting, apvTo, discoInfo, ready, owed,
                 calls, ncalls>>
  /\ Turn

-----------------------------------------------------------------------------
(* handleRxDiscoMsgRunLoop: route a message to the work it belongs to.       *)

\* The first challenge ties an address and VNI to the work, unless they are taken.
RxChallenge ==
  /\ Take(Conn, "chal")
  /\ LET e == calls[Conn]
         work == {w \in HandForVNI(e.srv, e.apv[2]) :
                    w \notin DOMAIN awaiting /\ e.apv \notin DOMAIN apvTo}
     IN \/ /\ work = {}
           /\ todo' = <<>>
           /\ UNCHANGED <<awaiting, apvTo>>
        \/ \E w \in work :
             /\ awaiting' = [v \in DOMAIN awaiting \cup {w} |->
                               IF v = w THEN e.apv ELSE awaiting[v]]
             /\ apvTo' = [a \in DOMAIN apvTo \cup {e.apv} |->
                            IF a = e.apv THEN w ELSE apvTo[a]]
             /\ todo' = <<[k |-> "give", w |-> w, msg |-> e]>>
  /\ UNCHANGED <<servers, hasServers, allocVars, hand, handByEp, handByVNI, discoInfo, ready,
                 owed>>
  /\ Turn

\* Responses, pings and pongs; those that belong to no work are dropped.
Rx ==
  /\ \E k \in {"resp", "ping", "pong"} : Take(Conn, k)
  /\ LET e == calls[Conn]
         work == IF e.k = "resp" THEN AllocFor(e.node, e.disco) ELSE HandForAPV(e.apv)
     IN \/ work = {} /\ todo' = <<>>
        \/ \E w \in work : todo' = <<[k |-> "give", w |-> w, msg |-> e]>>
  /\ UNCHANGED <<servers, hasServers, allocVars, handVars, discoInfo, ready, owed>>
  /\ Turn

\* Variant: work that was cancelled does not report.
ReturnedQuietly(rec) == [rec EXCEPT !.pc = "send", !.full = ~rec.cancelled]

\* The deferred end of work's goroutine: work.doneCh <- done, which has room for it.
Returned(rec) == [rec EXCEPT !.pc = "send", !.full = TRUE]

\* allocateServerEndpoint reads rxDiscoMsgCh: a response to its own request ends it, one
\* of another generation does not.
GiveAlloc(w) ==
  /\ alloc[w].pc = "wait"
  /\ \/ UNCHANGED alloc
     \/ \E se \in ServerEndpoint :
          /\ se.srv = alloc[w].node
          /\ alloc' = [alloc EXCEPT ![w] = Returned([@ EXCEPT !.got = se])]

\* handshakeServerEndpoint reads rxDiscoMsgCh: a challenge for this VNI and peer is
\* answered, the pong to a ping that followed the answer ends it.
GiveHand(w, m) ==
  /\ hand[w].pc = "wait"
  /\ \/ UNCHANGED <<hand, owed>>
     \/ /\ m.k = "chal"
        /\ hand' = [hand EXCEPT ![w].answered = TRUE]
        /\ UNCHANGED owed
     \/ /\ m.k = "pong" /\ hand[w].answered
        /\ hand' = [hand EXCEPT ![w].pong = TRUE, ![w].pc = "return"]
        /\ owed' = owed + 1

\* The select that gives a message to work or notices that the work is done.
GiveToAlloc ==
  /\ todo # <<>>
  /\ Head(todo).k = "give" /\ Head(todo).w \in AllocIds
  /\ LET w == Head(todo).w
     IN \/ /\ GiveAlloc(w)
           /\ todo' = Tail(todo)
           /\ UNCHANGED <<allocByEp, allocByKeys, handByEp, handByVNI, awaiting, apvTo, ready,
                          owed>>
           /\ Turn
        \/ /\ AllocRead(w)
           /\ AllocDone(w, Tail(todo))
  /\ UNCHANGED <<servers, hasServers, hand, discoInfo, calls, ncalls>>

\* Variant: no select, just the send to rxDiscoMsgCh.
GiveToHandBlocking ==
  /\ todo # <<>>
  /\ Head(todo).k = "give" /\ Head(todo).w \in HandIds
  /\ GiveHand(Head(todo).w, Head(todo).msg)
  /\ todo' = Tail(todo)
  /\ UNCHANGED <<servers, hasServers, allocVars, handByEp, handByVNI, awaiting, apvTo,
                 discoInfo, calls, ready, ncalls>>
  /\ Turn

GiveToHand ==
  /\ todo # <<>>
  /\ Head(todo).k = "give" /\ Head(todo).w \in HandIds
  /\ LET w == Head(todo).w
     IN \/ /\ GiveHand(w, Head(todo).msg)
           /\ todo' = Tail(todo)
           /\ UNCHANGED <<allocByEp, allocByKeys, handByEp, handByVNI, awaiting, apvTo, ready>>
           /\ Turn
        \/ /\ HandRead(w)
           /\ HandDone(w, Tail(todo))
  /\ UNCHANGED <<servers, hasServers, alloc, discoInfo, calls, ncalls>>

-----------------------------------------------------------------------------
(* The goroutines that do the work.                                          *)

\* allocateServerEndpoint: no answer in time (it asks twice), or cancelled.
AllocGivesUp(w) ==
  /\ alloc[w].pc = "wait"
  /\ alloc' = [alloc EXCEPT ![w] = Returned(@)]
  /\ UNCHANGED <<servers, hasServers, allocByEp, allocByKeys, handVars, discoInfo, startVars,
                 loop, todo, calls, ready, owed, ncalls>>

\* relayManagerInputEvent with the work's context: the loop takes the event, which it
\* may have read from doneCh already, or the work was cancelled.
AllocSends(w) ==
  /\ alloc[w].pc = "send"
  /\ \/ /\ alloc[w].cancelled
        /\ alloc' = [alloc EXCEPT ![w] = IF w \in allocByEp THEN [@ EXCEPT !.pc = "end"]
                                                            ELSE NoAlloc]
        /\ UNCHANGED <<startVars, loop, todo, allocByEp, allocByKeys, handByEp, handByVNI, awaiting,
                       apvTo, ready, owed>>
     \/ /\ loop = "select"
        /\ alloc' = [alloc EXCEPT ![w] = NoAlloc]
        /\ AllocDone(w, <<>>)
  /\ UNCHANGED <<servers, hasServers, hand, discoInfo, calls, ncalls>>

\* handshakeServerEndpoint: ensureDiscoInfoFor, and bind messages unless there is no
\* disco key for the peer or no address for the server.
HandBegins(w) ==
  /\ hand[w].pc = "begin"
  /\ discoInfo' = [discoInfo EXCEPT ![hand[w].se.srv] = @ \cup {w}]
  /\ \E pc \in {"wait", "return"} : hand' = [hand EXCEPT ![w].pc = pc]
  /\ UNCHANGED <<servers, hasServers, allocVars, handByEp, handByVNI, awaiting, apvTo,
                 startVars, loop, todo, calls, ready, owed, ncalls>>

\* No pong in time, or cancelled.
HandGivesUp(w) ==
  /\ hand[w].pc = "wait"
  /\ hand' = [hand EXCEPT ![w].pc = "return"]
  /\ UNCHANGED <<servers, hasServers, allocVars, handByEp, handByVNI, awaiting, apvTo,
                 discoInfo, startVars, loop, todo, calls, ready, owed, ncalls>>

\* Variant: the reference to the server's disco key is not given back.
HandReturnsWithInfo(w) ==
  /\ hand[w].pc = "return"
  /\ hand' = [hand EXCEPT ![w] = Returned(@)]
  /\ UNCHANGED <<servers, hasServers, allocVars, handByEp, handByVNI, awaiting, apvTo,
                 startVars, loop, todo, calls, discoInfo, ready, owed, ncalls>>

\* Its deferred derefDiscoInfoFor and work.doneCh <- done.
HandReturns(w) ==
  /\ hand[w].pc = "return"
  /\ discoInfo' = [discoInfo EXCEPT ![hand[w].se.srv] = @ \ {w}]
  /\ hand' = [hand EXCEPT ![w] = Returned(@)]
  /\ UNCHANGED <<servers, hasServers, allocVars, handByEp, handByVNI, awaiting, apvTo,
                 startVars, loop, todo, calls, ready, owed, ncalls>>

HandSends(w) ==
  /\ hand[w].pc = "send"
  /\ \/ /\ hand[w].cancelled
        /\ hand' = [hand EXCEPT ![w] = IF w \in handByEp THEN [@ EXCEPT !.pc = "end"] ELSE NoHand]
        /\ UNCHANGED <<startVars, loop, todo, allocByEp, allocByKeys, handByEp, handByVNI, awaiting,
                       apvTo, ready, owed>>
     \/ /\ loop = "select"
        /\ hand' = [hand EXCEPT ![w] = NoHand]
        /\ HandDone(w, <<>>)
  /\ UNCHANGED <<servers, hasServers, alloc, discoInfo, calls, ncalls>>

\* udpRelayEndpointReady, once endpoint.mu is free.
EndpointReady(p) ==
  /\ ready[p] > 0
  /\ calls[p] = None
  /\ ready' = [ready EXCEPT ![p] = @ - 1]
  /\ UNCHANGED <<servers, hasServers, allocVars, handVars, discoInfo, startVars, loop, todo,
                 calls, owed, ncalls>>

-----------------------------------------------------------------------------
Init ==
  /\ servers = [s \in Servers |-> None]
  /\ hasServers = FALSE
  /\ alloc = [w \in AllocIds |-> NoAlloc]
  /\ hand = [w \in HandIds |-> NoHand]
  /\ allocByEp = {} /\ allocByKeys = {} /\ handByEp = {} /\ handByVNI = {}
  /\ awaiting = <<>> /\ apvTo = <<>>
  /\ discoInfo = [s \in Servers |-> {}]
  /\ stopped = 1 /\ started = 0 /\ loop = "off" /\ todo = <<>>
  /\ calls = [c \in Callers |-> None]
  /\ ready = [p \in Peers |-> 0]
  /\ owed = 0
  /\ ncalls = [k \in Kinds |-> 0]

RunLoop ==
  \/ \E p \in Peers : StartDiscovery(p) \/ TakeStop(p)
  \/ TakeTask(Conn, "new", calls[Conn]) \/ RxChallenge \/ Rx
  \/ ServersUpdate
  \/ StopWork \/ AwaitDone \/ NewServerEndpoint \/ GiveToAlloc \/ GiveToHand

Next ==
  \/ \E e \in Event : Call(e)
  \/ StartLoop \/ LoopEnters \/ LoopReturns
  \/ RunLoop
  \/ \E w \in AllocIds : AllocGivesUp(w) \/ AllocSends(w)
  \/ \E w \in HandIds : HandBegins(w) \/ HandGivesUp(w) \/ HandReturns(w) \/ HandSends(w)
  \/ \E p \in Peers : EndpointReady(p)

\* Goroutines run; timers and contexts end the waits of the work.
Fairness ==
  /\ WF_vars(StartLoop) /\ WF_vars(LoopEnters) /\ WF_vars(LoopReturns)
  /\ WF_vars(RunLoop)
  /\ \A w \in AllocIds : WF_vars(AllocGivesUp(w)) /\ WF_vars(AllocSends(w))
  /\ \A w \in HandIds : WF_vars(HandBegins(w)) /\ WF_vars(HandGivesUp(w))
                          /\ WF_vars(HandReturns(w)) /\ WF_vars(HandSends(w))
  /\ \A p \in Peers : WF_vars(EndpointReady(p))

Spec == Init /\ [][Next]_vars
FairSpec == Spec /\ Fairness

-----------------------------------------------------------------------------
Task ==      [k : {"stop"}, ep : Peers, pass : {"alloc"}, left : SUBSET AllocIds]
        \cup [k : {"stop"}, ep : Peers, pass : {"hand"}, left : SUBSET HandIds]
        \cup [k : {"new"}, ep : Peers, se : ServerEndpoint]
        \cup [k : {"awaitAlloc"}, w : AllocIds] \cup [k : {"awaitHand"}, w : HandIds]
        \cup [k : {"give"}, w : AllocIds \cup HandIds, msg : Event]

\* Types; a task that waits for work, or has a message for it, is about work under way.
TypeOK ==
  /\ servers \in [Servers -> Regions \cup {None}] /\ hasServers \in BOOLEAN
  /\ alloc \in [AllocIds ->
       [pc : {"none", "wait", "send", "end"}, ep : Peers \cup {None},
        node : Servers \cup {None}, cancelled : BOOLEAN, full : BOOLEAN,
        got : ServerEndpoint \cup {None}]]
  /\ hand \in [HandIds ->
       [pc : {"none", "begin", "wait", "return", "send", "end"}, ep : Peers \cup {None},
        se : ServerEndpoint \cup {None}, cancelled : BOOLEAN, full : BOOLEAN,
        answered : BOOLEAN, pong : BOOLEAN]]
  /\ allocByEp \subseteq AllocIds /\ allocByKeys \subseteq AllocIds
  /\ handByEp \subseteq HandIds /\ handByVNI \subseteq HandIds
  /\ DOMAIN awaiting \subseteq HandIds /\ \A w \in DOMAIN awaiting : awaiting[w] \in APV
  /\ DOMAIN apvTo \subseteq APV /\ \A a \in DOMAIN apvTo : apvTo[a] \in HandIds
  /\ discoInfo \in [Servers -> SUBSET HandIds]
  /\ stopped \in 0..1 /\ started \in Nat
  /\ loop \in {"off", "select", "busy", "returning"} /\ (loop = "busy" <=> todo # <<>>)
  /\ \A i \in DOMAIN todo :
       /\ todo[i] \in Task
       /\ todo[i].k = "awaitAlloc" => alloc[todo[i].w].pc # "none"
       /\ todo[i].k = "awaitHand" => hand[todo[i].w].pc # "none"
  /\ \A c \in Callers : calls[c] # None => calls[c] \in Event /\ CallerOf(calls[c]) = c
  /\ ready \in [Peers -> Nat] /\ owed \in Int
  /\ \A k \in Kinds : ncalls[k] \in 0..Budget[k]

\* The maps of work agree with each other, key by key: no work is in one of them
\* only, no two are under one key, and the address that messages are routed by leads
\* to the work that was challenged from it.
MapsAgree ==
  /\ allocByEp = allocByKeys
  /\ \A v, w \in allocByKeys :
       alloc[v].node = alloc[w].node /\ DiscoOf[alloc[v].ep] = DiscoOf[alloc[w].ep] => v = w
  /\ handByEp = handByVNI
  /\ \A v, w \in handByEp : hand[v].se.srv = hand[w].se.srv =>
       (v = w <=> hand[v].ep = hand[w].ep) /\ (v = w <=> hand[v].se.vni = hand[w].se.vni)
  /\ DOMAIN awaiting \subseteq handByEp
  /\ DOMAIN apvTo = {awaiting[w] : w \in DOMAIN awaiting}
  /\ \A w \in DOMAIN awaiting : apvTo[awaiting[w]] = w

\* Whatever the loop may come to wait for is still to come: work in the maps runs, or
\* its doneCh has not been read.
RegisteredWillReport ==
  /\ \A w \in allocByEp : alloc[w].pc = "wait" \/ alloc[w].full
  /\ \A w \in handByEp : hand[w].pc \in {"begin", "wait", "return"} \/ hand[w].full

\* A server's disco key is known exactly while a handshake with it goes on.
DiscoInfoHeld ==
  \A s \in Servers :
    discoInfo[s] = {w \in HandIds : hand[w].pc \in {"wait", "return"} /\ hand[w].se.srv = s}

\* The end of a handshake reaches the loop twice, from doneCh and from
\* handshakeWorkDoneCh, or once with its cancellation; a success is told to the
\* endpoint exactly once all the same.
SuccessToldOnce == owed = Cardinality({w \in handByEp : hand[w].pong})

\* There is one loop, or one that is about to be, or one token to start it with: no two
\* goroutines are ever in the maps that only runLoop's being alone protects, and no loop
\* returns without leaving the token that the next event needs.
OneLoop == stopped + started + (IF loop = "off" THEN 0 ELSE 1) = 1

Stopping(p) == \E i \in DOMAIN todo : todo[i].k = "stop" /\ todo[i].ep = p

\* When stopWork returns, the endpoint has no work, although each map was gone over only
\* once: not even a handshake that one of its allocations started on its last breath.
StopIsThorough ==
  [][\A p \in Peers : Stopping(p) /\ ~Stopping(p)' => ~HasActiveWork(p)']_vars

\* Every method returns, although callers hold endpoint.mu or Conn.mu meanwhile; every
\* goroutine ends; every success gets to its endpoint.  (Calls are bounded.)
Settles ==
  <>[]( /\ \A c \in Callers : calls[c] = None
        /\ \A w \in AllocIds : alloc[w].pc = "none"
        /\ \A w \in HandIds : hand[w].pc = "none"
        /\ \A p \in Peers : ready[p] = 0)
===============================================================================
