------------------------------- MODULE PeerMap -------------------------------
(****************************************************************************)
(* peerMap, the index of a Conn's peers by node key, node ID, disco key and   *)
(* address, and the operations of Conn that change it.  All of them hold      *)
(* Conn.mu, so one is one step, except the network map, which is a loop over  *)
(* peers whose every iteration is a step with the lock held.                  *)
(*                                                                          *)
(* An endpoint is identified by its node key: it is created only when the     *)
(* index has none for that key.  What an endpoint does is EndpointAddr.       *)
(****************************************************************************)
EXTENDS Integers, FiniteSets

CONSTANTS
  Keys,       \* node keys
  IDs,        \* node IDs
  Discos,     \* disco keys
  Direct,     \* addresses without VNI
  Relay,      \* addresses with VNI
  WgOnly,     \* the IDs of WireGuard-only peers
  WgAddrs,    \* endpoints of those, from the network map
  None        \* no key, ID, disco key, address or node

Addrs == Direct \cup Relay
Opt(S) == S \cup {None}

\* A node of the network map; an ancient one has no disco key.
Node == [key : Keys, disco : Opt(Discos)]

\* The nodes that the network map may have under an ID; a WireGuard-only one
\* does not run Tailscale and has no disco key.
NodesOf(i) == {n \in Node : i \in WgOnly => n.disco = None}

\* What is known of each ID: a network map.
NetMap == {nm \in [IDs -> Opt(Node)] : \A i \in IDs : nm[i] \in Opt(NodesOf(i))}

ASSUME PeerMapAssumption ==
  /\ None \notin Keys \cup IDs \cup Discos \cup Addrs
  /\ None \notin NetMap
  /\ Direct \cap Relay = {}
  /\ WgOnly \subseteq IDs /\ WgAddrs \subseteq Direct

VARIABLES
  m,          \* the peerMap
  peersByID,  \* Conn.peersByID
  discoInfo,  \* the disco keys of Conn.discoInfo
  netmap,     \* the network map being applied, or None
  todo        \* the IDs of the peers of it still to be upserted

vars == <<m, peersByID, discoInfo, netmap, todo>>

Index ==
  [known    : SUBSET Keys,                  \* the domain of byNodeKey
   id       : [Keys -> Opt(IDs)],           \* endpoint.nodeID
   disco    : [Keys -> Opt(Discos)],        \* endpoint.disco
   byID     : [IDs -> Opt(Keys)],           \* byNodeID
   byAddr   : [Addrs -> Opt(Keys)],         \* byEpAddr
   addrs    : [Keys -> SUBSET Addrs],       \* peerInfo.epAddrs
   relay    : [Keys -> Opt(Relay)],         \* relayEpAddrByNodeKey
   discos   : SUBSET Discos,                \* the domain of nodesOfDisco
   nodes    : [Discos -> SUBSET Keys]]      \* nodesOfDisco

NoIndex ==
  [known  |-> {}, id |-> [k \in Keys |-> None], disco |-> [k \in Keys |-> None],
   byID   |-> [i \in IDs |-> None], byAddr |-> [a \in Addrs |-> None],
   addrs  |-> [k \in Keys |-> {}], relay |-> [k \in Keys |-> None],
   discos |-> {}, nodes |-> [d \in Discos |-> {}]]

(***************************************************************************)
(* The methods of peerMap.                                                   *)
(***************************************************************************)
knownPeerDiscoKey(p, d) == d \in p.discos

\* Variant: the address is not taken from the peer that had it.
setNodeKeyForEpAddrKeepsOld(p, a, k) ==
  IF k \notin p.known THEN p
  ELSE [p EXCEPT !.byAddr = [x \in Addrs |-> IF x = a THEN k
                                            ELSE IF a \in Relay /\ x = p.relay[k] THEN None
                                            ELSE @[x]],
                 !.addrs[k] = (IF a \in Relay THEN @ \ {p.relay[k]} ELSE @) \cup {a},
                 !.relay[k] = IF a \in Relay THEN a ELSE @]

\* Variant: an earlier relay address of the peer stays.
setNodeKeyForEpAddrManyRelays(p, a, k) ==
  [p EXCEPT !.byAddr[a] = k,
            !.addrs = [j \in Keys |-> IF j = k THEN @[j] \cup {a} ELSE @[j] \ {a}],
            !.relay[k] = IF a \in Relay THEN a ELSE @]

setNodeKeyForEpAddr(p, a, k) ==
  LET had  == p.byAddr[a]
      \* what the first half leaves: a belongs to nobody
      free == [p EXCEPT !.byAddr[a] = None,
                        !.addrs = [j \in Keys |-> IF j = had THEN @[j] \ {a} ELSE @[j]],
                        !.relay = [j \in Keys |-> IF j = had /\ a \in Relay THEN None ELSE @[j]]]
      old  == IF a \in Relay THEN free.relay[k] ELSE None
  IN  IF k \notin p.known THEN free
      ELSE [free EXCEPT !.byAddr = [x \in Addrs |-> IF x = a THEN k
                                                    ELSE IF x = old THEN None ELSE @[x]],
                        !.addrs[k] = (@ \ {old}) \cup {a},
                        !.relay[k] = IF a \in Relay THEN a ELSE @]

\* setNodeKeyForEpAddr for each of a set of addresses without VNI.
setNodeKeyForEpAddrs(p, A, k) ==
  [p EXCEPT !.byAddr = [x \in Addrs |-> IF x \in A THEN k ELSE @[x]],
            !.addrs  = [j \in Keys |-> IF j = k THEN @[j] \cup A ELSE @[j] \ A]]

\* Variant: the old disco key still leads to the peer.
upsertEndpointKeepsOld(p, k, old) ==
  [p EXCEPT !.known = @ \cup {k}, !.byID[p.id[k]] = k,
            !.discos = @ \cup ({p.disco[k]} \ {None}),
            !.nodes = [d \in Discos |-> IF d = p.disco[k] THEN @[d] \cup {k} ELSE @[d]]]

\* The endpoint of k, with its disco key as it is now, enters the index.
upsertEndpoint(p, k, old) ==
  LET d == p.disco[k]
      q == [p EXCEPT !.known = @ \cup {k}, !.byID[p.id[k]] = k,
                     !.nodes = [e \in Discos |-> IF e = old /\ old # d THEN @[e] \ {k} ELSE @[e]]]
  IN  IF p.id[k] \in WgOnly THEN setNodeKeyForEpAddrs(q, WgAddrs, k)
      ELSE [q EXCEPT !.discos = @ \cup {d},
                     !.nodes  = [e \in Discos |-> IF e = d THEN @[e] \cup {k} ELSE @[e]]]

\* Variant: the node ID goes on leading to the endpoint.
deleteEndpointsKeepsID(p, D) ==
  [p EXCEPT !.known  = @ \ D,
            !.byAddr = [a \in Addrs |-> IF @[a] \in D THEN None ELSE @[a]],
            !.addrs  = [k \in Keys |-> IF k \in D THEN {} ELSE @[k]],
            !.relay  = [k \in Keys |-> IF k \in D THEN None ELSE @[k]],
            !.nodes  = [d \in Discos |-> @[d] \ D]]

\* deleteEndpoint for each endpoint of a set; their fields go with them.
deleteEndpoints(p, D) ==
  [p EXCEPT !.known  = @ \ D,
            !.id     = [k \in Keys |-> IF k \in D THEN None ELSE @[k]],
            !.disco  = [k \in Keys |-> IF k \in D THEN None ELSE @[k]],
            !.byID   = [i \in IDs |-> IF @[i] \in D /\ p.id[@[i]] = i THEN None ELSE @[i]],
            !.byAddr = [a \in Addrs |-> IF \E k \in D : a \in p.addrs[k] THEN None ELSE @[a]],
            !.addrs  = [k \in Keys |-> IF k \in D THEN {} ELSE @[k]],
            !.relay  = [k \in Keys |-> IF k \in D THEN None ELSE @[k]],
            !.nodes  = [d \in Discos |-> {k \in @[d] : ~(k \in D /\ p.disco[k] = d)}]]

(***************************************************************************)
(* upsertPeerLocked, for the node n with ID i.                               *)
(***************************************************************************)
Ancient(i, n) == n.disco = None /\ i \notin WgOnly

\* The fields of the endpoint of n.key, from the network map.
fromNode(p, i, n) == [p EXCEPT !.id[n.key] = i, !.disco[n.key] = n.disco]

\* Variant: a node without disco key is taken like any other.
upsertPeerTakesAncient(p, i, n) ==
  IF p.byID[i] \notin {None, n.key} \/ (p.byID[i] = None /\ n.key \in p.known) THEN p
  ELSE upsertEndpoint(fromNode(p, i, n), n.key, p.disco[n.key])

upsertPeer(p, i, n) ==
  LET rotated == p.byID[i] # None /\ p.byID[i] # n.key
      q == IF rotated THEN deleteEndpoints(p, {p.byID[i]}) ELSE p
  IN  IF q.byID[i] = n.key
      THEN IF Ancient(i, n) THEN deleteEndpoints(q, {n.key})
           ELSE upsertEndpoint(fromNode(q, i, n), n.key, q.disco[n.key])
      \* a key that another node ID has is refused, as is an ancient node
      ELSE IF n.key \in q.known \/ Ancient(i, n) THEN q
      ELSE upsertEndpoint(fromNode(q, i, n), n.key, None)

(***************************************************************************)
(* Conn's operations.                                                        *)
(***************************************************************************)
Unlocked == netmap = None

SetNetworkMap(nm) ==
  /\ Unlocked
  /\ nm # peersByID    \* the fast path: nothing changed
  /\ netmap' = nm
  /\ todo' = {i \in IDs : nm[i] # None}
  /\ UNCHANGED <<m, peersByID, discoInfo>>

UpdateNodesPeer(i) ==
  /\ i \in todo
  /\ m' = upsertPeer(m, i, netmap[i])
  /\ todo' = todo \ {i}
  /\ UNCHANGED <<peersByID, discoInfo, netmap>>

\* The endpoints to delete once every peer has been upserted: none when their
\* number is that of the network map.
Stale ==
  LET peers == {i \in IDs : netmap[i] # None}
  IN  IF Cardinality(m.known) = Cardinality(peers) THEN {}
      ELSE m.known \ {netmap[i].key : i \in peers}

UpdateNodesDone ==
  /\ ~Unlocked /\ todo = {}
  /\ m' = deleteEndpoints(m, Stale)
  /\ peersByID' = netmap
  /\ discoInfo' = {d \in discoInfo : knownPeerDiscoKey(m', d)}
  /\ netmap' = None
  /\ UNCHANGED todo

UpsertPeer(i, n) ==
  /\ Unlocked
  /\ m' = upsertPeer(m, i, n)
  /\ peersByID' = [peersByID EXCEPT ![i] = n]
  /\ UNCHANGED <<discoInfo, netmap, todo>>

RemovePeer(i) ==
  /\ Unlocked /\ peersByID[i] # None
  /\ peersByID' = [peersByID EXCEPT ![i] = None]
  /\ m' = IF m.byID[i] = None THEN m ELSE deleteEndpoints(m, {m.byID[i]})
  /\ discoInfo' = {d \in discoInfo : d = peersByID[i].disco => knownPeerDiscoKey(m', d)}
  /\ UNCHANGED <<netmap, todo>>

HandleDiscoKeyAdvertisement(k, d) ==
  /\ Unlocked /\ k \in m.known /\ m.disco[k] # d
  /\ discoInfo' = discoInfo \cup {d}
  /\ m' = upsertEndpoint([m EXCEPT !.disco[k] = d], k, m.disco[k])
  /\ UNCHANGED <<peersByID, netmap, todo>>

\* unambiguousNodeKeyOfPingLocked, for a ping with disco key d that claims to
\* come from the node key claim.
NodeKeysOfPing(d, claim) ==
  IF claim \in m.known /\ m.disco[claim] = d THEN {claim}
  ELSE {k \in m.nodes[d] : m.nodes[d] = {k}}

\* A ping with a known disco key, from a direct address.
HandlePing(d, claim, a) ==
  /\ Unlocked /\ knownPeerDiscoKey(m, d)
  /\ discoInfo' = discoInfo \cup {d}
  /\ LET ks == NodeKeysOfPing(d, claim)
     IN  m' = IF ks = {} THEN m ELSE setNodeKeyForEpAddr(m, a, CHOOSE k \in ks : TRUE)
  /\ UNCHANGED <<peersByID, netmap, todo>>

\* A pong from a direct address, for a ping that the endpoint of k sent.
HandlePong(d, k, a) ==
  /\ Unlocked /\ knownPeerDiscoKey(m, d) /\ k \in m.nodes[d] \cap m.known
  /\ discoInfo' = discoInfo \cup {d}
  /\ m' = setNodeKeyForEpAddr(m, a, k)
  /\ UNCHANGED <<peersByID, netmap, todo>>

\* WireGuard decrypted a packet of k that came from a: lazyEndpoint.FromPeer
\* and sourcePathPeerAwareEndpoint.FromPeer.
FromPeer(k, a) ==
  /\ Unlocked /\ k \in m.known
  /\ m' = setNodeKeyForEpAddr(m, a, k)
  /\ UNCHANGED <<peersByID, discoInfo, netmap, todo>>

Init ==
  /\ m = NoIndex
  /\ peersByID = [i \in IDs |-> None]
  /\ discoInfo = {}
  /\ netmap = None
  /\ todo = {}

Next ==
  \/ \E nm \in NetMap : SetNetworkMap(nm)
  \/ \E i \in IDs : UpdateNodesPeer(i)
  \/ UpdateNodesDone
  \/ \E i \in IDs : \E n \in NodesOf(i) : UpsertPeer(i, n)
  \/ \E i \in IDs : RemovePeer(i)
  \/ \E k \in Keys, d \in Discos : HandleDiscoKeyAdvertisement(k, d)
  \/ \E d \in Discos, claim \in Opt(Keys), a \in Direct : HandlePing(d, claim, a)
  \/ \E d \in Discos, k \in Keys, a \in Direct : HandlePong(d, k, a)
  \/ \E k \in Keys, a \in Addrs : FromPeer(k, a)

Spec == Init /\ [][Next]_vars

----------------------------------------------------------------------------
(* Properties.                                                              *)

\* Every field of the index has its type.
TypeOK ==
  /\ m \in Index
  /\ peersByID \in NetMap
  /\ discoInfo \subseteq Discos
  /\ netmap \in Opt(NetMap)
  /\ todo \subseteq IDs /\ (todo # {} => netmap # None)
  /\ \A i \in todo : netmap[i] # None

\* "epAddrs is an inverted version of peerMap.byEpAddr": an address leads to a
\* peer exactly when the peer lists it, and only to a peer that still exists, so
\* no packet is handed to a deleted endpoint.
AddrsInverse(p) ==
  \A a \in Addrs, k \in Keys : p.byAddr[a] = k <=> (k \in p.known /\ a \in p.addrs[k])

\* relayEpAddrByNodeKey "ensures we only hold a single relay epAddr for a given
\* node key": the relay addresses a peer lists are the one recorded for it.
OneRelay(p) ==
  \A k \in Keys : p.addrs[k] \cap Relay = {p.relay[k]} \ {None}

\* nodeCount's assertion, and more: byNodeKey and byNodeID hold the same
\* endpoints, each under its own ID.
IDsInStep(p) ==
  /\ \A i \in IDs, k \in Keys : p.byID[i] = k <=> (k \in p.known /\ p.id[k] = i)
  /\ \A k \in p.known : p.id[k] \in IDs

\* forEachEndpointWithDiscoKey's "Data structures would have to be out of
\* sync": the nodes of a disco key are the known peers that use it now.
DiscosInStep(p) ==
  \A d \in Discos, k \in Keys :
    /\ k \in p.nodes[d] => k \in p.known /\ p.disco[k] = d
    /\ k \in p.known /\ p.disco[k] = d /\ p.id[k] \notin WgOnly => k \in p.nodes[d]

AddrsAgree  == AddrsInverse(m)
RelaysAgree == OneRelay(m)
IDsAgree    == IDsInStep(m)
DiscosAgree == DiscosInStep(m)

\* updateNodes: "If the upsert pass left stale endpoints in peerMap (peers
\* removed relative to before), clean them up": between operations every
\* endpoint is that of a peer of the network map.
NoStaleEndpoint ==
  Unlocked => \A k \in m.known : \E i \in IDs : peersByID[i] # None /\ peersByID[i].key = k

\* knownPeerDiscoKey "reports whether there exists any peer with the disco key".
KnownHasPeer == \A d \in Discos : knownPeerDiscoKey(m, d) => \E k \in m.known : m.disco[k] = d
=============================================================================
