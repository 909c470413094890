---------------------------- MODULE PeerMap_proofs ----------------------------
(****************************************************************************)
(* The indexes of peerMap agree, for any number of peers, keys and addresses. *)
(* Each method of peerMap is shown to keep Good, the conjunction of what the   *)
(* indexes promise; the actions of Conn then keep it because they change the   *)
(* index by these methods only.                                               *)
(****************************************************************************)
EXTENDS PeerMap, TLAPS

\* A key that the index does not know owns no address.  The code has it by
\* construction, as the addresses live in the peerInfo that goes with the key.
Blank(p) == \A k \in Keys \ p.known : p.addrs[k] = {}

Good(p) ==
  /\ p \in Index
  /\ AddrsInverse(p)
  /\ OneRelay(p)
  /\ IDsInStep(p)
  /\ DiscosInStep(p)
  /\ Blank(p)

\* An address is None, direct or a relay's, and only one of them.
LEMMA AddrKinds ==
  /\ None \notin Keys /\ None \notin IDs /\ None \notin Discos /\ None \notin Addrs
  /\ Direct \subseteq Addrs /\ Relay \subseteq Addrs /\ Direct \cap Relay = {}
  /\ WgOnly \subseteq IDs /\ WgAddrs \subseteq Direct
BY PeerMapAssumption DEF Addrs

(***************************************************************************)
(* setNodeKeyForEpAddr.                                                      *)
(***************************************************************************)
LEMMA SetAddr ==
  ASSUME NEW p, Good(p), NEW a \in Addrs, NEW k \in Keys
  PROVE  Good(setNodeKeyForEpAddr(p, a, k))
<1> DEFINE had == p.byAddr[a]
           free == [p EXCEPT !.byAddr[a] = None,
                        !.addrs = [j \in Keys |-> IF j = had THEN @[j] \ {a} ELSE @[j]],
                        !.relay = [j \in Keys |-> IF j = had /\ a \in Relay THEN None ELSE @[j]]]
           old  == IF a \in Relay THEN free.relay[k] ELSE None
           q    == [free EXCEPT !.byAddr = [x \in Addrs |-> IF x = a THEN k
                                                    ELSE IF x = old THEN None ELSE @[x]],
                        !.addrs[k] = (@ \ {old}) \cup {a},
                        !.relay[k] = IF a \in Relay THEN a ELSE @]
<1>p. p \in Index BY DEF Good
<1>f. /\ free \in Index
      /\ free.known = p.known /\ free.id = p.id /\ free.disco = p.disco
      /\ free.byID = p.byID /\ free.discos = p.discos /\ free.nodes = p.nodes
      /\ \A x \in Addrs : free.byAddr[x] = IF x = a THEN None ELSE p.byAddr[x]
      /\ \A j \in Keys : free.addrs[j] = IF j = had THEN p.addrs[j] \ {a} ELSE p.addrs[j]
      /\ \A j \in Keys : free.relay[j] = IF j = had /\ a \in Relay THEN None ELSE p.relay[j]
  BY <1>p DEF Index, Opt
<1>g. Good(free) /\ \A j \in Keys : a \notin free.addrs[j]
  <2> HIDE DEF free
  <2>0. \A j \in Keys : a \notin free.addrs[j]
    <3> SUFFICES ASSUME NEW j \in Keys, a \in p.addrs[j] PROVE j = had
      BY <1>f
    <3>1. j \in p.known BY DEF Good, Blank
    <3> QED BY <3>1 DEF Good, AddrsInverse
  <2>1. AddrsInverse(free)
    <3> SUFFICES ASSUME NEW x \in Addrs, NEW j \in Keys
                 PROVE  free.byAddr[x] = j <=> (j \in free.known /\ x \in free.addrs[j])
      BY DEF AddrsInverse
    <3>0. p.byAddr[x] = j <=> (j \in p.known /\ x \in p.addrs[j])
      BY DEF Good, AddrsInverse
    <3>1. CASE x = a BY <3>1, <2>0, <1>f, AddrKinds
    <3>2. CASE x # a BY <3>2, <3>0, <1>f
    <3> QED BY <3>1, <3>2
  <2>2. OneRelay(free)
    <3> SUFFICES ASSUME NEW j \in Keys
                 PROVE  free.addrs[j] \cap Relay = {free.relay[j]} \ {None}
      BY DEF OneRelay
    <3>0. p.addrs[j] \cap Relay = {p.relay[j]} \ {None} BY DEF Good, OneRelay
    <3>1. CASE j = had /\ a \in Relay
      <4>1. a \in p.addrs[j] BY <3>1 DEF Good, AddrsInverse
      <4>2. p.addrs[j] \cap Relay = {a} BY <4>1, <3>0, <3>1
      <4>3. free.addrs[j] \cap Relay = {} BY <4>2, <3>1, <1>f
      <4> QED BY <4>3, <3>1, <1>f
    <3>2. CASE j = had /\ a \notin Relay
      <4>1. free.addrs[j] \cap Relay = p.addrs[j] \cap Relay BY <3>2, <1>f
      <4> QED BY <4>1, <3>0, <3>2, <1>f
    <3>3. CASE j # had BY <3>3, <3>0, <1>f
    <3> QED BY <3>1, <3>2, <3>3
  <2>3. IDsInStep(free) /\ DiscosInStep(free)
    BY <1>f DEF Good, IDsInStep, DiscosInStep
  <2>4. Blank(free)
    <3> SUFFICES ASSUME NEW j \in Keys \ free.known PROVE free.addrs[j] = {} BY DEF Blank
    <3> QED BY <1>f DEF Good, Blank
  <2> QED BY <1>f, <2>0, <2>1, <2>2, <2>3, <2>4 DEF Good
<1>1. CASE k \notin p.known
  BY <1>1, <1>g DEF setNodeKeyForEpAddr
<1>2. CASE k \in p.known
  <2>1. setNodeKeyForEpAddr(p, a, k) = q BY <1>2 DEF setNodeKeyForEpAddr
  <2>o. old \in Opt(Relay) BY <1>f DEF Index, Opt
  <2>2. /\ q \in Index
        /\ q.known = free.known /\ q.id = free.id /\ q.disco = free.disco
        /\ q.byID = free.byID /\ q.discos = free.discos /\ q.nodes = free.nodes
        /\ \A x \in Addrs : q.byAddr[x] = IF x = a THEN k ELSE IF x = old THEN None
                                          ELSE free.byAddr[x]
        /\ \A j \in Keys : q.addrs[j] = IF j = k THEN (free.addrs[j] \ {old}) \cup {a}
                                        ELSE free.addrs[j]
        /\ \A j \in Keys : q.relay[j] = IF j = k /\ a \in Relay THEN a ELSE free.relay[j]
    <3> HIDE DEF free, old
    <3> QED BY <1>f, <2>o DEF Index, Opt
  <2> HIDE DEF q, free, old
  <2>k. k \in free.known BY <1>2, <1>f
  <2>3. a \notin Relay => old = None BY DEF old
  <2>4. a \in Relay => old = free.relay[k] BY DEF old
  <2>5. old # None => free.byAddr[old] = k /\ old \in free.addrs[k]
    BY <2>k, <2>3, <2>4, <2>o, <1>g, AddrKinds DEF Good, OneRelay, AddrsInverse, Opt
  <2>6. AddrsInverse(q)
    <3> SUFFICES ASSUME NEW x \in Addrs, NEW j \in Keys
                 PROVE  q.byAddr[x] = j <=> (j \in q.known /\ x \in q.addrs[j])
      BY DEF AddrsInverse
    <3>0. free.byAddr[x] = j <=> (j \in free.known /\ x \in free.addrs[j])
      BY <1>g DEF Good, AddrsInverse
    <3>1. CASE x = a BY <3>1, <2>2, <2>k, <1>g
    <3>2. CASE x # a /\ x = old
      <4>1. old # None BY <3>2, AddrKinds
      <4>2. q.byAddr[x] = None BY <3>2, <2>2
      <4>3. j = k => x \notin q.addrs[j] BY <3>2, <2>2
      <4>4. j # k => ~(j \in free.known /\ x \in free.addrs[j])
        BY <4>1, <3>0, <3>2, <2>5
      <4> QED BY <4>2, <4>3, <4>4, <2>2, AddrKinds
    <3>3. CASE x # a /\ x # old BY <3>3, <3>0, <2>2
    <3> QED BY <3>1, <3>2, <3>3
  <2>7. OneRelay(q)
    <3> SUFFICES ASSUME NEW j \in Keys PROVE q.addrs[j] \cap Relay = {q.relay[j]} \ {None}
      BY DEF OneRelay
    <3>0. free.addrs[j] \cap Relay = {free.relay[j]} \ {None} BY <1>g DEF Good, OneRelay
    <3>1. CASE j = k /\ a \in Relay
      <4>1. free.addrs[j] \cap Relay = {old} \ {None} BY <3>0, <3>1, <2>4
      <4>2. q.addrs[j] = (free.addrs[j] \ {old}) \cup {a} BY <3>1, <2>2
      <4>3. q.addrs[j] \cap Relay = {a} BY <4>1, <4>2, <3>1
      <4>4. a # None BY AddrKinds
      <4> QED BY <4>3, <4>4, <3>1, <2>2
    <3>2. CASE j = k /\ a \notin Relay
      <4>1. q.addrs[j] \cap Relay = free.addrs[j] \cap Relay
        BY <3>2, <2>2, <2>3, AddrKinds
      <4> QED BY <4>1, <3>0, <3>2, <2>2
    <3>3. CASE j # k BY <3>0, <3>3, <2>2
    <3> QED BY <3>1, <3>2, <3>3
  <2>8. IDsInStep(q) /\ DiscosInStep(q)
    BY <1>g, <2>2 DEF Good, IDsInStep, DiscosInStep
  <2>9. Blank(q)
    <3> SUFFICES ASSUME NEW j \in Keys \ q.known PROVE q.addrs[j] = {} BY DEF Blank
    <3> QED BY <1>g, <2>2, <2>k DEF Good, Blank
  <2> QED BY <2>1, <2>2, <2>6, <2>7, <2>8, <2>9 DEF Good
<1> QED BY <1>1, <1>2

LEMMA SetAddrs ==
  ASSUME NEW p, Good(p), NEW A \in SUBSET Direct, NEW k \in p.known
  PROVE  Good(setNodeKeyForEpAddrs(p, A, k))
<1> DEFINE q == setNodeKeyForEpAddrs(p, A, k)
<1>p. p \in Index /\ k \in Keys BY DEF Good, Index
<1>q. /\ q \in Index
      /\ q.known = p.known /\ q.id = p.id /\ q.disco = p.disco /\ q.byID = p.byID
      /\ q.discos = p.discos /\ q.nodes = p.nodes /\ q.relay = p.relay
      /\ \A x \in Addrs : q.byAddr[x] = IF x \in A THEN k ELSE p.byAddr[x]
      /\ \A j \in Keys : q.addrs[j] = IF j = k THEN p.addrs[j] \cup A ELSE p.addrs[j] \ A
  BY <1>p, AddrKinds DEF Index, Opt, setNodeKeyForEpAddrs
<1> HIDE DEF q
<1>1. AddrsInverse(q)
  <2> SUFFICES ASSUME NEW x \in Addrs, NEW j \in Keys
               PROVE  q.byAddr[x] = j <=> (j \in q.known /\ x \in q.addrs[j])
    BY DEF AddrsInverse
  <2>0. p.byAddr[x] = j <=> (j \in p.known /\ x \in p.addrs[j]) BY DEF Good, AddrsInverse
  <2> QED BY <1>q, <2>0
<1>2. OneRelay(q)
  <2> SUFFICES ASSUME NEW j \in Keys PROVE q.addrs[j] \cap Relay = {q.relay[j]} \ {None}
    BY DEF OneRelay
  <2>0. p.addrs[j] \cap Relay = {p.relay[j]} \ {None} BY DEF Good, OneRelay
  <2>1. q.addrs[j] \cap Relay = p.addrs[j] \cap Relay BY <1>q, AddrKinds
  <2> QED BY <2>0, <2>1, <1>q
<1>3. IDsInStep(q) /\ DiscosInStep(q)
  BY <1>q DEF Good, IDsInStep, DiscosInStep
<1>4. Blank(q)
  <2> SUFFICES ASSUME NEW j \in Keys \ q.known PROVE q.addrs[j] = {} BY DEF Blank
  <2> QED BY <1>q DEF Good, Blank
<1> QED BY <1>q, <1>1, <1>2, <1>3, <1>4 DEF Good, q

(***************************************************************************)
(* upsertEndpoint, for an endpoint whose ID and disco key were just set: one   *)
(* that the index has under that ID, or a new one under an unused ID.         *)
(***************************************************************************)
LEMMA Upsert ==
  ASSUME NEW p, Good(p), NEW k \in Keys, NEW i \in IDs, NEW d \in Opt(Discos), NEW old,
         i \notin WgOnly => d # None,
         \/ k \in p.known /\ p.id[k] = i /\ old = p.disco[k]
         \/ k \notin p.known /\ p.byID[i] = None /\ old = None
  PROVE  Good(upsertEndpoint([p EXCEPT !.id[k] = i, !.disco[k] = d], k, old))
<1> DEFINE r == [p EXCEPT !.id[k] = i, !.disco[k] = d]
           q == [r EXCEPT !.known = @ \cup {k}, !.byID[r.id[k]] = k,
                     !.nodes = [e \in Discos |-> IF e = old /\ old # r.disco[k]
                                                 THEN @[e] \ {k} ELSE @[e]]]
           w == [q EXCEPT !.discos = @ \cup {r.disco[k]},
                     !.nodes  = [e \in Discos |-> IF e = r.disco[k] THEN @[e] \cup {k} ELSE @[e]]]
<1>p. p \in Index BY DEF Good
<1>r. /\ r \in Index /\ r.id[k] = i /\ r.disco[k] = d
      /\ r.known = p.known /\ r.byID = p.byID /\ r.byAddr = p.byAddr /\ r.addrs = p.addrs
      /\ r.relay = p.relay /\ r.discos = p.discos /\ r.nodes = p.nodes
      /\ \A j \in Keys : r.id[j] = IF j = k THEN i ELSE p.id[j]
      /\ \A j \in Keys : r.disco[j] = IF j = k THEN d ELSE p.disco[j]
  BY <1>p DEF Index, Opt
<1>q. /\ q \in Index
      /\ q.known = p.known \cup {k} /\ q.byAddr = p.byAddr /\ q.addrs = p.addrs
      /\ q.relay = p.relay /\ q.discos = p.discos /\ q.id = r.id /\ q.disco = r.disco
      /\ \A h \in IDs : q.byID[h] = IF h = i THEN k ELSE p.byID[h]
      /\ \A e \in Discos : q.nodes[e] = IF e = old /\ old # d THEN p.nodes[e] \ {k} ELSE p.nodes[e]
  <2> HIDE DEF r
  <2> QED BY <1>r DEF Index, Opt
<1>w. d # None =>
      /\ w \in Index
      /\ w.known = q.known /\ w.byAddr = q.byAddr /\ w.addrs = q.addrs /\ w.byID = q.byID
      /\ w.relay = q.relay /\ w.id = q.id /\ w.disco = q.disco
      /\ \A e \in Discos : w.nodes[e] = IF e = d THEN q.nodes[e] \cup {k} ELSE q.nodes[e]
  <2> HIDE DEF r, q
  <2> QED BY <1>r, <1>q DEF Index, Opt
<1>u. upsertEndpoint(r, k, old) = IF i \in WgOnly THEN setNodeKeyForEpAddrs(q, WgAddrs, k) ELSE w
  BY <1>r DEF upsertEndpoint
<1> HIDE DEF r, q, w
<1>1. AddrsInverse(q)
  <2> SUFFICES ASSUME NEW x \in Addrs, NEW j \in Keys
               PROVE  q.byAddr[x] = j <=> (j \in q.known /\ x \in q.addrs[j])
    BY DEF AddrsInverse
  <2>0. p.byAddr[x] = j <=> (j \in p.known /\ x \in p.addrs[j]) BY DEF Good, AddrsInverse
  <2>1. j \notin p.known => p.addrs[j] = {} BY DEF Good, Blank
  <2> QED BY <2>0, <2>1, <1>q
<1>2. OneRelay(q) BY <1>q DEF Good, OneRelay
<1>3. IDsInStep(q)
  <2>1. \A h \in IDs, j \in Keys : p.byID[h] = j <=> (j \in p.known /\ p.id[j] = h)
    BY DEF Good, IDsInStep
  <2>2. ASSUME NEW h \in IDs, NEW j \in Keys
        PROVE  q.byID[h] = j <=> (j \in q.known /\ q.id[j] = h)
    <3>1. CASE h = i BY <3>1, <2>1, <1>q, <1>r, AddrKinds
    <3>2. CASE h # i BY <3>2, <2>1, <1>q, <1>r, AddrKinds
    <3> QED BY <3>1, <3>2
  <2>3. \A j \in q.known : q.id[j] \in IDs
    BY <1>p, <1>q, <1>r DEF Good, IDsInStep, Index
  <2> QED BY <2>2, <2>3 DEF IDsInStep
<1>4. \A e \in Discos, j \in Keys : j \in q.nodes[e] => j \in q.known /\ q.disco[j] = e
  <2> SUFFICES ASSUME NEW e \in Discos, NEW j \in Keys, j \in q.nodes[e]
               PROVE  j \in q.known /\ q.disco[j] = e
    OBVIOUS
  <2>0. j \in p.nodes[e] BY <1>q
  <2>1. j \in p.known /\ p.disco[j] = e BY <2>0 DEF Good, DiscosInStep
  <2>2. CASE j # k BY <2>1, <2>2, <1>q, <1>r
  <2>3. CASE j = k
    <3>1. old = e BY <2>1, <2>3
    <3>2. old = d BY <3>1, <2>3, <1>q
    <3> QED BY <3>1, <3>2, <2>1, <2>3, <1>q, <1>r
  <2> QED BY <2>2, <2>3
<1>5. \A e \in Discos, j \in Keys \ {k} :
         j \in q.known /\ q.disco[j] = e /\ q.id[j] \notin WgOnly => j \in q.nodes[e]
  <2> SUFFICES ASSUME NEW e \in Discos, NEW j \in Keys \ {k},
                      j \in q.known, q.disco[j] = e, q.id[j] \notin WgOnly
               PROVE  j \in q.nodes[e]
    OBVIOUS
  <2>1. j \in p.known /\ p.disco[j] = e /\ p.id[j] \notin WgOnly BY <1>q, <1>r
  <2>2. j \in p.nodes[e] BY <2>1 DEF Good, DiscosInStep
  <2> QED BY <2>2, <1>q
<1>6. Blank(q)
  <2> SUFFICES ASSUME NEW j \in Keys \ q.known PROVE q.addrs[j] = {} BY DEF Blank
  <2> QED BY <1>q DEF Good, Blank
<1>7. CASE i \in WgOnly
  <2>1. DiscosInStep(q) BY <1>4, <1>5, <1>7, <1>q, <1>r DEF DiscosInStep
  <2>2. Good(q) BY <2>1, <1>1, <1>2, <1>3, <1>6, <1>q DEF Good
  <2>3. Good(setNodeKeyForEpAddrs(q, WgAddrs, k)) BY <2>2, <1>q, SetAddrs, AddrKinds
  <2> QED BY <2>3, <1>7, <1>u DEF r
<1>8. CASE i \notin WgOnly
  <2>d. d \in Discos /\ d # None BY <1>8 DEF Opt
  <2>1. DiscosInStep(w)
    <3> SUFFICES ASSUME NEW e \in Discos, NEW j \in Keys
                 PROVE  /\ j \in w.nodes[e] => j \in w.known /\ w.disco[j] = e
                        /\ j \in w.known /\ w.disco[j] = e /\ w.id[j] \notin WgOnly => j \in w.nodes[e]
      BY DEF DiscosInStep
    <3>0. /\ w.known = q.known /\ w.disco[j] = q.disco[j] /\ w.id[j] = q.id[j]
          /\ w.nodes[e] = IF e = d THEN q.nodes[e] \cup {k} ELSE q.nodes[e]
      BY <2>d, <1>w
    <3>4. j \in q.nodes[e] => j \in q.known /\ q.disco[j] = e BY <1>4
    <3>1. CASE j = k
      <4>1. j \in q.known /\ q.disco[j] = d BY <3>1, <1>q, <1>r
      <4> QED BY <4>1, <3>0, <3>1, <3>4
    <3>2. CASE j # k
      <4>1. j \in q.known /\ q.disco[j] = e /\ q.id[j] \notin WgOnly => j \in q.nodes[e]
        BY <3>2, <1>5
      <4> QED BY <4>1, <3>0, <3>2, <3>4
    <3> QED BY <3>1, <3>2
  <2>2. AddrsInverse(w) /\ OneRelay(w) /\ IDsInStep(w) /\ Blank(w)
    BY <2>d, <1>w, <1>1, <1>2, <1>3, <1>6 DEF AddrsInverse, OneRelay, IDsInStep, Blank
  <2> QED BY <2>1, <2>2, <2>d, <1>w, <1>8, <1>u DEF Good, r
<1> QED BY <1>7, <1>8

(***************************************************************************)
(* deleteEndpoint, for any set of endpoints.                                 *)
(***************************************************************************)
LEMMA Delete ==
  ASSUME NEW p, Good(p), NEW D \in SUBSET Keys
  PROVE  /\ Good(deleteEndpoints(p, D))
         /\ deleteEndpoints(p, D).known = p.known \ D
         /\ \A i \in IDs : p.byID[i] \in D => deleteEndpoints(p, D).byID[i] = None
<1> DEFINE q == deleteEndpoints(p, D)
<1>p. p \in Index BY DEF Good
<1>k. q.known = p.known \ D /\ q.discos = p.discos BY <1>p DEF Index, deleteEndpoints
<1>f. /\ q.id    = [k \in Keys |-> IF k \in D THEN None ELSE p.id[k]]
      /\ q.disco = [k \in Keys |-> IF k \in D THEN None ELSE p.disco[k]]
      /\ q.addrs = [k \in Keys |-> IF k \in D THEN {} ELSE p.addrs[k]]
      /\ q.relay = [k \in Keys |-> IF k \in D THEN None ELSE p.relay[k]]
  BY <1>p DEF Index, deleteEndpoints
<1>b. /\ q.byID   = [i \in IDs |-> IF p.byID[i] \in D /\ p.id[p.byID[i]] = i THEN None ELSE p.byID[i]]
      /\ q.byAddr = [a \in Addrs |-> IF \E k \in D : a \in p.addrs[k] THEN None ELSE p.byAddr[a]]
      /\ q.nodes  = [d \in Discos |-> {k \in p.nodes[d] : ~(k \in D /\ p.disco[k] = d)}]
  BY <1>p DEF Index, deleteEndpoints
<1>t. q \in Index
  <2>1. ASSUME NEW kn \in SUBSET Keys, NEW id \in [Keys -> Opt(IDs)],
               NEW di \in [Keys -> Opt(Discos)], NEW bi \in [IDs -> Opt(Keys)],
               NEW ba \in [Addrs -> Opt(Keys)], NEW ad \in [Keys -> SUBSET Addrs],
               NEW re \in [Keys -> Opt(Relay)], NEW no \in [Discos -> SUBSET Keys]
        PROVE  [p EXCEPT !.known = kn, !.id = id, !.disco = di, !.byID = bi,
                  !.byAddr = ba, !.addrs = ad, !.relay = re, !.nodes = no] \in Index
    BY <1>p DEF Index
  <2>2. p.known \ D \in SUBSET Keys BY <1>p DEF Index
  <2>3. /\ [k \in Keys |-> IF k \in D THEN None ELSE p.id[k]] \in [Keys -> Opt(IDs)]
        /\ [k \in Keys |-> IF k \in D THEN None ELSE p.disco[k]] \in [Keys -> Opt(Discos)]
        /\ [k \in Keys |-> IF k \in D THEN {} ELSE p.addrs[k]] \in [Keys -> SUBSET Addrs]
        /\ [k \in Keys |-> IF k \in D THEN None ELSE p.relay[k]] \in [Keys -> Opt(Relay)]
    BY <1>p DEF Index, Opt
  <2>4. [i \in IDs |-> IF p.byID[i] \in D /\ p.id[p.byID[i]] = i THEN None ELSE p.byID[i]]
          \in [IDs -> Opt(Keys)]
    BY <1>p DEF Index, Opt
  <2>5. [a \in Addrs |-> IF \E k \in D : a \in p.addrs[k] THEN None ELSE p.byAddr[a]]
          \in [Addrs -> Opt(Keys)]
    BY <1>p DEF Index, Opt
  <2>6. [d \in Discos |-> {k \in p.nodes[d] : ~(k \in D /\ p.disco[k] = d)}]
          \in [Discos -> SUBSET Keys]
    BY <1>p DEF Index
  <2> QED BY <2>1, <2>2, <2>3, <2>4, <2>5, <2>6 DEF deleteEndpoints
<1> HIDE DEF q
<1>i. \A i \in IDs, k \in Keys : p.byID[i] = k <=> (k \in p.known /\ p.id[k] = i)
  BY DEF Good, IDsInStep
<1>a. \A a \in Addrs, k \in Keys : p.byAddr[a] = k <=> a \in p.addrs[k]
  <2> SUFFICES ASSUME NEW a \in Addrs, NEW k \in Keys
               PROVE  p.byAddr[a] = k <=> a \in p.addrs[k]
    OBVIOUS
  <2>1. p.byAddr[a] = k <=> (k \in p.known /\ a \in p.addrs[k]) BY DEF Good, AddrsInverse
  <2>2. k \notin p.known => p.addrs[k] = {} BY DEF Good, Blank
  <2> QED BY <2>1, <2>2
<1>1. AddrsInverse(q)
  <2> SUFFICES ASSUME NEW a \in Addrs, NEW k \in Keys
               PROVE  q.byAddr[a] = k <=> (k \in q.known /\ a \in q.addrs[k])
    BY DEF AddrsInverse
  <2>1. p.byAddr[a] = k <=> (k \in p.known /\ a \in p.addrs[k]) BY DEF Good, AddrsInverse
  <2>2. (\E j \in D : a \in p.addrs[j]) <=> p.byAddr[a] \in D BY <1>a
  <2>3. q.byAddr[a] = IF p.byAddr[a] \in D THEN None ELSE p.byAddr[a] BY <2>2, <1>b
  <2>4. a \in q.addrs[k] <=> k \notin D /\ a \in p.addrs[k] BY <1>f
  <2> QED BY <2>1, <2>3, <2>4, <1>k, AddrKinds
<1>2. OneRelay(q)
  <2> SUFFICES ASSUME NEW k \in Keys PROVE q.addrs[k] \cap Relay = {q.relay[k]} \ {None}
    BY DEF OneRelay
  <2>1. p.addrs[k] \cap Relay = {p.relay[k]} \ {None} BY DEF Good, OneRelay
  <2>2. CASE k \in D BY <2>2, <1>f
  <2>3. CASE k \notin D BY <2>1, <2>3, <1>f
  <2> QED BY <2>2, <2>3
<1>3. \A i \in IDs : q.byID[i] = IF p.byID[i] \in D THEN None ELSE p.byID[i]
  BY <1>i, <1>b
<1>4. IDsInStep(q)
  <2>1. ASSUME NEW i \in IDs, NEW k \in Keys
        PROVE  q.byID[i] = k <=> (k \in q.known /\ q.id[k] = i)
    <3>1. q.byID[i] = IF p.byID[i] \in D THEN None ELSE p.byID[i] BY <1>3
    <3>2. p.byID[i] = k <=> (k \in p.known /\ p.id[k] = i) BY <1>i
    <3>3. q.id[k] = IF k \in D THEN None ELSE p.id[k] BY <1>f
    <3> QED BY <3>1, <3>2, <3>3, <1>k, AddrKinds
  <2>2. \A k \in q.known : q.id[k] \in IDs BY <1>p, <1>k, <1>f DEF Good, IDsInStep, Index
  <2> QED BY <2>1, <2>2 DEF IDsInStep
<1>5. DiscosInStep(q)
  <2> SUFFICES ASSUME NEW d \in Discos, NEW k \in Keys
               PROVE  /\ k \in q.nodes[d] => k \in q.known /\ q.disco[k] = d
                      /\ k \in q.known /\ q.disco[k] = d /\ q.id[k] \notin WgOnly => k \in q.nodes[d]
    BY DEF DiscosInStep
  <2>1. /\ k \in p.nodes[d] => k \in p.known /\ p.disco[k] = d
        /\ k \in p.known /\ p.disco[k] = d /\ p.id[k] \notin WgOnly => k \in p.nodes[d]
    BY DEF Good, DiscosInStep
  <2>2. k \in q.nodes[d] <=> (k \in p.nodes[d] /\ ~(k \in D /\ p.disco[k] = d)) BY <1>b
  <2>5. /\ q.id[k] = IF k \in D THEN None ELSE p.id[k]
        /\ q.disco[k] = IF k \in D THEN None ELSE p.disco[k]
        /\ k \in q.known <=> k \in p.known /\ k \notin D
    BY <1>f, <1>k
  <2>3. CASE k \in D BY <2>1, <2>2, <2>3, <2>5
  <2>4. CASE k \notin D BY <2>1, <2>2, <2>4, <2>5
  <2> QED BY <2>3, <2>4
<1>6. Blank(q)
  <2> SUFFICES ASSUME NEW k \in Keys \ q.known PROVE q.addrs[k] = {} BY DEF Blank
  <2> QED BY <1>k, <1>f DEF Good, Blank
<1>7. Good(q) BY <1>t, <1>1, <1>2, <1>4, <1>5, <1>6 DEF Good
<1> QED BY <1>7, <1>k, <1>3 DEF q

(***************************************************************************)
(* upsertPeerLocked.                                                         *)
(***************************************************************************)
LEMMA UpsertsPeer ==
  ASSUME NEW p, Good(p), NEW i \in IDs, NEW n \in Node
  PROVE  Good(upsertPeer(p, i, n))
<1> DEFINE q == IF p.byID[i] # None /\ p.byID[i] # n.key
                THEN deleteEndpoints(p, {p.byID[i]}) ELSE p
<1>n. n.key \in Keys /\ n.disco \in Opt(Discos) BY DEF Node
<1>p. p.byID[i] \in Opt(Keys) BY DEF Good, Index
<1>q. Good(q) /\ (q.byID[i] = n.key \/ q.byID[i] = None)
  <2>1. CASE p.byID[i] # None /\ p.byID[i] # n.key
    <3>1. {p.byID[i]} \in SUBSET Keys BY <2>1, <1>p DEF Opt
    <3> QED BY <2>1, <3>1, Delete
  <2>2. CASE ~(p.byID[i] # None /\ p.byID[i] # n.key) BY <2>2
  <2> QED BY <2>1, <2>2
<1>u. upsertPeer(p, i, n) =
        IF q.byID[i] = n.key
        THEN IF Ancient(i, n) THEN deleteEndpoints(q, {n.key})
             ELSE upsertEndpoint(fromNode(q, i, n), n.key, q.disco[n.key])
        ELSE IF n.key \in q.known \/ Ancient(i, n) THEN q
        ELSE upsertEndpoint(fromNode(q, i, n), n.key, None)
  BY DEF upsertPeer
<1> HIDE DEF q
<1>1. CASE q.byID[i] = n.key
  <2>1. n.key \in q.known /\ q.id[n.key] = i BY <1>1, <1>q, <1>n DEF Good, IDsInStep
  <2>2. CASE Ancient(i, n) BY <2>2, <1>1, <1>u, <1>q, <1>n, Delete
  <2>3. CASE ~Ancient(i, n)
    <3>1. i \notin WgOnly => n.disco # None BY <2>3 DEF Ancient
    <3>2. Good(upsertEndpoint([q EXCEPT !.id[n.key] = i, !.disco[n.key] = n.disco],
                              n.key, q.disco[n.key]))
      BY <3>1, <2>1, <1>q, <1>n, Upsert
    <3> QED BY <3>2, <2>3, <1>1, <1>u DEF fromNode
  <2> QED BY <2>2, <2>3
<1>2. CASE q.byID[i] # n.key /\ (n.key \in q.known \/ Ancient(i, n))
  BY <1>2, <1>u, <1>q
<1>3. CASE q.byID[i] # n.key /\ ~(n.key \in q.known \/ Ancient(i, n))
  <2>1. i \notin WgOnly => n.disco # None BY <1>3 DEF Ancient
  <2>2. q.byID[i] = None /\ n.key \notin q.known BY <1>3, <1>q
  <2>3. Good(upsertEndpoint([q EXCEPT !.id[n.key] = i, !.disco[n.key] = n.disco], n.key, None))
    BY <2>1, <2>2, <1>q, <1>n, Upsert
  <2> QED BY <2>3, <1>3, <1>u DEF fromNode
<1> QED BY <1>1, <1>2, <1>3

(***************************************************************************)
(* The inductive invariant of the specification.                             *)
(***************************************************************************)
IndInv == TypeOK /\ Good(m)

LEMMA InitIndInv == Init => IndInv
<1> SUFFICES ASSUME Init PROVE IndInv OBVIOUS
<1>1. NoIndex \in Index BY DEF NoIndex, Index, Opt
<1>2. AddrsInverse(NoIndex) /\ OneRelay(NoIndex) /\ IDsInStep(NoIndex)
  BY AddrKinds DEF NoIndex, AddrsInverse, OneRelay, IDsInStep
<1>3. DiscosInStep(NoIndex) /\ Blank(NoIndex) BY DEF NoIndex, DiscosInStep, Blank
<1>4. peersByID \in NetMap BY DEF Init, NetMap, Opt
<1> QED BY <1>1, <1>2, <1>3, <1>4 DEF Init, IndInv, TypeOK, Good, Opt

\* What an advertised disco key does to the endpoint that has it.
LEMMA Advertised ==
  ASSUME NEW p, Good(p), NEW k \in p.known, NEW d \in Discos
  PROVE  Good(upsertEndpoint([p EXCEPT !.disco[k] = d], k, p.disco[k]))
<1>1. p \in Index /\ k \in Keys /\ p.id[k] \in IDs BY DEF Good, Index, IDsInStep
<1>2. [p EXCEPT !.disco[k] = d] = [p EXCEPT !.id[k] = p.id[k], !.disco[k] = d]
  BY <1>1 DEF Index
<1>3. d \in Opt(Discos) /\ d # None BY AddrKinds DEF Opt
<1>4. Good(upsertEndpoint([p EXCEPT !.id[k] = p.id[k], !.disco[k] = d], k, p.disco[k]))
  BY <1>1, <1>3, Upsert
<1> QED BY <1>2, <1>4

LEMMA NextIndInv == IndInv /\ [Next]_vars => IndInv'
<1> SUFFICES ASSUME IndInv, [Next]_vars PROVE IndInv' OBVIOUS
<1>t. TypeOK /\ Good(m) BY DEF IndInv
<1>g. ASSUME Good(m'), UNCHANGED <<netmap, todo>>, peersByID' \in NetMap, discoInfo' \subseteq Discos
      PROVE  IndInv'
  BY <1>g, <1>t DEF IndInv, TypeOK, Good
<1>1. ASSUME NEW nm \in NetMap, SetNetworkMap(nm) PROVE IndInv'
  <2>1. Good(m') BY <1>1, <1>t DEF SetNetworkMap
  <2>2. netmap' \in Opt(NetMap) /\ todo' \subseteq IDs /\ \A i \in todo' : netmap'[i] # None
    BY <1>1 DEF SetNetworkMap, Opt
  <2>3. todo' # {} => netmap' # None
    BY <1>1, PeerMapAssumption DEF SetNetworkMap
  <2> QED BY <2>1, <2>2, <2>3, <1>1, <1>t DEF SetNetworkMap, IndInv, TypeOK, Good
<1>2. ASSUME NEW i \in IDs, UpdateNodesPeer(i) PROVE IndInv'
  <2>1. netmap \in NetMap /\ netmap[i] # None BY <1>2, <1>t DEF UpdateNodesPeer, TypeOK, Opt
  <2>2. netmap[i] \in Node BY <2>1 DEF NetMap, Opt, NodesOf
  <2>3. Good(m') BY <2>2, <1>2, <1>t, UpsertsPeer DEF UpdateNodesPeer
  <2> QED BY <2>3, <1>2, <1>t DEF UpdateNodesPeer, IndInv, TypeOK, Good
<1>3. ASSUME UpdateNodesDone PROVE IndInv'
  <2>1. Stale \in SUBSET Keys BY <1>t DEF Stale, Good, Index
  <2>2. Good(m') BY <2>1, <1>3, <1>t, Delete DEF UpdateNodesDone
  <2>3. netmap \in NetMap BY <1>3, <1>t DEF UpdateNodesDone, Unlocked, TypeOK, Opt
  <2> QED BY <2>2, <2>3, <1>3, <1>t DEF UpdateNodesDone, IndInv, TypeOK, Good, Opt
<1>4. ASSUME NEW i \in IDs, NEW n \in NodesOf(i), UpsertPeer(i, n) PROVE IndInv'
  <2>1. Good(m') BY <1>4, <1>t, UpsertsPeer DEF UpsertPeer, NodesOf
  <2>2. peersByID' \in NetMap BY <1>4, <1>t DEF UpsertPeer, TypeOK, NetMap, Opt, NodesOf
  <2> QED BY <2>1, <2>2, <1>4, <1>t, <1>g DEF UpsertPeer, TypeOK
<1>5. ASSUME NEW i \in IDs, RemovePeer(i) PROVE IndInv'
  <2>1. m.byID[i] # None => {m.byID[i]} \in SUBSET Keys BY <1>t DEF Good, Index, Opt
  <2>2. Good(m') BY <2>1, <1>5, <1>t, Delete DEF RemovePeer
  <2>3. peersByID' \in NetMap BY <1>5, <1>t DEF RemovePeer, TypeOK, NetMap, Opt
  <2> QED BY <2>2, <2>3, <1>5, <1>t, <1>g DEF RemovePeer, TypeOK
<1>6. ASSUME NEW k \in Keys, NEW d \in Discos, HandleDiscoKeyAdvertisement(k, d) PROVE IndInv'
  <2>1. Good(m') BY <1>6, <1>t, Advertised DEF HandleDiscoKeyAdvertisement
  <2> QED BY <2>1, <1>6, <1>t, <1>g DEF HandleDiscoKeyAdvertisement, TypeOK
<1>7. ASSUME NEW d \in Discos, NEW claim \in Opt(Keys), NEW a \in Direct, HandlePing(d, claim, a)
      PROVE  IndInv'
  <2> DEFINE ks == NodeKeysOfPing(d, claim)
  <2>1. ks \subseteq Keys BY <1>t DEF NodeKeysOfPing, Good, Index
  <2> HIDE DEF ks
  <2>2. ks # {} => (CHOOSE k \in ks : TRUE) \in Keys BY <2>1
  <2>3. Good(m') BY <2>2, <1>7, <1>t, SetAddr, AddrKinds DEF HandlePing, ks
  <2> QED BY <2>3, <1>7, <1>t, <1>g DEF HandlePing, TypeOK
<1>8. ASSUME NEW d \in Discos, NEW k \in Keys, NEW a \in Direct, HandlePong(d, k, a) PROVE IndInv'
  <2>1. Good(m') BY <1>8, <1>t, SetAddr, AddrKinds DEF HandlePong
  <2> QED BY <2>1, <1>8, <1>t, <1>g DEF HandlePong, TypeOK
<1>9. ASSUME NEW k \in Keys, NEW a \in Addrs, FromPeer(k, a) PROVE IndInv'
  <2>1. Good(m') BY <1>9, <1>t, SetAddr DEF FromPeer
  <2> QED BY <2>1, <1>9, <1>t, <1>g DEF FromPeer, TypeOK
<1>10. CASE UNCHANGED vars BY <1>10, <1>t DEF vars, IndInv, TypeOK, Good
<1> QED BY <1>1, <1>2, <1>3, <1>4, <1>5, <1>6, <1>7, <1>8, <1>9, <1>10 DEF Next

\* The indexes of peerMap keep their types.
THEOREM PeerMapTypeCorrect == Spec => []TypeOK
<1>1. IndInv => TypeOK BY DEF IndInv
<1> QED BY InitIndInv, NextIndInv, <1>1, PTL DEF Spec

\* byEpAddr and the peers' epAddrs are inverse to each other whatever network
\* maps, key changes, pings, pongs and packets do, in any order: a received
\* packet is never handed to a deleted endpoint, or to another than the last
\* one that was seen at its address.
THEOREM AddressesInverse == Spec => []AddrsAgree
<1>1. IndInv => AddrsAgree BY DEF IndInv, Good, AddrsAgree
<1> QED BY InitIndInv, NextIndInv, <1>1, PTL DEF Spec

\* A peer holds one relay address at most, the one relayEpAddrByNodeKey names.
THEOREM SingleRelay == Spec => []RelaysAgree
<1>1. IndInv => RelaysAgree BY DEF IndInv, Good, RelaysAgree
<1> QED BY InitIndInv, NextIndInv, <1>1, PTL DEF Spec

\* byNodeKey and byNodeID hold the same endpoints, so nodeCount never panics.
THEOREM NodeIndexesInStep == Spec => []IDsAgree
<1>1. IndInv => IDsAgree BY DEF IndInv, Good, IDsAgree
<1> QED BY InitIndInv, NextIndInv, <1>1, PTL DEF Spec

\* nodesOfDisco leads to exactly the endpoints that have the disco key now.
THEOREM DiscoIndexInStep == Spec => []DiscosAgree
<1>1. IndInv => DiscosAgree BY DEF IndInv, Good, DiscosAgree
<1> QED BY InitIndInv, NextIndInv, <1>1, PTL DEF Spec
===============================================================================
