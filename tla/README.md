# Verification of magicsock: paths, endpoints and their indexes

The repository is a fork of Tailscale. What it adds to Tailscale is in
`wgengine/magicsock`: *source-path selection* ("srcsel"), which gives a node
several local UDP sockets, probes peers through each of them and sends data
through the better or through both; a choice between direct and relayed paths by
latency; and *dynamic endpoint advertisement*, which lets an operator publish
further endpoints through a file. All of it lives in the concurrent core of
magicsock: sockets are closed and re-opened while other goroutines read from them
and write to them, pongs and timeouts of one endpoint come in any order, and an
event loop allocates relays for callers that hold locks. This directory holds
TLA+ models of that code, TLC runs, and TLAPS proofs.

## 1. The system

### Components

Paths are relative to `src/wgengine/magicsock/`.

| component | state | operations | hard because | modelled in |
|---|---|---|---|---|
| auxiliary sockets (`sourcepath.go` `sourcePathState`, `sourcepath_supported.go`) | per socket: UDP socket, generation, bound flag; a shared generation counter; `sourcePath.mu` | full re-bind, rotation of one socket, close, look-up for a write | generation and UDP socket change in two steps; receive loops read both without a lock; writes happen after the unlock | `SourcePath` |
| probe manager (`sourcePathProbeManager`) | pending probes, samples, outcomes, loss streaks, demotions | add within budgets, expire, handle a Pong, drop a source, clear | late, duplicate and misattributed Pongs; limits; the critical section ends before its consequences are carried out | `SourcePath` |
| probe goroutines, senders, receive loops | what each has read and not yet used | `sendSourcePathDiscoPing`, `sendUDPBatchDualSource`, `mkReceiveFuncWithSource` | every step can interleave with re-bind, rotation, `Conn.Close` | `SourcePath` |
| what the scorer may rely on | evidence about UDP sockets | open, learn, lose, retire | – | `PathEvidence` (abstract) |
| active send paths (`endpoint.go` `sourcePathApplyActivePathPolicyLocked`) | the active pair, refresh and replace times, promotion budget | rank, fill up, promote, reset | ranking and clock are stale when the policy is applied | `SendPaths` |
| flow table (`sourcepath.go`, `sourcepath_supported.go`) | flow to source, idle times | look up, check, choose, assign, evict, drop | three critical sections per packet; capacity; rotation and re-bind in between | `SendPaths` |
| endpoint updates (`magicsock.go` `ReSTUN`, `updateEndpoints`, `setEndpoints`) | update active, request pending, last endpoints and their age, waiting call-me-maybes, periodic timer | request, find, set, report, finish; stop and start | requests merged into a running update; a static slice read without its lock; reports outside of the lock | `EndpointUpdate` |
| extra-endpoints file (`extraendpoints.go`) | last good set, watcher goroutine, stop channel | first read, watch, poll, re-parse, reload, stop | watcher, reload, two `Close` calls and the updater wait for each other; events missed before the watch exists | `EndpointUpdate` |
| endpoint address selection (`endpoint.go`) | `bestAddr`, its trust, candidates, pings in flight, heartbeat and lifetime timers | ping, pong, timeout, heartbeat, lifetime probe, call-me-maybe, CLI ping, reset | every order of pongs, timeouts, deletions and candidate changes | `EndpointAddr` |
| direct-vs-relay gate (`directvsrelay.go`) | time of the last swap | compare, hold | flapping at the boundary; which places swap, clear or forget the hold | `EndpointAddr` |
| relay manager (`relaymanager.go`) | eight maps of work, an event loop that starts and stops, goroutines for allocation and handshake | start, stop, allocate, handshake, route messages, keep the set of servers | loop, goroutines and callers under locks wait for each other; the end of a handshake reaches the loop by two channels | `RelayManager` |
| peer map (`peermap.go`, and its users in `magicsock.go`) | five indexes of the peers | upsert, delete, set address, look up; network map, removal, disco messages | five maps kept in step by hand through key rotations, shared keys and moving addresses | `PeerMap` |
| scorer | – | mean latency, jitter, loss, relative gate | floating point | its result is any ranking (`SendPaths`) |
| active/backup failover | failure streak, hold time, recovery Pongs | note success or failure, candidate | never entered: see Disagreements | – |

### Not modelled

* The endpoint tracker: a cache with expiry under one lock, read by
  `determineEndpoints` only.
* The scorer's arithmetic on floating-point means, jitter and loss rates. What
  it decides, an order of paths and the set of usable sources, is nondeterministic
  in `SendPaths`, so whatever holds there holds for every scorer.
* Active/backup failover, which `endpoint.send` never enters.
* The dual-endpoint strategy of `endpoint.send`, which is off by default and writes
  `bestAddr` and its trust itself (`endpoint.go:595–601`); see section 5.
* The order in which `Conn.mu` and `sourcePath.mu` are taken: a section under `Conn.mu`
  is one step of the models, so nobody waits for the other lock with it held.
* DERP, control client, IPN, netcheck, netstack, DNS, routing, commands, Kubernetes
  operator: unchanged Tailscale subsystems, the greater part of the repository by
  lines. Where they call into the code above, the call is an input of a model.

### How they interact

* `Conn.mu` guards the Conn and the probe manager; `sourcePath.mu` guards the
  sockets. `Conn.mu` may be held when `sourcePath.mu` is taken (`Close`), never the
  other way round.
* A *source* is a pair (socket ID, generation). A probe, a sample and a demotion
  are labelled with one. The pair is supposed to identify one UDP socket; a
  rotation stores a new generation first and re-binds afterwards.
* `sendSourcePathDiscoPing` registers a probe under `Conn.mu`, releases it,
  carries out rotations, looks the socket up under `sourcePath.mu`, releases that,
  writes, and takes `Conn.mu` again if the write failed.
* A receive loop reads a packet, then reads the socket's generation (two
  atomics), then handles the Pong under `Conn.mu`.
* `updateEndpoints` runs in a goroutine of its own; `ReSTUN` starts it or leaves
  a request for its end. The file watcher calls `ReSTUN` from its goroutine;
  `Conn.Close` waits first for the watcher, then, on `muCond`, for the update.
* `endpoint.mu` guards one peer's addresses. A pong is handled under `Conn.mu` and
  `endpoint.mu`, and then enters the address in the peer map; a ping's timeout is a
  timer that takes `endpoint.mu`.
* A caller of the relay manager blocks, with `endpoint.mu` or `Conn.mu` held, until
  the loop takes its event; the loop itself takes neither lock, and tells an endpoint
  of a usable relay from a goroutine of its own (`udpRelayEndpointReady`).
* `endpoint.send` ranks paths under `Conn.mu`, applies the active-path policy under
  `endpoint.mu`, and looks a flow up, chooses and assigns it in sections of their own.

### What makes each part correct

* Evidence: a sample's label names the UDP socket that carried the probe and its
  Pong; a probe counts once; a dropped source stays without evidence.
* Rotation: only sockets that failed are replaced, once per failure.
* Limits: pending probes, samples and outcomes stay within their budgets.
* Shutdown: nothing is learnt, started or left over after `Close`, and `Close`
  returns.
* Active pair: two addresses of the peer are not given up for a little latency, and
  promotions are a cooldown apart.
* Flows: a packet leaves through a source that was bound during the call.
* Best address: trusted on its own evidence only, one that the endpoint has, not
  flapping between direct and relayed.
* Relay manager: the maps agree, one loop runs at a time and none is lost, a stop
  leaves no work, whatever the loop waits for is still to come, a success is told
  once, and everybody gets an answer.
* Peer map: each index is the inverse of the other it belongs with.
* Advertisement: what is configured for good is advertised in the end, reports
  come in order, and a peer that waits for endpoints is served.

The hazards these answer to are listed, with their lines, in `PROJECT.json`.

## 2. Plan

Done: `SourcePath` with `PathEvidence`; `EndpointUpdate`; `RelayManager`;
`EndpointAddr`; `PeerMap`; `SendPaths`. Every invariant and every action property
that a passing run checks is proved for all values of the constants, and so is the
refinement of `PathEvidence` by `SourcePath` (section 9).

Left, in this order:

1. An abstract specification of advertisement (the control plane sees a sequence
   of snapshots) and its refinement by `EndpointUpdate`.
2. An abstract specification of the peer map (one relation between peers, keys
   and addresses) and its refinement by `PeerMap`.
3. Of the relay manager, that each request is answered once, as an abstract
   specification that `RelayManager` implements.

## 3. `SourcePath`

State. `sockGen`, `bound`, `conn` are a socket's generation, bound flag and kind
of connection (an open UDP socket, a closed one, or the `blockForeverConn` that
stands in after a failed bind and silently swallows writes). `opened[s]` is
history: for each UDP socket ever opened for slot `s`, the generation under which
it was opened. `binding` is the socket whose generation is stored and whose bind
is still to come; `spMu` is held across that gap because receive loops do not
respect it. `pending`, `samples`, `outcomes`, `probeLoss`, `demotedTill` are the
probe manager's maps. `pc`, `src`, `dst`, `todo`, `rotating` are the locals of
goroutines, `rx` those of the receive loops, and `wire` the probes that left,
each with its UDP socket. `dropped`, `blamed`, `offUntil`, `answered` are history
that only properties read.

Actions. One action is one critical section or one access to an atomic:

| code | actions |
|---|---|
| `sendSourcePathProbeTick`, `startDiscoPingLocked` | `ProbeTick` |
| `sendSourcePathDiscoPing` | `PingRefused`, `Ping`, `Rotate*`, `Look`, `WriteOk`, `WriteFailed`, `Forget` |
| `sendUDPBatchDualSource`, `sendUDPBatchFromSource` and their bookkeeping | `SendTake`, `SendChoose`, `Look`, `WriteOk`, `WriteFailed`, `SendSucceeded`, `DualSendFailed`, `SingleSendFailed`, `Rotate*` |
| `rotateSourcePathAuxSocket`, `rebindSourcePathSocket` | `RotateStale`, `RotateStore`, `RotateBind`, `RotateDrop`, `RotateEnd` |
| `Conn.Rebind` | `RebindStart`, `RebindStore`, `RebindBind`, `RebindEnd` |
| `connBind.Close`, `Conn.Close` | `BindClose`, `ConnClose` |
| `mkReceiveFuncWithSource`, `handlePongLocked` | `Read`, `Stamp`, `HandlePong` |

Abstractions. One address family. Environment knobs are constants. Packets have
no content but a transaction ID; a Pong may come from any peer, any number of
times, or never, but only to the UDP socket its probe left from. Expired samples
and outcomes are pruned where the code prunes them. `RebindingUDPConn` retries on
a replaced connection, so a write goes to whatever socket is current. Which of the two
strategies a send follows is left open.

The abstract specification `PathEvidence` knows neither generations nor locks:
UDP sockets are numbered, a probe becomes evidence about one of them at most
once, and a retired socket never gets evidence again. `SourcePath` implements it
under the mapping in `Evidence`.

### Runs

| run | instance | shows |
|---|---|---|
| `sourcepath_slots` | 2 sockets, 1 probe, 1 sender, 2 re-binds, `Close` | `SampleAttribution`, `ClosedKeepsNothing`, `ImplementsPathEvidence` |
| `sourcepath_loss` | 1 socket, 4 probes to 2 peers, limits 1 and 2, two losses rotate | `TypeOK` (streaks below the threshold), `WithinBudgets` |
| `sourcepath_senders` | 1 socket, 2 senders, 1 probe, fair | `DroppedStaysDropped`, `OnlyBlamedSocketsRotated`, `CallsEnd` |
| `sourcepath_closed` | 1 socket, 1 probe, 1 sender, 1 re-bind, `Close` | `ClosedStaysClosed` fails: see Disagreements |

Bounds. A wrong label needs one probe and two changes of one socket's
generation, both within reach of one re-bind and one rotation (`MaxRebinds` is 2
where attribution is checked). Stealing a new socket needs two senders. The
clock needs one tick: a time-out, a sample's life and a recovery period
all are one tick long, so that each can have run out or not. Transaction IDs are
used once, as in the code. `sourcepath_loss` uses the symmetry of probes.

Fairness (`sourcepath_senders`): weak fairness of every probe's and sender's next
step and of a re-bind under way, which is what the Go scheduler and returning
system calls give. Nothing is assumed of the network, of receivers or of time.

## 4. `EndpointUpdate`

State. `active`, `want` are `endpointsUpdateActive`, `wantEndpointsUpdate`; `upc`
and `found` the goroutines of `updateEndpoints` and what each has found so far;
`asks` the `ReSTUN` calls on their way to `Conn.mu`; `last`, `told`, `fresh`,
`refresh` are `lastEndpoints`, the last argument of `epFunc`, whether
`lastEndpointsTime` is recent, and `onEndpointRefreshed`. `timer` is a pending
periodic timer. `file`, `watched`, `event`, `cur`, `watch`, `stopCh` are the
operator's file, fsnotify's watch, an undelivered event, the last good set, the
watcher goroutine and its stop channel. `cpc` are calls of `Close`.

Two identities for updates suffice to see whether two can overlap. `ReSTUN` on
somebody else's goroutine, or after a caller has released `Conn.mu`, is a counter
of calls that may arrive at any time. Of the endpoints found only the static ones
and the file's are kept; all others are constant. `FindFailed` covers a failing
network report, a cancelled context, and failing local addresses. The slice
`staticEndpoints` is read without its lock, so a read during the assignment may
yield a mix (`Torn`). DERP connections that `Close` also waits for are not
modelled, nor is the `Rebind` that an update may begin with (it is an input of
`SourcePath`). The node has had a private key from the start.

### Runs

| run | instance | shows |
|---|---|---|
| `endpoints_safe` | polling, fsnotify may fail, 1 peer, 1 write, 1 failure, a stop, 2 `Close` calls | `TypeOK` (no refused content in force), `ToldInOrder`, `NothingAfterClose`, `SomebodyWillWake` |
| `endpoints_live` | polling and fsnotify, 1 write, 1 peer, a `Close`, fair | `CloseReturns`, `CallMeMaybeSent` |
| `endpoints_file` | 2 static sets, 1 write, a stop, fsnotify works, fair | `StaticIsAdvertised`, `NoticedIsAdvertised` |

Bounds. `MaxAsks` calls may be under way at a time, any number in all; writes,
failures, stops and ageings are bounded by the constants of those names. One write
and the poll ticker are what the watcher needs to be parsing or reloading, and an
update to be running, when `Close` comes to join it; that a second call does nothing
is left to the safety run. The
safety run uses symmetry in updaters, peers and `Close` calls, which
the specification does not tell apart.

Fairness: weak fairness of `ReSTUN` calls, updates, the watcher and calls of
`Close`. Strong fairness of `EnqueueCallMeMaybe`, which in the model must wait for
a free place among `MaxAsks`, and of `WatchExit`, since Go's `select` chooses at
random among ready cases and cannot pass over a closed `stopCh` for ever. The
timer, the operator and the user need never do anything. Liveness is
stated for updates that do not fail: the code does not retry a failed one.

## 5. `EndpointAddr`

State. `de` is the record of one endpoint's fields: the best address with latency
and relay server, where now stands relative to `trustBestAddrUntil`, whether the
hold window of the last swap runs, the candidate addresses, the pings in flight,
the lifetime probe, the heartbeat timer. Two variables are history: `earned`, the
address whose evidence last extended the trust, and `crossed`, the best address if a
pong that came by a relay proved it by a direct ping.

Every method holds `endpoint.mu` throughout, so each is one action on the whole
record; the interleaving is that of methods:

| code | actions |
|---|---|
| `udpRelayEndpointReady`, `handlePongConnLocked`, `noteRecvActivity` | `Ready`, `RxPong`, `Receive` |
| `discoPingTimeout`, `forgetDiscoPing`, `noteBadEndpoint`, `noteConnectivityChange` | `PingTimeout`, `ForgetPing`, `NoteBadEndpoint`, `NoteConnectivityChange` |
| `heartbeat`, `heartbeatForLifetime` | `HeartbeatActive`, `HeartbeatIdle`, `HeartbeatForLifetime` |
| `send`, `discoPing` | `Send`, `DiscoPing` |
| `updateFromNode`, `addCandidateEndpoint`, `handleCallMeMaybe`, `stopAndReset` | `UpdateFromNode`, `AddCandidate`, `HandleCallMeMaybe`, `StopAndReset` |
| the clock | `TrustPasses`, `HoldPasses` |

Abstractions. Rate limits and idle times on which nothing else depends are
choices, and so is the list of omitted addresses (`omitEndpointAddrPort`): candidates
on it are not offered, and a pong may find its address on it. A pong comes by a direct
address, a relay or DERP, whatever its ping was sent to, as `handlePongConnLocked`
distinguishes; only a relayed pong for a ping by DERP, which `handlePingLocked` never
sends and which would make DERP's address the best one, is left out. For a relayed
ping and a direct pong the look-up in `endpointState` is taken to fail: a relay
server's address is not among the peer's. The callback of a CLI ping is not modelled
(that it is called once at most is one compare-and-swap). Not modelled: WireGuard-only
peers, path MTU probing (one size), and the data strategy "dual-endpoint", which writes `bestAddr` and trust directly
(`endpoint.go:580–603`). `TrustEarned`, `BestIsLive`, `CycleOfBest` and `HoldKept`, and
the theorems about them, are **not claimed under that strategy**.

`endpoint_addr`: one direct and one relayed address, two pings in flight at a time
and any number in all, latencies 1 and 2 with a threshold of 10
percent. Two pings are what a late pong and a newer one need; two latencies on
either side of the threshold let each path beat the other. `MaxCandidates` (100 in the
code) is 0, so that every new candidate makes `addCandidateEndpoint` clean up; with one
direct address it finds nothing to delete, which the proofs, for any number of
addresses, make up for. It shows `TrustEarned`, `BestIsLive`, `CycleOfBest`, `NoFlapping` and
`HoldKept`. `BestIsLive` has an exception, which the code has too: see section 10. No
liveness: whether a path is found is up to the network.

## 6. `RelayManager`

State. `alloc` and `hand` are the units of allocation and handshake work with their
goroutines; `allocByEp`, `allocByKeys`, `handByEp`, `handByVNI`, `awaiting`, `apvTo`
and `discoInfo` the maps that hold them; `servers` and `hasServers` the relay servers.
`loop` says whether `runLoop` is off, at its `select`, busy or returning; `stopped` are
the tokens in `runLoopStoppedCh`, and `started` the goroutines that a `go` statement
began and that have not come to the `select`. `todo` is the loop's call
stack: a handler that must wait for a goroutine is a task on it, and meanwhile the
loop takes no event. `calls` are callers that wait for the loop, `ready` the
goroutines that tell an endpoint of a usable relay. `owed` is history.

Actions. `Call` and `StartLoop` are `relayManagerInputEvent`: a caller takes the token
and starts the goroutine. `LoopEnters` and `LoopReturns` are the two ends of `runLoop`,
the second giving the token back. `StopWork` is `stopWorkRunLoop`: one pass over the
allocations that it finds, then one over the handshakes, each waiting for what it
cancels. `RunLoop` is either the
next event at the `select` or the next task of the stack, one per handler; the other
actions are the steps of the two kinds of goroutines and `udpRelayEndpointReady`.
Messages of servers and peers may come at any time, twice, or never.

`relay_work`: one peer, one server, one allocation and two handshakes at a time.
The server re-allocates, and hands out the first endpoint anew, which
is what makes old and new work meet under one key. Each kind of call is made once,
pings and pongs twice (`Budget`). It shows `TypeOK`, `MapsAgree`,
`RegisteredWillReport`, `DiscoInfoHeld`, `SuccessToldOnce`, `OneLoop`,
`StopIsThorough` and, under fairness, `Settles`. Deadlock is not checked: with no
call and no work left, the manager rests.

Fairness: weak fairness of the loop, of starting, entering and leaving it, and of every goroutine's next
step, timers included, since each `select` has a time-out or a cancelled context.
Nothing is assumed of servers and peers.

## 7. `PeerMap`

State. `m` is the record of the five indexes and of the two fields of an endpoint they
are made from; `peersByID` and `discoInfo` are the Conn's; `netmap` and `todo` are a
network map that is being applied under `Conn.mu`, a peer at a time.

Actions. `SetNetworkMap`, `UpdateNodesPeer`, `UpdateNodesDone` (`updateNodes`);
`UpsertPeer` and `RemovePeer`; `HandleDiscoKeyAdvertisement`; `HandlePing`;
`HandlePong`; `FromPeer` (an address learned from a decrypted packet). Each uses
operators named after the methods of `peerMap`.

Assumption. Control never turns a peer with a disco key into a WireGuard-only one or
back; `upsertEndpoint` would dereference a nil `discoKey` then (`peermap.go:169`).

`peer_map`: two node IDs, one of them WireGuard-only, three node keys (so that a key
can rotate, be taken over and come back), two disco keys, one direct and two relayed
addresses. It shows `TypeOK`, `AddrsAgree`, `RelaysAgree`, `IDsAgree` and
`DiscosAgree`. `peer_map_stale`, on the same instance, is the
counterexample to `NoStaleEndpoint` described under Disagreements.

## 8. `SendPaths`

How `endpoint.send` chooses the paths of a packet under two of its strategies.

State. Dual send: the active `pair`, the ages of the last replacement and refresh,
the promotion budget. Single source: the generation of each socket, sources that a
rotation has yet to drop, sources with enough fresh samples, and the flow table.
The rest are the locals of each send: its ranking, how far its clock is behind, its
flow and source. `promoted`, `took` and `seen` are history.

Actions. `Rank` and `Apply` are the two critical sections of a dual send (`Apply` fills
up, promotes or keeps); `Reset` and `Tick`. `FlowStep` is the flow's look-up, check,
forgetting, taking of candidates, choice, assignment and write; `Rotate`,
`RotateDrop` and `Rebind` change sockets, `Sampled`, `SamplesAge` and `FlowIdles`
what is known and for how long.

Abstractions. Each send may compute any ranking, so a failing path is one that later
rankings leave out. A send takes at most `MaxLag` ticks from reading the clock to
applying the policy; without such a bound promotions could be arbitrarily close. The
observed-endpoint fan-out and the availability gauge are left out; demotions
are in `SourcePath`.

`send_paths`: two senders, three sources to one address and one to another, one
socket with generations up to 2, two flows and room for one. It shows `TypeOK`,
`SourceWasCurrent`, `SpreadKept` and `PromotionsPaced`. No liveness: a send has no
loop and waits for locks only.

## 9. Proofs

Each component has a module of proofs, which extends the component's module. Every
theorem is for all values of the constants, from the named assumption of that
module alone; every leaf is checked. TLC has checked each inductive
invariant below on the runs' instances. The `*Step` and `*Kept` lemmas have one
step per action of `Next`.

| module | assumption | theorems |
|---|---|---|
| `SourcePath_proofs` | `ConstantsAssumption` | `TypeCorrect`, `SamplesAttributed`, `DropIsFinal`, `AlwaysWithinBudgets`, `CloseKeepsNothing`, `RotatesOnlyBlamed` |
| `PathEvidence_proofs` | the same | `EvidenceRefined` |
| `EndpointUpdate_proofs` | `ConstantsAssumption` | `UpdateTypeCorrect`, `UpdatesInOrder`, `CloseIsFinal`, `NobodyIsForgotten` |
| `EndpointAddr_proofs` | `EndpointAddrAssumption` | `AddrTypeCorrect`, `TrustIsEarned`, `BestStaysLive`, `CycleFollowsBest`, `HoldWindowKept`, `NeverFlaps` |
| `SendPaths_proofs` | `SendPathsAssumption` | `PathsTypeCorrect`, `SourceOfCall`, `SpreadStays`, `PromotionsArePaced` |
| `RelayManager_proofs` | `RelayAssumption` | `RelayTypeCorrect`, `MapsAlwaysAgree`, `WorkWillReport`, `DiscoInfoAlwaysHeld`, `SuccessesToldOnce`, `LoopIsSingle`, `StopAlwaysThorough` |
| `PeerMap_proofs` | `PeerMapAssumption` | `PeerMapTypeCorrect`, `AddressesInverse`, `SingleRelay`, `NodeIndexesInStep`, `DiscoIndexInStep` |

The assumptions say of which kind a constant is and which sets are disjoint. They
bound nothing: the numbers of sockets, goroutines, peers, addresses, flows and
servers are arbitrary, infinite ones included where the code does not need to count
(`SendPathsAssumption` has finitely many paths, since a ranking lists them).
The bounds that only limit the search (`MaxRebinds`, `MaxNow`, `Budget`, ...) are
arbitrary natural numbers.

### `SourcePath_proofs`

`TypeOK` is inductive with `IsFiniteSet(pending)`, without which counting losses
would not yield a number.

`SampleAttribution` is not inductive: it speaks of samples only, and the label is
made of values that were read long before. The argument has three layers.

1. `SockInv`. `LockInv`: a thread between store and bind is the holder of
   `sourcePath.mu`, and `binding` is its socket. `GenInv`: the generations in
   `opened[s]` grow strictly, none exceeds `sockGen[s]`, and they are below
   it while the bind is to come. So a generation names at most one UDP socket.
   `Grows`: `opened` is only appended to and `sockGen` never decreases.
2. `AttrInv` follows a label on its way. The source of a probe is not newer than
   the UDP socket it is about to be written to (`WriteInv`) or has left from
   (`WireInv`); the stamp on a Pong is not older than the UDP socket it came in on
   (`RxInv`); a pending probe carries the source its goroutine took (`PendInv`).
   A Pong is accepted only if source and stamp are equal, so both are the
   generation of the UDP socket in between (`SampleInv`, `AttrImplies`).
3. `DropInv`: a dropped source is older than the socket's generation
   (`StaleInv`), so a probe registered under it after the drop will fail its
   look-up and never reach the wire (`GoneInv`); nobody can answer it.

`WithinBudgets` and `ClosedKeepsNothing` rest on `BudgetInv`, which adds that the
sets counted are finite. The counting is in lemmas: what is left of a set within
budget is within budget (`FewerInBudget`), one more probe that `HasBudget` admits
keeps it so, for the peers as well (`AddedInBudget`), and what a trim keeps is at
most its limit (`TrimmedFits`).

`OnlyBlamedSocketsRotated` speaks of a step; what has to be carried up to it is
`BlameInv`: a source that a sender took is not newer than its socket's generation,
and if a sender has failed, its source still is the current one and the socket is
open, then a write has failed on that very UDP socket. `SocketsMove` and `CallsMove`
separate what a step may do to sockets and to calls, so that the invariant
needs to be shown for the two once and not for every pair of actions.

### `PathEvidence_proofs`

`EvidenceRefined`: `Spec => ImplementsPathEvidence`, under the mapping `Evidence` of
`SourcePath`. `EvidenceStep` shows that a step under the invariants is a step of
`PathEvidence`: a successful bind opens (`OpenStep`), an accepted Pong teaches
(`LearnStep`), `dropSourceLocked` retires (`RetireStep`), and everything else loses
evidence at most (`LoseStep`). Two more invariants are needed. `BehindInv`: a
rotation that comes to its drop has left its UDP socket behind, so that only
sockets that are no longer current are retired. `OnceInv`: an answered probe pends no
more, so that a duplicate Pong finds nothing. That `dropSourceLocked` removes exactly
the evidence about one UDP socket is `SampleAttribution` again (`SourceIsSocket`).
A source that was stored but never bound has no UDP socket; dropping it retires
nothing.

### `EndpointUpdate_proofs`

The inductive invariant is `UpdateInv`: `endpointsUpdateActive` is set exactly while
there is an update, and there is one at most (`OneUpdate`); what an update is about to
report is what it has stored, and if none is about to, the stored has been reported
(`Reported`); how far a `Close` has come says what is left to stop (`Closing`). The
last matters since `NothingAfterClose` only speaks of the time after a `Close` has
returned. `SomebodyWillWake` is inductive as it stands, on top of the types.

### `EndpointAddr_proofs`

`AddrInv` is `TypeOK` with `TrustEarned`, `BestIsLive` and `Good`: a lifetime probe is
about the best address. The methods call
each other, each on the record its caller left half changed, so the lemmas are about
operators on records: a method that has no evidence leads from a good record to a good
one that has lost trust or kept its best address (`Quiet`), and one that has evidence
for an address `a` may in addition have made `a` the trusted best address (`Evident`).
A best address that the endpoint has no state for was there before (`Fresh`), after
every method but a pong by a relay for a direct ping (`HandlePong`).
Composing these gives every action. `NoFlapping` is a fact about `betterAddr`
alone, for all records and latencies; it is proved by the cases of the comparison.
`HoldKept` follows from what `Evident` says of the hold (`Holds`).

### `SendPaths_proofs`

The two strategies have an invariant each, as they share no state but the `pc` of a
send. `FlowInv`: every source that is bound from its look-up on has been seen by a
send, what it took and what the table gives it are among them (`Seen`), a send
is under way under its strategy only (`Strategic`), and the flow table is finite and
within its limit, which assigning keeps because eviction leaves room for one
(`FlowLimit`). `DualInv`: `Paced`, the last replacement is at most `MaxLag` older
than the last promotion, since a send whose clock is behind stores its own time.
`SpreadStays` and `PromotionsArePaced` are then about one `Apply`; `FillStep`,
`PromoteStep` and `KeepStep` say which addresses the pair that it installs has.

### `RelayManager_proofs`

`Inv` has parts. `AllocInv` and `HandInv` are about the maps and what they hold
(`HandMaps`, `Routes`, `InfoHeld`, and `Told`, which counts successes that are owed to an
endpoint). `LoopInv` is about the loop's call stack: only its top may wait for a
goroutine, and the work it waits for is in the maps (`StackInv`); the loop is busy
exactly while the stack is not empty. `RunInv` is `OneLoop`: token, started
goroutine and running loop are one in number. `PassInv` is about `stopWorkRunLoop`: a stop is the
last task of the stack; in each pass the work of its kind that the endpoint still has
in the maps is what the pass has left or is waiting for (`Sound`); and during the second
there are no allocations and no task but waiting for a handshake. `CallsInv` (each caller waits with a call of its own) and
`CountInv` are about callers and counters.

`StackInv` is what makes the rest inductive: the tasks below the top
have not begun, so whatever the top does to the maps while it waits cannot pull work
away from under a task that has been promised it. `StopIsThorough` is an action
property about the step that ends the second pass. It needs `PassInv`, since a pass goes
over the work that it found when it began, and a cancelled allocation that had
succeeded starts a handshake in between: it does so only during the first pass, so the
second finds it. With the passes exchanged the property fails.

### `PeerMap_proofs`

None of the five properties is inductive by itself: an address is taken from its former
owner by way of that owner's set of addresses, the earlier relay address is found
through a third map, and deleting an endpoint uses all of them. The inductive invariant
`IndInv` is the conjunction of the five relations of an index (`Good`), with `Blank`:
a key that is not known has no addresses. The lemmas `SetAddr`, `SetAddrs`, `Upsert`,
`Delete` and `UpsertsPeer` show that each method turns a good index into a good
one; `NextIndInv` has a step per action.

### Left to TLC

Liveness, which the prover does not handle: `CallsEnd`, `CloseReturns`,
`CallMeMaybeSent`, `StaticIsAdvertised`, `NoticedIsAdvertised`, `Settles`. The two
counterexamples of section 10.

## 10. Disagreements

Two have a run of their own, which finds the counterexample:

* `sourcepath_closed`: neither a rotation nor `Rebind` looks at `closed`, so one
  that is under way during `Conn.Close` opens a socket on the closed Conn.
* `peer_map_stale`: `updateNodes` removes endpoints of peers that are gone only if
  two counts differ. A network map that drops one peer and brings one that
  is refused leaves the counts equal and the dropped peer's endpoint in place.

Others are stated in the modules as definitions that no run lists; adding one
to the configuration named shows the counterexample:

* `DemotedUntilRecovered` (`SourcePathSenders.cfg`): the ROADMAP says a failing address
  is sent to through one path only for some seconds. Every failure also rotates, and
  the rotation deletes the demotion.
* `LostProbesRotate` (`SourcePathLoss.cfg`, as a property): expired probes are counted
  and their streak reset; if the budget then refuses the probe that noticed,
  the rotation never happens.
* `FileIsAdvertised` (`EndpointUpdateFile.cfg`): a write between the first read of the
  file and `Add` is not noticed when there is no polling.
* `NoHoldWithoutPath` (`EndpointAddrPaths.cfg`): `deleteEndpointLocked` clears the best
  address and leaves `lastDirectVsRelaySwap`, contrary to the comment of
  `clearBestAddrLocked`.
* `SameRelayReplaced` (`EndpointAddrPaths.cfg` with two relay addresses): a relay address promoted by a pong loses `relayServerDisco`, so a
  newer handshake with the same server need not replace it.
* `KnownHasPeer` (`PeerMapIndexes.cfg`): `knownPeerDiscoKey` reports keys of which no
  peer is left, for `nodesOfDisco` keeps empty sets.

Two can be read off the code. `handlePongConnLocked` decides by the pong's `src`
(`endpoint.go:2477`) whether the ping's address must still have an `endpointState`,
with the comment that relayed addresses have none; but the address that is promoted is
the ping's. A pong that comes by a relay for a direct ping would make a deleted
address the best one, the "[unexpected]" case of `startDiscoPingLocked`. A peer that
runs this code answers by the way the ping came; `BestIsLive` has the case as its
exception. And ROADMAP Phase 25 promises a failover from
the primary source, but `noteSourcePathPrimarySendFailure` returns at once unless the
strategy is active-backup, and its callers (`endpoint.go:1759`,
`magicsock.go:1606` and `1668`) are in the branches of other strategies.

## 11. Files

* `SourcePath.tla`, `PathEvidence.tla`, `SourcePath_proofs.tla`,
  `PathEvidence_proofs.tla`, `MCSourcePath.tla`, `SourcePath*.cfg`
* `EndpointUpdate.tla`, `EndpointUpdate_proofs.tla`, `MCEndpointUpdate.tla`,
  `EndpointUpdate*.cfg`
* `EndpointAddr.tla`, `EndpointAddr_proofs.tla`, `MCEndpointAddr.tla`,
  `EndpointAddrPaths.cfg`
* `RelayManager.tla`, `RelayManager_proofs.tla`, `MCRelayManager.tla`,
  `RelayManagerWork.cfg`
* `PeerMap.tla`, `PeerMap_proofs.tla`, `MCPeerMap.tla`, `PeerMap*.cfg`
* `SendPaths.tla`, `SendPaths_proofs.tla`, `MCSendPaths.tla`, `SendPathsChoice.cfg`
* `PROJECT.json`: components, runs, mutants, the map from definitions to source
  lines, findings, hazards, theorems

A definition introduced by "Variant:" is a plausible mistake in the definition
that follows it. It is used by no specification; replacing the real one by it
makes the property named in `PROJECT.json` fail.
