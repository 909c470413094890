---------------------------- MODULE EndpointUpdate ----------------------------
(****************************************************************************)
(* How a node comes to advertise its endpoints: Conn.ReSTUN, which starts or *)
(* re-queues updateEndpoints; the watcher of the operator's extra-endpoints  *)
(* file; call-me-maybe messages that wait for fresh endpoints; and           *)
(* Conn.Close, which has to see all of these goroutines off.                 *)
(*                                                                          *)
(* One action is one critical section of Conn.mu, or one step outside of it. *)
(* Nobody holds Conn.mu from one action to the next: Close gives it up while *)
(* it waits on muCond.  Of the endpoints a node finds, the operator's are    *)
(* kept apart (static and extra); the rest is always there and left out.     *)
(****************************************************************************)
EXTENDS Naturals, FiniteSets

CONSTANTS
  Files,            \* contents that parseAndApply accepts, as sets of endpoints
  NoExtra,          \* the content of a missing or an empty file
  Broken,           \* content that it refuses: half written, too large, writable by all
  Statics,          \* values of staticEndpoints
  Unset,            \* before the first update
  Torn,             \* what a read of staticEndpoints amid its assignment yields
  Peers,            \* endpoints that want to send a call-me-maybe, once each
  Updaters,         \* identities for goroutines that run updateEndpoints
  Closers,          \* goroutines that call Conn.Close
  Polling,          \* TS_EXPERIMENTAL_EXTRA_ENDPOINTS_POLL_S is set
  FsnotifyMayFail,  \* bound: whether fsnotify errors are explored
  MaxWrites,        \* bound: writes of the file
  MaxAsks,          \* bound: ReSTUN calls under way
  MaxFailures,      \* bound: failures of determineEndpoints while open
  MaxStale,         \* bound: times the known endpoints grow too old
  MaxStops          \* bound: times the user stops the node

ASSUME ConstantsAssumption ==
  /\ NoExtra \in Files /\ Broken \notin Files /\ Statics # {}
  /\ Unset \notin Files \cup Statics /\ Torn \notin Statics
  /\ Updaters # {}
  /\ Polling \in BOOLEAN /\ FsnotifyMayFail \in BOOLEAN
  /\ MaxWrites \in Nat /\ MaxAsks \in Nat \ {0} /\ MaxFailures \in Nat
  /\ MaxStale \in Nat /\ MaxStops \in Nat

VARIABLES
  \* Conn
  closed, active, want, static, last, fresh, refresh, timer, stopped, derpMap,
  upc, found,      \* updateEndpoints goroutines, and what they have found
  told,            \* the argument of the last epFunc call
  asks,            \* ReSTUN calls that have not taken Conn.mu yet
  cmm,             \* what became of a peer's call-me-maybe
  cpc,             \* Close calls
  \* extraEndpointsState
  file, watched, event, cur, watch, stopCh,
  noticed,         \* history: the file was written while it was watched
  writes, failures, stales, stops

connVars  == <<closed, active, want, static, last, fresh, refresh, timer, stopped, derpMap>>
fileVars  == <<file, watched, event, cur, watch, stopCh, noticed, writes>>
boundVars == <<failures, stales, stops>>
vars == <<connVars, upc, found, told, asks, cmm, cpc, fileVars, boundVars>>

\* Before anything is found.
NoEndpoints == [static |-> Unset, extra |-> Unset]

-----------------------------------------------------------------------------
(* Conn.ReSTUN and updateEndpoints.                                          *)

\* Variant: an update that is under way is not noticed.
ReSTUNUnchecked ==
  \/ /\ closed \/ stopped
     /\ UNCHANGED <<active, want, upc>>
  \/ /\ ~closed /\ ~stopped
     /\ active' = TRUE
     /\ \E u \in Updaters : upc[u] = "none" /\ upc' = [upc EXCEPT ![u] = "begin"]
     /\ UNCHANGED want

\* Variant: a request during an update is taken to be served by it.
ReSTUNForgets ==
  \/ /\ closed \/ stopped \/ active
     /\ UNCHANGED <<active, want, upc>>
  \/ /\ ~closed /\ ~stopped /\ ~active
     /\ active' = TRUE
     /\ \E u \in Updaters : upc[u] = "none" /\ upc' = [upc EXCEPT ![u] = "begin"]
     /\ UNCHANGED want

\* ReSTUN: ignored, left for the end of the update under way, or started.
ReSTUN ==
  \/ /\ closed \/ stopped
     /\ UNCHANGED <<active, want, upc>>
  \/ /\ ~closed /\ ~stopped /\ active
     /\ want' = TRUE
     /\ UNCHANGED <<active, upc>>
  \/ /\ ~closed /\ ~stopped /\ ~active
     /\ active' = TRUE
     /\ \E u \in Updaters : upc[u] = "none" /\ upc' = [upc EXCEPT ![u] = "begin"]
     /\ UNCHANGED want

\* A goroutine, or a caller that has let go of Conn.mu, gets to its ReSTUN.
Ask ==
  /\ asks > 0
  /\ asks' = asks - 1
  /\ ReSTUN
  /\ UNCHANGED <<closed, static, last, fresh, refresh, timer, stopped, derpMap,
                 found, told, cmm, cpc, fileVars, boundVars>>

\* Port map changes, link changes, first peers, a new DERP map, a new disco key.
Trigger ==
  /\ asks < MaxAsks
  /\ asks' = asks + 1
  /\ UNCHANGED <<connVars, upc, found, told, cmm, cpc, fileVars, boundVars>>

\* determineEndpoints up to the static endpoints, which it reads without Conn.mu.
FindStatic(u) ==
  /\ upc[u] = "begin"
  /\ found' = [found EXCEPT ![u].static = static]
  /\ upc' = [upc EXCEPT ![u] = "found"]
  /\ UNCHANGED <<connVars, told, asks, cmm, cpc, fileVars, boundVars>>

\* It fails when the network report does, which it may once Conn.Close has cancelled
\* connCtx, or, after all that, when the local addresses cannot be had.
FindFailed(u) ==
  /\ \/ /\ upc[u] = "begin" /\ closed
        /\ UNCHANGED failures
     \/ /\ upc[u] \in {"begin", "set"} /\ failures < MaxFailures
        /\ failures' = failures + 1
  /\ upc' = [upc EXCEPT ![u] = "finish"]
  /\ UNCHANGED <<connVars, found, told, asks, cmm, cpc, fileVars, stales, stops>>

\* extraEndpointsCurrent, under the watcher's own lock.
FindExtra(u) ==
  /\ upc[u] = "found"
  /\ found' = [found EXCEPT ![u].extra = cur]
  /\ upc' = [upc EXCEPT ![u] = "set"]
  /\ UNCHANGED <<connVars, told, asks, cmm, cpc, fileVars, boundVars>>

\* setEndpoints before there is a DERP map and with no STUN result.
SetEndpointsEarly(u) ==
  /\ upc[u] = "set"
  /\ ~derpMap
  /\ upc' = [upc EXCEPT ![u] = "finish"]
  /\ UNCHANGED <<connVars, found, told, asks, cmm, cpc, fileVars, boundVars>>

\* Variant: what waits for fresh endpoints is only woken when they changed.
SetEndpointsOnlyChanged(u) ==
  /\ upc[u] = "set"
  /\ last' = found[u]
  /\ upc' = [upc EXCEPT ![u] = IF found[u] # last THEN "notify" ELSE "finish"]
  /\ fresh' = TRUE
  /\ refresh' = IF found[u] # last THEN {} ELSE refresh
  /\ cmm' = [p \in Peers |-> IF p \in refresh /\ found[u] # last THEN "want" ELSE cmm[p]]
  /\ UNCHANGED <<closed, active, want, static, timer, stopped, derpMap, found, told,
                 asks, cpc, fileVars, boundVars>>

\* setEndpoints: everybody who waits for fresh endpoints is woken.
SetEndpoints(u) ==
  /\ upc[u] = "set"
  /\ last' = found[u]
  /\ upc' = [upc EXCEPT ![u] = IF found[u] # last THEN "notify" ELSE "finish"]
  /\ fresh' = TRUE
  /\ refresh' = {}
  /\ cmm' = [p \in Peers |-> IF p \in refresh THEN "want" ELSE cmm[p]]
  /\ UNCHANGED <<closed, active, want, static, timer, stopped, derpMap, found, told,
                 asks, cpc, fileVars, boundVars>>

\* epFunc, outside of Conn.mu.
Notify(u) ==
  /\ upc[u] = "notify"
  /\ told' = found[u]
  /\ upc' = [upc EXCEPT ![u] = "finish"]
  /\ UNCHANGED <<connVars, found, asks, cmm, cpc, fileVars, boundVars>>

\* Variant: closed is not looked at.
FinishWhenClosed(u) ==
  /\ upc[u] = "finish"
  /\ found' = [found EXCEPT ![u] = NoEndpoints]
  /\ want' = FALSE
  /\ active' = FALSE
  /\ upc' = [upc EXCEPT ![u] = "none"]
  /\ timer' \in BOOLEAN
  /\ UNCHANGED <<closed, static, last, fresh, refresh, stopped, derpMap, told,
                 asks, cmm, cpc, fileVars, boundVars>>

\* Variant: a closed Conn returns early, before it says that it is done.
FinishSilently(u) ==
  /\ upc[u] = "finish"
  /\ found' = [found EXCEPT ![u] = NoEndpoints]
  /\ want' = FALSE
  /\ active' = closed
  /\ upc' = [upc EXCEPT ![u] = "none"]
  /\ UNCHANGED <<closed, static, last, fresh, refresh, timer, stopped, derpMap,
                 told, asks, cmm, cpc, fileVars, boundVars>>

\* The deferred end of updateEndpoints: run again if somebody asked, else set
\* or stop the timer (shouldDoPeriodicReSTUNLocked) and let Close through.
Finish(u) ==
  /\ upc[u] = "finish"
  /\ found' = [found EXCEPT ![u] = NoEndpoints]
  /\ want' = FALSE
  /\ \/ /\ ~closed /\ want
        /\ upc' = [upc EXCEPT ![u] = "begin"]
        /\ UNCHANGED <<active, timer>>
     \/ /\ closed \/ ~want
        /\ upc' = [upc EXCEPT ![u] = "none"]
        /\ active' = FALSE
        /\ timer' \in IF closed THEN {timer} ELSE IF stopped THEN {FALSE} ELSE BOOLEAN
  /\ UNCHANGED <<closed, static, last, fresh, refresh, stopped, derpMap, told,
                 asks, cmm, cpc, fileVars, boundVars>>

\* doPeriodicSTUN, on the timer's goroutine.
TimerFires ==
  /\ timer
  /\ asks < MaxAsks
  /\ timer' = FALSE
  /\ asks' = asks + 1
  /\ UNCHANGED <<closed, active, want, static, last, fresh, refresh, stopped, derpMap,
                 upc, found, told, cmm, cpc, fileVars, boundVars>>

-----------------------------------------------------------------------------
(* What calls for new endpoints.                                             *)

\* SetStaticEndpoints.  The assignment, three words long, races with FindStatic:
\* an update that reads meanwhile gets the old value, the new one, or a mix.
SetStaticEndpoints(v) ==
  /\ v # static
  /\ asks < MaxAsks
  /\ static' = v
  /\ asks' = asks + 1
  /\ found' \in {found} \cup {[found EXCEPT ![u].static = Torn] :
                              u \in {w \in Updaters : upc[w] = "found"}}
  /\ UNCHANGED <<closed, active, want, last, fresh, refresh, timer, stopped, derpMap,
                 upc, told, cmm, cpc, fileVars, boundVars>>

\* SetDERPMap: a first map, or none any more.  (Trigger stands for a changed one.)
SetDERPMap ==
  /\ \/ /\ derpMap
        /\ derpMap' = FALSE
        /\ UNCHANGED asks
     \/ /\ ~derpMap
        /\ asks < MaxAsks
        /\ derpMap' = TRUE
        /\ asks' = asks + 1
  /\ UNCHANGED <<closed, active, want, static, last, fresh, refresh, timer, stopped,
                 upc, found, told, cmm, cpc, fileVars, boundVars>>

\* SetPrivateKey with the zero key: the user stops the node ...
SetPrivateKeyZero ==
  /\ ~stopped
  /\ stops < MaxStops
  /\ stops' = stops + 1
  /\ stopped' = TRUE
  /\ timer' = FALSE
  /\ refresh' = {}
  /\ cmm' = [p \in Peers |-> IF p \in refresh THEN "dropped" ELSE cmm[p]]
  /\ UNCHANGED <<closed, active, want, static, last, fresh, derpMap, upc, found, told,
                 asks, cpc, fileVars, failures, stales>>

\* ... and starts it again.
SetPrivateKey ==
  /\ stopped
  /\ asks < MaxAsks
  /\ stopped' = FALSE
  /\ asks' = asks + 1
  /\ UNCHANGED <<closed, active, want, static, last, fresh, refresh, timer, derpMap,
                 upc, found, told, cmm, cpc, fileVars, boundVars>>

\* endpointsFreshEnoughDuration goes by.
GoStale ==
  /\ fresh
  /\ stales < MaxStale
  /\ fresh' = FALSE
  /\ stales' = stales + 1
  /\ UNCHANGED <<closed, active, want, static, last, refresh, timer, stopped, derpMap,
                 upc, found, told, asks, cmm, cpc, fileVars, failures, stops>>

\* A peer needs the endpoints that this node has.
WantCallMeMaybe(p) ==
  /\ cmm[p] = "idle"
  /\ cmm' = [cmm EXCEPT ![p] = "want"]
  /\ UNCHANGED <<connVars, upc, found, told, asks, cpc, fileVars, boundVars>>

\* enqueueCallMeMaybe: send, or wait for fresh endpoints.
EnqueueCallMeMaybe(p) ==
  /\ cmm[p] = "want"
  /\ \/ /\ fresh
        /\ cmm' = [cmm EXCEPT ![p] = "sent"]
        /\ UNCHANGED <<refresh, asks>>
     \/ /\ ~fresh
        /\ asks < MaxAsks
        /\ cmm' = [cmm EXCEPT ![p] = "queued"]
        /\ refresh' = refresh \cup {p}
        /\ asks' = asks + 1
  /\ UNCHANGED <<closed, active, want, static, last, fresh, timer, stopped, derpMap,
                 upc, found, told, cpc, fileVars, boundVars>>

-----------------------------------------------------------------------------
(* The operator's file, and runWatcher.                                      *)

\* The operator replaces the file.
WriteFile(c) ==
  /\ writes < MaxWrites
  /\ c # file
  /\ writes' = writes + 1
  /\ file' = c
  /\ event' = watched
  /\ noticed' = watched
  /\ UNCHANGED <<connVars, upc, found, told, asks, cmm, cpc, watched, cur, watch,
                 stopCh, boundVars>>

\* The goroutine begins with fsnotify.NewWatcher and Add.
WatchAdd ==
  /\ watch = "starting"
  /\ watch' = "waiting"
  /\ watched' \in {TRUE} \cup (IF FsnotifyMayFail THEN {FALSE} ELSE {})
  /\ UNCHANGED <<connVars, upc, found, told, asks, cmm, cpc, file, event, cur,
                 stopCh, noticed, writes, boundVars>>

\* An event or the poll ticker wakes it.
WatchWake ==
  /\ watch = "waiting"
  /\ event \/ Polling
  /\ event' = FALSE
  /\ watch' = "changed"
  /\ UNCHANGED <<connVars, upc, found, told, asks, cmm, cpc, file, watched, cur, stopCh,
                 noticed, writes, boundVars>>

\* Variant: content that was refused is put in force.
WatchParseUnchecked ==
  /\ watch = "changed"
  /\ cur' = file
  /\ watch' = IF cur' # cur THEN "reload" ELSE "waiting"
  /\ UNCHANGED <<connVars, upc, found, told, asks, cmm, cpc, file, watched, event,
                 stopCh, noticed, writes, boundVars>>

\* handleFileChange: refused content leaves the last good set in force.  Nobody
\* else writes cur, so the snapshot that the new set is compared with is cur.
WatchParse ==
  /\ watch = "changed"
  /\ cur' = IF file = Broken THEN cur ELSE file
  /\ watch' = IF cur' # cur THEN "reload" ELSE "waiting"
  /\ UNCHANGED <<connVars, upc, found, told, asks, cmm, cpc, file, watched, event,
                 stopCh, noticed, writes, boundVars>>

\* s.reload: ReSTUN("extra-endpoints-changed"), on the watcher's goroutine.
WatchReload ==
  /\ watch = "reload"
  /\ ReSTUN
  /\ watch' = "waiting"
  /\ UNCHANGED <<closed, static, last, fresh, refresh, timer, stopped, derpMap, found,
                 told, asks, cmm, cpc, file, watched, event, cur, stopCh, noticed,
                 writes, boundVars>>

WatchExit ==
  /\ watch = "waiting"
  /\ stopCh
  /\ watch' = "exited"
  /\ UNCHANGED <<connVars, upc, found, told, asks, cmm, cpc, file, watched, event, cur,
                 stopCh, noticed, writes, boundVars>>

-----------------------------------------------------------------------------
(* Conn.Close.                                                               *)

\* stopExtraEndpointsWatcher: stopOnce closes stopCh ...
CloseStop(k) ==
  /\ cpc[k] = "idle"
  /\ stopCh' = TRUE
  /\ cpc' = [cpc EXCEPT ![k] = "join"]
  /\ UNCHANGED <<connVars, upc, found, told, asks, cmm, file, watched, event, cur,
                 watch, noticed, writes, boundVars>>

\* ... and wg.Wait returns.
CloseJoin(k) ==
  /\ cpc[k] = "join"
  /\ watch = "exited"
  /\ cpc' = [cpc EXCEPT ![k] = "lock"]
  /\ UNCHANGED <<connVars, upc, found, told, asks, cmm, fileVars, boundVars>>

\* Only the first Close does anything.
CloseLock(k) ==
  /\ cpc[k] = "lock"
  /\ \/ /\ closed
        /\ cpc' = [cpc EXCEPT ![k] = "nothing"]
        /\ UNCHANGED <<closed, timer>>
     \/ /\ ~closed
        /\ closed' = TRUE
        /\ timer' = FALSE
        /\ cpc' = [cpc EXCEPT ![k] = "drain"]
  /\ UNCHANGED <<active, want, static, last, fresh, refresh, stopped, derpMap, upc,
                 found, told, asks, cmm, fileVars, boundVars>>

\* muCond.Wait until goroutinesRunningLocked says no.
CloseDrain(k) ==
  /\ cpc[k] = "drain"
  /\ ~active
  /\ cpc' = [cpc EXCEPT ![k] = "closed"]
  /\ UNCHANGED <<connVars, upc, found, told, asks, cmm, fileVars, boundVars>>

-----------------------------------------------------------------------------
\* NewConn's startExtraEndpointsWatcher has read the file once and started its
\* goroutine; the node has its private key.
Init ==
  /\ closed = FALSE /\ active = FALSE /\ want = FALSE
  /\ static \in Statics /\ last = NoEndpoints /\ told = NoEndpoints
  /\ fresh = FALSE /\ refresh = {} /\ timer = FALSE /\ stopped = FALSE /\ derpMap = FALSE
  /\ upc = [u \in Updaters |-> "none"] /\ found = [u \in Updaters |-> NoEndpoints]
  /\ asks = 0 /\ cmm = [p \in Peers |-> "idle"] /\ cpc = [k \in Closers |-> "idle"]
  /\ file \in Files \cup {Broken} /\ cur = IF file = Broken THEN NoExtra ELSE file
  /\ watched = FALSE /\ event = FALSE /\ watch = "starting"
  /\ stopCh = FALSE /\ noticed = FALSE /\ writes = 0
  /\ failures = 0 /\ stales = 0 /\ stops = 0

Update(u) ==
  \/ FindStatic(u) \/ FindFailed(u) \/ FindExtra(u) \/ SetEndpointsEarly(u)
  \/ SetEndpoints(u) \/ Notify(u) \/ Finish(u)

Watch == WatchAdd \/ WatchWake \/ WatchParse \/ WatchReload \/ WatchExit

\* What a call of Close does once it has begun.
CloseStep(k) == CloseJoin(k) \/ CloseLock(k) \/ CloseDrain(k)

Next ==
  \/ Ask \/ Trigger \/ TimerFires
  \/ \E u \in Updaters : Update(u)
  \/ \E v \in Statics : SetStaticEndpoints(v)
  \/ SetDERPMap \/ SetPrivateKeyZero \/ SetPrivateKey \/ GoStale
  \/ \E p \in Peers : WantCallMeMaybe(p) \/ EnqueueCallMeMaybe(p)
  \/ \E c \in Files \cup {Broken} : WriteFile(c)
  \/ Watch
  \/ \E k \in Closers : CloseStop(k) \/ CloseStep(k)

Spec == Init /\ [][Next]_vars

\* Goroutines that can run do run.  Of two ready cases of runWatcher's select,
\* Go picks one at random, so a closed stopCh is not passed over for ever.
Fairness ==
  /\ WF_vars(Ask)
  /\ \A u \in Updaters : WF_vars(Update(u))
  /\ \A p \in Peers : SF_vars(EnqueueCallMeMaybe(p))
  /\ WF_vars(Watch) /\ SF_vars(WatchExit)
  /\ \A k \in Closers : WF_vars(CloseStep(k))

FairSpec == Spec /\ Fairness

-----------------------------------------------------------------------------
(* What is promised.                                                         *)

Endpoints == [static : Statics \cup {Unset, Torn}, extra : Files \cup {Unset}]

\* Every variable has the type of the Go value that it stands for.
TypeOK ==
  /\ closed \in BOOLEAN /\ active \in BOOLEAN /\ want \in BOOLEAN /\ fresh \in BOOLEAN
  /\ timer \in BOOLEAN /\ stopped \in BOOLEAN /\ derpMap \in BOOLEAN
  /\ static \in Statics /\ last \in Endpoints /\ told \in Endpoints
  /\ refresh \in SUBSET Peers /\ asks \in 0..MaxAsks
  /\ upc \in [Updaters -> {"none", "begin", "found", "set", "notify", "finish"}]
  /\ found \in [Updaters -> Endpoints]
  /\ cmm \in [Peers -> {"idle", "want", "queued", "sent", "dropped"}]
  /\ cpc \in [Closers -> {"idle", "join", "lock", "drain", "nothing", "closed"}]
  /\ file \in Files \cup {Broken} /\ cur \in Files
  /\ watched \in BOOLEAN /\ event \in BOOLEAN /\ stopCh \in BOOLEAN /\ noticed \in BOOLEAN
  /\ watch \in {"starting", "waiting", "changed", "reload", "exited"}
  /\ writes \in 0..MaxWrites /\ failures \in 0..MaxFailures
  /\ stales \in 0..MaxStale /\ stops \in 0..MaxStops

\* Updates never overlap, so the control plane hears of endpoints in the order
\* in which they were found: between updates it knows what the Conn knows.
ToldInOrder ==
  /\ \A u, v \in Updaters : upc[u] # "none" /\ upc[v] # "none" => u = v
  /\ (~\E u \in Updaters : upc[u] \in {"notify"}) => told = last

\* When Conn.Close has returned, no update and no watcher is left, and no timer
\* will start another.
NothingAfterClose ==
  (\E k \in Closers : cpc[k] = "closed") =>
    /\ \A u \in Updaters : upc[u] = "none"
    /\ ~timer
    /\ watch = "exited"

\* A peer waits in onEndpointRefreshed only if somebody will wake it: an update
\* that has yet to set endpoints, a ReSTUN call, or a request left with want.
\* Only a failed or an early update, a stop or a Close leaves it there.
SomebodyWillWake ==
  refresh # {} /\ failures = 0 /\ derpMap /\ ~stopped /\ ~closed =>
    asks > 0 \/ want \/ \E u \in Updaters : upc[u] \in {"begin", "found", "set"}

\* Every call of Conn.Close returns.
CloseReturns == \A k \in Closers : cpc[k] = "join" ~> cpc[k] \in {"nothing", "closed"}

\* A call-me-maybe is sent in the end, while the node is up and updates succeed.
CallMeMaybeSent ==
  \A p \in Peers :
    cmm[p] = "want" ~> cmm[p] = "sent" \/ closed \/ stopped \/ stops > 0 \/ ~derpMap

\* The node is up, and the file keeps its content.
Up == ~stopCh /\ ~stopped /\ derpMap
Settled(f) == file = f /\ Up

\* The static endpoints that stay are what the control plane is told in the end,
\* whatever an unlocked read made of them in between.
StaticIsAdvertised == \A v \in Statics : <>[](static = v /\ Up) => <>[](told.static = v)

\* A content that was written while the file was watched, and stays, is what the
\* control plane is told in the end.
NoticedIsAdvertised ==
  \A f \in Files : <>[](Settled(f) /\ noticed) => <>[](told.extra = f)

\* extraendpoints.go: "File changes trigger an immediate ReSTUN".  Whatever is in
\* the file for good is advertised in the end.
FileIsAdvertised == \A f \in Files : <>[]Settled(f) => <>[](told.extra = f)
=============================================================================
