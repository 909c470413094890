------------------------ MODULE EndpointUpdate_proofs ------------------------
(* Proofs about EndpointUpdate, for every value of its constants.            *)
EXTENDS EndpointUpdate, TLAPS

-----------------------------------------------------------------------------
(* Types.                                                                    *)

\* The Boolean part of TypeOK.
Flags ==
  /\ closed \in BOOLEAN /\ active \in BOOLEAN /\ want \in BOOLEAN /\ fresh \in BOOLEAN
  /\ timer \in BOOLEAN /\ stopped \in BOOLEAN /\ derpMap \in BOOLEAN
  /\ watched \in BOOLEAN /\ event \in BOOLEAN /\ stopCh \in BOOLEAN /\ noticed \in BOOLEAN

LEMMA NoEndpointsType == NoEndpoints \in Endpoints
BY DEF Endpoints, NoEndpoints

LEMMA TypeInit == Init => TypeOK
<1> SUFFICES ASSUME Init PROVE TypeOK
  OBVIOUS
<1>1. Flags
  BY DEF Init, Flags
<1> QED BY <1>1, NoEndpointsType, ConstantsAssumption DEF Init, TypeOK, Flags

\* Whoever calls it, ReSTUN changes flags and starts at most one update.
LEMMA ReSTUNType ==
  ASSUME TypeOK, ReSTUN
  PROVE  /\ active' \in BOOLEAN /\ want' \in BOOLEAN
         /\ upc' \in [Updaters -> {"none", "begin", "found", "set", "notify", "finish"}]
BY DEF TypeOK, ReSTUN

LEMMA TypeStep == TypeOK /\ [Next]_vars => TypeOK'
<1> SUFFICES ASSUME TypeOK, [Next]_vars PROVE TypeOK'
  OBVIOUS
<1> USE ConstantsAssumption DEF connVars, fileVars, boundVars
<1>1. ASSUME Ask PROVE TypeOK'
  BY <1>1, ReSTUNType DEF Ask, TypeOK
<1>2. ASSUME Trigger PROVE TypeOK'
  BY <1>2 DEF Trigger, TypeOK
<1>3. ASSUME TimerFires PROVE TypeOK'
  <2>1. Flags' BY <1>3 DEF TimerFires, TypeOK, Flags
  <2> QED BY <1>3, <2>1 DEF TimerFires, TypeOK, Flags
<1>4. ASSUME NEW u \in Updaters, FindStatic(u) PROVE TypeOK'
  <2>1. [found[u] EXCEPT !.static = static] \in Endpoints
    BY DEF TypeOK, Endpoints
  <2>2. found' \in [Updaters -> Endpoints]
    BY <1>4, <2>1 DEF FindStatic, TypeOK
  <2> QED BY <1>4, <2>2 DEF FindStatic, TypeOK
<1>5. ASSUME NEW u \in Updaters, FindFailed(u) PROVE TypeOK'
  BY <1>5 DEF FindFailed, TypeOK
<1>6. ASSUME NEW u \in Updaters, FindExtra(u) PROVE TypeOK'
  <2>1. [found[u] EXCEPT !.extra = cur] \in Endpoints
    BY DEF TypeOK, Endpoints
  <2>2. found' \in [Updaters -> Endpoints]
    BY <1>6, <2>1 DEF FindExtra, TypeOK
  <2> QED BY <1>6, <2>2 DEF FindExtra, TypeOK
<1>7. ASSUME NEW u \in Updaters, SetEndpointsEarly(u) PROVE TypeOK'
  BY <1>7 DEF SetEndpointsEarly, TypeOK
<1>8. ASSUME NEW u \in Updaters, SetEndpoints(u) PROVE TypeOK'
  BY <1>8 DEF SetEndpoints, TypeOK
<1>9. ASSUME NEW u \in Updaters, Notify(u) PROVE TypeOK'
  BY <1>9 DEF Notify, TypeOK
<1>10. ASSUME NEW u \in Updaters, Finish(u) PROVE TypeOK'
  <2>1. active' \in BOOLEAN /\ timer' \in BOOLEAN /\ want' \in BOOLEAN
    BY <1>10 DEF Finish, TypeOK
  <2>2. found' \in [Updaters -> Endpoints]
    BY <1>10, NoEndpointsType DEF Finish, TypeOK
  <2>3. upc' \in [Updaters -> {"none", "begin", "found", "set", "notify", "finish"}]
    BY <1>10 DEF Finish, TypeOK
  <2> QED BY <1>10, <2>1, <2>2, <2>3 DEF Finish, TypeOK
<1>11. ASSUME NEW v \in Statics, SetStaticEndpoints(v) PROVE TypeOK'
  <2>1. \A u \in Updaters : [found[u] EXCEPT !.static = Torn] \in Endpoints
    BY DEF TypeOK, Endpoints
  <2>2. found' \in [Updaters -> Endpoints]
    BY <1>11, <2>1 DEF SetStaticEndpoints, TypeOK
  <2> QED BY <1>11, <2>2 DEF SetStaticEndpoints, TypeOK
<1>12. ASSUME SetDERPMap PROVE TypeOK'
  <2>1. Flags' BY <1>12 DEF SetDERPMap, TypeOK, Flags
  <2> QED BY <1>12, <2>1 DEF SetDERPMap, TypeOK, Flags
<1>13. ASSUME SetPrivateKeyZero PROVE TypeOK'
  <2>1. Flags' BY <1>13 DEF SetPrivateKeyZero, TypeOK, Flags
  <2> QED BY <1>13, <2>1 DEF SetPrivateKeyZero, TypeOK, Flags
<1>14. ASSUME SetPrivateKey PROVE TypeOK'
  <2>1. Flags' BY <1>14 DEF SetPrivateKey, TypeOK, Flags
  <2> QED BY <1>14, <2>1 DEF SetPrivateKey, TypeOK, Flags
<1>15. ASSUME GoStale PROVE TypeOK'
  <2>1. Flags' BY <1>15 DEF GoStale, TypeOK, Flags
  <2> QED BY <1>15, <2>1 DEF GoStale, TypeOK, Flags
<1>16. ASSUME NEW p \in Peers, WantCallMeMaybe(p) PROVE TypeOK'
  BY <1>16 DEF WantCallMeMaybe, TypeOK
<1>17. ASSUME NEW p \in Peers, EnqueueCallMeMaybe(p) PROVE TypeOK'
  BY <1>17 DEF EnqueueCallMeMaybe, TypeOK
<1>18. ASSUME NEW c \in Files \cup {Broken}, WriteFile(c) PROVE TypeOK'
  BY <1>18 DEF WriteFile, TypeOK
<1>19. ASSUME Watch PROVE TypeOK'
  <2>1. ASSUME WatchAdd PROVE TypeOK'
    <3>1. watched' \in BOOLEAN BY <2>1 DEF WatchAdd
    <3> QED BY <2>1, <3>1 DEF WatchAdd, TypeOK
  <2>2. ASSUME WatchWake PROVE TypeOK'
    <3>1. Flags' BY <2>2 DEF WatchWake, TypeOK, Flags
    <3> QED BY <2>2, <3>1 DEF WatchWake, TypeOK, Flags
  <2>3. ASSUME WatchParse PROVE TypeOK'
    <3>1. Flags' BY <2>3 DEF WatchParse, TypeOK, Flags
    <3>2. cur' \in Files BY <2>3 DEF WatchParse, TypeOK
    <3> QED BY <2>3, <3>1, <3>2 DEF WatchParse, TypeOK, Flags
  <2>4. ASSUME WatchReload PROVE TypeOK'
    BY <2>4, ReSTUNType DEF WatchReload, TypeOK
  <2>5. ASSUME WatchExit PROVE TypeOK'
    BY <2>5 DEF WatchExit, TypeOK
  <2> QED BY <1>19, <2>1, <2>2, <2>3, <2>4, <2>5 DEF Watch
<1>20. ASSUME NEW k \in Closers, CloseStop(k) PROVE TypeOK'
  BY <1>20 DEF CloseStop, TypeOK
<1>21. ASSUME NEW k \in Closers, CloseStep(k) PROVE TypeOK'
  <2>1. ASSUME CloseJoin(k) PROVE TypeOK'
    BY <2>1 DEF CloseJoin, TypeOK
  <2>2. ASSUME CloseLock(k) PROVE TypeOK'
    <3>1. Flags' BY <2>2 DEF CloseLock, TypeOK, Flags
    <3> QED BY <2>2, <3>1 DEF CloseLock, TypeOK, Flags
  <2>3. ASSUME CloseDrain(k) PROVE TypeOK'
    BY <2>3 DEF CloseDrain, TypeOK
  <2> QED BY <1>21, <2>1, <2>2, <2>3 DEF CloseStep
<1>22. ASSUME UNCHANGED vars PROVE TypeOK'
  BY <1>22 DEF vars, TypeOK
<1> QED
  BY <1>1, <1>2, <1>3, <1>4, <1>5, <1>6, <1>7, <1>8, <1>9, <1>10, <1>11, <1>12, <1>13,
     <1>14, <1>15, <1>16, <1>17, <1>18, <1>19, <1>20, <1>21, <1>22 DEF Next, Update

\* The specification keeps its types: in particular, content of the file that
\* parseAndApply refuses is never in force.
THEOREM UpdateTypeCorrect == Spec => []TypeOK
BY TypeInit, TypeStep, PTL DEF Spec

-----------------------------------------------------------------------------
(* Updates, and the end of the Conn.                                         *)

\* endpointsUpdateActive is set exactly while there is an update, and there is one
\* at most.
OneUpdate ==
  /\ \A u, v \in Updaters : upc[u] # "none" /\ upc[v] # "none" => u = v
  /\ \A u \in Updaters : upc[u] # "none" => active
  /\ active => \E u \in Updaters : upc[u] # "none"

\* What an update is about to report is what setEndpoints has stored; when none is
\* about to, it has been reported.
Reported ==
  /\ \A u \in Updaters : upc[u] = "notify" => found[u] = last
  /\ (\A u \in Updaters : upc[u] # "notify") => told = last

\* How far a Close has come: the watcher has exited, the Conn is closed and will set
\* no timer, the last update is over.
Closing ==
  /\ \A k \in Closers : cpc[k] \in {"lock", "drain", "nothing", "closed"} => watch = "exited"
  /\ \A k \in Closers : cpc[k] \in {"drain", "closed"} => closed
  /\ \A k \in Closers : cpc[k] = "closed" => ~active
  /\ closed => ~timer

UpdateInv == OneUpdate /\ Reported /\ Closing

LEMMA UpdateInit == Init => UpdateInv
BY DEF Init, UpdateInv, OneUpdate, Reported, Closing

\* A request neither overlaps with an update nor starts one on a closed Conn.
LEMMA ReSTUNKeeps ==
  ASSUME TypeOK, UpdateInv, ReSTUN, UNCHANGED <<closed, found, last, told>>
  PROVE  /\ OneUpdate' /\ Reported'
         /\ closed => active' = active
BY DEF TypeOK, ReSTUN, UpdateInv, OneUpdate, Reported

LEMMA UpdateStep == TypeOK /\ UpdateInv /\ [Next]_vars => UpdateInv'
<1> SUFFICES ASSUME TypeOK, UpdateInv, [Next]_vars PROVE UpdateInv'
  OBVIOUS
<1> USE DEF connVars, fileVars, boundVars
<1>0. ASSUME UNCHANGED <<closed, active, timer, last, upc, found, told, cpc, watch>>
      PROVE  UpdateInv'
  BY <1>0 DEF UpdateInv, OneUpdate, Reported, Closing
<1>1. ASSUME Ask PROVE UpdateInv'
  <2>1. OneUpdate' /\ Reported' /\ (closed => active' = active)
    BY <1>1, ReSTUNKeeps DEF Ask
  <2>2. Closing'
    BY <1>1, <2>1 DEF Ask, UpdateInv, Closing
  <2> QED BY <2>1, <2>2 DEF UpdateInv
<1>2. ASSUME TimerFires PROVE UpdateInv'
  BY <1>2 DEF TimerFires, UpdateInv, OneUpdate, Reported, Closing
<1>3. ASSUME NEW u \in Updaters, FindStatic(u) PROVE UpdateInv'
  BY <1>3 DEF FindStatic, TypeOK, UpdateInv, OneUpdate, Reported, Closing
<1>4. ASSUME NEW u \in Updaters, FindFailed(u) PROVE UpdateInv'
  BY <1>4 DEF FindFailed, TypeOK, UpdateInv, OneUpdate, Reported, Closing
<1>5. ASSUME NEW u \in Updaters, FindExtra(u) PROVE UpdateInv'
  BY <1>5 DEF FindExtra, TypeOK, UpdateInv, OneUpdate, Reported, Closing
<1>6. ASSUME NEW u \in Updaters, SetEndpointsEarly(u) PROVE UpdateInv'
  BY <1>6 DEF SetEndpointsEarly, TypeOK, UpdateInv, OneUpdate, Reported, Closing
<1>7. ASSUME NEW u \in Updaters, SetEndpoints(u) PROVE UpdateInv'
  <2>1. OneUpdate' /\ Closing'
    BY <1>7 DEF SetEndpoints, TypeOK, UpdateInv, OneUpdate, Closing
  <2>2. \A v \in Updaters : upc[v] # "notify"
    BY <1>7 DEF SetEndpoints, UpdateInv, OneUpdate
  <2>3. told = last
    BY <2>2 DEF UpdateInv, Reported
  <2>4. Reported'
    BY <1>7, <2>2, <2>3 DEF SetEndpoints, TypeOK, Reported
  <2> QED BY <2>1, <2>4 DEF UpdateInv
<1>8. ASSUME NEW u \in Updaters, Notify(u) PROVE UpdateInv'
  BY <1>8 DEF Notify, TypeOK, UpdateInv, OneUpdate, Reported, Closing
<1>9. ASSUME NEW u \in Updaters, Finish(u) PROVE UpdateInv'
  <2>1. OneUpdate'
    BY <1>9 DEF Finish, TypeOK, UpdateInv, OneUpdate
  <2>2. Reported'
    BY <1>9 DEF Finish, TypeOK, UpdateInv, Reported
  <2>3. Closing'
    BY <1>9 DEF Finish, TypeOK, UpdateInv, OneUpdate, Closing
  <2> QED BY <2>1, <2>2, <2>3 DEF UpdateInv
<1>10. ASSUME NEW v \in Statics, SetStaticEndpoints(v) PROVE UpdateInv'
  <2>1. \A u \in Updaters : upc[u] = "notify" => found'[u] = found[u]
    BY <1>10 DEF SetStaticEndpoints, TypeOK
  <2> QED BY <1>10, <2>1 DEF SetStaticEndpoints, UpdateInv, OneUpdate, Reported, Closing
<1>11. ASSUME SetPrivateKeyZero PROVE UpdateInv'
  BY <1>11 DEF SetPrivateKeyZero, UpdateInv, OneUpdate, Reported, Closing
<1>12. ASSUME Watch PROVE UpdateInv'
  <2>1. ASSUME WatchReload PROVE UpdateInv'
    <3>1. OneUpdate' /\ Reported' /\ (closed => active' = active)
      BY <2>1, ReSTUNKeeps DEF WatchReload
    <3>2. Closing'
      BY <2>1, <3>1 DEF WatchReload, UpdateInv, Closing
    <3> QED BY <3>1, <3>2 DEF UpdateInv
  <2>2. ASSUME WatchAdd \/ WatchWake \/ WatchParse \/ WatchExit PROVE UpdateInv'
    <3>1. /\ UNCHANGED <<closed, active, timer, last, upc, found, told, cpc>>
          /\ watch # "exited"
      BY <2>2 DEF WatchAdd, WatchWake, WatchParse, WatchExit
    <3> QED BY <3>1 DEF UpdateInv, OneUpdate, Reported, Closing
  <2> QED BY <1>12, <2>1, <2>2 DEF Watch
<1>13. ASSUME NEW k \in Closers, CloseStop(k) PROVE UpdateInv'
  BY <1>13 DEF CloseStop, TypeOK, UpdateInv, OneUpdate, Reported, Closing
<1>14. ASSUME NEW k \in Closers, CloseJoin(k) PROVE UpdateInv'
  BY <1>14 DEF CloseJoin, TypeOK, UpdateInv, OneUpdate, Reported, Closing
<1>15. ASSUME NEW k \in Closers, CloseLock(k) PROVE UpdateInv'
  <2>1. OneUpdate' /\ Reported'
    BY <1>15 DEF CloseLock, UpdateInv, OneUpdate, Reported
  <2>2. Closing'
    BY <1>15 DEF CloseLock, TypeOK, UpdateInv, Closing
  <2> QED BY <2>1, <2>2 DEF UpdateInv
<1>16. ASSUME NEW k \in Closers, CloseDrain(k) PROVE UpdateInv'
  BY <1>16 DEF CloseDrain, TypeOK, UpdateInv, OneUpdate, Reported, Closing
<1>17. ASSUME \/ Trigger \/ SetDERPMap \/ SetPrivateKey \/ GoStale
              \/ \E p \in Peers : WantCallMeMaybe(p) \/ EnqueueCallMeMaybe(p)
              \/ \E c \in Files \cup {Broken} : WriteFile(c)
              \/ UNCHANGED vars
       PROVE  UpdateInv'
  BY <1>0, <1>17 DEF Trigger, SetDERPMap, SetPrivateKey, GoStale, WantCallMeMaybe,
                     EnqueueCallMeMaybe, WriteFile, vars
<1> QED
  BY <1>1, <1>2, <1>3, <1>4, <1>5, <1>6, <1>7, <1>8, <1>9, <1>10, <1>11, <1>12, <1>13,
     <1>14, <1>15, <1>16, <1>17 DEF Next, Update, CloseStep

LEMMA UpdateInvariant == Spec => [](TypeOK /\ UpdateInv)
BY TypeInit, TypeStep, UpdateInit, UpdateStep, PTL DEF Spec

\* Updates of any number of goroutines never overlap, so the control plane is told of
\* endpoints in the order in which setEndpoints stored them.
THEOREM UpdatesInOrder == Spec => []ToldInOrder
<1>1. UpdateInv => ToldInOrder
  BY DEF UpdateInv, OneUpdate, Reported, ToldInOrder
<1> QED BY <1>1, UpdateInvariant, PTL

\* When a call of Conn.Close has done its work, no update, no timer and no watcher is
\* left, however many calls there were.
THEOREM CloseIsFinal == Spec => []NothingAfterClose
<1>1. TypeOK /\ UpdateInv => NothingAfterClose
  BY DEF TypeOK, UpdateInv, OneUpdate, Closing, NothingAfterClose
<1> QED BY <1>1, UpdateInvariant, PTL

-----------------------------------------------------------------------------
(* Peers that wait for endpoints.                                            *)

LEMMA WakeInit == Init => SomebodyWillWake
BY DEF Init, SomebodyWillWake

\* A request that is not ignored is left with want or starts an update.
LEMMA ReSTUNWakes ==
  ASSUME TypeOK, ReSTUN, UNCHANGED <<closed, stopped, derpMap, refresh, failures>>
  PROVE  SomebodyWillWake'
BY DEF TypeOK, ReSTUN, SomebodyWillWake

LEMMA WakeStep == TypeOK /\ SomebodyWillWake /\ [Next]_vars => SomebodyWillWake'
<1> SUFFICES ASSUME TypeOK, SomebodyWillWake, [Next]_vars PROVE SomebodyWillWake'
  OBVIOUS
<1> USE DEF connVars, fileVars, boundVars
<1>0. ASSUME UNCHANGED <<refresh, failures, derpMap, stopped, closed, want, upc>>,
             asks' = asks \/ asks' > 0
      PROVE  SomebodyWillWake'
  BY <1>0 DEF SomebodyWillWake
<1>1. ASSUME Ask PROVE SomebodyWillWake'
  BY <1>1, ReSTUNWakes DEF Ask
<1>2. ASSUME NEW u \in Updaters, FindStatic(u) PROVE SomebodyWillWake'
  BY <1>2 DEF FindStatic, TypeOK, SomebodyWillWake
<1>3. ASSUME NEW u \in Updaters, FindFailed(u) PROVE SomebodyWillWake'
  BY <1>3 DEF FindFailed, TypeOK, SomebodyWillWake
<1>4. ASSUME NEW u \in Updaters, FindExtra(u) PROVE SomebodyWillWake'
  BY <1>4 DEF FindExtra, TypeOK, SomebodyWillWake
<1>5. ASSUME NEW u \in Updaters, SetEndpointsEarly(u) PROVE SomebodyWillWake'
  BY <1>5 DEF SetEndpointsEarly, SomebodyWillWake
<1>6. ASSUME NEW u \in Updaters, SetEndpoints(u) PROVE SomebodyWillWake'
  BY <1>6 DEF SetEndpoints, SomebodyWillWake
<1>7. ASSUME NEW u \in Updaters, Notify(u) PROVE SomebodyWillWake'
  BY <1>7 DEF Notify, TypeOK, SomebodyWillWake
<1>8. ASSUME NEW u \in Updaters, Finish(u) PROVE SomebodyWillWake'
  BY <1>8 DEF Finish, TypeOK, SomebodyWillWake
<1>9. ASSUME Trigger \/ TimerFires PROVE SomebodyWillWake'
  BY <1>0, <1>9 DEF Trigger, TimerFires, TypeOK
<1>10. ASSUME NEW v \in Statics, SetStaticEndpoints(v) PROVE SomebodyWillWake'
  BY <1>0, <1>10 DEF SetStaticEndpoints, TypeOK
<1>11. ASSUME SetDERPMap PROVE SomebodyWillWake'
  BY <1>11 DEF SetDERPMap, TypeOK, SomebodyWillWake
<1>12. ASSUME SetPrivateKeyZero PROVE SomebodyWillWake'
  BY <1>12 DEF SetPrivateKeyZero, SomebodyWillWake
<1>13. ASSUME SetPrivateKey PROVE SomebodyWillWake'
  BY <1>13 DEF SetPrivateKey, TypeOK, SomebodyWillWake
<1>14. ASSUME GoStale PROVE SomebodyWillWake'
  BY <1>0, <1>14 DEF GoStale
<1>15. ASSUME NEW p \in Peers, WantCallMeMaybe(p) PROVE SomebodyWillWake'
  BY <1>0, <1>15 DEF WantCallMeMaybe
<1>16. ASSUME NEW p \in Peers, EnqueueCallMeMaybe(p) PROVE SomebodyWillWake'
  BY <1>16 DEF EnqueueCallMeMaybe, TypeOK, SomebodyWillWake
<1>17. ASSUME NEW c \in Files \cup {Broken}, WriteFile(c) PROVE SomebodyWillWake'
  BY <1>0, <1>17 DEF WriteFile
<1>18. ASSUME WatchReload PROVE SomebodyWillWake'
  BY <1>18, ReSTUNWakes DEF WatchReload
<1>19. ASSUME WatchAdd \/ WatchWake \/ WatchParse \/ WatchExit PROVE SomebodyWillWake'
  BY <1>0, <1>19 DEF WatchAdd, WatchWake, WatchParse, WatchExit
<1>20. ASSUME NEW k \in Closers, CloseStop(k) \/ CloseJoin(k) \/ CloseDrain(k)
       PROVE  SomebodyWillWake'
  BY <1>0, <1>20 DEF CloseStop, CloseJoin, CloseDrain
<1>21. ASSUME NEW k \in Closers, CloseLock(k) PROVE SomebodyWillWake'
  BY <1>21 DEF CloseLock, SomebodyWillWake
<1>22. ASSUME UNCHANGED vars PROVE SomebodyWillWake'
  BY <1>0, <1>22 DEF vars
<1> QED
  BY <1>1, <1>2, <1>3, <1>4, <1>5, <1>6, <1>7, <1>8, <1>9, <1>10, <1>11, <1>12, <1>13,
     <1>14, <1>15, <1>16, <1>17, <1>18, <1>19, <1>20, <1>21, <1>22
  DEF Next, Update, Watch, CloseStep

\* While updates succeed, no peer waits in onEndpointRefreshed without a request or an
\* update that will wake it.
THEOREM NobodyIsForgotten == Spec => []SomebodyWillWake
BY TypeInit, TypeStep, WakeInit, WakeStep, PTL DEF Spec
=============================================================================
