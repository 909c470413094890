------------------------------ MODULE SendPaths ------------------------------
(****************************************************************************)
(* How endpoint.send chooses the paths of a data packet, by data strategy:    *)
(*                                                                          *)
(*   "dual-send"      the two active paths of the endpoint, kept by the       *)
(*                    active-path policy from a ranking of the usable ones;   *)
(*   "single-source"  one source per flow, from the flow table of the Conn.   *)
(*                                                                          *)
(* A send takes Conn.mu, sourcePath.mu and endpoint.mu several times, one      *)
(* after the other; each critical section is a step, and sends run            *)
(* concurrently.  Probe samples and latencies are abstracted to what they      *)
(* decide: the order of the usable paths that a send computes, which may be    *)
(* any, and the sources that have enough fresh samples (sampled).              *)
(****************************************************************************)
EXTENDS Integers, FiniteSets, Sequences, SequencesExt, FiniteSetsExt

CONSTANTS
  Strategies,     \* the data strategies of the instance
  Senders,        \* goroutines in endpoint.send
  Paths,          \* pairs of a peer address and a source
  DstOf,          \* the address of a path
  RefreshEvery,   \* sourcePathStandbyRefreshEvery, in ticks
  Cooldown,       \* sourcePathActiveReplaceCooldown, in ticks
  MaxLag,         \* the ticks that a send takes at most
  Never,          \* a time that is not set
  Slots,          \* auxiliary sockets
  MaxGen,         \* bound on their generations
  FlowIds,        \* flows to the one peer address of this half
  MaxFlows,       \* sourcePathFlowMaxEntriesValue
  Primary,        \* the primary source
  None            \* no source, no flow

ASSUME SendPathsAssumption ==
  /\ Strategies \subseteq {"dual-send", "single-source"}
  /\ RefreshEvery \in Nat /\ Cooldown \in Nat /\ MaxLag \in Nat
  /\ MaxFlows \in Nat \ {0}
  /\ Never \notin Nat /\ MaxGen \in Nat /\ IsFiniteSet(Paths)

Sources == Slots \X (0..MaxGen)
Rankings == UNION {{r \in [1..n -> Paths] : IsInjective(r)} : n \in 0..Cardinality(Paths)}

VARIABLES
  strategy,    \* sourcePathDataStrategyMode
  pair,        \* sourcePathActivePaths: <<>> or two paths
  replaced,    \* the age of sourcePathLastReplace
  refreshed,   \* the age of sourcePathLastRefresh
  budget,      \* sourcePathPromoteBudget
  promoted,    \* history: the age of the last promotion
  gen,         \* the generation of each auxiliary socket
  dropping,    \* sources whose rotation has yet to drop what is known of them
  sampled,     \* sources with enough fresh samples to be used
  flows,       \* flowMap: the source of each flow
  idle,        \* flows that have been idle for too long
  pc, ranked, lag, flow, src, took, seen   \* the locals of each send

dualVars == <<pair, replaced, refreshed, budget, promoted, ranked, lag>>
flowVars == <<gen, dropping, sampled, flows, idle, flow, src, took, seen>>
vars == <<strategy, dualVars, flowVars, pc>>

(***************************************************************************)
(* Dual send: ranking the paths.                                             *)
(***************************************************************************)
Dsts(S) == {DstOf[p] : p \in S}
Spread(S) == Cardinality(Dsts(S)) >= 2
Pos(R, p) == CHOOSE i \in DOMAIN R : R[i] = p
Best(S, R) == CHOOSE p \in S : \A q \in S : Pos(R, p) <= Pos(R, q)

\* sourcePathRankedDualSendPaths: any two or more paths, best first by
\* compareSourcePathSendPath; three at most to the only address of a peer, and
\* two to each when it has several, whether or not all have a usable path.
RankedPaths ==
  {R \in Rankings :
     /\ Len(R) >= 2
     /\ \A d \in Dsts(ToSet(R)) :
          Cardinality({p \in ToSet(R) : DstOf[p] = d}) <= IF Spread(ToSet(R)) THEN 2 ELSE 3}

(***************************************************************************)
(* Dual send: sourcePathApplyActivePathPolicyLocked.                         *)
(***************************************************************************)
\* sourcePathFirstEligibleActivePath: the best path to add to c, of another
\* address when the ranking has one.
Eligible(c, R) ==
  LET other == {p \in ToSet(R) \ c : Spread(ToSet(R)) /\ c # {} => DstOf[p] \notin Dsts(c)}
  IN  Best(IF other # {} THEN other ELSE ToSet(R) \ c, R)

\* Variant: the address of the other path is not looked at.
FillAnyDst(c, R) ==
  LET add(d) == d \cup {Best(ToSet(R) \ d, R)}
  IN  IF c = {} THEN add(add(c)) ELSE add(c)

\* sourcePathFillActivePaths.
Fill(c, R) ==
  LET add(d) == d \cup {Eligible(d, R)}
  IN  IF c = {} THEN add(add(c)) ELSE add(c)

\* sourcePathPromotionSlot: the active path that p would replace.
PromotionSlot(p, R) ==
  LET same == {i \in 1..2 : DstOf[pair[i]] = DstOf[p]}
  IN  IF Spread(ToSet(R)) /\ same # {} THEN pair[Min(same)]
      ELSE IF Pos(R, pair[1]) >= Pos(R, pair[2]) THEN pair[1] ELSE pair[2]

\* sourcePathBestPromotion: the standby paths that beat what they would replace.
Promotable(R) == {p \in ToSet(R) \ ToSet(pair) : Pos(R, p) < Pos(R, PromotionSlot(p, R))}

\* setSourcePathActivePathsLocked, for a set of two paths.
Sorted(S, R) == LET p == Best(S, R) IN <<p, Best(S \ {p}, R)>>

\* Whether d ticks had passed, by the clock of a send that took l ticks so far.
Passed(age, l, d) == IF age = Never THEN TRUE ELSE age - l >= d

Refreshes(R, l) == Len(R) > 2 /\ Passed(refreshed, l, RefreshEvery)
Missing(R) == pair = <<>> \/ ~(ToSet(pair) \subseteq ToSet(R))

\* Variant: the time of the last replacement is not looked at.
CanPromoteAtOnce(R, l) == (IF Refreshes(R, l) THEN 2 ELSE budget) > 0

CanPromote(R, l) ==
  /\ (IF Refreshes(R, l) THEN 2 ELSE budget) > 0
  /\ Passed(replaced, l, Cooldown)

\* Some active path is gone: the pair is filled up.
ApplyFill(R, l) ==
  /\ Missing(R)
  /\ pair' = Sorted(Fill(ToSet(pair) \cap ToSet(R), R), R)
  /\ replaced' = IF pair # <<>> THEN l ELSE replaced
  /\ budget' = 0
  /\ UNCHANGED promoted

\* A standby path replaces the active one that it beats.
ApplyPromote(R, l) ==
  /\ ~Missing(R) /\ CanPromote(R, l) /\ Promotable(R) # {}
  /\ LET p == Best(Promotable(R), R)
     IN  pair' = Sorted((ToSet(pair) \ {PromotionSlot(p, R)}) \cup {p}, R)
  /\ replaced' = l /\ promoted' = 0
  /\ budget' = (IF Refreshes(R, l) THEN 2 ELSE budget) - 1

ApplyKeep(R, l) ==
  /\ ~Missing(R) /\ ~(CanPromote(R, l) /\ Promotable(R) # {})
  /\ pair' = Sorted(ToSet(pair), R)
  /\ budget' = IF Refreshes(R, l) THEN 2 ELSE budget
  /\ UNCHANGED <<replaced, promoted>>

(***************************************************************************)
(* Dual send: the steps of a send.                                           *)
(***************************************************************************)
\* endpoint.send reads the clock and ranks the paths; with fewer than two the
\* packet goes other ways and the pair stays as it is.
Rank(s) ==
  /\ strategy = "dual-send" /\ pc[s] = "none"
  /\ \E R \in RankedPaths : ranked' = [ranked EXCEPT ![s] = R]
  /\ pc' = [pc EXCEPT ![s] = "apply"]
  /\ UNCHANGED <<strategy, pair, replaced, refreshed, budget, promoted, lag, flowVars>>

\* The policy is applied under endpoint.mu.  The packets are then written; what
\* a failure does (a demotion, a rotation, an address given up) is seen in later
\* rankings.
Apply(s) ==
  /\ pc[s] = "apply"
  /\ LET R == ranked[s]
         l == lag[s]
     IN  /\ ApplyFill(R, l) \/ ApplyPromote(R, l) \/ ApplyKeep(R, l)
         /\ refreshed' = IF Refreshes(R, l) THEN l ELSE refreshed
  /\ pc' = [pc EXCEPT ![s] = "none"]
  /\ ranked' = [ranked EXCEPT ![s] = <<>>]
  /\ lag' = [lag EXCEPT ![s] = 0]
  /\ UNCHANGED <<strategy, flowVars>>

\* resetLocked.
Reset ==
  /\ strategy = "dual-send" /\ pair # <<>>
  /\ pair' = <<>> /\ replaced' = Never /\ refreshed' = Never /\ budget' = 0
  /\ promoted' = Never
  /\ UNCHANGED <<strategy, ranked, lag, flowVars, pc>>

\* Ages beyond what a send can tell apart are not counted further.
ReplaceCap == Cooldown + MaxLag
RefreshCap == RefreshEvery + MaxLag
Older(age, cap) == IF age = Never THEN Never ELSE Min({age + 1, cap})

Tick ==
  /\ strategy = "dual-send"
  /\ \A s \in Senders : pc[s] = "apply" => lag[s] < MaxLag
  /\ replaced' = Older(replaced, ReplaceCap)
  /\ promoted' = Older(promoted, ReplaceCap)
  /\ refreshed' = Older(refreshed, RefreshCap)
  /\ lag' = [s \in Senders |-> IF pc[s] = "apply" THEN lag[s] + 1 ELSE 0]
  /\ UNCHANGED <<strategy, pair, budget, ranked, flowVars, pc>>

(***************************************************************************)
(* Single source: the flow table.                                            *)
(***************************************************************************)
\* sourcePathProbeSources, of the sockets that are bound.
Current == {<<s, gen[s]>> : s \in Slots}
Live == {f \in FlowIds : flows[f] # None} \ idle
Pruned == [f \in FlowIds |-> IF f \in Live THEN flows[f] ELSE None]

\* dropFlowsLocked and the loop of dropSourceLocked.
Without(S) == [f \in FlowIds |-> IF flows[f] \in S THEN None ELSE flows[f]]

\* Variant: the source of a known flow is used as it is.
FlowLookupUnchecked(s, f) ==
  /\ strategy = "single-source" /\ pc[s] = "none"
  /\ flows' = Pruned /\ idle' = {}
  /\ flow' = [flow EXCEPT ![s] = f]
  /\ src' = [src EXCEPT ![s] = Pruned[f]]
  /\ pc' = [pc EXCEPT ![s] = IF Pruned[f] = None THEN "take" ELSE "write"]
  /\ seen' = [seen EXCEPT ![s] = Current]
  /\ UNCHANGED <<strategy, dualVars, gen, dropping, sampled, took>>

\* lookupFlowLocked, under Conn.mu.
FlowLookup(s, f) ==
  /\ strategy = "single-source" /\ pc[s] = "none"
  /\ flows' = Pruned /\ idle' = {}
  /\ flow' = [flow EXCEPT ![s] = f]
  /\ src' = [src EXCEPT ![s] = Pruned[f]]
  /\ pc' = [pc EXCEPT ![s] = CASE Pruned[f] = None    -> "take"
                               [] Pruned[f] = Primary -> "write"
                               [] OTHER               -> "check"]
  /\ seen' = [seen EXCEPT ![s] = Current]
  /\ UNCHANGED <<strategy, dualVars, gen, dropping, sampled, took>>

\* sourcePathSourceAvailable, under sourcePath.mu.
FlowCheck(s) ==
  /\ pc[s] = "check"
  /\ pc' = [pc EXCEPT ![s] = IF src[s] \in Current THEN "write" ELSE "forget"]
  /\ UNCHANGED <<strategy, dualVars, flowVars>>

\* forgetFlowLocked.
FlowForget(s) ==
  /\ pc[s] = "forget"
  /\ flows' = IF flows[flow[s]] = src[s] THEN [flows EXCEPT ![flow[s]] = None] ELSE flows
  /\ idle' = IF flows[flow[s]] = src[s] THEN idle \ {flow[s]} ELSE idle
  /\ pc' = [pc EXCEPT ![s] = "take"]
  /\ UNCHANGED <<strategy, dualVars, gen, dropping, sampled, flow, src, took, seen>>

\* sourcePathBestCandidate takes the sources under sourcePath.mu ...
FlowTake(s) ==
  /\ pc[s] = "take"
  /\ took' = [took EXCEPT ![s] = Current]
  /\ pc' = [pc EXCEPT ![s] = "choose"]
  /\ UNCHANGED <<strategy, dualVars, gen, dropping, sampled, flows, idle, flow, src, seen>>

\* ... and scores them under Conn.mu; sourcePathNewFlowSource balances the best
\* of them, if it beats the primary source, with the primary one.
FlowChoose(s) ==
  /\ pc[s] = "choose"
  /\ \E c \in (took[s] \cap sampled) \cup {Primary} : src' = [src EXCEPT ![s] = c]
  /\ took' = [took EXCEPT ![s] = {}]
  /\ pc' = [pc EXCEPT ![s] = "assign"]
  /\ UNCHANGED <<strategy, dualVars, gen, dropping, sampled, flows, idle, flow, seen>>

\* Variant: one flow more than the limit.
KeptTooMany(K) == K \subseteq Live /\ Cardinality(K) = Min({Cardinality(Live), MaxFlows})

\* The flows that are left when the oldest ones have been evicted.
Kept(K) == K \subseteq Live /\ Cardinality(K) = Min({Cardinality(Live), MaxFlows - 1})

\* assignFlowLocked.
FlowAssign(s) ==
  /\ pc[s] = "assign"
  /\ \E K \in SUBSET FlowIds :
       /\ Kept(K)
       /\ flows' = [f \in FlowIds |-> IF f = flow[s] THEN src[s]
                                      ELSE IF f \in K THEN flows[f] ELSE None]
  /\ idle' = {}
  /\ pc' = [pc EXCEPT ![s] = "write"]
  /\ UNCHANGED <<strategy, dualVars, gen, dropping, sampled, flow, src, took, seen>>

\* The write, which fails when the source is gone; then
\* noteSourcePathSendFailure, and the packet goes out on the primary source.
FlowWrite(s) ==
  /\ strategy = "single-source" /\ pc[s] = "write"
  /\ \/ /\ src[s] \in Current \cup {Primary}
        /\ UNCHANGED <<sampled, flows, idle>>
     \/ /\ src[s] # Primary
        /\ sampled' = sampled \ {src[s]}
        /\ flows' = Without({src[s]})
        /\ idle' = idle \ {f \in FlowIds : flows[f] = src[s]}
  /\ pc' = [pc EXCEPT ![s] = "none"]
  /\ src' = [src EXCEPT ![s] = None] /\ flow' = [flow EXCEPT ![s] = None]
  /\ seen' = [seen EXCEPT ![s] = {}]
  /\ UNCHANGED <<strategy, dualVars, gen, dropping, took>>

FlowStep(s) ==
  \/ \E f \in FlowIds : FlowLookup(s, f)
  \/ FlowCheck(s) \/ FlowForget(s) \/ FlowTake(s) \/ FlowChoose(s) \/ FlowAssign(s)
  \/ FlowWrite(s)

\* A socket gets a new generation; every send under way sees it.
NewGeneration(S) ==
  /\ \A s \in S : gen[s] < MaxGen
  /\ gen' = [s \in Slots |-> IF s \in S THEN gen[s] + 1 ELSE gen[s]]
  /\ seen' = [s \in Senders |->
                IF pc[s] = "none" THEN {} ELSE seen[s] \cup {<<x, gen'[x]>> : x \in Slots}]

\* Rebind: all sockets, and nothing is dropped.
Rebind ==
  /\ strategy = "single-source"
  /\ NewGeneration(Slots)
  /\ UNCHANGED <<strategy, dualVars, dropping, sampled, flows, idle, flow, src, took, pc>>

\* rotateSourcePathAuxSocket: under sourcePath.mu, and then under Conn.mu.
Rotate(s) ==
  /\ strategy = "single-source"
  /\ NewGeneration({s})
  /\ dropping' = dropping \cup {<<s, gen[s]>>}
  /\ UNCHANGED <<strategy, dualVars, sampled, flows, idle, flow, src, took, pc>>

RotateDrop(x) ==
  /\ x \in dropping
  /\ dropping' = dropping \ {x}
  /\ sampled' = sampled \ {x}
  /\ flows' = Without({x})
  /\ idle' = idle \ {f \in FlowIds : flows[f] = x}
  /\ UNCHANGED <<strategy, dualVars, gen, flow, src, took, seen, pc>>

\* Pongs give a source fresh samples; they age.
Sampled(x) ==
  /\ strategy = "single-source" /\ x \in Current \ sampled
  /\ sampled' = sampled \cup {x}
  /\ UNCHANGED <<strategy, dualVars, gen, dropping, flows, idle, flow, src, took, seen, pc>>

SamplesAge(x) ==
  /\ x \in sampled
  /\ sampled' = sampled \ {x}
  /\ UNCHANGED <<strategy, dualVars, gen, dropping, flows, idle, flow, src, took, seen, pc>>

FlowIdles(f) ==
  /\ f \in Live
  /\ idle' = idle \cup {f}
  /\ UNCHANGED <<strategy, dualVars, gen, dropping, sampled, flows, flow, src, took, seen, pc>>

Init ==
  /\ strategy \in Strategies
  /\ pair = <<>> /\ budget = 0
  /\ replaced = Never /\ refreshed = Never /\ promoted = Never
  /\ gen = [s \in Slots |-> 0] /\ dropping = {} /\ sampled = {}
  /\ flows = [f \in FlowIds |-> None] /\ idle = {}
  /\ pc = [s \in Senders |-> "none"]
  /\ ranked = [s \in Senders |-> <<>>] /\ lag = [s \in Senders |-> 0]
  /\ flow = [s \in Senders |-> None] /\ src = [s \in Senders |-> None]
  /\ took = [s \in Senders |-> {}] /\ seen = [s \in Senders |-> {}]

Next ==
  \/ \E s \in Senders : Rank(s) \/ Apply(s) \/ FlowStep(s)
  \/ Reset \/ Tick
  \/ Rebind \/ \E s \in Slots : Rotate(s)
  \/ \E x \in Sources : RotateDrop(x) \/ Sampled(x) \/ SamplesAge(x)
  \/ \E f \in FlowIds : FlowIdles(f)

Spec == Init /\ [][Next]_vars

----------------------------------------------------------------------------
(* Properties.                                                              *)

\* Every variable has its type; the flow table stays within its limit, the pair
\* is of two different paths, and the budget of promotions within two.
TypeOK ==
  /\ strategy \in Strategies
  /\ budget \in 0..2
  /\ pair = <<>> \/ (pair \in [1..2 -> Paths] /\ pair[1] # pair[2])
  /\ {replaced, promoted} \subseteq 0..ReplaceCap \cup {Never}
  /\ refreshed \in 0..RefreshCap \cup {Never}
  /\ gen \in [Slots -> 0..MaxGen] /\ dropping \subseteq Sources /\ sampled \subseteq Sources
  /\ flows \in [FlowIds -> Sources \cup {Primary, None}]
  /\ Cardinality({f \in FlowIds : flows[f] # None}) <= MaxFlows
  /\ \A f \in idle : flows[f] # None
  /\ pc \in [Senders -> {"none", "apply", "check", "forget", "take", "choose",
                         "assign", "write"}]
  /\ ranked \in [Senders -> Rankings] /\ lag \in [Senders -> 0..MaxLag]
  /\ flow \in [Senders -> FlowIds \cup {None}]
  /\ src \in [Senders -> Sources \cup {Primary, None}]
  /\ took \in [Senders -> SUBSET Sources] /\ seen \in [Senders -> SUBSET Sources]

\* A packet is given to a source that was bound at some moment of the call, even
\* though the flow was assigned, and its socket rotated or re-bound, meanwhile.
SourceWasCurrent ==
  \A s \in Senders : strategy = "single-source" /\ pc[s] = "write" /\ src[s] # Primary =>
    src[s] \in seen[s]

\* Redundancy over two addresses of the peer is not given up for latency: when
\* the ranking has two, and the pair had two or has to be filled up, it has two.
SpreadKept ==
  [][\A s \in Senders :
       /\ pc[s] = "apply" /\ pc'[s] = "none"
       /\ Spread(ToSet(ranked[s])) /\ (Missing(ranked[s]) \/ Spread(ToSet(pair)))
       => Spread(ToSet(pair'))]_vars

\* The active pair does not flap: two promotions of sends whose clocks are behind
\* each other, or behind a path that was lost, are still a cooldown apart, up to
\* the time that a send takes from reading the clock to applying the policy.
PromotionsPaced ==
  [][\A s \in Senders :
       /\ pc[s] = "apply" /\ pc'[s] = "none" /\ ~Missing(ranked[s])
       /\ ToSet(pair') # ToSet(pair) /\ promoted # Never
       => promoted >= Cooldown - MaxLag]_vars
=============================================================================
