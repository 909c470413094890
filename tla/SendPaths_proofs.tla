--------------------------- MODULE SendPaths_proofs ---------------------------
(* Proofs about SendPaths, for every value of its constants.                 *)
EXTENDS SendPaths, FiniteSetTheorems, TLAPS

-----------------------------------------------------------------------------
(* Single source: the source of a packet, and the flow table.                *)

FlowSteps == {"check", "forget", "take", "choose", "assign", "write"}

\* A send is of the strategy in use, and has a flow from its lookup on.
Strategic ==
  \A s \in Senders :
    /\ pc[s] = "apply" => strategy = "dual-send"
    /\ pc[s] \in FlowSteps => strategy = "single-source" /\ flow[s] \in FlowIds

Used(fl) == {f \in FlowIds : fl[f] # None}

FlowType ==
  /\ strategy \in Strategies
  /\ gen \in [Slots -> 0..MaxGen] /\ dropping \subseteq Sources /\ sampled \subseteq Sources
  /\ flows \in [FlowIds -> Sources \cup {Primary, None}]
  /\ idle \subseteq FlowIds /\ \A f \in idle : flows[f] # None
  /\ pc \in [Senders -> {"none", "apply"} \cup FlowSteps]
  /\ flow \in [Senders -> FlowIds \cup {None}]
  /\ src \in [Senders -> Sources \cup {Primary, None}]
  /\ took \in [Senders -> SUBSET Sources] /\ seen \in [Senders -> SUBSET Sources]

\* The table is finite, whatever the number of flows, and within its limit.
FlowLimit == IsFiniteSet(Used(flows)) /\ Cardinality(Used(flows)) <= MaxFlows

\* From its lookup on, a send has seen every source that is bound; it chooses
\* among sources that it has seen, and so does the flow table for it.
Seen ==
  \A s \in Senders :
    /\ pc[s] \in FlowSteps => Current \subseteq seen[s]
    /\ pc[s] = "choose" => took[s] \subseteq seen[s]
    /\ pc[s] \in {"assign", "write"} => src[s] \in seen[s] \cup {Primary}

LEMMA CurrentType ==
  ASSUME gen \in [Slots -> 0..MaxGen]
  PROVE  Current \in SUBSET Sources
BY DEF Current, Sources

LEMMA PrunedType ==
  ASSUME FlowType
  PROVE  Pruned \in [FlowIds -> Sources \cup {Primary, None}]
BY DEF FlowType, Pruned, Live

LEMMA NewGenerationType ==
  ASSUME FlowType, NEW S \in SUBSET Slots, NewGeneration(S)
  PROVE  gen' \in [Slots -> 0..MaxGen] /\ seen' \in [Senders -> SUBSET Sources]
<1>1. gen' \in [Slots -> 0..MaxGen]
  <2>1. \A x \in Slots : gen'[x] \in 0..MaxGen /\ gen' = [y \in Slots |-> gen'[y]]
    BY SendPathsAssumption DEF FlowType, NewGeneration
  <2> QED BY <2>1 DEF NewGeneration
<1>2. {<<x, gen'[x]>> : x \in Slots} \in SUBSET Sources
  BY <1>1 DEF Sources
<1> QED BY <1>1, <1>2 DEF FlowType, NewGeneration

LEMMA WithoutType ==
  ASSUME FlowType, NEW S
  PROVE  Without(S) \in [FlowIds -> Sources \cup {Primary, None}]
BY DEF FlowType, Without

\* The actions of the other strategy.
DualNext == (\E s \in Senders : Rank(s) \/ Apply(s)) \/ Reset \/ Tick

LEMMA DualLeavesFlows ==
  ASSUME DualNext
  PROVE  /\ UNCHANGED <<strategy, flowVars>>
         /\ \/ pc' = pc
            \/ \E s \in Senders : pc' = [pc EXCEPT ![s] = "none"] /\ pc[s] = "apply"
            \/ \E s \in Senders :
                 /\ pc' = [pc EXCEPT ![s] = "apply"]
                 /\ pc[s] = "none" /\ strategy = "dual-send"
<1>1. CASE Reset \/ Tick
  BY <1>1 DEF Reset, Tick
<1>2. ASSUME NEW s \in Senders, Rank(s) \/ Apply(s)
      PROVE  /\ UNCHANGED <<strategy, flowVars>>
             /\ \/ pc' = [pc EXCEPT ![s] = "none"] /\ pc[s] = "apply"
                \/ /\ pc' = [pc EXCEPT ![s] = "apply"]
                   /\ pc[s] = "none" /\ strategy = "dual-send"
  BY <1>2 DEF Rank, Apply
<1> QED BY <1>1, <1>2 DEF DualNext

LEMMA FlowTypeKept ==
  ASSUME FlowType, Next
  PROVE  FlowType'
<1>1. Current \in SUBSET Sources /\ Pruned \in [FlowIds -> Sources \cup {Primary, None}]
  BY CurrentType, PrunedType DEF FlowType
<1>2. CASE DualNext
  BY <1>2, DualLeavesFlows DEF FlowType, flowVars
<1>3. ASSUME NEW s \in Senders, NEW f \in FlowIds, FlowLookup(s, f) PROVE FlowType'
  BY <1>1, <1>3 DEF FlowType, FlowLookup, FlowSteps
<1>4. ASSUME NEW s \in Senders, FlowCheck(s) PROVE FlowType'
  BY <1>4 DEF FlowType, FlowCheck, FlowSteps, dualVars, flowVars
<1>5. ASSUME NEW s \in Senders, FlowForget(s) PROVE FlowType'
  BY <1>5 DEF FlowType, FlowForget, FlowSteps
<1>6. ASSUME NEW s \in Senders, FlowTake(s) PROVE FlowType'
  BY <1>1, <1>6 DEF FlowType, FlowTake, FlowSteps
<1>7. ASSUME NEW s \in Senders, FlowChoose(s) PROVE FlowType'
  <2>1. PICK c \in (took[s] \cap sampled) \cup {Primary} : src' = [src EXCEPT ![s] = c]
    BY <1>7 DEF FlowChoose
  <2>2. c \in Sources \cup {Primary, None}
    BY DEF FlowType
  <2> QED BY <1>7, <2>1, <2>2 DEF FlowType, FlowChoose, FlowSteps
<1>8. ASSUME NEW s \in Senders, FlowAssign(s) PROVE FlowType'
  BY <1>8 DEF FlowType, FlowAssign, FlowSteps
<1>9. ASSUME NEW s \in Senders, FlowWrite(s) PROVE FlowType'
  <2>1. /\ sampled' \subseteq Sources /\ flows' \in [FlowIds -> Sources \cup {Primary, None}]
        /\ idle' \subseteq FlowIds
    BY <1>9, WithoutType DEF FlowType, FlowWrite
  <2>2. \A f \in idle' : flows'[f] # None
    BY <1>9 DEF FlowType, FlowWrite, Without
  <2> QED BY <1>9, <2>1, <2>2 DEF FlowType, FlowWrite
<1>10. CASE Rebind
  <2>1. gen' \in [Slots -> 0..MaxGen] /\ seen' \in [Senders -> SUBSET Sources]
    BY <1>10, NewGenerationType DEF Rebind
  <2> QED BY <1>10, <2>1 DEF FlowType, Rebind
<1>11. ASSUME NEW x \in Slots, Rotate(x) PROVE FlowType'
  <2>1. gen' \in [Slots -> 0..MaxGen] /\ seen' \in [Senders -> SUBSET Sources]
    BY <1>11, NewGenerationType DEF Rotate
  <2>2. <<x, gen[x]>> \in Sources
    BY DEF FlowType, Sources
  <2> QED BY <1>11, <2>1, <2>2 DEF FlowType, Rotate
<1>12. ASSUME NEW x \in Sources, RotateDrop(x) PROVE FlowType'
  <2>1. \A f \in idle' : flows'[f] # None
    BY <1>12 DEF FlowType, RotateDrop, Without
  <2> QED BY <1>12, <2>1, WithoutType DEF FlowType, RotateDrop
<1>13. ASSUME NEW x \in Sources, Sampled(x) \/ SamplesAge(x) PROVE FlowType'
  BY <1>13 DEF FlowType, Sampled, SamplesAge
<1>14. ASSUME NEW f \in FlowIds, FlowIdles(f) PROVE FlowType'
  BY <1>14 DEF FlowType, FlowIdles, Live
<1> QED BY <1>2, <1>3, <1>4, <1>5, <1>6, <1>7, <1>8, <1>9, <1>10, <1>11, <1>12, <1>13, <1>14
        DEF Next, FlowStep, DualNext

LEMMA StrategicKept ==
  ASSUME FlowType, Strategic, Next
  PROVE  Strategic'
<1>1. CASE DualNext
  BY <1>1, DualLeavesFlows DEF FlowType, Strategic, flowVars, FlowSteps
<1>2. ASSUME NEW s \in Senders, NEW f \in FlowIds, FlowLookup(s, f) PROVE Strategic'
  BY <1>2 DEF FlowType, Strategic, FlowLookup, FlowSteps
<1>3. ASSUME NEW s \in Senders, FlowCheck(s) \/ FlowForget(s) \/ FlowTake(s) \/ FlowChoose(s)
                                 \/ FlowAssign(s)
      PROVE  Strategic'
  <2>1. /\ pc[s] \in FlowSteps /\ UNCHANGED <<strategy, flow>>
        /\ \E v \in FlowSteps : pc' = [pc EXCEPT ![s] = v]
    BY <1>3 DEF FlowSteps, FlowCheck, FlowForget, FlowTake, FlowChoose, FlowAssign, flowVars
  <2> QED BY <2>1 DEF FlowType, Strategic, FlowSteps
<1>4. ASSUME NEW s \in Senders, FlowWrite(s) PROVE Strategic'
  BY <1>4 DEF FlowType, Strategic, FlowWrite, FlowSteps
<1>5. CASE UNCHANGED <<strategy, flow, pc>>
  BY <1>5 DEF Strategic
<1>6. CASE Rebind \/ (\E x \in Slots : Rotate(x))
           \/ (\E x \in Sources : RotateDrop(x) \/ Sampled(x) \/ SamplesAge(x))
           \/ (\E f \in FlowIds : FlowIdles(f))
  <2>1. UNCHANGED <<strategy, flow, pc>>
    BY <1>6 DEF Rebind, Rotate, RotateDrop, Sampled, SamplesAge, FlowIdles
  <2> QED BY <1>5, <2>1
<1> QED BY <1>1, <1>2, <1>3, <1>4, <1>6 DEF Next, FlowStep, DualNext

\* A new generation is seen by every send that is under way.
LEMMA SeenNewGeneration ==
  ASSUME FlowType, Seen, NEW S \in SUBSET Slots, NewGeneration(S), UNCHANGED <<pc, src, took>>
  PROVE  Seen'
<1>1. Current' = {<<x, gen'[x]>> : x \in Slots}
  BY DEF Current
<1>2. \A s \in Senders : pc[s] # "none" => seen'[s] = seen[s] \cup Current'
  BY <1>1 DEF NewGeneration
<1> HIDE DEF Current
<1> QED BY <1>2 DEF Seen, FlowSteps

LEMMA SeenKept ==
  ASSUME FlowType, Strategic, Seen, Next
  PROVE  Seen'
<1>1. CASE DualNext
  BY <1>1, DualLeavesFlows DEF FlowType, Seen, Current, flowVars, FlowSteps
<1>2. ASSUME NEW s \in Senders, FlowStep(s) PROVE Current' = Current
  BY <1>2 DEF FlowStep, FlowLookup, FlowCheck, FlowForget, FlowTake, FlowChoose, FlowAssign,
              FlowWrite, Current, flowVars
<1>3. ASSUME NEW s \in Senders, NEW f \in FlowIds, FlowLookup(s, f) PROVE Seen'
  <2>1. Current' = Current
    BY <1>2, <1>3 DEF FlowStep
  <2> QED BY <1>3, <2>1 DEF FlowType, Seen, FlowLookup, FlowSteps
<1>4. ASSUME NEW s \in Senders, FlowCheck(s) PROVE Seen'
  <2>1. Current' = Current
    BY <1>2, <1>4 DEF FlowStep
  <2> QED BY <1>4, <2>1 DEF FlowType, Seen, FlowCheck, FlowSteps, flowVars
<1>5. ASSUME NEW s \in Senders, FlowForget(s) PROVE Seen'
  <2>1. Current' = Current
    BY <1>2, <1>5 DEF FlowStep
  <2> QED BY <1>5, <2>1 DEF FlowType, Seen, FlowForget, FlowSteps
<1>6. ASSUME NEW s \in Senders, FlowTake(s) PROVE Seen'
  <2>1. Current' = Current
    BY <1>2, <1>6 DEF FlowStep
  <2> QED BY <1>6, <2>1 DEF FlowType, Seen, FlowTake, FlowSteps
<1>7. ASSUME NEW s \in Senders, FlowChoose(s) PROVE Seen'
  <2>1. Current' = Current
    BY <1>2, <1>7 DEF FlowStep
  <2> QED BY <1>7, <2>1 DEF FlowType, Seen, FlowChoose, FlowSteps
<1>8. ASSUME NEW s \in Senders, FlowAssign(s) PROVE Seen'
  <2>1. Current' = Current
    BY <1>2, <1>8 DEF FlowStep
  <2> QED BY <1>8, <2>1 DEF FlowType, Seen, FlowAssign, FlowSteps
<1>9. ASSUME NEW s \in Senders, FlowWrite(s) PROVE Seen'
  <2>1. Current' = Current
    BY <1>2, <1>9 DEF FlowStep
  <2> QED BY <1>9, <2>1 DEF FlowType, Seen, FlowWrite, FlowSteps
<1>10. CASE Rebind \/ \E x \in Slots : Rotate(x)
  BY <1>10, SeenNewGeneration DEF Rebind, Rotate
<1>11. CASE \/ \E x \in Sources : RotateDrop(x) \/ Sampled(x) \/ SamplesAge(x)
            \/ \E f \in FlowIds : FlowIdles(f)
  <2>1. UNCHANGED <<gen, pc, src, took, seen>>
    BY <1>11 DEF RotateDrop, Sampled, SamplesAge, FlowIdles
  <2> QED BY <2>1 DEF Seen, Current
<1> QED BY <1>1, <1>3, <1>4, <1>5, <1>6, <1>7, <1>8, <1>9, <1>10, <1>11 DEF Next, FlowStep, DualNext

\* What is taken from the table leaves it within its limit.
LEMMA FewerFlows ==
  ASSUME FlowLimit, Used(flows') \subseteq Used(flows)
  PROVE  FlowLimit'
<1> DEFINE U == Used(flows)
           V == Used(flows')
<1>1. IsFiniteSet(U) /\ Cardinality(U) <= MaxFlows
  BY DEF FlowLimit
<1>2. V \in SUBSET U
  OBVIOUS
<1>3. FlowLimit' <=> IsFiniteSet(V) /\ Cardinality(V) <= MaxFlows
  BY DEF FlowLimit, Used
<1> HIDE DEF U, V
<1>4. IsFiniteSet(V) /\ Cardinality(V) <= Cardinality(U)
  BY <1>1, <1>2, FS_Subset
<1>5. Cardinality(V) \in Nat /\ Cardinality(U) \in Nat
  BY <1>1, <1>4, FS_CardinalityType
<1> QED BY <1>1, <1>3, <1>4, <1>5, SendPathsAssumption

LEMMA MinOfTwo ==
  ASSUME NEW a \in Nat, NEW b \in Nat
  PROVE  Min({a, b}) \in {a, b} /\ Min({a, b}) <= a /\ Min({a, b}) <= b
<1>1. \E x \in {a, b} : \A y \in {a, b} : x =< y
  OBVIOUS
<1> QED BY <1>1 DEF Min

\* A flow is added when one less than the limit are left.
LEMMA FlowLimitAssign ==
  ASSUME FlowType, FlowLimit, NEW s \in Senders, FlowAssign(s)
  PROVE  FlowLimit'
<1>1. PICK K \in SUBSET FlowIds :
        /\ Kept(K)
        /\ flows' = [f \in FlowIds |-> IF f = flow[s] THEN src[s]
                                       ELSE IF f \in K THEN flows[f] ELSE None]
  BY DEF FlowAssign
<1> DEFINE U == Used(flows)
           V == Used(flows')
           W == K \cup {flow[s]}
<1>2. IsFiniteSet(U)
  BY DEF FlowLimit
<1>3. Live \in SUBSET U
  BY DEF Live, Used
<1>4. IsFiniteSet(Live) /\ Cardinality(Live) \in Nat
  BY <1>2, <1>3, FS_Subset, FS_CardinalityType
<1>5. IsFiniteSet(K) /\ Cardinality(K) \in Nat
  BY <1>1, <1>4, FS_Subset, FS_CardinalityType DEF Kept
<1>6. Cardinality(K) <= MaxFlows - 1
  BY <1>1, <1>4, MinOfTwo, SendPathsAssumption DEF Kept
<1>7. IsFiniteSet(W) /\ Cardinality(W) <= Cardinality(K) + 1 /\ Cardinality(W) \in Nat
  BY <1>5, FS_AddElement, FS_CardinalityType
<1>8. V \in SUBSET W
  BY <1>1 DEF Used
<1>9. FlowLimit' <=> IsFiniteSet(V) /\ Cardinality(V) <= MaxFlows
  BY DEF FlowLimit, Used
<1> HIDE DEF V, W
<1>10. IsFiniteSet(V) /\ Cardinality(V) <= Cardinality(W)
  BY <1>7, <1>8, FS_Subset
<1>11. Cardinality(V) \in Nat
  BY <1>10, FS_CardinalityType
<1> QED BY <1>5, <1>6, <1>7, <1>9, <1>10, <1>11, SendPathsAssumption

LEMMA FlowLimitKept ==
  ASSUME FlowType, FlowLimit, Next
  PROVE  FlowLimit'
<1>1. CASE UNCHANGED flows
  BY <1>1 DEF FlowLimit, Used
<1>2. CASE DualNext
  BY <1>1, <1>2, DualLeavesFlows DEF flowVars
<1>3. ASSUME NEW s \in Senders, NEW f \in FlowIds, FlowLookup(s, f) PROVE FlowLimit'
  <2>1. Used(flows') \subseteq Used(flows)
    BY <1>3 DEF FlowLookup, Pruned, Used
  <2> QED BY <2>1, FewerFlows
<1>4. ASSUME NEW s \in Senders, FlowForget(s) PROVE FlowLimit'
  <2>1. Used(flows') \subseteq Used(flows)
    BY <1>4 DEF FlowForget, Used, FlowType
  <2> QED BY <2>1, FewerFlows
<1>5. ASSUME NEW s \in Senders, FlowWrite(s) PROVE FlowLimit'
  <2>1. Used(flows') \subseteq Used(flows)
    BY <1>5 DEF FlowWrite, Without, Used
  <2> QED BY <2>1, FewerFlows
<1>6. ASSUME NEW s \in Senders, FlowCheck(s) \/ FlowTake(s) \/ FlowChoose(s) PROVE FlowLimit'
  BY <1>1, <1>6 DEF FlowCheck, FlowTake, FlowChoose, flowVars
<1>7. ASSUME NEW x \in Sources, RotateDrop(x) PROVE FlowLimit'
  <2>1. Used(flows') \subseteq Used(flows)
    BY <1>7 DEF RotateDrop, Without, Used
  <2> QED BY <2>1, FewerFlows
<1>8. CASE \/ Rebind \/ (\E x \in Slots : Rotate(x))
           \/ (\E x \in Sources : Sampled(x) \/ SamplesAge(x))
           \/ (\E f \in FlowIds : FlowIdles(f))
  BY <1>1, <1>8 DEF Rebind, Rotate, Sampled, SamplesAge, FlowIdles
<1> QED BY <1>2, <1>3, <1>4, <1>5, <1>6, <1>7, <1>8, FlowLimitAssign DEF Next, FlowStep, DualNext

\* The inductive invariant of the flow table.
FlowInv == FlowType /\ Strategic /\ FlowLimit /\ Seen

LEMMA InitFlowInv == Init => FlowInv
<1> SUFFICES ASSUME Init PROVE FlowInv
  OBVIOUS
<1>1. FlowType
  BY SendPathsAssumption DEF Init, FlowType
<1>2. FlowLimit
  <2>1. Used(flows) = {}
    BY DEF Init, Used
  <2> QED BY <2>1, FS_EmptySet, SendPathsAssumption DEF FlowLimit
<1>3. Strategic /\ Seen
  BY DEF Init, Strategic, Seen, FlowSteps
<1> QED BY <1>1, <1>2, <1>3 DEF FlowInv

LEMMA FlowInvKept == FlowInv /\ [Next]_vars => FlowInv'
<1>1. CASE FlowInv /\ Next
  BY <1>1, FlowTypeKept, StrategicKept, FlowLimitKept, SeenKept DEF FlowInv
<1>2. CASE FlowInv /\ UNCHANGED vars
  BY <1>2 DEF FlowInv, FlowType, Strategic, FlowLimit, Seen, Used, Current, vars, flowVars
<1> QED BY <1>1, <1>2

\* Sends, rotations and re-binds keep the flow table, and what each send has seen.
THEOREM FlowsAlwaysInv == Spec => []FlowInv
BY InitFlowInv, FlowInvKept, PTL DEF Spec

\* A packet is given to a source that was bound at some moment of the call.
THEOREM SourceOfCall == Spec => []SourceWasCurrent
<1>1. FlowInv => SourceWasCurrent
  BY DEF FlowInv, Seen, SourceWasCurrent
<1> QED BY <1>1, FlowsAlwaysInv, PTL

-----------------------------------------------------------------------------
(* Dual send: operators on rankings and on pairs of paths.                   *)

\* What is known of a ranking: an enumeration of at least two paths.
Ranks(R) ==
  /\ DOMAIN R \subseteq Nat /\ ToSet(R) \subseteq Paths
  /\ \E x, y \in ToSet(R) : x # y

LEMMA RankedFacts ==
  ASSUME NEW R \in RankedPaths
  PROVE  Ranks(R)
<1>1. PICK n \in 0..Cardinality(Paths) : R \in [1..n -> Paths] /\ IsInjective(R)
  BY DEF RankedPaths, Rankings
<1>2. n \in Nat /\ Len(R) >= 2
  BY <1>1 DEF RankedPaths
<1>3. Len(R) = n
  BY <1>1, <1>2
<1>4. 1 \in DOMAIN R /\ 2 \in DOMAIN R
  BY <1>1, <1>2, <1>3
<1>5. R[1] # R[2]
  BY <1>1, <1>4 DEF IsInjective
<1> QED BY <1>1, <1>2, <1>4, <1>5 DEF Ranks, ToSet

LEMMA PosFacts ==
  ASSUME NEW R, NEW p \in ToSet(R)
  PROVE  Pos(R, p) \in DOMAIN R /\ R[Pos(R, p)] = p
<1>1. \E i \in DOMAIN R : R[i] = p
  BY DEF ToSet
<1> QED BY <1>1 DEF Pos

\* Some of the ranked paths have a best one.
LEMMA BestIn ==
  ASSUME NEW R, Ranks(R), NEW S \in SUBSET ToSet(R), S # {}
  PROVE  Best(S, R) \in S
<1> DEFINE T == {Pos(R, p) : p \in S}
<1>1. T \subseteq Nat /\ T # {}
  BY PosFacts DEF Ranks
<1>2. PICK x \in T : \A y \in T : ~(<<y, x>> \in OpToRel(<, Nat))
  <2> HIDE DEF T
  <2> QED BY <1>1, NatLessThanWellFounded, WFMin
<1>3. \A y \in T : x <= y
  <2> SUFFICES ASSUME NEW y \in T PROVE x <= y
    OBVIOUS
  <2>1. x \in Nat /\ y \in Nat
    BY <1>1
  <2>2. ~(y < x)
    BY <1>2, <2>1 DEF OpToRel
  <2> QED BY <2>1, <2>2
<1>4. PICK p \in S : x = Pos(R, p)
  OBVIOUS
<1>5. \A q \in S : Pos(R, p) <= Pos(R, q)
  BY <1>3, <1>4
<1> QED BY <1>5 DEF Best

LEMMA PairElements ==
  ASSUME NEW a, NEW b
  PROVE  ToSet(<<a, b>>) = {a, b}
<1>1. DOMAIN <<a, b>> = {1, 2}
  OBVIOUS
<1> QED BY <1>1 DEF ToSet

LEMMA PairOfTwo ==
  ASSUME NEW f \in [1..2 -> Paths]
  PROVE  ToSet(f) = {f[1], f[2]}
<1>1. DOMAIN f = {1, 2}
  OBVIOUS
<1> QED BY <1>1 DEF ToSet

IsPair(p) == p = <<>> \/ (p \in [1..2 -> Paths] /\ p[1] # p[2])

\* Sorting two paths keeps them.
LEMMA SortedPair ==
  ASSUME NEW R, Ranks(R), NEW a \in ToSet(R), NEW b \in ToSet(R), a # b
  PROVE  /\ ToSet(Sorted({a, b}, R)) = {a, b}
         /\ IsPair(Sorted({a, b}, R))
<1> DEFINE p == Best({a, b}, R)
           q == Best({a, b} \ {p}, R)
<1>1. p \in {a, b}
  BY BestIn
<1> HIDE DEF p
<1>2. q \in {a, b} \ {p}
  BY <1>1, BestIn
<1> HIDE DEF q
<1>3. Sorted({a, b}, R) = <<p, q>>
  BY DEF Sorted, p, q
<1>4. {p, q} = {a, b} /\ p # q /\ p \in Paths /\ q \in Paths
  BY <1>1, <1>2 DEF Ranks
<1>5. <<p, q>> \in [1..2 -> Paths]
  BY <1>4
<1> QED BY <1>3, <1>4, <1>5, PairElements DEF IsPair

LEMMA TwoElements ==
  ASSUME NEW a, NEW b, a # b
  PROVE  Cardinality({a, b}) = 2
<1> DEFINE A == {a}
<1>1. IsFiniteSet(A) /\ Cardinality(A) = 1 /\ b \notin A
  BY FS_Singleton
<1>2. A \cup {b} = {a, b}
  OBVIOUS
<1> HIDE DEF A
<1>3. Cardinality(A \cup {b}) = Cardinality(A) + 1
  BY <1>1, FS_AddElement
<1> QED BY <1>1, <1>2, <1>3

\* Two paths are to two addresses, or not.
LEMMA SpreadOfTwo ==
  ASSUME NEW a, NEW b
  PROVE  Spread({a, b}) <=> DstOf[a] # DstOf[b]
<1>1. Dsts({a, b}) = {DstOf[a], DstOf[b]}
  BY DEF Dsts
<1>2. CASE DstOf[a] = DstOf[b]
  <2>1. Dsts({a, b}) = {DstOf[a]}
    BY <1>1, <1>2
  <2>2. Cardinality(Dsts({a, b})) = 1
    BY <2>1, FS_Singleton
  <2> QED BY <1>2, <2>2 DEF Spread
<1>3. CASE DstOf[a] # DstOf[b]
  <2> DEFINE x == DstOf[a]
             y == DstOf[b]
  <2>1. Cardinality(Dsts({a, b})) = 2
    <3>1. x # y /\ Dsts({a, b}) = {x, y}
      BY <1>1, <1>3
    <3> HIDE DEF x, y
    <3>2. Cardinality({x, y}) = 2
      BY <3>1, TwoElements
    <3> QED BY <3>1, <3>2
  <2> QED BY <1>3, <2>1 DEF Spread
<1> QED BY <1>2, <1>3

\* Paths to two addresses include one to another address than any given one.
LEMMA SpreadHasOther ==
  ASSUME NEW S, Spread(S), NEW d
  PROVE  \E p \in S : DstOf[p] # d
<1> SUFFICES ASSUME \A p \in S : DstOf[p] = d PROVE FALSE
  OBVIOUS
<1>1. Dsts(S) = {} \/ Dsts(S) = {d}
  BY DEF Dsts
<1>2. Cardinality({}) = 0 /\ Cardinality({d}) = 1
  BY FS_EmptySet, FS_Singleton
<1>3. Cardinality(Dsts(S)) \in {0, 1}
  BY <1>1, <1>2
<1> QED BY <1>3 DEF Spread

LEMMA EligibleFacts ==
  ASSUME NEW R, Ranks(R), NEW c \in SUBSET ToSet(R), ToSet(R) \ c # {}
  PROVE  /\ Eligible(c, R) \in ToSet(R) \ c
         /\ \A x : c = {x} /\ Spread(ToSet(R)) => DstOf[Eligible(c, R)] # DstOf[x]
<1> DEFINE other == {p \in ToSet(R) \ c : Spread(ToSet(R)) /\ c # {} => DstOf[p] \notin Dsts(c)}
           T == IF other # {} THEN other ELSE ToSet(R) \ c
<1>1. T # {} /\ T \in SUBSET ToSet(R) /\ T \in SUBSET (ToSet(R) \ c)
  OBVIOUS
<1>2. Eligible(c, R) = Best(T, R)
  BY DEF Eligible
<1>3. ASSUME NEW x, c = {x}, Spread(ToSet(R))
      PROVE  \A p \in T : DstOf[p] # DstOf[x]
  <2>1. Dsts(c) = {DstOf[x]}
    BY <1>3 DEF Dsts
  <2>2. PICK p \in ToSet(R) : DstOf[p] # DstOf[x]
    BY <1>3, SpreadHasOther
  <2>3. p \in other
    BY <1>3, <2>1, <2>2
  <2> QED BY <1>3, <2>1, <2>3
<1> HIDE DEF T
<1>4. Best(T, R) \in T
  BY <1>1, BestIn
<1> QED BY <1>1, <1>2, <1>3, <1>4

\* Filling up makes a pair of nothing or of one path, to two addresses if it can.
LEMMA FillFacts ==
  ASSUME NEW R, Ranks(R), NEW c \in SUBSET ToSet(R), c = {} \/ \E x : c = {x}
  PROVE  \E a, b \in ToSet(R) :
           /\ a # b /\ Fill(c, R) = {a, b}
           /\ Spread(ToSet(R)) => DstOf[a] # DstOf[b]
<1> DEFINE add(d) == d \cup {Eligible(d, R)}
<1>1. ASSUME NEW x \in ToSet(R)
      PROVE  \E a, b \in ToSet(R) :
               /\ a # b /\ add({x}) = {a, b}
               /\ Spread(ToSet(R)) => DstOf[a] # DstOf[b]
  <2>1. ToSet(R) \ {x} # {}
    BY DEF Ranks
  <2>2. /\ Eligible({x}, R) \in ToSet(R) \ {x}
        /\ Spread(ToSet(R)) => DstOf[Eligible({x}, R)] # DstOf[x]
    BY <2>1, EligibleFacts
  <2>3. add({x}) = {x, Eligible({x}, R)}
    OBVIOUS
  <2> QED BY <2>2, <2>3
<1>2. CASE c = {}
  <2>1. Eligible({}, R) \in ToSet(R)
    BY EligibleFacts DEF Ranks
  <2>2. add({}) = {Eligible({}, R)}
    OBVIOUS
  <2>3. Fill(c, R) = add(add({}))
    BY <1>2 DEF Fill
  <2> HIDE DEF add
  <2> QED BY <1>1, <2>1, <2>2, <2>3
<1>3. CASE c # {}
  <2>1. PICK x : c = {x}
    BY <1>3
  <2>2. Fill(c, R) = add({x})
    BY <1>3, <2>1 DEF Fill
  <2> HIDE DEF add
  <2> QED BY <1>1, <2>1, <2>2
<1> QED BY <1>2, <1>3

\* A promotion replaces an active path, to the same address if there is a choice.
LEMMA PromotionSlotFacts ==
  ASSUME NEW R, pair \in [1..2 -> Paths], NEW p
  PROVE  /\ PromotionSlot(p, R) \in {pair[1], pair[2]}
         /\ Spread(ToSet(R)) =>
              \/ DstOf[PromotionSlot(p, R)] = DstOf[p]
              \/ DstOf[pair[1]] # DstOf[p] /\ DstOf[pair[2]] # DstOf[p]
<1> DEFINE same == {i \in 1..2 : DstOf[pair[i]] = DstOf[p]}
<1>1. CASE Spread(ToSet(R)) /\ same # {}
  <2>1. \E x \in same : \A y \in same : x =< y
    <3>1. same \in {{1}, {2}, {1, 2}}
      BY <1>1
    <3> HIDE DEF same
    <3> QED BY <3>1
  <2>2. Min(same) \in same
    BY <2>1 DEF Min
  <2>3. PromotionSlot(p, R) = pair[Min(same)]
    BY <1>1 DEF PromotionSlot
  <2>4. Min(same) \in {1, 2} /\ DstOf[pair[Min(same)]] = DstOf[p]
    BY <2>2
  <2> QED BY <2>3, <2>4
<1>2. CASE ~(Spread(ToSet(R)) /\ same # {})
  <2>1. PromotionSlot(p, R) \in {pair[1], pair[2]}
    BY <1>2 DEF PromotionSlot
  <2>2. same = {} => DstOf[pair[1]] # DstOf[p] /\ DstOf[pair[2]] # DstOf[p]
    OBVIOUS
  <2> QED BY <1>2, <2>1, <2>2
<1> QED BY <1>1, <1>2

-----------------------------------------------------------------------------
(* Dual send: the active pair.                                               *)

DualType ==
  /\ budget \in 0..2 /\ IsPair(pair)
  /\ replaced \in 0..ReplaceCap \cup {Never} /\ promoted \in 0..ReplaceCap \cup {Never}
  /\ refreshed \in 0..RefreshCap \cup {Never}
  /\ ranked \in [Senders -> Rankings] /\ lag \in [Senders -> 0..MaxLag]
  /\ \A s \in Senders : pc[s] = "apply" => ranked[s] \in RankedPaths

\* A promotion is a replacement; the send that made it may have read the clock
\* MaxLag ticks before.
Paced == promoted # Never => replaced # Never /\ replaced <= promoted + MaxLag

DualInv == DualType /\ Paced

\* The active pair that Apply installs, and what it says of its addresses.
LEMMA FillStep ==
  ASSUME IsPair(pair), NEW R, Ranks(R), NEW l, ApplyFill(R, l)
  PROVE  /\ IsPair(pair')
         /\ Spread(ToSet(R)) => Spread(ToSet(pair'))
<1> DEFINE c == ToSet(pair) \cap ToSet(R)
<1>1. c \in SUBSET ToSet(R) /\ (c = {} \/ \E x : c = {x})
  <2>1. CASE pair = <<>>
    <3>1. ToSet(pair) = {}
      BY <2>1 DEF ToSet
    <3> QED BY <3>1
  <2>2. CASE pair # <<>>
    <3>1. ToSet(pair) = {pair[1], pair[2]} /\ ~(ToSet(pair) \subseteq ToSet(R))
      BY <2>2, PairOfTwo DEF IsPair, ApplyFill, Missing
    <3> QED BY <3>1
  <2> QED BY <2>1, <2>2
<1>2. pair' = Sorted(Fill(c, R), R)
  BY DEF ApplyFill
<1> HIDE DEF c
<1>3. PICK a, b \in ToSet(R) :
        /\ a # b /\ Fill(c, R) = {a, b}
        /\ Spread(ToSet(R)) => DstOf[a] # DstOf[b]
  BY <1>1, FillFacts
<1>4. ToSet(pair') = {a, b} /\ IsPair(pair')
  <2>1. ToSet(Sorted({a, b}, R)) = {a, b} /\ IsPair(Sorted({a, b}, R))
    BY <1>3, SortedPair
  <2>2. pair' = Sorted({a, b}, R)
    BY <1>2, <1>3
  <2> QED BY <2>1, <2>2
<1>5. Spread({a, b}) <=> DstOf[a] # DstOf[b]
  BY SpreadOfTwo
<1> QED BY <1>3, <1>4, <1>5

LEMMA PairThere ==
  ASSUME IsPair(pair), NEW R, ~Missing(R)
  PROVE  /\ pair \in [1..2 -> Paths] /\ pair[1] # pair[2]
         /\ ToSet(pair) = {pair[1], pair[2]} /\ ToSet(pair) \subseteq ToSet(R)
BY PairOfTwo DEF IsPair, Missing

LEMMA PromoteStep ==
  ASSUME IsPair(pair), NEW R, Ranks(R), NEW l, ApplyPromote(R, l)
  PROVE  /\ IsPair(pair')
         /\ Spread(ToSet(R)) /\ Spread(ToSet(pair)) => Spread(ToSet(pair'))
<1> DEFINE p == Best(Promotable(R), R)
           x == PromotionSlot(p, R)
<1>1. /\ pair \in [1..2 -> Paths] /\ pair[1] # pair[2]
      /\ ToSet(pair) = {pair[1], pair[2]} /\ ToSet(pair) \subseteq ToSet(R)
  BY PairThere DEF ApplyPromote
<1>2. Promotable(R) # {} /\ pair' = Sorted((ToSet(pair) \ {x}) \cup {p}, R)
  BY DEF ApplyPromote
<1>3. Promotable(R) \in SUBSET ToSet(R)
  BY DEF Promotable
<1>4. p \in Promotable(R)
  BY <1>2, <1>3, BestIn
<1>5. p \in ToSet(R) \ ToSet(pair)
  BY <1>4 DEF Promotable
<1> HIDE DEF p
<1>6. /\ x \in {pair[1], pair[2]}
      /\ Spread(ToSet(R)) =>
           \/ DstOf[x] = DstOf[p]
           \/ DstOf[pair[1]] # DstOf[p] /\ DstOf[pair[2]] # DstOf[p]
  BY <1>1, PromotionSlotFacts
<1> HIDE DEF x
<1>7. PICK y \in {pair[1], pair[2]} : y # x /\ ToSet(pair) = {x, y}
  BY <1>1, <1>6
<1>8. (ToSet(pair) \ {x}) \cup {p} = {y, p} /\ y # p /\ y \in ToSet(R)
  BY <1>1, <1>5, <1>7
<1>9. ToSet(pair') = {y, p} /\ IsPair(pair')
  BY <1>2, <1>5, <1>8, SortedPair
<1>10. Spread(ToSet(R)) /\ DstOf[x] # DstOf[y] => DstOf[y] # DstOf[p]
  BY <1>6, <1>7
<1>11. Spread(ToSet(pair)) => DstOf[x] # DstOf[y]
  BY <1>7, SpreadOfTwo
<1>12. DstOf[y] # DstOf[p] => Spread(ToSet(pair'))
  BY <1>9, SpreadOfTwo
<1> QED BY <1>9, <1>10, <1>11, <1>12

LEMMA KeepStep ==
  ASSUME IsPair(pair), NEW R, Ranks(R), NEW l, ApplyKeep(R, l)
  PROVE  IsPair(pair') /\ ToSet(pair') = ToSet(pair)
<1>1. /\ pair[1] # pair[2] /\ ToSet(pair) = {pair[1], pair[2]} /\ ToSet(pair) \subseteq ToSet(R)
  BY PairThere DEF ApplyKeep
<1>2. pair' = Sorted({pair[1], pair[2]}, R)
  BY <1>1 DEF ApplyKeep
<1> QED BY <1>1, <1>2, SortedPair

\* Ages are natural numbers, and a send's lag is within MaxLag.
LEMMA Bounds ==
  /\ MaxLag \in Nat /\ Cooldown \in Nat /\ RefreshEvery \in Nat
  /\ ReplaceCap \in Nat /\ RefreshCap \in Nat /\ MaxLag <= ReplaceCap /\ MaxLag <= RefreshCap
  /\ \A n \in Nat : n # Never
BY SendPathsAssumption DEF ReplaceCap, RefreshCap

LEMMA OlderType ==
  ASSUME NEW cap \in Nat, NEW age \in 0..cap \cup {Never}
  PROVE  /\ Older(age, cap) \in 0..cap \cup {Never}
         /\ Older(age, cap) = Never <=> age = Never
         /\ age # Never => /\ Older(age, cap) <= age + 1
                           /\ Older(age, cap) = age + 1 \/ Older(age, cap) = cap
<1>1. CASE age = Never
  BY <1>1 DEF Older
<1>2. CASE age # Never
  <2>1. age \in Nat /\ age + 1 \in Nat
    BY <1>2
  <2>2. Min({age + 1, cap}) \in {age + 1, cap} /\ Min({age + 1, cap}) <= age + 1
        /\ Min({age + 1, cap}) <= cap
    BY <2>1, MinOfTwo
  <2>3. Older(age, cap) = Min({age + 1, cap})
    BY <1>2 DEF Older
  <2>4. Older(age, cap) \in 0..cap
    BY <2>1, <2>2, <2>3
  <2>5. Older(age, cap) # Never
    BY <2>4, Bounds
  <2> QED BY <1>2, <2>2, <2>3, <2>4, <2>5
<1> QED BY <1>1, <1>2

LEMMA RankKeeps ==
  ASSUME FlowType, DualInv, NEW s \in Senders, Rank(s)
  PROVE  DualInv'
<1>1. PICK R \in RankedPaths : ranked' = [ranked EXCEPT ![s] = R]
  BY DEF Rank
<1>2. R \in Rankings
  BY DEF RankedPaths
<1>3. ranked' \in [Senders -> Rankings]
  BY <1>1, <1>2 DEF DualInv, DualType
<1>4. \A x \in Senders : pc'[x] = "apply" => ranked'[x] \in RankedPaths
  BY <1>1 DEF Rank, DualInv, DualType, FlowType
<1> QED BY <1>3, <1>4 DEF Rank, DualInv, DualType, Paced

\* Budget and ages after a policy step, whatever it did to the pair.
LEMMA ApplyCounts ==
  ASSUME DualInv, NEW R, NEW l \in 0..MaxLag,
         ApplyFill(R, l) \/ ApplyPromote(R, l) \/ ApplyKeep(R, l),
         refreshed' = IF Refreshes(R, l) THEN l ELSE refreshed
  PROVE  /\ budget' \in 0..2
         /\ replaced' \in 0..ReplaceCap \cup {Never} /\ promoted' \in 0..ReplaceCap \cup {Never}
         /\ refreshed' \in 0..RefreshCap \cup {Never}
         /\ Paced'
<1>1. /\ budget \in 0..2
      /\ replaced \in 0..ReplaceCap \cup {Never} /\ promoted \in 0..ReplaceCap \cup {Never}
      /\ refreshed \in 0..RefreshCap \cup {Never} /\ Paced
  BY DEF DualInv, DualType
<1>2. l \in 0..ReplaceCap /\ l \in 0..RefreshCap /\ l <= MaxLag /\ l # Never /\ l \in Nat
  BY Bounds
<1>3. refreshed' \in 0..RefreshCap \cup {Never}
  BY <1>1, <1>2
<1>4. CASE ApplyFill(R, l)
  <2>1. /\ budget' = 0 /\ promoted' = promoted /\ replaced' \in {l, replaced}
    BY <1>4 DEF ApplyFill
  <2>2. Paced'
    BY <1>1, <1>2, <2>1, Bounds DEF Paced
  <2> QED BY <1>1, <1>2, <1>3, <2>1, <2>2
<1>5. CASE ApplyPromote(R, l)
  <2>1. /\ replaced' = l /\ promoted' = 0
        /\ budget' = (IF Refreshes(R, l) THEN 2 ELSE budget) - 1
        /\ (IF Refreshes(R, l) THEN 2 ELSE budget) > 0
    BY <1>5 DEF ApplyPromote, CanPromote
  <2>2. budget' \in 0..2
    BY <1>1, <2>1
  <2>3. Paced'
    BY <1>2, <2>1, Bounds DEF Paced
  <2>4. 0 \in 0..ReplaceCap
    BY Bounds
  <2> QED BY <1>2, <1>3, <2>1, <2>2, <2>3, <2>4
<1>6. CASE ApplyKeep(R, l)
  <2>1. /\ replaced' = replaced /\ promoted' = promoted
        /\ budget' = IF Refreshes(R, l) THEN 2 ELSE budget
    BY <1>6 DEF ApplyKeep
  <2> QED BY <1>1, <1>3, <2>1 DEF Paced
<1> QED BY <1>4, <1>5, <1>6

LEMMA EmptyRanking == <<>> \in Rankings
<1>1. 0 \in 0..Cardinality(Paths)
  BY FS_CardinalityType, SendPathsAssumption
<1>2. <<>> \in [1..0 -> Paths] /\ IsInjective(<<>>)
  BY DEF IsInjective
<1> QED BY <1>1, <1>2 DEF Rankings

LEMMA ApplyFacts ==
  ASSUME DualInv, NEW s \in Senders, Apply(s)
  PROVE  /\ Ranks(ranked[s]) /\ IsPair(pair) /\ lag[s] \in 0..MaxLag
         /\ \/ ApplyFill(ranked[s], lag[s]) \/ ApplyPromote(ranked[s], lag[s])
            \/ ApplyKeep(ranked[s], lag[s])
<1>1. ranked[s] \in RankedPaths /\ lag[s] \in 0..MaxLag
  BY DEF DualInv, DualType, Apply
<1> QED BY <1>1, RankedFacts DEF DualInv, DualType, Apply

LEMMA ApplyKeeps ==
  ASSUME FlowType, DualInv, NEW s \in Senders, Apply(s)
  PROVE  DualInv'
<1> DEFINE R == ranked[s]
           l == lag[s]
<1>1. /\ Ranks(R) /\ IsPair(pair) /\ l \in 0..MaxLag
      /\ ApplyFill(R, l) \/ ApplyPromote(R, l) \/ ApplyKeep(R, l)
      /\ refreshed' = IF Refreshes(R, l) THEN l ELSE refreshed
  BY ApplyFacts DEF Apply
<1> HIDE DEF R, l
<1>2. IsPair(pair')
  BY <1>1, FillStep, PromoteStep, KeepStep
<1>3. /\ budget' \in 0..2
      /\ replaced' \in 0..ReplaceCap \cup {Never} /\ promoted' \in 0..ReplaceCap \cup {Never}
      /\ refreshed' \in 0..RefreshCap \cup {Never}
      /\ Paced'
  BY <1>1, ApplyCounts
<1>4. ranked' \in [Senders -> Rankings] /\ lag' \in [Senders -> 0..MaxLag]
  BY EmptyRanking, Bounds DEF Apply, DualInv, DualType
<1>5. \A x \in Senders : pc'[x] = "apply" => ranked'[x] \in RankedPaths
  BY DEF Apply, DualInv, DualType, FlowType
<1> QED BY <1>2, <1>3, <1>4, <1>5 DEF DualInv, DualType

LEMMA TickKeeps ==
  ASSUME DualInv, Tick
  PROVE  DualInv'
<1>1. /\ replaced' \in 0..ReplaceCap \cup {Never} /\ promoted' \in 0..ReplaceCap \cup {Never}
      /\ refreshed' \in 0..RefreshCap \cup {Never}
  BY OlderType, Bounds DEF DualInv, DualType, Tick
<1>2. Paced'
  <2> SUFFICES ASSUME promoted' # Never
               PROVE  replaced' # Never /\ replaced' <= promoted' + MaxLag
    BY DEF Paced
  <2>1. /\ replaced \in 0..ReplaceCap \cup {Never} /\ promoted \in 0..ReplaceCap \cup {Never}
        /\ replaced' = Older(replaced, ReplaceCap) /\ promoted' = Older(promoted, ReplaceCap)
    BY DEF DualInv, DualType, Tick
  <2>2. promoted # Never /\ (promoted' = promoted + 1 \/ promoted' = ReplaceCap)
    BY <2>1, OlderType, Bounds
  <2>3. replaced # Never /\ replaced <= promoted + MaxLag
    BY <2>2 DEF DualInv, Paced
  <2>4. replaced' # Never /\ replaced' <= replaced + 1
    BY <2>1, <2>3, OlderType, Bounds
  <2>5. /\ replaced \in Nat /\ promoted \in Nat /\ replaced' \in Nat /\ promoted' \in Nat
        /\ replaced' <= ReplaceCap
    BY <1>1, <2>1, <2>2, <2>3, <2>4, Bounds
  <2>6. MaxLag \in Nat /\ ReplaceCap \in Nat
    BY Bounds
  <2>7. replaced' <= promoted' + MaxLag
    <3>1. CASE promoted' = promoted + 1
      BY <2>3, <2>4, <2>5, <2>6, <3>1
    <3>2. CASE promoted' = ReplaceCap
      BY <2>5, <2>6, <3>2
    <3> QED BY <2>2, <3>1, <3>2
  <2> QED BY <2>4, <2>7
<1>3. lag' \in [Senders -> 0..MaxLag]
  <2> SUFFICES ASSUME NEW s \in Senders
               PROVE  (IF pc[s] = "apply" THEN lag[s] + 1 ELSE 0) \in 0..MaxLag
    BY DEF Tick
  <2>1. lag[s] \in 0..MaxLag /\ (pc[s] = "apply" => lag[s] < MaxLag)
    BY DEF DualInv, DualType, Tick
  <2> QED BY <2>1, Bounds
<1> QED BY <1>1, <1>2, <1>3 DEF DualInv, DualType, Tick

LEMMA DualInvKept ==
  ASSUME FlowInv, DualInv, Next
  PROVE  DualInv'
<1>0. FlowType
  BY DEF FlowInv
<1>1. ASSUME NEW s \in Senders, Rank(s) \/ Apply(s) PROVE DualInv'
  BY <1>0, <1>1, RankKeeps, ApplyKeeps
<1>2. CASE Tick
  BY <1>2, TickKeeps
<1>3. CASE Reset
  BY <1>3 DEF Reset, DualInv, DualType, Paced, IsPair
<1>4. ASSUME UNCHANGED dualVars, \A s \in Senders : pc'[s] = "apply" => pc[s] = "apply"
      PROVE  DualInv'
  BY <1>4 DEF dualVars, DualInv, DualType, Paced
<1>5. ASSUME NEW s \in Senders, FlowStep(s) PROVE DualInv'
  <2>1. UNCHANGED dualVars /\ \E v \in FlowSteps \cup {"none"} : pc' = [pc EXCEPT ![s] = v]
    BY <1>5 DEF FlowStep, FlowLookup, FlowCheck, FlowForget, FlowTake, FlowChoose, FlowAssign,
                FlowWrite, FlowSteps
  <2>2. \A x \in Senders : pc'[x] = "apply" => pc[x] = "apply"
    BY <1>0, <2>1 DEF FlowType, FlowSteps
  <2> QED BY <1>4, <2>1, <2>2
<1>6. CASE Rebind \/ (\E x \in Slots : Rotate(x))
           \/ (\E x \in Sources : RotateDrop(x) \/ Sampled(x) \/ SamplesAge(x))
           \/ (\E f \in FlowIds : FlowIdles(f))
  <2>1. UNCHANGED <<dualVars, pc>>
    BY <1>6 DEF Rebind, Rotate, RotateDrop, Sampled, SamplesAge, FlowIdles
  <2> QED BY <1>4, <2>1
<1> QED BY <1>1, <1>2, <1>3, <1>5, <1>6 DEF Next

LEMMA InitDualInv == Init => DualInv
<1> SUFFICES ASSUME Init PROVE DualInv
  OBVIOUS
<1>1. ranked \in [Senders -> Rankings] /\ lag \in [Senders -> 0..MaxLag]
  BY EmptyRanking, Bounds DEF Init
<1> QED BY <1>1 DEF Init, DualInv, DualType, Paced, IsPair

\* Both strategies keep their invariants, whichever a Conn runs under.
THEOREM PathsAlwaysInv == Spec => [](FlowInv /\ DualInv)
<1>1. Init => FlowInv /\ DualInv
  BY InitFlowInv, InitDualInv
<1>2. FlowInv /\ DualInv /\ [Next]_vars => (FlowInv /\ DualInv)'
  <2>1. CASE FlowInv /\ DualInv /\ Next
    BY <2>1, FlowInvKept, DualInvKept
  <2>2. CASE FlowInv /\ DualInv /\ UNCHANGED vars
    <3>1. FlowInv'
      BY <2>2, FlowInvKept
    <3>2. DualInv'
      BY <2>2 DEF DualInv, DualType, Paced, vars, dualVars
    <3> QED BY <3>1, <3>2
  <2> QED BY <2>1, <2>2
<1> QED BY <1>1, <1>2, PTL DEF Spec

\* Every variable has its type, the flow table never has more than MaxFlows
\* entries, and the active paths are none or two different ones.
THEOREM PathsTypeCorrect == Spec => []TypeOK
<1>1. FlowInv /\ DualInv => TypeOK
  <2> SUFFICES ASSUME FlowInv, DualInv PROVE TypeOK
    OBVIOUS
  <2>1. Cardinality({f \in FlowIds : flows[f] # None}) <= MaxFlows
    BY DEF FlowInv, FlowLimit, Used
  <2>2. pc \in [Senders -> {"none", "apply", "check", "forget", "take", "choose",
                            "assign", "write"}]
    BY DEF FlowInv, FlowType, FlowSteps
  <2> QED BY <2>1, <2>2 DEF FlowInv, DualInv, FlowType, DualType, IsPair, TypeOK
<1> QED BY <1>1, PathsAlwaysInv, PTL

\* Only a send that applies the policy goes from there to the end.
LEMMA WhoApplies ==
  ASSUME FlowInv, Next, NEW s \in Senders, pc[s] = "apply", pc'[s] = "none"
  PROVE  Apply(s)
<1>1. pc \in [Senders -> {"none", "apply"} \cup FlowSteps]
  BY DEF FlowInv, FlowType
<1>2. ASSUME NEW x \in Senders, Rank(x) \/ Apply(x) PROVE Apply(s)
  BY <1>1, <1>2 DEF Rank, Apply
<1>3. ASSUME NEW x \in Senders, FlowStep(x) PROVE FALSE
  <2>1. pc[x] # "apply" /\ \E v \in FlowSteps \cup {"none"} : pc' = [pc EXCEPT ![x] = v]
    BY <1>3 DEF FlowStep, FlowLookup, FlowCheck, FlowForget, FlowTake, FlowChoose, FlowAssign,
                FlowWrite, FlowSteps
  <2> QED BY <1>1, <2>1
<1>4. ASSUME UNCHANGED pc PROVE FALSE
  BY <1>4
<1>5. CASE Reset \/ Tick \/ Rebind \/ (\E x \in Slots : Rotate(x))
           \/ (\E x \in Sources : RotateDrop(x) \/ Sampled(x) \/ SamplesAge(x))
           \/ (\E f \in FlowIds : FlowIdles(f))
  <2>1. UNCHANGED pc
    BY <1>5 DEF Reset, Tick, Rebind, Rotate, RotateDrop, Sampled, SamplesAge, FlowIdles
  <2> QED BY <1>4, <2>1
<1> QED BY <1>2, <1>3, <1>5 DEF Next

\* Redundancy over two addresses of the peer is not given up for latency.
THEOREM SpreadStays == Spec => SpreadKept
<1> DEFINE Step(s) == /\ pc[s] = "apply" /\ pc'[s] = "none"
                      /\ Spread(ToSet(ranked[s])) /\ (Missing(ranked[s]) \/ Spread(ToSet(pair)))
                      => Spread(ToSet(pair'))
<1>1. ASSUME FlowInv, DualInv, Next, NEW s \in Senders PROVE Step(s)
  <2> SUFFICES ASSUME pc[s] = "apply", pc'[s] = "none", Spread(ToSet(ranked[s])),
                      Missing(ranked[s]) \/ Spread(ToSet(pair))
               PROVE  Spread(ToSet(pair'))
    OBVIOUS
  <2>1. Apply(s)
    BY <1>1, WhoApplies
  <2> DEFINE R == ranked[s]
             l == lag[s]
  <2>2. /\ Ranks(R) /\ IsPair(pair)
        /\ ApplyFill(R, l) \/ ApplyPromote(R, l) \/ ApplyKeep(R, l)
    BY <1>1, <2>1, ApplyFacts
  <2>3. Spread(ToSet(R)) /\ (Missing(R) \/ Spread(ToSet(pair)))
    OBVIOUS
  <2> HIDE DEF R, l
  <2>4. CASE ApplyFill(R, l)
    BY <2>2, <2>3, <2>4, FillStep
  <2>5. CASE ApplyPromote(R, l)
    <3>1. ~Missing(R)
      BY <2>5 DEF ApplyPromote
    <3> QED BY <2>2, <2>3, <2>5, <3>1, PromoteStep
  <2>6. CASE ApplyKeep(R, l)
    <3>1. ~Missing(R)
      BY <2>6 DEF ApplyKeep
    <3>2. ToSet(pair') = ToSet(pair)
      BY <2>2, <2>6, KeepStep
    <3> QED BY <2>3, <3>1, <3>2
  <2> QED BY <2>2, <2>4, <2>5, <2>6
<1>2. FlowInv /\ DualInv /\ [Next]_vars => [\A s \in Senders : Step(s)]_vars
  BY <1>1
<1> HIDE DEF Step
<1>3. Spec => [][\A s \in Senders : Step(s)]_vars
  BY <1>2, PathsAlwaysInv, PTL DEF Spec
<1> QED BY <1>3 DEF SpreadKept, Step

\* Two promotions are a cooldown apart, up to the time that a send takes.
THEOREM PromotionsArePaced == Spec => PromotionsPaced
<1> DEFINE Step(s) == /\ pc[s] = "apply" /\ pc'[s] = "none" /\ ~Missing(ranked[s])
                      /\ ToSet(pair') # ToSet(pair) /\ promoted # Never
                      => promoted >= Cooldown - MaxLag
<1>1. ASSUME FlowInv, DualInv, Next, NEW s \in Senders PROVE Step(s)
  <2> SUFFICES ASSUME pc[s] = "apply", pc'[s] = "none", ~Missing(ranked[s]),
                      ToSet(pair') # ToSet(pair), promoted # Never
               PROVE  promoted >= Cooldown - MaxLag
    OBVIOUS
  <2>1. Apply(s)
    BY <1>1, WhoApplies
  <2> DEFINE R == ranked[s]
             l == lag[s]
  <2>2. /\ Ranks(R) /\ IsPair(pair) /\ l \in 0..MaxLag
        /\ ApplyFill(R, l) \/ ApplyPromote(R, l) \/ ApplyKeep(R, l)
    BY <1>1, <2>1, ApplyFacts
  <2>3. ~Missing(R)
    OBVIOUS
  <2> HIDE DEF R, l
  <2>4. ApplyPromote(R, l)
    BY <2>2, <2>3, KeepStep DEF ApplyFill
  <2>5. Passed(replaced, l, Cooldown)
    BY <2>4 DEF ApplyPromote, CanPromote
  <2>6. replaced # Never /\ replaced <= promoted + MaxLag
    BY <1>1 DEF DualInv, Paced
  <2>7. replaced - l >= Cooldown
    BY <2>5, <2>6 DEF Passed
  <2>8. replaced \in Nat /\ promoted \in Nat /\ l \in Nat
    BY <1>1, <2>2, <2>6, Bounds DEF DualInv, DualType
  <2> QED BY <2>2, <2>6, <2>7, <2>8, Bounds
<1>2. FlowInv /\ DualInv /\ [Next]_vars => [\A s \in Senders : Step(s)]_vars
  BY <1>1
<1> HIDE DEF Step
<1>3. Spec => [][\A s \in Senders : Step(s)]_vars
  BY <1>2, PathsAlwaysInv, PTL DEF Spec
<1> QED BY <1>3 DEF PromotionsPaced, Step
===============================================================================
