\* Concurrent sends under each strategy, while sockets and rankings change.
SPECIFICATION Spec
SYMMETRY Sym
CONSTANTS
  p1 = p1
  p2 = p2
  p3 = p3
  p4 = p4
  d1 = d1
  d2 = d2
  Strategies = {"dual-send", "single-source"}
  Senders = {n1, n2}
  Paths = {p1, p2, p3, p4}
  DstOf <- TwoAddresses
  RefreshEvery = 3
  Cooldown = 2
  MaxLag = 1
  Never = Never
  Slots = {s1}
  MaxGen = 2
  FlowIds = {f1, f2}
  MaxFlows = 1
  Primary = Primary
  None = None
INVARIANTS
  TypeOK
  SourceWasCurrent
PROPERTIES
  SpreadKept
  PromotionsPaced
