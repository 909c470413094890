\* Two peers compete for the probe budgets; a socket that answered stops
\* answering, and two lost probes rotate it.
SPECIFICATION Spec
CONSTANTS
  d1 = d1
  d2 = d2
  q1 = q1
  q2 = q2
  Slots = {s1}
  Dsts = {d1, d2}
  Peers = {q1, q2}
  PeerOf <- TwoPeers
  Probes = {p1, p2, p3, p4}
  Senders = {}
  Free = Free
  Link = Link
  NoSlot = NoSlot
  PingTimeout = 1
  SampleTTL = 1
  LossWindow = 1
  Recovery = 1
  MaxPeers = 1
  MaxBurst = 2
  HardCap = 2
  SampleLimit = 1
  OutcomeLimit = 1
  ProbeDropStreak = 2
  MaxRebinds = 1
  MaxNow = 1
SYMMETRY Symmetry
INVARIANTS
  TypeOK
  WithinBudgets
\* After Conn.Close and the last call everything stands still.
CHECK_DEADLOCK FALSE
