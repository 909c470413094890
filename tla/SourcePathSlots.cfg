\* Two auxiliary sockets, re-bound one after the other, and Close.
SPECIFICATION Spec
CONSTANTS
  d1 = d1
  d2 = d2
  q1 = q1
  q2 = q2
  Slots = {s1, s2}
  Dsts = {d1}
  Peers = {q1}
  PeerOf <- OnePeer
  Probes = {p1}
  Senders = {n1}
  Free = Free
  Link = Link
  NoSlot = NoSlot
  PingTimeout = 1
  SampleTTL = 1
  LossWindow = 1
  Recovery = 1
  MaxPeers = 0
  MaxBurst = 1
  HardCap = 1
  SampleLimit = 1
  OutcomeLimit = 1
  ProbeDropStreak = 1
  MaxRebinds = 2
  MaxNow = 1
INVARIANTS
  SampleAttribution
  ClosedKeepsNothing
PROPERTY
  ImplementsPathEvidence
\* After Conn.Close and the last call everything stands still.
CHECK_DEADLOCK FALSE
