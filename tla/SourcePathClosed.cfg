\* Conn.Close leaves no socket bound: the code does not keep this.
SPECIFICATION Spec
CONSTANTS
  d1 = d1
  d2 = d2
  q1 = q1
  q2 = q2
  Slots = {s1}
  Dsts = {d1}
  Peers = {q1}
  PeerOf <- OnePeer
  Probes = {p1}
  Senders = {n1}
  Free = Free
  Link = Link
  NoSlot = NoSlot
  PingTimeout = 1
  SampleTTL = 1
  LossWindow = 1
  Recovery = 1
  MaxPeers = 0
  MaxBurst = 1
  HardCap = 1
  SampleLimit = 1
  OutcomeLimit = 1
  ProbeDropStreak = 1
  MaxRebinds = 1
  MaxNow = 1
INVARIANT
  ClosedStaysClosed
\* After Conn.Close and the last call everything stands still.
CHECK_DEADLOCK FALSE
