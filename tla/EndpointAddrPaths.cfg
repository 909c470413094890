\* A direct and a relayed path to one peer, its pings, probes and callers.
SPECIFICATION Spec
SYMMETRY Sym
CONSTANTS
  Direct = {d1}
  Relay = {r1}
  Server = s1
  ServerOf <- OneServer
  Derp = Derp
  Boost <- NoBoost
  Latencies = {1, 2}
  Threshold = 10
  Compare = TRUE
  LastCliff = 1
  MaxCandidates = 0
  TxIds = {t1, t2}
  NoAddr = NoAddr
  NoServer = NoServer
INVARIANTS
  TypeOK
  TrustEarned
  BestIsLive
  CycleOfBest
  NoFlapping
PROPERTIES
  HoldKept
