\* Allocation, handshakes and their cancellation for one endpoint, to the end.
SPECIFICATION FairSpec
CONSTANTS
  Peers = {p1}
  DiscoOf <- OwnDisco
  Servers = {s1}
  Regions = {r1}
  Offers <- Reallocated
  Addrs = {a1}
  AllocIds = {x1}
  HandIds = {h1, h2}
  Conn = Conn
  Admin = Admin
  None = None
  Budget <- WorkCalls
INVARIANTS
  TypeOK
  MapsAgree
  RegisteredWillReport
  DiscoInfoHeld
  SuccessToldOnce
  OneLoop
PROPERTIES
  StopIsThorough
  Settles
\* Once the calls are made the manager rests.
CHECK_DEADLOCK FALSE
