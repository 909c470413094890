\* Every source of updates races with two calls of Close, a stop and a peer that waits.
SPECIFICATION Spec
CONSTANTS
  NoExtra = NoExtra
  Files = {NoExtra, f1}
  Broken = Broken
  Statics = {a}
  Unset = Unset
  Torn = Torn
  Peers = {p1}
  Updaters = {u1, u2}
  Closers = {k1, k2}
  Polling = TRUE
  FsnotifyMayFail = TRUE
  MaxWrites = 1
  MaxAsks = 1
  MaxFailures = 1
  MaxStale = 1
  MaxStops = 1
SYMMETRY Symmetry
INVARIANTS
  TypeOK
  ToldInOrder
  NothingAfterClose
  SomebodyWillWake
\* After Conn.Close everything stands still.
CHECK_DEADLOCK FALSE
