\* A peer waits for endpoints, and Close is called while the file changes and its watcher reloads.
SPECIFICATION FairSpec
CONSTANTS
  NoExtra = NoExtra
  Files = {NoExtra, f1}
  Broken = Broken
  Statics = {a}
  Unset = Unset
  Torn = Torn
  Peers = {p1}
  Updaters = {u1, u2}
  Closers = {k1}
  Polling = TRUE
  FsnotifyMayFail = FALSE
  MaxWrites = 1
  MaxAsks = 1
  MaxFailures = 0
  MaxStale = 1
  MaxStops = 0
PROPERTIES
  CloseReturns
  CallMeMaybeSent
\* After Conn.Close everything stands still.
CHECK_DEADLOCK FALSE
