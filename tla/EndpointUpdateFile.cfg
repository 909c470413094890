\* The operator changes the static endpoints and the file; fsnotify works.
SPECIFICATION FairSpec
CONSTANTS
  NoExtra = NoExtra
  Files = {NoExtra, f1}
  Broken = Broken
  Statics = {a, b}
  Unset = Unset
  Torn = Torn
  Peers = {}
  Updaters = {u1, u2}
  Closers = {}
  Polling = FALSE
  FsnotifyMayFail = FALSE
  MaxWrites = 1
  MaxAsks = 1
  MaxFailures = 0
  MaxStale = 0
  MaxStops = 1
PROPERTIES
  StaticIsAdvertised
  NoticedIsAdvertised
