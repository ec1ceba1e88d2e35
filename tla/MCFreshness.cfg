\* Two request threads and two evictors (the sweeper and a load of another
\* project), two edits or deletions, a graph and its successor, one crash.
CONSTANTS
  File = {f1, f2}
  Thread = {t1, t2}
  Evictor = {e1, e2}
  NoThread = NoThread
  Kinds = {"query", "reindex", "reload", "rebuild"}
  MaxRequests = 1
  MaxEdits = 2
  MaxLoads = 2
  MaxEvictions = 1
  MaxCrashes = 1
  DiskFails = TRUE
SPECIFICATION Spec
INVARIANT WatermarkSound
PROPERTIES ServedFresh
SYMMETRY Symmetry
CHECK_DEADLOCK FALSE
