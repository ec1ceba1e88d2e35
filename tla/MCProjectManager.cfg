\* Two request threads and the sweeper, two projects, a cap of one.
CONSTANTS
  Project = {p1, p2}
  Thread = {t1, t2}
  Sweeper = sweeper
  NoProject = NoProject
  NoThread = NoThread
  Kinds = {"query", "reindex", "reload", "rebuild"}
  MaxLoaded = 1
  MaxBytes = 1
  WordSize = 4
  MaxRequests = 2
  MaxEdits = 1
  DiskFails = TRUE
SPECIFICATION Spec
INVARIANTS TypeOK SingleFlight GateHasBuilder LruMatchesProjects CountsExact 
PROPERTIES EvictedUnused ImplementsCache
SYMMETRY Symmetry
CHECK_DEADLOCK FALSE
