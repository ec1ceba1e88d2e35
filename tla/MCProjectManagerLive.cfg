\* Three threads with one request each: liveness, without symmetry.
CONSTANTS
  Project = {p1, p2}
  Thread = {t1, t2, t3}
  Sweeper = sweeper
  NoProject = NoProject
  NoThread = NoThread
  Kinds = {"query"}
  MaxLoaded = 1
  MaxBytes = 1
  WordSize = 4
  MaxRequests = 1
  MaxEdits = 0
  DiskFails = TRUE
SPECIFICATION Spec
PROPERTIES EveryRequestAnswered IdleReclaimed
CHECK_DEADLOCK FALSE
