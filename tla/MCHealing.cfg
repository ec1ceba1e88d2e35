\* Two files.  In the watched project one request beside the watcher and the preload;
\* in another project two requests at once.  Either two edits: a file edited again while
\* it is healed, a graph replaced while it is being healed.  Or one edit, and two
\* snapshots or evictions: a graph saved before the edit is taken in and warm loaded
\* after; a file removed while no graph is resident.
CONSTANTS
  File = {f1, f2}
  Thread = {t1, t2}
  NoThread = NoThread
  NoSnapshot = NoSnapshot
  Watcher = Watcher
  Preload = Preload
  MaxHash = 2
  StartHash = {2}
  MaxEdits = 2
  MaxLoads = 5
  MaxEvictions = 2
  MaxTurns = 4
  MaxOwnRequests = 1
  MaxRequests = 2
SPECIFICATION Spec
INVARIANTS WatcherOwes TrackerExact
PROPERTY Converges
CHECK_DEADLOCK FALSE
