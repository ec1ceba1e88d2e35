\* Two clients, three processes, and three of: a command, a process started by
\* hand, a crash, one that cannot lock.
CONSTANTS
  Client = {c1, c2}
  MaxPids = 3
  MaxEvents = 3
SPECIFICATION Spec
INVARIANTS OneOwner StopMeansDead
PROPERTY Drains
CHECK_DEADLOCK FALSE
