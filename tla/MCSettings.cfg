\* Two command lines of two commands each, one crash or failed write.
CONSTANTS
  Procs = {a, b}
  Commands <- MCCommands
  MaxCommands = 2
  MaxMishaps = 1
  Legacies <- MCLegacies
  Suggestions = {"noise", "old"}
  UserPattern = "mine"
  Word = 256
  Absent = Absent
  Unset = Unset
  NotArray = NotArray
SPECIFICATION Spec
INVARIANT SettingsKept
CHECK_DEADLOCK FALSE
