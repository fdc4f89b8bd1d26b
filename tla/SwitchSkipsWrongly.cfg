SPECIFICATION Spec
CONSTANTS
  Threads = {t1, t2}
  Workspaces = {w1, w2}
  Snapshots = {s1, s2}
  None = None
  Sources = {"macro"}
  Lossy = FALSE
  MaxCommands = 3
CHECK_DEADLOCK FALSE
PROPERTY
  SkipOnlyOnTarget
