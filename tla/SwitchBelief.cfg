SPECIFICATION Spec
CONSTANTS
  Threads = {t1, t2}
  Workspaces = {w1, w2}
  Snapshots = {s1, s2}
  None = None
  Sources = {"macro", "click", "mqtt", "agent", "feed", "user", "restart", "reconnect"}
  Lossy = TRUE
  MaxCommands = 3
SYMMETRY Symmetry
CHECK_DEADLOCK FALSE
INVARIANTS
  TypeOK
  DeviceLockExact
  GenuineCommands
  
PROPERTY
  LayoutHeld
