SPECIFICATION Spec
CONSTANTS
  b1 = b1
  mqtt = mqtt
  t1 = t1
  t2 = t2
  Browsers = {b1}
  Others = {mqtt}
  Timers = {t1, t2}
  v1 = v1
  v2 = v2
  Values = {v1, v2}
  Scopes = {"mix", "channel"}
  None = None
  QueueMax = 2
  Mishaps = {"slow"}
  MaxMoves = 3
CHECK_DEADLOCK FALSE
INVARIANTS
  NeverDropsFinal
  FinalValueKept
  FinalValueShown
SYMMETRY Symmetry
