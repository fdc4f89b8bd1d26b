SPECIFICATION FairSpec
CONSTANTS
  Threads = {t1, t2, t3}
  q = q
  r = r
  g = g
  A = A
  B = B
  Macros = {q, r}
  FireMode <- MCFireMode
  Debounced = {r}
  ForceSwitch = {}
  Target <- MCTarget
  NoTarget = NoTarget
  Body <- MCBody
  MaxTicks = 1
  MaxTriggers = 3
  NoThread = NoThread
PROPERTY
  RefireIsNeverDropped
