SPECIFICATION FairSpec
CONSTANTS
  Threads = {t1, t2}
  q = q
  r = r
  g = g
  A = A
  B = B
  Macros = {q, r, g}
  FireMode <- MCFireMode
  Debounced = {r}
  ForceSwitch = {g}
  Target <- MCTarget
  NoTarget = NoTarget
  Body <- MCBody
  MaxTicks = 1
  MaxTriggers = 3
  NoThread = NoThread
INVARIANTS
  TypeOK
  OneRunPerMacro
  SuppressCountsRuns
  NoOrphanedTrigger
  CancelIffReplaced
  DeviceExclusion
PROPERTIES
  EveryRunEnds
  QueuedIsServed
  ImplementsFireModes
