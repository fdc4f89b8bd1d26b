SPECIFICATION Spec
CONSTANTS
  b1 = b1
  mqtt = mqtt
  t1 = t1
  t2 = t2
  Browsers = {b1}
  Others = {mqtt}
  Timers = {t1, t2}
  v1 = v1
  v2 = v2
  Values = {v1, v2}
  Scopes = {"mix"}
  None = None
  QueueMax = 2
  Mishaps = {}
  MaxMoves = 3
CHECK_DEADLOCK FALSE
INVARIANT EchoArrives
