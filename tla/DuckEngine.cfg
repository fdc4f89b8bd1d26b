SPECIFICATION Spec
CONSTANTS
  Top = 2
  Floor = 0
  Depth = 2
  ExternalEps = 0
  None = None
  Mishaps = {"late", "overlap", "failed", "stale", "unnoticed", "deleted"}
  MaxMoves = 3
CHECK_DEADLOCK FALSE
INVARIANTS
  NoSendStuck
PROPERTIES
  BaseIsHuman
  ReleaseReturns
