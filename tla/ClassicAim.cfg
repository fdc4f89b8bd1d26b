SPECIFICATION Spec
CONSTANTS
  Channels = 3
  Layouts = {"mono", "linked"}
  Strips <- MCStrips
  Submixes = {"A", "B"}
  Start <- MCStart
  Macros <- MCMacros
  None = None
  Mishaps = {"lost", "early", "late", "moved", "blind", "raised"}
  MaxRuns = 1
  MaxHands = 1
  MaxTicks = 2
INVARIANTS
  TypeOK
  WritesLandOnTarget
  ConfirmedWritesLand
  ButtonSet
  RestsAtHome
  WaitMissesNothing
  RefusesOnlyAbsent
  SweepLearnsTruth
CHECK_DEADLOCK FALSE
