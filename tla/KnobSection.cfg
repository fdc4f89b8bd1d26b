SPECIFICATION Spec
CONSTANTS
  Hands = {web}
  Switcher = switcher
  Values = {Off, Low}
  Off = Off
  None = None
  Knobs <- MCKnobs
  Mishaps = {"overlap", "late", "overtaken"}
  MaxMoves = 2
  MaxOthers = 2
INVARIANTS
  PlayedIsOn
  ParkedIsOff
  PinHolds
  HeldValue
  KnowsMixer
CHECK_DEADLOCK FALSE
