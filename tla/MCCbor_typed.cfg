SPECIFICATION FormSpec
CONSTANTS
  Schema <- MCSchema
  Rules = {"level"}
  Whole <- MCWhole
  Closed <- MCClosed
  Texts <- MCOneText
  Inputs <- MCInputs
  MaxRows = 3
  MaxTurns = 2
INVARIANT CardIsShown
CHECK_DEADLOCK FALSE
