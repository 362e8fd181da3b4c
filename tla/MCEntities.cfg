SPECIFICATION MCSpec
CONSTANTS
  Kinds = {"stream", "bucket", "kv", "consumer", "cnn"}
  Names = {a, b}
  MaxClock = 2
  MaxReqs = 2
  MaxCards = 1
  MayDetach = {"consumer"}
  InitSizes = {1}
  NoName = none
  Families <- MCFamilies
  MaxSteps = 3
  MaxUuid = 12
  MaxEdits = 2
  MaxSources = 2
  SourceNames = {"s", "t"}
  UnitSizes <- MCUnits
  MaxTime = 24
SYMMETRY NameSymmetry
INVARIANTS
  EntityCardsSound
  SessionSound
  FormsSound
PROPERTIES
  InAskedOrder
  DraftKept
CHECK_DEADLOCK FALSE
