SPECIFICATION FormsSpec
CONSTANTS
  MaxEdits = 2
  MaxSources = 1
  SourceNames = {"a"}
  UnitSizes <- MCUnits
  MaxTime = 24
INVARIANT FixedKept
