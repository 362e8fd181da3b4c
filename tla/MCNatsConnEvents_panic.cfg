SPECIFICATION Spec
CONSTANTS
  l1 = l1
  l2 = l2
  l3 = l3
  NoOne = NoOne
  Listeners = {l1, l2}
  MaxEvents = 1
  EvCap = 1
INVARIANTS
  CancelIsHarmless
CHECK_DEADLOCK FALSE
