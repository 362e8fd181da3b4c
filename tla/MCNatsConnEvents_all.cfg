SPECIFICATION Spec
CONSTANTS
  l1 = l1
  l2 = l2
  l3 = l3
  NoOne = NoOne
  Listeners = {l1, l2}
  MaxEvents = 2
  EvCap = 1

INVARIANTS
  ListenersSound
  KnowsLatest
PROPERTIES
  StopCloses
CHECK_DEADLOCK FALSE
