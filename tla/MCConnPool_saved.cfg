SPECIFICATION ControlSpec
CONSTANTS
  r1 = r1
  r2 = r2
  c1 = c1
  c2 = c2
  h1 = h1
  h2 = h2
  s1 = s1
  s2 = s2
  None = None
  Requests = {r1, r2}
  Ids = {c1}
  Hosts = {h1, h2}
  SubLists = {s1}
  MaxBuilt = 1
INVARIANTS
  SavedConfigStays
