SPECIFICATION FairSpec
CONSTANTS
  c1 = c1
  c2 = c2
  c3 = c3
  p1 = p1
  p2 = p2
  None = None
  Calls = {c1, c2, c3}
  Procs = {p1, p2}
  Observations <- OneClass
  Filters = {}
  Times = {1}
  Suffixes = {1}
  DefaultLimit = 1
PROPERTIES EveryCallEnds
