SPECIFICATION Spec
CONSTANTS
  c1 = c1
  c2 = c2
  p1 = p1
  p2 = p2
  None = None
  Calls = {c1, c2}
  Procs = {p1, p2}
  Observations <- OneClass
  Filters <- OneFilter
  Times = {1}
  Suffixes = {1}
  DefaultLimit = 1
PROPERTIES TalliesWithRowsOpen
