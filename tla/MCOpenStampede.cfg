SPECIFICATION FairSpec
CONSTANTS
  a = a
  b = b
  c = c
  None = None
  Procs = {a, b, c}
  Version <- MixedVersions
  Stmts = 1
  Attempts = 2
  MaxMishaps = 2
INVARIANTS LockedOutWithCause
PROPERTIES EveryOpenEnds
CHECK_DEADLOCK FALSE
