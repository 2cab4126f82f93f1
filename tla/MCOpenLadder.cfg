SPECIFICATION Spec
CONSTANTS
  a = a
  b = b
  c = c
  None = None
  Procs = {a, b, c}
  Version <- MixedVersions
  Stmts = 2
  Attempts = 2
  MaxMishaps = 1
SYMMETRY Symmetric
INVARIANTS IInv SchemaWhole NeverBroken ServedSchema
PROPERTIES OpensAtOwnVersion VersionClimbs ImplementsOpening
CHECK_DEADLOCK FALSE
