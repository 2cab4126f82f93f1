SPECIFICATION Spec
CONSTANTS
  Runs = {r1, r2, r3}
  Names = {n1, n2, n3}
  Absent = Absent
  MaxRows = 1
SYMMETRY Symmetric
INVARIANTS IInv VisibleIsFinished FailsOnItsOwn Litter FreshAfterSuccess
PROPERTIES ImplementsBackup
CHECK_DEADLOCK FALSE
