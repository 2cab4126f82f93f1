SPECIFICATION Spec
CONSTANTS
  Blank = Blank
  Missing = Missing
  Garbled = Garbled
  Procs = {p1, p2}
  Spellings = {"~/d", "/home/d", "/e"}
  Clean <- Paths
  DefaultPath = "/home/d"
  Disk <- ConfigFiles
  XdgConfig = "xdg"
  Invocations <- Small
  MaxTouches = 2
SYMMETRY Symmetric
INVARIANTS IInv NeverServedExposed DeclinedWithCause
PROPERTIES TouchesOnlyItsOwn
CHECK_DEADLOCK FALSE
