SPECIFICATION Spec
CONSTANTS
  Callers = {a, b}
  Positions = {PR}
  Numbers = {RR}
  Flags = {}
  Strings = {SR}
  NumReals = 1
  MaxExt = 2
  Axes = 2
  Clients <- AnyClient
  Faults = {"late", "refuse", "drop"}
  MaxCalls = 3
  MaxLate = 2
INVARIANTS TypeOK Layered WrittenIsStored ReadIsSnapshot ConfigAligns
CHECK_DEADLOCK FALSE
SYMMETRY CallerSymmetry
