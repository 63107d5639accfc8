SPECIFICATION Spec
CONSTANTS
  Callers = {a}
  Positions = {PR}
  Numbers = {RR}
  Flags = {}
  Strings = {SR}
  NumReals = 6
  MaxExt = 3
  Axes = 3
  Clients <- OwnClient
  Faults = {}
  MaxCalls = 1
  MaxLate = 0
INVARIANTS PositionIsWritten
CHECK_DEADLOCK FALSE
