SPECIFICATION ConsumersSpec
SYMMETRY UserSymmetry
CONSTANTS
  Users = {a, b}
  NoOne = none
  Methods = {"Connect", "Close", "ReadLogs", "GetLatestAlarms", "StartRemoteLogMonitor", "StopRemoteLogMonitor"}
  MaxCalls = 3
  MaxDials = 2
  MaxLines = 4
  Empty = {3}
  Bounds <- MCSafety
  Wanted = {1, 4}
  ChanCap = 1
  Faults = {"dial", "refuse", "fin"}
INVARIANTS TypeOK NoLeak ConnectedIsOpen StaysClosed CallerNotNil InOrder NoGap FilterKeepsAll
