SPECIFICATION ConsumersSpec
CONSTANTS
  Users = {a}
  NoOne = none
  Methods = {"ReadLogs"}
  MaxCalls = 1
  MaxDials = 2
  MaxLines = 1
  Empty = {}
  Bounds <- MCOne
  Wanted = {}
  ChanCap = 1
  Faults = {}
INVARIANTS ReadsLiveConnection
