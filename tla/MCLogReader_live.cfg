SPECIFICATION ConsumersFairSpec
CONSTANTS
  Users = {a}
  NoOne = none
  Methods = {"GetLatestAlarms", "Close", "ReadLogs", "StartRemoteLogMonitor", "StopRemoteLogMonitor"}
  MaxCalls = 3
  MaxDials = 2
  MaxLines = 3
  Empty = {}
  Bounds <- MCLive
  Wanted = {1, 2, 3}
  ChanCap = 1
  Faults = {"silent", "rst", "count"}
PROPERTIES CancelEndsPipeline EveryCallReturns ProgramsEnd
