SPECIFICATION FairSpec
CONSTANTS
  Callers = {a, b}
  NoCaller = none
  MaxCalls = 3
  Faults = {"drop", "refuse", "reset"}
  HeaderLen = 2
  RegisterLen = 1
  PrefixLen = 1
  BodyLens = {1, 2}
  JunkHandles = {9}
INVARIANTS NothingLeftBehind
PROPERTIES EveryCallReturns KeepsContract
