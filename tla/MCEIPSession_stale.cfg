SPECIFICATION Spec
SYMMETRY CallerSymmetry
CONSTANTS
  Callers = {a, b}
  NoCaller = none
  MaxCalls = 3
  Faults = {"late"}
  HeaderLen = 2
  RegisterLen = 1
  PrefixLen = 1
  BodyLens = {2}
  JunkHandles = {9}
INVARIANTS AnswersOwnRequest
