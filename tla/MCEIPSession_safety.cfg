SPECIFICATION Spec
SYMMETRY CallerSymmetry
CONSTANTS
  Callers = {a, b}
  NoCaller = none
  MaxCalls = 4
  Faults = {"late", "drop", "refuse", "reset", "unitReply"}
  HeaderLen = 2
  RegisterLen = 1
  PrefixLen = 1
  BodyLens = {2}
  JunkHandles = {9}
INVARIANTS TypeOK CleanAnswers LiveHandle AgreeOnSession
