SPECIFICATION Spec
CHECK_DEADLOCK FALSE
CONSTANTS
  Half = 64
  InitialDelays = {0, 1, 3, 20, 40, 63}
  MaxDelays = {0, 2, 10, 31, 32, 63}
  MaxRetries <- MCMaxRetries
INVARIANTS TypeOK Outcome SleepsDouble
