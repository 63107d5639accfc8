SPECIFICATION FairSpec
CONSTANTS
  Users = {u, v}
  Tags = {g}
  MaxStarts = 2
  MaxStops = 2
  MaxCallbacks = 1
  MaxChanges = 1
  CallbackStops = TRUE
INVARIANTS TypeOK QuietAfterStop HeardInOrder CallbackSeesValue
PROPERTIES StopReturns ChangeIsHeard
