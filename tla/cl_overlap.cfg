\* execute is called while a call of nbExecute is in progress.
SPECIFICATION Spec
CONSTANTS
  MaxCalls = 3
  ReqUnits = 2
  RespUnits = 2
  Kinds = {"keep"}
  OnErr <- Default
  Failing = FALSE
  Timeouts = FALSE
  Careless = {"overlap"}
INVARIANTS
  OneCallAtATime
