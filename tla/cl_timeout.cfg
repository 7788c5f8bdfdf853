\* A client is used again after an execute that has timed out.
SPECIFICATION Spec
CONSTANTS
  MaxCalls = 3
  ReqUnits = 2
  RespUnits = 2
  Kinds = {"keep"}
  OnErr <- Default
  Failing = FALSE
  Timeouts = TRUE
  Careless = {"timeout"}
INVARIANTS
  RightAnswer
