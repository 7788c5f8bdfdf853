\* A callback makes the next call although the server closes the connection.
SPECIFICATION Spec
CONSTANTS
  MaxCalls = 3
  ReqUnits = 2
  RespUnits = 2
  Kinds = {"keep", "close"}
  OnErr <- Default
  Failing = FALSE
  Timeouts = FALSE
  Careless = {"chain"}
INVARIANTS
  CallsSucceed
