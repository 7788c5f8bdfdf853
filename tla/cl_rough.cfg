\* Every answer of an error handler and every mistake of the application; the client may crash.
SPECIFICATION Spec
CONSTANTS
  MaxCalls = 3
  ReqUnits = 2
  RespUnits = 2
  Kinds = {"keep", "close", "eof", "abrupt", "bad"}
  OnErr <- AllAnswers
  Failing = TRUE
  Timeouts = TRUE
  Careless = {"timeout", "overlap", "raise", "chain"}
PROPERTIES
  ImplementsRpcCalls
CHECK_DEADLOCK FALSE
