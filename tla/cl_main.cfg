\* Three calls of either kind, from anywhere; responses that keep, close or break the connection, failures and timeouts.
SPECIFICATION FairSpec
CONSTANTS
  MaxCalls = 3
  ReqUnits = 2
  RespUnits = 3
  Kinds = {"keep", "close", "abrupt", "bad"}
  OnErr <- Default
  Failing = TRUE
  Timeouts = TRUE
  Careless = {}
INVARIANTS
  TypeOK
  RightAnswer
  ExecingSound
  SilentWhenIdle
  CallsSucceed
PROPERTIES
  ImplementsRpcCalls
  KeepsToConnection
  EveryCallEnds
