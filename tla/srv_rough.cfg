\* Bad requests, pipelining, a shared listening socket, every error handler and every mistake of the application; the server may crash.
SPECIFICATION Spec
CONSTANTS
  c1 = c1
  c2 = c2
  Listener = Listener
  NoConn = NoConn
  Conns = {c1, c2}
  Plan <- Mixed
  ReqUnits = 3
  RespUnits = 2
  Window = 1
  OnErr <- AllAnswers
  Pipelining = TRUE
  Preforked = TRUE
  Scarce = TRUE
  Failing = {c1, c2}
  Careless = {"early", "double", "fault", "thread"}
PROPERTIES
  ImplementsRpcService
CHECK_DEADLOCK FALSE
