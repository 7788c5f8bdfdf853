\* Two clients with two requests each, that keep or close their connection; one of them may fail, and so may accept().
SPECIFICATION FairSpec
CONSTANTS
  c1 = c1
  c2 = c2
  Listener = Listener
  NoConn = NoConn
  Conns = {c1, c2}
  Plan <- BothTwo
  ReqUnits = 2
  RespUnits = 2
  Window = 1
  OnErr <- Default
  Pipelining = FALSE
  Preforked = FALSE
  Scarce = TRUE
  Failing = {c2}
  Careless = {}
INVARIANTS
  TypeOK
  ResponsesInOrder
  NoOrphan
  SourcesSound
  KeepAliveNegotiated
PROPERTIES
  ImplementsRpcService
  ServesConnections
  EveryRequestAnswered
  EveryClientAccepted
CHECK_DEADLOCK FALSE
