\* Another process accepts the connection between select() and accept().
\* The only client is taken away and the server waits in select(): it may really stop.
SPECIFICATION Spec
CONSTANTS
  c1 = c1
  c2 = c2
  Listener = Listener
  NoConn = NoConn
  Conns = {c1}
  Plan <- Alone
  ReqUnits = 2
  RespUnits = 2
  Window = 1
  OnErr <- Default
  Pipelining = FALSE
  Preforked = TRUE
  Scarce = FALSE
  Failing = {}
  Careless = {}
PROPERTIES
  KeepsListening

CHECK_DEADLOCK FALSE
