\* Two sources on descriptors of their own, another thread during select(), nested work().
SPECIFICATION Spec
CONSTANTS
  a = a
  b = b
  NULL = NULL
  Sources = {a, b}
  Fds <- MCFds
  FdOf <- OwnFds
  DoClose = {b}
  Interests <- InNow
  OnErr <- Default
  Threads = TRUE
  Careless = {}
  InitSources = 1
  MaxDepth = 2
  MaxId = 4
INVARIANTS
  TypeOK
  IdsSound
  NeverCrashes
  PendingRegistered
PROPERTIES
  OneCallPerRegistration
  EventsFresh
  ImplementsEventLoop
