\* A callback deletes a source that is ready in the same batch.
SPECIFICATION Spec
CONSTANTS
  a = a
  b = b
  NULL = NULL
  Sources = {a, b}
  Fds <- MCFds
  FdOf <- OwnFds
  DoClose = {}
  Interests <- InNow
  OnErr <- Default
  Threads = FALSE
  Careless = {"delete", "reread"}
  InitSources = 2
  MaxDepth = 1
  MaxId = 4
INVARIANT
  NeverCrashes
CHECK_DEADLOCK FALSE
