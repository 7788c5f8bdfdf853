\* Two sources on one descriptor and an application that makes every mistake, without nesting and threads; a crash ends the program.
SPECIFICATION FairSpec
CONSTANTS
  a = a
  b = b
  NULL = NULL
  Sources = {a, b}
  Fds <- MCFds
  FdOf <- SharedFd
  DoClose = {b}
  Interests <- InNow
  OnErr <- DropOrWork
  Threads = FALSE
  Careless = {"double", "delete", "dead", "raise", "reread"}
  InitSources = 1
  MaxDepth = 1
  MaxId = 4
INVARIANTS
  ArraySound
PROPERTIES
  ReadyServed
  DeadlineEndsWork
  ExitEndsWork
  UnlimitedWorkRunsOn
CHECK_DEADLOCK FALSE
