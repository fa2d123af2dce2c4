\* http -e or quit issued while the server thread is still in setup().
SPECIFICATION Spec
CONSTANTS
  Fds <- TwoFds
  IfHandles <- TwoIfs
  MaxWcm = 1
  MaxConns = 1
  MaxData = 1
  MaxLinkEvents = 1
  MaxCmds = 3
  DestroyUnderServer = FALSE
INVARIANT ShutdownStopsServer
CHECK_DEADLOCK FALSE
