\* The interface created, given a network and auto-connect, the server
\* started on it, serving peers on reused socket numbers over a link that
\* drops and comes back, interface commands typed meanwhile, then stopped
\* by http -e or quit, the interface destroyed and created again. The user
\* does not destroy the interface under a live server thread.
SPECIFICATION Spec
CONSTANTS
  Fds <- TwoFds
  IfHandles <- TwoIfs
  MaxWcm = 2
  MaxConns = 2
  MaxData = 1
  MaxLinkEvents = 2
  MaxCmds = 5
  DestroyUnderServer = FALSE
INVARIANT TypeOK AcceptedTracked IfStateTracksLink
PROPERTY DataServed
\* After shutdown (or with the link down for good) the server thread has
\* ended or only sleeps in its loop and nothing is left to do: the program
\* sits at its prompt, which is not an error.
CHECK_DEADLOCK FALSE
