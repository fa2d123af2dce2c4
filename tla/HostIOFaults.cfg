\* Suspend enabled, hio.irqack sent with no rsp, and every failure of a
\* call: response timeouts, wakeup timeouts and an oversize request.  A
\* failed call can leave call_mutex held, after which the program stops
\* (see HostIOMutexLeak.cfg).  The link is a serial port or a Unix socket
\* whose peer may close it, which ends the read loop.
CONSTANTS
  Callers = {c1, c2}
  RspKinds = {query, config}
  NoRspKinds = {irqack}
  OversizeKinds = {config}
  Suspend = TRUE
  RspTimeout = TRUE
  WakeupMayFail = TRUE
  UnknownFrames = TRUE
  MaxCalls = 5
  Paths = {"dev", "unix"}
  OpenSuspend = FALSE
  PeerMayClose = TRUE
  NoOwner = NoOwner
  NoReply = NoReply
SPECIFICATION Spec
SYMMETRY CallerSymmetry
INVARIANT NoRequestLostToSleep
CHECK_DEADLOCK FALSE
