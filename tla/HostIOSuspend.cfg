\* Three caller threads, suspend enabled, no timeouts or oversize frames.
CONSTANTS
  Callers = {c1, c2, c3}
  RspKinds = {query, config}
  NoRspKinds = {}
  OversizeKinds = {}
  Suspend = TRUE
  RspTimeout = FALSE
  WakeupMayFail = FALSE
  UnknownFrames = FALSE
  MaxCalls = 5
  Paths = {"COM", "ftdi_mpsse", "spidev", "inet"}
  OpenSuspend = TRUE
  PeerMayClose = FALSE
  NoOwner = NoOwner
  NoReply = NoReply
SPECIFICATION Spec
SYMMETRY CallerSymmetry
INVARIANT TypeOK
INVARIANT ResponseMatchesRequest
INVARIANT NoRequestLostToSleep
PROPERTY IdleLeadsToSleep
PROPERTY CallsComplete
PROPERTY RPCSpec
CHECK_DEADLOCK FALSE
