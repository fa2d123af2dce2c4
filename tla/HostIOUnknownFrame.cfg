\* The device sends one frame the host registry cannot resolve.
CONSTANTS
  Callers = {c1, c2}
  RspKinds = {query, config}
  NoRspKinds = {}
  OversizeKinds = {}
  Suspend = TRUE
  RspTimeout = FALSE
  WakeupMayFail = FALSE
  UnknownFrames = TRUE
  MaxCalls = 2
  Paths = {"dev"}
  OpenSuspend = FALSE
  PeerMayClose = FALSE
  NoOwner = NoOwner
  NoReply = NoReply
SPECIFICATION Spec
SYMMETRY CallerSymmetry
PROPERTY CallsComplete
CHECK_DEADLOCK FALSE
