\* The wakeup handshake of Serial.target_wakeup may time out.
CONSTANTS
  Callers = {c1, c2}
  RspKinds = {query, config}
  NoRspKinds = {}
  OversizeKinds = {}
  Suspend = TRUE
  RspTimeout = FALSE
  WakeupMayFail = TRUE
  UnknownFrames = FALSE
  MaxCalls = 2
  Paths = {"dev"}
  OpenSuspend = FALSE
  PeerMayClose = FALSE
  NoOwner = NoOwner
  NoReply = NoReply
SPECIFICATION Spec
SYMMETRY CallerSymmetry
INVARIANT MutexReleasedOnReturn
CHECK_DEADLOCK FALSE
