\* call(..., timeout=t) gives up; the late response is queued.
CONSTANTS
  Callers = {c1, c2}
  RspKinds = {query, config}
  NoRspKinds = {}
  OversizeKinds = {}
  Suspend = FALSE
  RspTimeout = TRUE
  WakeupMayFail = FALSE
  UnknownFrames = FALSE
  MaxCalls = 3
  Paths = {"dev"}
  OpenSuspend = FALSE
  PeerMayClose = FALSE
  NoOwner = NoOwner
  NoReply = NoReply
SPECIFICATION Spec
SYMMETRY CallerSymmetry
INVARIANT ResponseMatchesRequest
CHECK_DEADLOCK FALSE
