\* A Serial link written by a caller (writemsg) and by the read loop
\* (target_sleep) at once, os.write taking part of a buffer. Expected:
\* DeviceFramesIntact violated: the two frames interleave on the wire.
CONSTANTS
  Transports = {"serial"}
  UpFrames <- TwoUp
  Writers = {"caller", "reader"}
  DownFrames <- CallerFrames
  MidFrameGap = FALSE
  PartialOsWrite = TRUE
  PartialSend = FALSE
  MaxNones = 2
  IrqModes = {0}
  IrqAck <- IrqAckReq
  SpiFrameFifo = TRUE
  MaxEdges = 0
  CloseOn = {}
  SyncStr <- NoSync
  Banner <- NoBanner
SPECIFICATION Spec
INVARIANT DeviceFramesIntact
\* Both directions end once every frame is through.
CHECK_DEADLOCK FALSE
