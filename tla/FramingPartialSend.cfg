\* A Socket link whose send() takes part of a frame. Expected:
\* DeviceFramesIntact violated: writemsg ignores the count and the rest of
\* the frame is never sent.
CONSTANTS
  Transports = {"socket"}
  UpFrames <- TwoUp
  Writers = {"caller"}
  DownFrames <- CallerFrames
  MidFrameGap = FALSE
  PartialOsWrite = TRUE
  PartialSend = TRUE
  MaxNones = 2
  IrqModes = {0}
  IrqAck <- IrqAckReq
  SpiFrameFifo = TRUE
  MaxEdges = 0
  CloseOn = {}
  SyncStr <- NoSync
  Banner <- NoBanner
SPECIFICATION Spec
INVARIANT DeviceFramesIntact
\* Both directions end once every frame is through.
CHECK_DEADLOCK FALSE
