\* A Serial link opened with sync="aab" (a = 1, b = 2) to a device that
\* prints "aaab" before its frames.
CONSTANTS
  Transports = {"serial"}
  UpFrames <- TwoUp
  Writers = {"caller"}
  DownFrames <- CallerFrames
  MidFrameGap = FALSE
  PartialOsWrite = TRUE
  PartialSend = FALSE
  MaxNones = 2
  IrqModes = {0, 1, 2}
  IrqAck <- IrqAckReq
  SpiFrameFifo = TRUE
  MaxEdges = 3
  CloseOn = {}
  SyncStr <- SyncAAB
  Banner <- BannerAAAB
SPECIFICATION Spec
PROPERTY FramesDelivered
\* Both directions end once every frame is through.
CHECK_DEADLOCK FALSE
