\* A device that pauses 0.1 s inside a frame. Expected: FramesIntact
\* violated, readmsg dropping the bytes read so far and taking the rest of
\* the frame as a new length prefix.
CONSTANTS
  Transports = {"serial", "socket"}
  UpFrames <- TwoUp
  Writers = {"caller"}
  DownFrames <- CallerFrames
  MidFrameGap = TRUE
  PartialOsWrite = TRUE
  PartialSend = FALSE
  MaxNones = 2
  IrqModes = {0}
  IrqAck <- IrqAckReq
  SpiFrameFifo = TRUE
  MaxEdges = 0
  CloseOn = {}
  SyncStr <- NoSync
  Banner <- NoBanner
SPECIFICATION Spec
INVARIANT FramesIntact
\* Both directions end once every frame is through.
CHECK_DEADLOCK FALSE
