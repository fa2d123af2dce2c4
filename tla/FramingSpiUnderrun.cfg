\* Spidev whose device may put part of a frame in its FIFO: read(n) polls
\* for the FIFO bit only, then clocks n bytes whatever the FIFO holds.
CONSTANTS
  Transports = {"spidev"}
  UpFrames <- TwoUp
  Writers = {"caller"}
  DownFrames <- CallerFrames
  MidFrameGap = FALSE
  PartialOsWrite = TRUE
  PartialSend = FALSE
  MaxNones = 2
  IrqModes = {0, 1, 2}
  IrqAck <- IrqAckReq
  SpiFrameFifo = FALSE
  MaxEdges = 3
  CloseOn = {}
  SyncStr <- NoSync
  Banner <- NoBanner
SPECIFICATION Spec
\* Both directions end once every frame is through.
CHECK_DEADLOCK FALSE
INVARIANT FramesIntact
