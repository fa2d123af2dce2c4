\* HIO.close on an FtdiSPI link: the writers' frames wait in outq until
\* the read loop's wait_status sends them; once raw is set the loop ends
\* and read skips wait_status, so frames still queued are never sent.
CONSTANTS
  Transports = {"ftdi"}
  UpFrames <- TwoUp
  Writers = {"caller"}
  DownFrames <- CallerFrames
  MidFrameGap = FALSE
  PartialOsWrite = TRUE
  PartialSend = FALSE
  MaxNones = 2
  IrqModes = {0}
  IrqAck <- IrqAckReq
  SpiFrameFifo = TRUE
  MaxEdges = 0
  CloseOn = {"ftdi"}
  SyncStr <- NoSync
  Banner <- NoBanner
SPECIFICATION Spec
CHECK_DEADLOCK FALSE
PROPERTY FramesWritten
