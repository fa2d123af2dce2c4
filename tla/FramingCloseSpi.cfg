\* HIO.close on a Spidev link: raw = True does not stop a read loop that
\* is already in readmsg, and Spidev.wait_status has no timeout, so with
\* the device silent join() never returns.
CONSTANTS
  Transports = {"spidev"}
  UpFrames <- TwoUp
  Writers = {"caller"}
  DownFrames <- CallerFrames
  MidFrameGap = FALSE
  PartialOsWrite = TRUE
  PartialSend = FALSE
  MaxNones = 2
  IrqModes = {0}
  IrqAck <- IrqAckReq
  SpiFrameFifo = TRUE
  MaxEdges = 0
  CloseOn = {"spidev"}
  SyncStr <- NoSync
  Banner <- NoBanner
SPECIFICATION Spec
CHECK_DEADLOCK FALSE
PROPERTY CloseReturns
