\* Spidev with irq=2 (toggle): an edge of the pin while GpioIrq is between
\* two wait_for_edge calls is not seen, and the thread then waits for the
\* edge the pin has just made.
CONSTANTS
  Transports = {"spidev"}
  UpFrames <- TwoUp
  Writers = {"caller"}
  DownFrames <- CallerFrames
  MidFrameGap = FALSE
  PartialOsWrite = TRUE
  PartialSend = FALSE
  MaxNones = 2
  IrqModes = {2}
  IrqAck <- IrqAckReq
  SpiFrameFifo = TRUE
  MaxEdges = 3
  CloseOn = {}
  SyncStr <- NoSync
  Banner <- NoBanner
SPECIFICATION Spec
\* Both directions end once every frame is through.
CHECK_DEADLOCK FALSE
INVARIANT EdgeInSync
