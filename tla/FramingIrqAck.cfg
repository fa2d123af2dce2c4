\* Spidev with irq=1 (level interrupt, hio.irqack): after the first
\* interrupt irq_event stays set, so wait_irq returns at once and sends an
\* irqack before every read(n), acknowledging interrupts never raised.
CONSTANTS
  Transports = {"spidev"}
  UpFrames <- TwoUp
  Writers = {"caller"}
  DownFrames <- CallerFrames
  MidFrameGap = FALSE
  PartialOsWrite = TRUE
  PartialSend = FALSE
  MaxNones = 2
  IrqModes = {1}
  IrqAck <- IrqAckReq
  SpiFrameFifo = TRUE
  MaxEdges = 3
  CloseOn = {}
  SyncStr <- NoSync
  Banner <- NoBanner
SPECIFICATION Spec
\* Both directions end once every frame is through.
CHECK_DEADLOCK FALSE
INVARIANT AcksAnswerIrqs
