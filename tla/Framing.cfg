\* Serial, Socket and Spidev links, two frames each way: chunked reads,
\* read timeouts while the device is between frames, pyserial's write
\* loop over partial os.writes; on Spidev every irq mode, up to three edges
\* of the interrupt pin at any time; one thread writes at a time.
CONSTANTS
  Transports = {"serial", "socket", "spidev", "ftdi"}
  UpFrames <- TwoUp
  Writers = {"caller"}
  DownFrames <- CallerFrames
  MidFrameGap = FALSE
  PartialOsWrite = TRUE
  PartialSend = FALSE
  MaxNones = 2
  IrqModes = {0, 1, 2}
  IrqAck <- IrqAckReq
  SpiFrameFifo = TRUE
  MaxEdges = 3
  CloseOn = {"serial", "socket"}
  SyncStr <- SyncAB
  Banner <- BannerAAB
SPECIFICATION Spec
INVARIANT TypeOK
INVARIANT FramesIntact
PROPERTY FramesDelivered
PROPERTY FramesWritten
PROPERTY CloseReturns
\* Both directions end once every frame is through.
CHECK_DEADLOCK FALSE
