------------------------------ MODULE Framing -------------------------------
(***************************************************************************)
(* The byte level of the HIO link of src/script/hostio.py: HIO.readmsg     *)
(* reading length-prefixed frames with the transport's read(n), and        *)
(* HIO.writemsg writing them with write(buf), on four backends.            *)
(*                                                                         *)
(* Serial and Socket read with a 0.1 s timeout, so read returns what came  *)
(* in time, possibly nothing.  Serial.write is pyserial's write, which     *)
(* loops until every byte is out; Socket.write is one socket.send, whose   *)
(* count writemsg ignores.                                                 *)
(*                                                                         *)
(* Spidev.read(n) is wait_status (once the GPIO interrupt has been seen,   *)
(* Gpiodev.wait_irq, then poll the status byte until the FIFO bit is set)  *)
(* and one xfer2 of exactly n bytes; it never times out.  Spidev.write is  *)
(* one xfer2.  The GpioIrq thread watches host_irq_pin with                *)
(* wait_for_edge and a state table, and signals Gpiodev.irq_event.         *)
(*                                                                         *)
(* FtdiSPI.read(n) is its own wait_status (poll the status byte; while    *)
(* the FIFO bit is clear, write the head of outq if any) and one exchange *)
(* of n bytes.  FtdiSPI.write only appends the frame to outq.              *)
(*                                                                         *)
(* Serial.__init__ calls sync(cmp) before it starts the read loop: with   *)
(* open(..., sync=cmp) it reads the device's output byte by byte until   *)
(* the bytes it has matched equal cmp, and open() returns only then.      *)
(*                                                                         *)
(* HIO.close sets raw, which the read loop tests before each readmsg, and *)
(* joins the loop's thread.                                                *)
(*                                                                         *)
(* The device's side is the environment: it sends its frames as a byte   *)
(* stream in chunks, drives the interrupt pin, and splits the bytes it     *)
(* receives into frames by their length prefix (the firmware is not in    *)
(* the repository).                                                        *)
(***************************************************************************)
EXTENDS Integers, Sequences, SequencesExt

CONSTANTS
  Transports,      \* the backends open() may build: "serial", "socket",
                   \* "spidev", "ftdi"
  UpFrames,        \* payloads the device sends, in order
  Writers,         \* host threads that call writemsg
  DownFrames,      \* writer -> payloads it writes, in order
  MidFrameGap,     \* the device may pause 0.1 s inside a frame
  PartialOsWrite,  \* os.write on the tty may take part of the buffer
  PartialSend,     \* socket.send may send part of the buffer
  MaxNones,        \* bound on readmsg calls that return None
  IrqModes,        \* the irq= options open_spidev may get (0, 1, 2)
  IrqAck,          \* payload of the hio.irqack request Spidev.irqack packs
  SpiFrameFifo,    \* the device puts whole frames in its SPI FIFO
  MaxEdges,        \* bound on edges of the device's interrupt pin
  CloseOn,         \* the backends whose HIO the program closes
  SyncStr,         \* open()'s sync= argument as bytes, <<>> for None
  Banner           \* what the device prints on a serial link before
                   \* its first frame

ASSUME /\ Transports \subseteq {"serial", "socket", "spidev", "ftdi"} /\ Transports # {}
       /\ MidFrameGap \in BOOLEAN /\ PartialOsWrite \in BOOLEAN
       /\ PartialSend \in BOOLEAN /\ MaxNones \in Nat
       /\ IrqModes \subseteq {0, 1, 2} /\ IrqModes # {}
       /\ SpiFrameFifo \in BOOLEAN /\ MaxEdges \in Nat
       /\ CloseOn \subseteq Transports
       /\ SyncStr \in Seq(0..255) /\ Banner \in Seq(0..255)

\* struct.pack("<H", len(msg)) + msg._payload
Frame(p) == <<Len(p) % 256, Len(p) \div 256>> \o p

\* struct.unpack("<H", hdr)
LenOf(hdr) == hdr[1] + 256 * hdr[2]

UpStream == FlattenSeq([i \in 1..Len(UpFrames) |-> Frame(UpFrames[i])])

\* Stream positions between two of the device's frames.
Boundaries ==
  {Len(FlattenSeq([i \in 1..j |-> Frame(UpFrames[i])])) : j \in 0..Len(UpFrames)}

Byte == 0..255

Edges == {"RISING", "FALLING"}

\* The edge the pin makes when it leaves level v.
EdgeFrom(v) == IF v = 0 THEN "RISING" ELSE "FALLING"

\* GpioIrq.run's state_table, and edge_invert with no trigger for the
\* keys it lacks (irq_mode 0).
StateTable ==
  (<<1, "RISING">> :> <<"FALLING", TRUE>>) @@ (<<1, "FALLING">> :> <<"RISING", FALSE>>)
  @@ (<<2, "RISING">> :> <<"FALLING", TRUE>>) @@ (<<2, "FALLING">> :> <<"RISING", TRUE>>)

NextEdge(mode, e) ==
  IF <<mode, e>> \in DOMAIN StateTable THEN StateTable[<<mode, e>>]
  ELSE <<CHOOSE f \in Edges : f # e, FALSE>>

VARIABLES
  transport,  \* the backend, fixed for a behaviour
  sentUp,     \* bytes of UpStream the device has sent
  up,         \* bytes sent by the device, not yet read by the host
  hdr,        \* readmsg's hdr
  msg,        \* readmsg's msg
  got,        \* the frames readmsg returned, in order
  nones,      \* readmsg calls that returned None
  spc,        \* Spidev.read: "irq" (wait_status about to test enabled)
              \* or "poll" (polling status())
  wpos,       \* writer -> index in DownFrames[w] of the frame being written
  wdone,      \* writer -> bytes of that frame already written
  down,       \* bytes written by the host, in the order the device got them
  outq,       \* FtdiSPI.outq: frames written, not yet sent
  acks,       \* hio.irqack frames Spidev.irqack has written
  irq_mode,   \* GpioConfig.irq_mode, fixed for a behaviour
  line,       \* level of host_irq_pin, driven by the device
  edges,      \* edges of host_irq_pin so far
  edge,       \* GpioIrq.edge: the edge wait_for_edge waits for
  gpc,        \* GpioIrq.run: "wait" (in wait_for_edge), "edge" (it has
              \* returned) or "enable" (irq_callback ran, enabled not set)
  enabled,    \* GpioIrq.enabled
  irq_event,  \* Gpiodev.irq_event
  irq_count,  \* Gpiodev.irq_count
  raw,        \* HIO.raw, set by close()
  rloop,      \* the read loop run(): "top" (about to test raw), "read"
              \* (in readmsg) or "exit"
  closed,     \* close(): "no" (not called), "join" (in join) or "done"
  bsent,      \* bytes of Banner the device has sent
  sy,         \* Serial.sync's s: the bytes it has matched
  syncing     \* Serial.__init__ is in sync(), so open() has not returned

upVars == <<sentUp, up, hdr, msg, got, nones, spc>>
downVars == <<wpos, wdone, down, outq, acks>>
gpioVars == <<irq_mode, line, edges, edge, gpc, enabled, irq_event, irq_count>>
closeVars == <<raw, rloop, closed>>
syncVars == <<bsent, sy, syncing>>
vars == <<transport, upVars, downVars, gpioVars, closeVars, syncVars>>

TypeOK ==
  /\ transport \in Transports
  /\ sentUp \in 0..Len(UpStream) /\ up \in Seq(Byte)
  /\ hdr \in Seq(Byte) /\ Len(hdr) <= 2 /\ msg \in Seq(Byte)
  /\ got \in Seq(Seq(Byte)) /\ nones \in 0..MaxNones /\ spc \in {"irq", "poll"}
  /\ \A w \in Writers : wpos[w] \in 1..Len(DownFrames[w]) + 1
  /\ wdone \in [Writers -> Nat] /\ down \in Seq(Byte) /\ acks \in Nat
  /\ outq \in Seq(Seq(Byte))
  /\ irq_mode \in {0} \cup IrqModes /\ line \in {0, 1} /\ edges \in 0..MaxEdges
  /\ edge \in Edges /\ gpc \in {"wait", "edge", "enable"}
  /\ enabled \in BOOLEAN /\ irq_event \in BOOLEAN /\ irq_count \in Nat
  /\ raw \in BOOLEAN /\ rloop \in {"top", "read", "exit"} /\ closed \in {"no", "join", "done"}
  /\ bsent \in 0..Len(Banner) /\ sy \in Seq(Byte) /\ syncing \in BOOLEAN

Init ==
  /\ transport \in Transports
  /\ sentUp = 0 /\ up = <<>> /\ hdr = <<>> /\ msg = <<>>
  /\ got = <<>> /\ nones = 0
  /\ spc = IF transport = "ftdi" THEN "poll" ELSE "irq"
  /\ wpos = [w \in Writers |-> 1] /\ wdone = [w \in Writers |-> 0]
  /\ down = <<>> /\ outq = <<>> /\ acks = 0
  \* update_config_irq: irq 0 (the default) gives irq_mode 0
  /\ irq_mode \in IF transport = "spidev" THEN IrqModes ELSE {0}
  /\ line \in IF transport = "spidev" THEN {0, 1} ELSE {0}
  /\ edges = 0
  \* GpioIrq.run: irq_mode 1 waits for RISING, else reset_edge reads the pin
  /\ edge = IF irq_mode = 1 THEN "RISING" ELSE EdgeFrom(line)
  /\ gpc = "wait" /\ enabled = FALSE /\ irq_event = FALSE /\ irq_count = 0
  /\ raw = FALSE /\ rloop = "top" /\ closed = "no"
  \* Serial.__init__: "if cmp:" with s = b''
  /\ bsent = 0 /\ sy = <<>> /\ syncing = (transport = "serial" /\ SyncStr # <<>>)

-----------------------------------------------------------------------------
(* Device to host: HIO.readmsg                                             *)

\* The device puts the next k bytes of its frames on the link; into the
\* SPI FIFO (Spidev, FtdiSPI), whole frames if SpiFrameFifo.
DeviceSend ==
  /\ sentUp < Len(UpStream)
  /\ transport = "serial" => bsent = Len(Banner)
  /\ \E k \in 1..Len(UpStream) - sentUp :
       /\ transport \in {"spidev", "ftdi"} /\ SpiFrameFifo
            => sentUp + k \in Boundaries
       /\ up' = up \o SubSeq(UpStream, sentUp + 1, sentUp + k)
       /\ sentUp' = sentUp + k
  /\ UNCHANGED <<transport, syncVars, closeVars, hdr, msg, got, nones, spc, downVars, gpioVars>>

\* On a serial link the device first prints its banner, k bytes at a time.
DeviceBanner ==
  /\ transport = "serial" /\ bsent < Len(Banner)
  /\ \E k \in 1..Len(Banner) - bsent :
       /\ up' = up \o SubSeq(Banner, bsent + 1, bsent + k)
       /\ bsent' = bsent + k
  /\ UNCHANGED <<transport, closeVars, hdr, msg, got, nones, spc, sentUp, sy, syncing,
                 downVars, gpioVars>>

\* One turn of Serial.sync's loop: r = com.read() (one byte, or b'' when
\* the 0.1 s timeout passes with nothing in), s += r, and s = r when cmp
\* does not start with s; the loop ends when s == cmp.
SyncRead ==
  /\ syncing
  /\ LET r == IF up = <<>> THEN <<>> ELSE <<Head(up)>>
         s == IF IsPrefix(sy \o r, SyncStr) THEN sy \o r ELSE r
     IN /\ up' = SubSeq(up, 2, Len(up)) /\ sy' = s /\ syncing' = (s # SyncStr)
  /\ UNCHANGED <<transport, closeVars, sentUp, hdr, msg, got, nones, spc, bsent,
                 downVars, gpioVars>>

\* What readmsg does with the bytes one read(n) returned: n is
\* 2 - len(hdr) in the header loop and msglen - len(msg) in the body
\* loop.  When hdr and msg are complete (at once when msglen is 0)
\* readmsg returns msg and the read loop goes round.
ReadNeedFull == IF Len(hdr) < 2 THEN 2 ELSE LenOf(hdr) - Len(msg)
ReadNeed == IF Len(hdr) < 2 THEN 2 - Len(hdr) ELSE LenOf(hdr) - Len(msg)

Consume(chunk) ==
  LET h == IF Len(hdr) < 2 THEN hdr \o chunk ELSE hdr
      m == IF Len(hdr) < 2 THEN msg ELSE msg \o chunk
  IN  IF Len(h) >= 2 /\ Len(m) >= LenOf(h)
        THEN got' = Append(got, m) /\ hdr' = <<>> /\ msg' = <<>> /\ rloop' = "top"
        ELSE UNCHANGED <<got, rloop>> /\ hdr' = h /\ msg' = m

\* One Serial or Socket read(n) that returns bytes: between 1 and n of
\* the bytes that have arrived.
ReadBytes(need) ==
  /\ transport \notin {"spidev", "ftdi"} /\ rloop = "read"
  /\ \E k \in 1..need :
       /\ k <= Len(up)
       /\ Consume(SubSeq(up, 1, k))
       /\ up' = SubSeq(up, k + 1, Len(up))
  /\ UNCHANGED <<transport, syncVars, raw, closed, sentUp, nones, spc, downVars, gpioVars>>

\* Bug variants: the header loop asks for 2 bytes whatever it already
\* has (ReadNeedFull); the body loop asks for one byte less, or one
\* more, than it still needs.
ReadShort == ReadBytes(ReadNeed - (IF Len(hdr) < 2 THEN 0 ELSE 1))
ReadLong == ReadBytes(ReadNeed + (IF Len(hdr) < 2 THEN 0 ELSE 1))
Read == ReadBytes(ReadNeed)

\* read(n) times out with nothing read (Serial: pyserial's timeout;
\* Socket: socket.timeout), which happens only while the device pauses:
\* readmsg returns None and the bytes of hdr and msg are dropped.
\* Spidev.set_timeout does nothing and its read never returns early.
\* (MaxNones bounds the timeouts of an open link; after close() the
\* silent device times out every read.)
\* Bug variant: the link opened with timeout=None, so read(n) blocks
\* until bytes arrive.
ReadTimeoutNone == FALSE

ReadTimeout ==
  /\ transport \notin {"spidev", "ftdi"} /\ rloop = "read"
  /\ up = <<>>
  /\ sentUp \in Boundaries \/ MidFrameGap
  /\ nones < MaxNones \/ raw
  /\ hdr' = <<>> /\ msg' = <<>> /\ nones' = IF raw THEN nones ELSE nones + 1
  /\ rloop' = "top"
  /\ UNCHANGED <<transport, syncVars, raw, closed, sentUp, up, got, spc, downVars, gpioVars>>

\* Spidev.wait_status, first part: once GpioIrq.enabled,
\* Gpiodev.wait_irq waits for irq_event and, in irq_mode 1, sends
\* hio.irqack through writemsg (one xfer2, so whole).
WaitIrq ==
  /\ transport = "spidev" /\ spc = "irq" /\ rloop = "read"
  /\ enabled => irq_event
  /\ IF enabled /\ irq_mode = 1
       THEN down' = down \o Frame(IrqAck) /\ acks' = acks + 1
       ELSE UNCHANGED <<down, acks>>
  /\ spc' = "poll"
  /\ UNCHANGED <<transport, syncVars, closeVars, sentUp, up, hdr, msg, got, nones, wpos, wdone,
                 outq, gpioVars>>

\* Spidev.read(n) once status() has the FIFO bit (the FIFO holds a
\* byte): xfer2 of exactly n bytes; bytes the FIFO does not hold come
\* back as 0xff.
Xfer ==
  LET n == ReadNeed
      pad == [i \in 1..n - Len(up) |-> 255]
  IN  /\ Consume(IF n <= Len(up) THEN SubSeq(up, 1, n) ELSE up \o pad)
      /\ up' = IF n <= Len(up) THEN SubSeq(up, n + 1, Len(up)) ELSE <<>>

\* The rest of Spidev.wait_status and read: poll status() until the FIFO
\* bit is set, then the transfer.
SpiRead ==
  /\ transport = "spidev" /\ spc = "poll" /\ rloop = "read"
  /\ up # <<>>
  /\ Xfer
  /\ spc' = "irq"
  /\ UNCHANGED <<transport, syncVars, raw, closed, sentUp, nones, downVars, gpioVars>>

\* FtdiSPI.read(n): its wait_status found the FIFO bit, or raw is set
\* and read skips wait_status; one exchange of 'T' and n bytes, in
\* MAXSIZE pieces of one transaction.
FtdiRead ==
  /\ transport = "ftdi" /\ rloop = "read"
  /\ up # <<>> \/ raw
  /\ Xfer
  /\ UNCHANGED <<transport, syncVars, raw, closed, sentUp, nones, spc, downVars, gpioVars>>

\* Bug variant: the poll loop writes a queued frame only when the FIFO
\* has data.
FtdiFlushBusy ==
  /\ transport = "ftdi" /\ rloop = "read"
  /\ up # <<>> /\ outq # <<>>
  /\ down' = down \o Frame(Head(outq)) /\ outq' = Tail(outq)
  /\ UNCHANGED <<transport, syncVars, closeVars, upVars, wpos, wdone, acks, gpioVars>>

\* FtdiSPI.wait_status: status() without the FIFO bit and outq not
\* empty: __write(outq.pop(0)), the frame in MAXSIZE pieces of one
\* transaction.
FtdiFlush ==
  /\ transport = "ftdi" /\ rloop = "read"
  /\ up = <<>> /\ outq # <<>>
  /\ down' = down \o Frame(Head(outq)) /\ outq' = Tail(outq)
  /\ UNCHANGED <<transport, syncVars, closeVars, upVars, wpos, wdone, acks, gpioVars>>

-----------------------------------------------------------------------------
(* The interrupt pin: GpioIrq and Gpiodev                                  *)

\* The device moves its interrupt pin.  wait_for_edge returns if it is
\* waiting for this edge; an edge while GpioIrq is not in wait_for_edge
\* is not seen.
IrqPin ==
  /\ transport = "spidev" /\ edges < MaxEdges
  /\ line' = 1 - line /\ edges' = edges + 1
  /\ gpc' = IF gpc = "wait" /\ edge = EdgeFrom(line) THEN "edge" ELSE gpc
  /\ UNCHANGED <<transport, syncVars, closeVars, upVars, downVars, irq_mode, edge, enabled,
                 irq_event, irq_count>>

\* GpioIrq.run after wait_for_edge: the next edge and whether to trigger
\* from state_table; on a trigger, irq_callback (Gpiodev: irq_count += 1,
\* irq_event.set()).
GpioIrqRun ==
  /\ gpc = "edge"
  /\ LET nx == NextEdge(irq_mode, edge) IN
       /\ edge' = nx[1]
       /\ IF nx[2]
            THEN /\ irq_count' = irq_count + 1 /\ irq_event' = TRUE
                 /\ gpc' = "enable"
            ELSE UNCHANGED <<irq_count, irq_event>> /\ gpc' = "wait"
  /\ UNCHANGED <<transport, syncVars, closeVars, upVars, downVars, irq_mode, line, edges, enabled>>

\* "only enable after we have seen the first trigger"
GpioIrqEnable ==
  /\ gpc = "enable"
  /\ enabled' = TRUE /\ gpc' = "wait"
  /\ UNCHANGED <<transport, syncVars, closeVars, upVars, downVars, irq_mode, line, edges, edge,
                 irq_event, irq_count>>

-----------------------------------------------------------------------------
(* HIO.close, on the program's main thread                                 *)

\* Every writer has returned from its last writemsg.
WritersDone == \A w \in Writers : wpos[w] > Len(DownFrames[w])

\* close(): raw = True, then join().  The program closes its HIO once its
\* own calls have returned.
Close ==
  /\ closed = "no" /\ transport \in CloseOn /\ WritersDone /\ ~syncing
  /\ raw' = TRUE /\ closed' = "join"
  /\ UNCHANGED <<transport, syncVars, rloop, upVars, downVars, gpioVars>>

\* run(): "while not self.raw", tested before each readmsg.
ReaderLoop ==
  /\ rloop = "top" /\ ~syncing
  /\ rloop' = IF raw THEN "exit" ELSE "read"
  /\ UNCHANGED <<transport, syncVars, raw, closed, upVars, downVars, gpioVars>>

\* join() returns once run() has left its loop; com.close().
Join ==
  /\ closed = "join" /\ rloop = "exit"
  /\ closed' = "done"
  /\ UNCHANGED <<transport, syncVars, raw, rloop, upVars, downVars, gpioVars>>

-----------------------------------------------------------------------------
(* Host to device: HIO.writemsg                                            *)

\* Serial.write: pyserial's write loop over os.write, which takes k bytes
\* of the rest of the frame at a time until it is all out.
SerialWrite(w, buf) ==
  /\ \E k \in IF PartialOsWrite THEN 1..Len(buf) - wdone[w] ELSE {Len(buf) - wdone[w]} :
       /\ down' = down \o SubSeq(buf, wdone[w] + 1, wdone[w] + k)
       /\ LET fin == wdone[w] + k = Len(buf) IN
            /\ wpos' = [wpos EXCEPT ![w] = IF fin THEN @ + 1 ELSE @]
            /\ wdone' = [wdone EXCEPT ![w] = IF fin THEN 0 ELSE @ + k]
  /\ UNCHANGED outq

\* Socket.write: one socket.send, of which k bytes go out; the count it
\* returns is ignored.
SocketWrite(w, buf) ==
  /\ \E k \in IF PartialSend THEN 1..Len(buf) ELSE {Len(buf)} :
       down' = down \o SubSeq(buf, 1, k)
  /\ wpos' = [wpos EXCEPT ![w] = @ + 1]
  /\ UNCHANGED <<wdone, outq>>

\* Spidev.write: one xfer2 of b'R' + buf; the 'R' command byte is taken
\* by the device's SPI slave and is not part of the frame stream.
SpidevWrite(w, buf) ==
  /\ down' = down \o buf
  /\ wpos' = [wpos EXCEPT ![w] = @ + 1]
  /\ UNCHANGED <<wdone, outq>>

\* FtdiSPI.write, not raw: the frame is appended to outq.
FtdiWrite(w, f) ==
  /\ outq' = Append(outq, f)
  /\ wpos' = [wpos EXCEPT ![w] = @ + 1]
  /\ UNCHANGED <<wdone, down>>

\* writemsg(w's next frame): self.write(struct.pack("<H", len) + payload)
\* on the link's backend.
Write(w) ==
  LET f == DownFrames[w][wpos[w]] IN
  /\ wpos[w] <= Len(DownFrames[w]) /\ ~syncing
  /\ CASE transport = "serial" -> SerialWrite(w, Frame(f))
        [] transport = "socket" -> SocketWrite(w, Frame(f))
        [] transport = "spidev" -> SpidevWrite(w, Frame(f))
        [] transport = "ftdi"   -> FtdiWrite(w, f)
  /\ UNCHANGED <<transport, syncVars, closeVars, upVars, acks, gpioVars>>

\* The device's reader: the complete frames of a byte stream, each split
\* off by its 2-byte little-endian length.
RECURSIVE Deframe(_)
Deframe(s) ==
  IF Len(s) < 2 \/ Len(s) < 2 + LenOf(s) THEN <<>>
  ELSE <<SubSeq(s, 3, 2 + LenOf(s))>> \o Deframe(SubSeq(s, 3 + LenOf(s), Len(s)))

-----------------------------------------------------------------------------
Next ==
  \/ DeviceBanner \/ SyncRead \/ DeviceSend \/ Read \/ ReadTimeout
  \/ WaitIrq \/ SpiRead \/ FtdiRead \/ FtdiFlush
  \/ IrqPin \/ GpioIrqRun \/ GpioIrqEnable
  \/ Close \/ ReaderLoop \/ Join
  \/ \E w \in Writers : Write(w)

\* The read loop, the writers and the GpioIrq thread keep running; the
\* device sends its frames.  Nothing obliges the device to move its
\* interrupt pin.
Spec == Init /\ [][Next]_vars
        /\ WF_vars(DeviceBanner) /\ WF_vars(SyncRead)
        /\ WF_vars(DeviceSend) /\ WF_vars(Read) /\ WF_vars(ReadTimeout)
        /\ WF_vars(WaitIrq) /\ WF_vars(SpiRead)
        /\ WF_vars(FtdiRead) /\ WF_vars(FtdiFlush)
        /\ WF_vars(ReaderLoop) /\ WF_vars(Join)
        /\ WF_vars(GpioIrqRun) /\ WF_vars(GpioIrqEnable)
        /\ \A w \in Writers : WF_vars(Write(w))

-----------------------------------------------------------------------------
(* Properties                                                              *)

\* readmsg returns exactly the frames the device sent, in order: every
\* chunk boundary, every partial read and every timeout of read(n), and
\* on Spidev every status poll and fixed-size transfer, leaves the 2-byte
\* length prefix and the frame boundaries intact.
FramesIntact == IsPrefix(got, UpFrames)

\* Every frame the device sends is eventually returned by readmsg, on
\* Spidev whatever the interrupt pin does, unless close() ends the read
\* loop first.
FramesDelivered == <>(Len(got) = Len(UpFrames) \/ rloop = "exit")

\* close() returns: the read loop sees raw and ends, and join() returns.
CloseReturns == closed = "join" ~> closed = "done"

\* The device finds in what writemsg wrote only frames the host meant to
\* send (the writers' and the read loop's hio.irqack), and once every
\* writer is done and FtdiSPI's outq is empty, all of them: a write is
\* never cut short or interleaved with another frame.
DeviceFramesIntact ==
  LET frames == Deframe(down)
      written == UNION {Range(DownFrames[w]) : w \in Writers} \cup {IrqAck}
      total == MapThenSumSet(LAMBDA w : Len(DownFrames[w]), Writers) + acks
  IN  /\ \A i \in 1..Len(frames) : frames[i] \in written
      /\ WritersDone /\ outq = <<>> => Len(frames) = total

\* Every frame a writer passes to writemsg eventually reaches the device:
\* pyserial's write loop finishes it, and FtdiSPI's read loop sends what
\* write left in outq, between two frames from the device.
FramesWritten ==
  <>(WritersDone /\ Len(Deframe(down)) = MapThenSumSet(LAMBDA w : Len(DownFrames[w]), Writers) + acks)

\* Each hio.irqack the read loop sends acknowledges an interrupt GpioIrq
\* triggered (the irqack class: "Acknowledge level interrupt").
AcksAnswerIrqs == acks <= irq_count

\* While GpioIrq waits in wait_for_edge it waits for the edge the pin
\* makes next, so no edge of the device goes unseen.
EdgeInSync == gpc = "wait" => edge = EdgeFrom(line)
=============================================================================
