------------------------------- MODULE HostIO -------------------------------
(***************************************************************************)
(* The host side RPC engine of src/script/hostio.py: class HIO (call,      *)
(* call_async, wait_rsp, the background read loop run) together with the   *)
(* wake/sleep handshakes of the Serial backend (break condition) and the *)
(* Spidev backend (GPIO wakeup pin), with the wakeup indication handler,   *)
(* and the FtdiSPI backend, whose writes wait in outq until the read loop  *)
(* polls the device status and finds nothing to read, and the Socket      *)
(* backend; hostio.open picks the backend from the path.                  *)
(*                                                                         *)
(* Threads: every caller thread running HIO.call, and the daemon thread    *)
(* HIO.run.  The radio chip on the other end of the link is an            *)
(* environment process: it takes frames from the host in order, answers   *)
(* each request of a kind with a rsp field list, goes to sleep on a sleep *)
(* request, drops whatever reaches it while asleep, and wakes (sending a  *)
(* wakeup indication) when the host holds the line in break.              *)
(*                                                                         *)
(* Frame payloads are abstracted to (dir, kind, trxid): the engine never   *)
(* looks at field values.                                                  *)
(***************************************************************************)
EXTENDS Integers, Sequences, FiniteSets

CONSTANTS
  Callers,        \* threads that call HIO.call
  RspKinds,       \* message kinds whose class declares a rsp field list
  NoRspKinds,     \* message kinds with a req but no rsp (hio.irqack)
  OversizeKinds,  \* kinds whose packed request exceeds hiomaxsize
  Suspend,        \* the argument of enable_suspend, called before the calls
  RspTimeout,     \* callers pass timeout= to call(), so wait_rsp may give up
  WakeupMayFail,  \* the 0.5 s wait in Serial.target_wakeup may run out
  UnknownFrames,  \* the device may send one frame the registry does not know
  MaxCalls,       \* bound on the number of call() invocations
  Paths,          \* forms of the path given to hostio.open (PathKinds)
  OpenSuspend,    \* the suspend= keyword given to hostio.open
  PeerMayClose,   \* the peer of a Socket backend may close the connection
  NoOwner,        \* call_mutex is free
  NoReply         \* call() returned None / has not returned a frame

ASSUME /\ RspKinds \cap NoRspKinds = {}
       /\ OversizeKinds \subseteq RspKinds \cup NoRspKinds
       /\ Suspend \in BOOLEAN /\ RspTimeout \in BOOLEAN
       /\ WakeupMayFail \in BOOLEAN /\ UnknownFrames \in BOOLEAN
       /\ MaxCalls \in Nat
       /\ RspKinds \cup NoRspKinds # {}

Kinds == RspKinds \cup NoRspKinds

\* The paths hostio.open recognises: a /dev/ or COMn serial port, a pyftdi
\* URL on interface 3 or 4 (UART) or on 1 or 2 (MPSSE), "spidevB.C", an
\* existing file (AF_UNIX socket) and host:port (AF_INET socket).
PathKinds == {"dev", "COM", "ftdi_uart", "ftdi_mpsse", "spidev", "unix", "inet"}

\* The HIO subclass hostio.open builds for a path, tested in its order.
open(path) ==
  CASE path \in {"dev", "COM", "ftdi_uart"} -> "serial"
    [] path = "ftdi_mpsse"                  -> "ftdi"
    [] path = "spidev"                      -> "spidev"
    [] path \in {"unix", "inet"}            -> "socket"

\* The wakeup pin of RpiGpioConfig, the GPIO config open_spidev starts from.
RpiWakeupPin == 3

\* open_spidev builds the GPIO config with update_config: the wakeup pin
\* is kept only when open() was given suspend=True.
wakeup_pin == IF OpenSuspend THEN RpiWakeupPin ELSE 0

ASSUME /\ Paths \subseteq PathKinds /\ Paths # {}
       /\ OpenSuspend \in BOOLEAN /\ PeerMayClose \in BOOLEAN

\* The subclasses that override target_sleep and target_wakeup.
SleepCapable == {"serial", "spidev"}

\* next_seq keeps the transaction id in 16 bits.
TrxMod == 2^16

\* Frames on the wire, reduced to what the engine inspects: the direction
\* bits of msgid, the message class and the trxid.
SleepReq  == [dir |-> "req", kind |-> "sleep", trxid |-> 0]
WakeupInd == [dir |-> "ind", kind |-> "wakeup", trxid |-> 0]
\* A frame whose (group, msgid) lookup_class cannot resolve.
UnknownInd == [dir |-> "ind", kind |-> "unknown", trxid |-> 0]
Frame == [dir : {"req", "rsp"}, kind : Kinds, trxid : 0..TrxMod-1]
           \cup {SleepReq, WakeupInd, UnknownInd}

VARIABLES
  pc,               \* caller thread -> point in HIO.call
  kind,             \* caller thread -> class passed to call()
  call_mutex,       \* HIO.call_mutex: owning caller or NoOwner
  trxid,            \* HIO.trxid, the next transaction id
  pending,          \* HIO.pending.count
  rsp_queue,        \* HIO.rsp_queue (its length is rsp_sem's value)
  wakeup_event,     \* HIO.wakeup_event
  break_condition,  \* Serial.com.break_condition, or the Spidev wakeup pin
                    \* (Gpiodev.wakeup_asserted / wakeup_deasserted)
  backend,          \* the HIO subclass open() built: fixed for a behaviour
  rpc,              \* read loop: "loop", "sleep" (in target_sleep), "deliver",
                    \* or "dead" once run() has left its loop
  rmsg,             \* read loop: the response frame being handled
  toDev,            \* frames written by the host, not yet taken by the device
  fromDev,          \* frames sent by the device, not yet read by the host
  awake,            \* the device is awake
  calls,            \* number of call() invocations so far
  myTrx,            \* caller thread -> trxid of its request (history)
  reply,            \* caller thread -> frame returned by wait_rsp, or NoReply
  unknownSent,      \* the device has sent its unknown frame
  outq              \* FtdiSPI.outq: frames written, not yet on the wire

vars == <<pc, kind, call_mutex, trxid, pending, rsp_queue, wakeup_event,
          break_condition, rpc, rmsg, toDev, fromDev, awake, calls, myTrx,
          reply, unknownSent, backend, outq>>
\* backend never changes; it rides along in both tuples.
callerVars == <<pc, kind, call_mutex, myTrx, reply, calls, backend>>
deviceVars == <<toDev, fromDev, awake, unknownSent, backend, outq>>
readerVars == <<rpc, rmsg>>

\* suspend_enabled once enable_suspend(Suspend) has run: Serial.enable_suspend
\* and HIO.enable_suspend set it to the argument; Spidev.config_gpio sets it
\* only if the GPIO config has a wakeup pin.
suspend_enabled == Suspend /\ (backend = "spidev" => wakeup_pin # 0)

\* Serial.enable_suspend(True) and Spidev.enable_suspend(True) end with
\* target_sleep, which writes a sleep request when suspend_enabled is set.
SleepsOnEnable == suspend_enabled /\ backend \in SleepCapable

\* AtomicInt.inc and AtomicInt.dec on HIO.pending: the count changes under
\* the AtomicInt's lock, so each is one step.
PendingInc == pending' = pending + 1
PendingDec == pending' = pending - 1

\* HIO.readmsg: the 2-byte length, then that many bytes: the next whole
\* frame the device sent.  (A read that times out part-way through a frame
\* returns None and drops the bytes read so far; the model assumes the
\* device sends a frame without a pause of 0.1 s.)
readmsg == Head(fromDev)

TypeOK ==
  /\ pc \in [Callers -> {"idle", "wakeup", "wakewait", "send", "wait"}]
  /\ kind \in [Callers -> Kinds]
  /\ call_mutex \in Callers \cup {NoOwner}
  /\ trxid \in 0..TrxMod-1
  /\ pending \in 0..MaxCalls
  /\ rsp_queue \in Seq(Frame)
  /\ wakeup_event \in BOOLEAN /\ break_condition \in BOOLEAN
  /\ rpc \in {"loop", "sleep", "deliver", "dead"}
  /\ rmsg \in Frame
  /\ toDev \in Seq(Frame) /\ fromDev \in Seq(Frame)
  /\ awake \in BOOLEAN
  /\ calls \in 0..MaxCalls
  /\ myTrx \in [Callers -> 0..TrxMod-1]
  /\ reply \in [Callers -> Frame \cup {NoReply}]
  /\ unknownSent \in BOOLEAN
  /\ backend \in {"serial", "spidev", "ftdi", "socket"}
  /\ outq \in Seq(Frame)

(***************************************************************************)
(* Initial state: open() then enable_suspend(Suspend).  On Serial or     *)
(* Spidev with suspend_enabled set, the hio.config call has returned and *)
(* target_sleep has written a sleep request.  FtdiSPI and Socket keep    *)
(* HIO's enable_suspend, which only sets suspend_enabled.                 *)
(* (The hio.query call open() makes is left out: it sets hiomaxsize.)    *)
(***************************************************************************)
Init ==
  /\ \E p \in Paths : backend = open(p)
  /\ pc = [c \in Callers |-> "idle"]
  /\ kind = [c \in Callers |-> CHOOSE k \in Kinds : TRUE]
  /\ call_mutex = NoOwner
  /\ trxid = 0
  /\ pending = 0
  /\ rsp_queue = <<>>
  /\ wakeup_event = FALSE
  /\ break_condition = FALSE
  /\ rpc = "loop"
  /\ rmsg = SleepReq
  /\ toDev = IF SleepsOnEnable THEN <<SleepReq>> ELSE <<>>
  /\ fromDev = <<>>
  /\ awake = TRUE
  /\ calls = 0
  /\ myTrx = [c \in Callers |-> 0]
  /\ reply = [c \in Callers |-> NoReply]
  /\ unknownSent = FALSE
  /\ outq = <<>>

-----------------------------------------------------------------------------
(* Caller thread: HIO.call(cls, *args, **kwargs)                           *)

\* Bug variant: call() without call_mutex, two calls in flight at once.
AcquireUnlocked(c, k) ==
  /\ pc[c] = "idle"
  /\ calls < MaxCalls
  /\ call_mutex' = c
  /\ calls' = calls + 1
  /\ kind' = [kind EXCEPT ![c] = k]
  /\ reply' = [reply EXCEPT ![c] = NoReply]
  /\ pc' = [pc EXCEPT ![c] = "wakeup"]
  /\ UNCHANGED <<myTrx, trxid, pending, rsp_queue, wakeup_event,
                 break_condition, readerVars, deviceVars>>

\* HIO.call_mutex.acquire(); call_async starts: target_wakeup is entered.
Acquire(c, k) ==
  /\ pc[c] = "idle"
  /\ calls < MaxCalls
  /\ call_mutex = NoOwner
  /\ call_mutex' = c
  /\ calls' = calls + 1
  /\ kind' = [kind EXCEPT ![c] = k]
  /\ reply' = [reply EXCEPT ![c] = NoReply]
  /\ pc' = [pc EXCEPT ![c] = "wakeup"]
  /\ UNCHANGED <<myTrx, trxid, pending, rsp_queue, wakeup_event,
                 break_condition, readerVars, deviceVars>>

\* Bug variant: target_wakeup asserts the break but does not wait for
\* hio.wakeup before the request is written.
TargetWakeupNoWait(c) ==
  /\ pc[c] = "wakeup" /\ backend = "serial"
  /\ wakeup_event' = FALSE
  /\ break_condition' = suspend_enabled
  /\ pc' = [pc EXCEPT ![c] = "send"]
  /\ UNCHANGED <<kind, call_mutex, myTrx, reply, calls, trxid, pending,
                 rsp_queue, readerVars, deviceVars>>

\* Serial.target_wakeup: clear the event and hold the line in break.
TargetWakeup(c) ==
  /\ pc[c] = "wakeup" /\ backend = "serial"
  /\ IF suspend_enabled
       THEN /\ wakeup_event' = FALSE
            /\ break_condition' = TRUE
            /\ pc' = [pc EXCEPT ![c] = "wakewait"]
       ELSE /\ pc' = [pc EXCEPT ![c] = "send"]
            /\ UNCHANGED <<wakeup_event, break_condition>>
  /\ UNCHANGED <<kind, call_mutex, myTrx, reply, calls, trxid, pending,
                 rsp_queue, readerVars, deviceVars>>

\* Spidev.target_wakeup: assert the wakeup pin and wait for the event,
\* which it does not clear: target_sleep cleared it.
SpidevTargetWakeup(c) ==
  /\ pc[c] = "wakeup" /\ backend = "spidev"
  /\ IF suspend_enabled
       THEN break_condition' = TRUE /\ pc' = [pc EXCEPT ![c] = "wakewait"]
       ELSE pc' = [pc EXCEPT ![c] = "send"] /\ UNCHANGED break_condition
  /\ UNCHANGED <<kind, call_mutex, myTrx, reply, calls, trxid, pending,
                 rsp_queue, wakeup_event, readerVars, deviceVars>>

\* HIO.target_wakeup, which FtdiSPI and Socket do not override: nothing to wait for.
BaseTargetWakeup(c) ==
  /\ pc[c] = "wakeup" /\ backend \in {"ftdi", "socket"}
  /\ pc' = [pc EXCEPT ![c] = "send"]
  /\ UNCHANGED <<kind, call_mutex, myTrx, reply, calls, trxid, pending,
                 rsp_queue, wakeup_event, break_condition, readerVars,
                 deviceVars>>

\* wakeup_event.wait(0.5), or wait(1.5) on Spidev, returned True: release
\* the break or deassert the pin.
WakeupDone(c) ==
  /\ pc[c] = "wakewait"
  /\ wakeup_event
  /\ break_condition' = FALSE
  /\ pc' = [pc EXCEPT ![c] = "send"]
  /\ UNCHANGED <<kind, call_mutex, myTrx, reply, calls, trxid, pending,
                 rsp_queue, wakeup_event, readerVars, deviceVars>>

\* The wait returned False: "Wakeup TIMEOUT" is raised out of call(); the
\* break or pin stays asserted and call_mutex is never released.
WakeupTimeout(c) ==
  /\ WakeupMayFail
  /\ pc[c] = "wakewait"
  /\ ~wakeup_event
  /\ pc' = [pc EXCEPT ![c] = "idle"]
  /\ UNCHANGED <<kind, call_mutex, myTrx, reply, calls, trxid, pending,
                 rsp_queue, wakeup_event, break_condition, readerVars,
                 deviceVars>>

\* HIO.write: Serial, Spidev and Socket put the frame on the wire;
\* FtdiSPI.write (not raw) appends it to outq and returns.
WriteFrame(req) ==
  IF backend = "ftdi"
    THEN outq' = Append(outq, req) /\ UNCHANGED toDev
    ELSE toDev' = Append(toDev, req) /\ UNCHANGED outq

\* Bug variant: pending.inc() is left out of call_async.
SendNoPendingInc(c) ==
  LET req == [dir |-> "req", kind |-> kind[c], trxid |-> trxid]
  IN
  /\ pc[c] = "send"
  /\ trxid' = (trxid + 1) % TrxMod
  /\ myTrx' = [myTrx EXCEPT ![c] = trxid]
  /\ \/ /\ kind[c] \in OversizeKinds
        /\ pc' = [pc EXCEPT ![c] = "idle"]
        /\ UNCHANGED <<call_mutex, toDev, outq>>
     \/ /\ kind[c] \notin OversizeKinds
        /\ WriteFrame(req)
        /\ IF kind[c] \in NoRspKinds
             THEN /\ call_mutex' = NoOwner
                  /\ pc' = [pc EXCEPT ![c] = "idle"]
             ELSE /\ pc' = [pc EXCEPT ![c] = "wait"]
                  /\ UNCHANGED call_mutex
  /\ UNCHANGED <<kind, reply, calls, pending, rsp_queue, wakeup_event,
                 break_condition, readerVars, fromDev, awake,
                 unknownSent, backend>>

\* The rest of call_async (pending.inc, next_seq, pack, writemsg) and the
\* branch of call() on whether the class declares a rsp.  writemsg raises
\* HioMaxSizeError for an oversize frame after pending and trxid moved on.
Send(c) ==
  LET req == [dir |-> "req", kind |-> kind[c], trxid |-> trxid]
  IN
  /\ pc[c] = "send"
  /\ PendingInc
  /\ trxid' = (trxid + 1) % TrxMod
  /\ myTrx' = [myTrx EXCEPT ![c] = trxid]
  /\ \/ /\ kind[c] \in OversizeKinds
        /\ pc' = [pc EXCEPT ![c] = "idle"]
        /\ UNCHANGED <<call_mutex, toDev, outq>>
     \/ /\ kind[c] \notin OversizeKinds
        /\ WriteFrame(req)
        /\ IF kind[c] \in NoRspKinds
             THEN /\ call_mutex' = NoOwner
                  /\ pc' = [pc EXCEPT ![c] = "idle"]
             ELSE /\ pc' = [pc EXCEPT ![c] = "wait"]
                  /\ UNCHANGED call_mutex
  /\ UNCHANGED <<kind, reply, calls, rsp_queue, wakeup_event,
                 break_condition, readerVars, fromDev, awake,
                 unknownSent, backend>>

\* wait_rsp: rsp_sem.acquire() succeeds, rsp_queue.pop(0); call() releases
\* call_mutex and returns the frame.
WaitRsp(c) ==
  /\ pc[c] = "wait"
  /\ rsp_queue # <<>>
  /\ reply' = [reply EXCEPT ![c] = Head(rsp_queue)]
  /\ rsp_queue' = Tail(rsp_queue)
  /\ call_mutex' = NoOwner
  /\ pc' = [pc EXCEPT ![c] = "idle"]
  /\ UNCHANGED <<kind, myTrx, calls, trxid, pending, wakeup_event,
                 break_condition, readerVars, deviceVars>>

\* wait_rsp: rsp_sem.acquire(timeout=...) runs out; call() returns None.
\* The request stays outstanding and pending is not decremented.
WaitTimeout(c) ==
  /\ RspTimeout
  /\ pc[c] = "wait"
  /\ rsp_queue = <<>>
  /\ call_mutex' = NoOwner
  /\ pc' = [pc EXCEPT ![c] = "idle"]
  /\ UNCHANGED <<kind, myTrx, reply, calls, trxid, pending, rsp_queue,
                 wakeup_event, break_condition, readerVars, deviceVars>>

-----------------------------------------------------------------------------
(* Read loop: HIO.run                                                      *)

\* Bug variant: target_sleep is entered on the count read before the
\* decrement, which is never zero for a response.
ReaderRecvSleepBeforeDec ==
  LET m == readmsg IN
  /\ rpc = "loop"
  /\ fromDev # <<>>
  /\ fromDev' = Tail(fromDev)
  /\ \/ /\ m.kind = "unknown"
        /\ rpc' = "dead"
        /\ UNCHANGED <<pending, rmsg, wakeup_event>>
     \/ /\ m.dir = "ind" /\ m.kind # "unknown"
        /\ wakeup_event' = (wakeup_event \/ m.kind = "wakeup")
        /\ UNCHANGED <<pending, rpc, rmsg>>
     \/ /\ m.dir = "rsp"
        /\ PendingDec
        /\ rpc' = IF pending = 0 THEN "sleep" ELSE "deliver"
        /\ rmsg' = m
        /\ UNCHANGED wakeup_event
  /\ UNCHANGED <<callerVars, trxid, rsp_queue, break_condition, toDev,
                 awake, unknownSent, outq>>

\* Bug variant: the wakeup handler is keyed without the 0xc0 indication
\* bits, so hio.wakeup goes to the default handler (print).
ReaderRecvNoWakeupHandler ==
  LET m == readmsg IN
  /\ rpc = "loop"
  /\ fromDev # <<>>
  /\ fromDev' = Tail(fromDev)
  /\ \/ /\ m.kind = "unknown"
        /\ rpc' = "dead"
        /\ UNCHANGED <<pending, rmsg, wakeup_event>>
     \/ /\ m.dir = "ind" /\ m.kind # "unknown"
        /\ UNCHANGED <<pending, rpc, rmsg, wakeup_event>>
     \/ /\ m.dir = "rsp"
        /\ PendingDec
        /\ rpc' = IF pending' = 0 THEN "sleep" ELSE "deliver"
        /\ rmsg' = m
        /\ UNCHANGED wakeup_event
  /\ UNCHANGED <<callerVars, trxid, rsp_queue, break_condition, toDev,
                 awake, unknownSent, outq>>

\* readmsg + unpack, then dispatch: an indication goes to its handler (the
\* only handler with engine state is wakeup_callback); a response
\* decrements pending and enters target_sleep when it reaches zero.  A
\* frame lookup_class cannot resolve makes Message(None, None) raise; the
\* exception ends the loop (the except clauses sit outside the while).
ReaderRecv ==
  LET m == readmsg IN
  /\ rpc = "loop"
  /\ fromDev # <<>>
  /\ fromDev' = Tail(fromDev)
  /\ \/ /\ m.kind = "unknown"
        /\ rpc' = "dead"
        /\ UNCHANGED <<pending, rmsg, wakeup_event>>
     \/ /\ m.dir = "ind" /\ m.kind # "unknown"
        /\ wakeup_event' = (wakeup_event \/ m.kind = "wakeup")
        /\ UNCHANGED <<pending, rpc, rmsg>>
     \/ /\ m.dir = "rsp"
        /\ PendingDec
        /\ rpc' = IF pending' = 0 THEN "sleep" ELSE "deliver"
        /\ rmsg' = m
        /\ UNCHANGED wakeup_event
  /\ UNCHANGED <<callerVars, trxid, rsp_queue, break_condition, toDev,
                 awake, unknownSent, outq>>

\* Socket.read: recv returns no bytes once the peer has closed, and
\* HIO.Disconnect ends run() (the except clause sits outside the loop).
SocketDisconnect ==
  /\ PeerMayClose /\ backend = "socket" /\ rpc = "loop"
  /\ rpc' = "dead"
  /\ UNCHANGED <<callerVars, trxid, pending, rsp_queue, wakeup_event,
                 break_condition, rmsg, deviceVars>>

\* Serial.target_sleep: write a sleep request if suspend is enabled.
ReaderSleep ==
  /\ rpc = "sleep" /\ backend = "serial"
  /\ toDev' = IF suspend_enabled THEN Append(toDev, SleepReq) ELSE toDev
  /\ rpc' = "deliver"
  /\ UNCHANGED <<callerVars, trxid, pending, rsp_queue, wakeup_event,
                 break_condition, rmsg, fromDev, awake, unknownSent, outq>>

\* Spidev.target_sleep: if suspend is enabled, clear wakeup_event, then
\* write the sleep request.
SpidevTargetSleep ==
  /\ rpc = "sleep" /\ backend = "spidev"
  /\ IF suspend_enabled
       THEN toDev' = Append(toDev, SleepReq) /\ wakeup_event' = FALSE
       ELSE UNCHANGED <<toDev, wakeup_event>>
  /\ rpc' = "deliver"
  /\ UNCHANGED <<callerVars, trxid, pending, rsp_queue, break_condition,
                 rmsg, fromDev, awake, unknownSent, outq>>

\* HIO.target_sleep, which FtdiSPI and Socket do not override: nothing is written.
BaseTargetSleep ==
  /\ rpc = "sleep" /\ backend \in {"ftdi", "socket"}
  /\ rpc' = "deliver"
  /\ UNCHANGED <<callerVars, trxid, pending, rsp_queue, wakeup_event,
                 break_condition, rmsg, deviceVars>>

\* FtdiSPI.read polls wait_status before reading: while the status shows
\* no frame to read, each poll writes the oldest frame of outq (__write,
\* in MAXSIZE chunks).  A frame on its way in stops the flushing.
FtdiFlush ==
  /\ rpc = "loop" /\ backend = "ftdi"
  /\ fromDev = <<>> /\ outq # <<>>
  /\ toDev' = Append(toDev, Head(outq))
  /\ outq' = Tail(outq)
  /\ UNCHANGED <<callerVars, trxid, pending, rsp_queue, wakeup_event,
                 break_condition, readerVars, fromDev, awake, unknownSent>>

\* rsp_queue.append(msg); rsp_sem.release()
ReaderDeliver ==
  /\ rpc = "deliver"
  /\ rsp_queue' = Append(rsp_queue, rmsg)
  /\ rpc' = "loop"
  /\ UNCHANGED <<callerVars, trxid, pending, wakeup_event, break_condition,
                 rmsg, deviceVars>>

-----------------------------------------------------------------------------
(* The device (environment)                                                *)

\* An awake device takes the next frame: a request of a kind with a rsp is
\* answered with the same kind and trxid; a sleep request puts it to sleep.
DeviceRecv ==
  LET m == Head(toDev) IN
  /\ awake
  /\ toDev # <<>>
  /\ toDev' = Tail(toDev)
  /\ awake' = (m.kind # "sleep")
  /\ fromDev' = IF m.kind \in RspKinds
                  THEN Append(fromDev, [m EXCEPT !.dir = "rsp"])
                  ELSE fromDev
  /\ UNCHANGED <<callerVars, trxid, pending, rsp_queue, wakeup_event,
                 break_condition, readerVars, unknownSent, outq>>

\* A break on the line, or the wakeup pin, wakes the device, which sends
\* hio.wakeup.
DeviceWake ==
  /\ ~awake
  /\ break_condition
  /\ awake' = TRUE
  /\ fromDev' = Append(fromDev, WakeupInd)
  /\ UNCHANGED <<callerVars, trxid, pending, rsp_queue, wakeup_event,
                 break_condition, readerVars, toDev, unknownSent, outq>>

\* The device sends a frame the host's registry does not know (an
\* indication of a group or message the host was not built with).
DeviceUnknown ==
  /\ UnknownFrames
  /\ awake
  /\ ~unknownSent
  /\ unknownSent' = TRUE
  /\ fromDev' = Append(fromDev, UnknownInd)
  /\ UNCHANGED <<callerVars, trxid, pending, rsp_queue, wakeup_event,
                 break_condition, readerVars, toDev, awake, outq>>

-----------------------------------------------------------------------------
CallerStep(c) ==
  \/ TargetWakeup(c) \/ SpidevTargetWakeup(c) \/ BaseTargetWakeup(c)
  \/ WakeupDone(c) \/ WakeupTimeout(c)
  \/ Send(c) \/ WaitRsp(c) \/ WaitTimeout(c)

Next ==
  \/ \E c \in Callers, k \in Kinds : Acquire(c, k)
  \/ \E c \in Callers : CallerStep(c)
  \/ ReaderRecv \/ SocketDisconnect \/ ReaderSleep \/ SpidevTargetSleep \/ BaseTargetSleep
  \/ FtdiFlush \/ ReaderDeliver
  \/ DeviceRecv \/ DeviceWake \/ DeviceUnknown

\* A caller thread that has entered call() keeps running (no fairness on
\* starting a call: the program may stop calling); the read loop is a
\* daemon thread that always runs; the device always serves its link.
Fairness ==
  /\ \A c \in Callers : WF_vars(TargetWakeup(c) \/ SpidevTargetWakeup(c)
                                \/ BaseTargetWakeup(c) \/ WakeupDone(c)
                                \/ Send(c) \/ WaitRsp(c))
  /\ WF_vars(ReaderRecv) /\ WF_vars(ReaderSleep)
  /\ WF_vars(SpidevTargetSleep) /\ WF_vars(BaseTargetSleep)
  /\ WF_vars(FtdiFlush) /\ WF_vars(ReaderDeliver)
  /\ WF_vars(DeviceRecv) /\ WF_vars(DeviceWake)

Spec == Init /\ [][Next]_vars /\ Fairness

-----------------------------------------------------------------------------
(* Properties                                                              *)

\* HIO.call pairs responses with requests by FIFO order alone (wait_rsp pops
\* rsp_queue without looking at trxid): every frame call() returns must be
\* the response to the request that same call wrote, same kind and trxid.
ResponseMatchesRequest ==
  \A c \in Callers :
    reply[c] # NoReply => /\ reply[c].trxid = myTrx[c]
                          /\ reply[c].kind = kind[c]

\* The wake handshake (break or pin, wait for hio.wakeup) and target_sleep
\* (sent only when pending drops to zero) never let a request reach the
\* device while it sleeps.
NoRequestLostToSleep ==
  /\ ~awake => \A i \in DOMAIN toDev : toDev[i] = SleepReq
  /\ \A i, j \in DOMAIN toDev : (i < j /\ toDev[i] = SleepReq) => toDev[j] = SleepReq

\* Every call() that has started returns (a response, None or an exception).
CallsComplete == \A c \in Callers : (pc[c] # "idle") ~> (pc[c] = "idle")

\* With suspend enabled on a backend that implements it (Serial, Spidev),
\* once no call is in progress the device is eventually told to sleep and
\* sleeps (target_sleep on pending = 0).
IdleLeadsToSleep ==
  SleepsOnEnable => ((\A c \in Callers : pc[c] = "idle")
                ~> (~awake \/ \E c \in Callers : pc[c] # "idle"))

\* call() releases call_mutex before it returns, by any path.
MutexReleasedOnReturn ==
  call_mutex # NoOwner => pc[call_mutex] # "idle"
=============================================================================
