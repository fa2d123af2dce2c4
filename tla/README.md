# TLA+ models of the Talaria TWO host SDK scripts

These modules model the host side of the HIO (host I/O) protocol in
`src/script/`. That code is a multi-threaded RPC engine: caller threads send
requests to a Talaria TWO device and a reader thread receives responses and
indications. The models check the engine with TLC.

## The system

| Part | Source | What it does |
|---|---|---|
| HIO engine | `hostio.py` `HIO` (177-366) | `call()` takes the class-wide `call_mutex`. `call_async()` wakes the target, increments `pending`, takes a `trxid` from `next_seq()`, packs and writes the request. `wait_rsp()` waits on `rsp_sem` and pops the head of `rsp_queue`. The reader thread `run()` reads frames. It hands indications to `ind_handler`. For a response it decrements `pending`, calls `target_sleep()` when `pending` reaches 0, then queues the response. |
| Serial backend | `hostio.py` `Serial` (369-456) | `target_wakeup()` clears `wakeup_event`, asserts a break, waits 0.5 s for the `hio.wakeup` indication, then deasserts the break. If the wait fails it raises `Wakeup TIMEOUT`. `target_sleep()` writes a `hio.sleep` request. |
| Socket backend | `hostio.py` `Socket` | A TCP transport with no wake/sleep. |
| Spidev, Gpiodev, GpioIrq | `hostio.py` 472-694, 800-831 | An SPI transport. `read(n)` is `wait_status` (wait for the GPIO interrupt once one was seen, then poll the status byte for the FIFO bit) and one `xfer2` of `n` bytes. The `GpioIrq` thread watches the interrupt pin with `wait_for_edge` and a per-mode state table, and sets `Gpiodev.irq_event`. GPIO wakeup is used for wake/sleep. |
| FtdiSPI | `hostio.py` 697-791 | An SPI transport over USB. Writes are queued in `outq` and sent while the status register is polled. |
| Message codec | `hostio.py` `Message`, `api/base.py` fields | A frame is a 2-byte length, then group, msgid with the direction in bits 6-7, trxid, and packed fields. |
| Registry | `api/base.py` `registry` | Gives each message class its group id and its msgid, which is its index within the group. `lookup_class` decodes a frame header. |
| Schemas | `api/*.py` | Message classes. Those without `rsp` (`hio.sleep`, `hio.irqack`) are sent with no response. |
| CLI and socket server | `talaria_cli.py` `HIOTCPSocket` (36-285), `StwCli` (287-480, 705-760); `wcm.py` `WCM` (17-183) | `http s` starts a server thread that creates a listening socket on the device and answers data on accepted connections; the reader thread's `accept`, `data_ready` and `close` handlers feed it through `hio_acceptqueue` and `hio_dataqueue`; `http -e` and `quit` stop it with `shutdown()`. The interface it serves on is made by `create` (a `WCM` object whose `notify_received` follows the link), `add_network` and `auto_connect`, and removed by `destroy`. |
| Boot loader | `boot.py` | Builds the command stream the boot ROM executes: ELF segments in 32 KiB writes, the bank 3 relocation with a trampoline, the argument blob and the entry. `Memory` records the written ranges. `main()` resets the target (`reset.py`), changes speed, may start the flash helper for virtual-memory segments, and writes the stream. |
| Wi-Fi scan | `talaria_cli.py` `StwCli.scan` (379-427); `wcm.py` `WCM.scan` (99-127), `ScanUtils` (236-531) | `scan` checks the parameters and calls `ScanUtils.scan`. `WCM.scan` installs `scan_notify` as the `if_scan` indication handler, makes the blocking `if_scan` call and removes the handler. Meanwhile the reader thread adds every indication to `scan_result`. `ScanUtils.scan` then flushes `channels_db` and pops and decodes each indication: SSID, channel and security from the beacon's information elements. |
| Tools | `wcm.py`, `ping.py`, `flash.py`, `reset.py`, ... | Clients of the engine and stand-alone utilities. |

## Modules

### `HostIO.tla`, with `MCHostIO.tla`

This module models the HIO engine, the Serial and Spidev wake/sleep
protocols and the device at the other end of the link. Its constants:

| Constant | Meaning |
|---|---|
| `Callers` | The caller threads. |
| `RspKinds` | Request kinds that get a response. |
| `NoRspKinds` | Request kinds that get no response. |
| `OversizeKinds` | Kinds whose request exceeds `hiomaxsize`. |
| `Suspend` | Whether `enable_suspend(True)` was called. |
| `RspTimeout` | Whether calls pass a `timeout`. |
| `WakeupMayFail` | Whether the wakeup wait can time out. |
| `UnknownFrames` | Whether the device can send a frame the registry does not know. |
| `MaxCalls` | Bounds the number of calls. |
| `Paths` | The path forms `open()` may be given (`/dev/...`, `COM...`, `ftdi://...` for UART or MPSSE, `spidev...`, `unix:...`, `inet:...`); one is chosen in `Init`, and `open` maps it to the backend it builds (serial, ftdi, spidev or socket). |
| `OpenSuspend` | Whether `open()` is called with `suspend=True`. Only then does a Spidev get a wakeup pin (`wakeup_pin`), and only with a pin does its `enable_suspend` turn suspend on (`suspend_enabled`). |
| `PeerMayClose` | Whether the peer of a Socket backend may close the connection. |

How the code maps to the model:

- **Caller thread.** `pc[c]` steps through one `call()`:
  - `Acquire` is `call_mutex.acquire()`.
  - `TargetWakeup`, `WakeupDone` and `WakeupTimeout` are `Serial.target_wakeup`: it clears `wakeup_event`, then asserts the break.
  - `SpidevTargetWakeup` is `Spidev.target_wakeup`: it asserts the wakeup pin (the model's break flag) and waits on `wakeup_event` without clearing it. `WakeupDone` and `WakeupTimeout` end the wait as for Serial.
  - `Send` is `call_async` together with the early return of `call()` for rsp-less classes. An oversize request raises in `writemsg` after `pending` and `trxid` have moved.
  - `WaitRsp` and `WaitTimeout` are `wait_rsp` followed by the release.
- **Reader thread.** `rpc` steps through one iteration of `run()`:
  - `ReaderRecv` takes one frame. An unknown frame ends the loop (`rpc = "dead"`). An indication runs the wakeup handler. A response decrements `pending`.
  - `ReaderSleep` is `Serial.target_sleep` when `pending` reached 0. `SpidevTargetSleep` is `Spidev.target_sleep`, which also clears `wakeup_event`.
  - `SocketDisconnect` is `Socket.readmsg` raising `Disconnect` when `recv` returns no bytes: the read loop ends with callers still waiting. It has no fairness, since a peer need never close.
- **Backends.** `BaseTargetWakeup` and `BaseTargetSleep` are the no-op `target_wakeup`/`target_sleep` of the ftdi and socket backends. When suspend is enabled on a sleep-capable backend, `enable_suspend` writes a `hio.sleep` request at once (`SleepsOnEnable`, the initial `toDev`). `PendingInc`/`PendingDec` are `AtomicInt`, and `readmsg` takes one whole frame.
  - `ReaderDeliver` is the `rsp_queue.append` and `rsp_sem.release`.
- **Device (environment).**
  - It handles requests in order.
  - It answers rsp kinds with the same trxid.
  - A `sleep` request puts it to sleep, and while asleep it drops what it receives.
  - Only the break wakes it, after which it sends `hio.wakeup`.

The links `toDev` and `fromDev` are FIFO sequences. A serial line is
ordered and does not duplicate.

`MCHostIO.tla` also holds the refinement mapping onto `RPCChannel` (below):
a caller's abstract state is `idle` when `pc` is idle. It is `served` while
it waits and a response with its trxid is on the link, in the reader's hands
or in `rsp_queue`. Otherwise it is `called`. `op` is `kind`, and `answer` is
the kind of `reply`.

### `RPCChannel.tla`

This is the abstract specification of what `HIO.call` promises its callers.
It leaves out the link, the device's sleep state, the read loop and the
trxids. Calls run one at a time (`Call` needs every caller idle). The device
executes the request of the call in progress (`Serve`). The call then returns
the response to that request (`Return`). Weak fairness on `Serve` and
`Return` says a started call returns. The suspend run checks `RPCSpec ==
RPC!Spec` as a property of `HostIO`: that is, `HostIO` refines the channel
for calls with a response and no timeouts. `HostIOLateReply.cfg` shows where the
refinement breaks once calls time out.

### `Framing.tla`, with `MCFraming.tla`

This module models the byte level of the link. `HIO.readmsg` reads the
2-byte little-endian length and then the body with the transport's `read(n)`.
`HIO.writemsg` writes `struct.pack("<H", len) + payload`. The module covers
four backends (`transport`, fixed per behaviour):

- **Serial and Socket.** `Read` is one `read(n)` that returns between 1 and
  `n` of the bytes that have arrived, with `n` computed as `readmsg`
  computes it (`ReadNeed`). `Consume` is what `readmsg` does with them.
  `ReadTimeout` is a read that returns nothing: `readmsg` returns `None`
  and drops `hdr` and `msg`. In the pass run it happens only between the
  device's frames. It is weakly fair: `Socket` and `Serial` open the link
  with a 0.1 s timeout (hostio.py:374, 411). `Write` is `writemsg`: it frames the message (`Frame`) and hands it
  to the transport's `write`: `SerialWrite` is pyserial's write loop over
  partial `os.write`s, `SocketWrite` one `socket.send` whose count
  `writemsg` ignores, `SpidevWrite` one `xfer2` of `'R'` and the frame (the
  device takes the command byte), and `FtdiWrite` an append to `outq`. `Serial.__init__` calls `sync(cmp)` before it starts the read
  loop (`syncing` blocks `ReaderLoop`, `Write` and `Close` until then).
  `SyncRead` is one turn of its loop: read a byte, append it to `sy`, and
  restart from that byte alone when `sy` is no longer a prefix of the sync
  string `SyncStr`. `DeviceBanner` sends the bytes the device prints
  (`Banner`) before its first frame, a part of any length at a time.
- **Spidev.** `WaitIrq` is the first part of `wait_status`: once
  `GpioIrq.enabled` is set, `Gpiodev.wait_irq` waits for `irq_event` and, in
  irq mode 1, writes a `hio.irqack` frame. `SpiRead` polls `status()` until
  the FIFO bit is set, then does one `xfer2` of exactly `n` bytes. Bytes the
  FIFO does not hold come back as 0xff. Spidev's `read` never times out, and
  its `write` is one `xfer2` of the whole frame.
- **FtdiSPI.** `Write` only appends the frame to `outq`. `FtdiRead` is
  `read(n)` once its `wait_status` saw the FIFO bit: one exchange of exactly
  `n` bytes (`Xfer`, shared with Spidev). `FtdiFlush` is the other branch of
  that poll loop: while the FIFO bit is clear, it writes the head of `outq`.
  The MAXSIZE split of a transfer keeps it one SPI transaction, so it is
  left out.
- **GpioIrq thread.** `irq_mode` is what `update_config_irq` makes of the
  `irq=` option (`Init`). At start the thread waits for `RISING` in mode 1,
  and otherwise for the edge `reset_edge` reads off the pin. `IrqPin` is the
  device moving the pin; `wait_for_edge` returns only for an edge of the
  awaited kind while the thread is in it. `GpioIrqRun` applies
  `state_table` (`StateTable`, `NextEdge`) and, on a trigger,
  `irq_callback`. `GpioIrqEnable` is the `enabled = True` that follows.
- **close().** `Close` is `HIO.close` on the main thread, once the writers
  have returned: it sets `raw` and waits in `join()`. `ReaderLoop` is
  `run()`'s `while not self.raw` test. The read loop is at its top
  (`rloop = "top"`), inside `readmsg` (`"read"`, every read action's
  guard), or gone (`"exit"`). A completed frame or a `None` return brings it
  back to the top. `Join` is `join()` returning. `CloseOn` names the
  transports whose behaviours close the link; with `raw` set, Serial and
  Socket reads time out regardless of `MaxNones`, and `FtdiSPI.read` skips
  `wait_status`.

The device is the environment, and its side is modelled from the spec
because the firmware is not in the repository. It sends its frames
(`UpFrames`) as a byte stream in chunks (`DeviceSend`); on Spidev, whole
frames into its FIFO when `SpiFrameFifo` is set. It moves its interrupt pin
at any time, up to `MaxEdges` times. It splits what the host wrote into
frames by their length (`Deframe`). The other constants are:

- `Writers` and `DownFrames`: the host threads that call `writemsg`, and
  their frames.
- `MidFrameGap`: whether the device may pause inside a frame.
- `PartialOsWrite` and `PartialSend`: whether `os.write` and `send` may take
  part of a buffer.
- `MaxNones`: bounds the `None` returns of `readmsg`.
- `IrqModes`: the `irq=` options.
- `IrqAck`: the payload of the `hio.irqack` request.
- `CloseOn`: the transports on which the program calls `close()`.

### `HioCodec.tla`, with `MCHioCodec.tla`

The codec at byte level. The field classes of `api/base.py` are records
(`uint8`, `uint16`, `uint32`, `int32`, `string`, with `PyFmt` and
`UnitSize`), the hio group is `HioClasses` as the registry holds it, and
`Pack`, `UnpackFrom`, `LookupClass` and `HioUnpack` translate
`Message.pack`, `Message.unpack`, `HIO.lookup_class` and `HIO.unpack`
(RECURSIVE where the code loops over fields). A behaviour is one frame:
`HostPack` packs a request as `call_async` does, or `DeviceSend` builds a
response or indication as the wire format prescribes, possibly with stray
bytes from `Extra`; `Receive` decodes it.

### `HioRegistry.tla`, with `MCHioRegistry.tla`

The `registry` metaclass over the whole schema catalog: `ImportModule`
imports one `api/*.py` module in the order `hostio.py` and the tools do,
checking the group id (`GroupAccepted`) and numbering each class's msgid
by its declaration order. `LookupClass` decodes a header,
`SetIndHandler`/`RemoveIndHandler` are `set_ind_handler`, and
`DispatchInd` is the read loop's handler lookup. The catalogs are the
field-less class lists of each `api` file.

### `BootImage.tla`, with `MCBootImage.tla`

`parse_boot_seq` over every `--seq` word (`Nop`, `Cont`, `NextWord`,
`Entry`, `Load`, `WriteWord`, `Ignore`, `Finish`). `Load` is the whole
`load` branch: ELF chunks through `CmdWrite` (with `Bank3Split`, which is
`bank3_memory_ranges`, and `MemoryAdd`, which is `Memory.add` with its
sort and RECURSIVE merge loop), then `Bank3Fixup` and the argument
blob. An exception makes `status = "raised"`. On the ROM side `Written`,
`RamImage` and `Booted` execute the stream, including the trampoline's
copy. Addresses are in units of 0x8000 (one chunk), and a byte's content
is the address it was loaded for, so a misplaced byte is visible.

After the parse, `pc` walks `main()` for the options `opt` (one record of
`Options`: `--output`, `--verify`, `--reset`, `--xtal`, `--speed`,
`--flash`). `hostBaud` is the host port's baud and `tgt` the program
listening on the target (`rom`, the flash helper `gordon`, or the `app`)
and its baud. `OutputWrite` is the `--output` branch; `FirstReset`,
`ChangeSpeed`, `RomVersion` and `FlashChoice` are the steps of `main()`
before the write, `StartHelper` and `WriteParts` are `start_gordon` and
the flash write, `SecondReset` and `Respeed` the reset and speed change
after it, `WriteMemory` is `write_memory` (which delivers the stream,
`delivered = "ok"`, only if the ROM hears it at the host's baud), and
`FinalSpeed` the last speed change. `ResetTo` is `reset.py`'s reset and
`SpeedTo` the ROM's `SPEED` command, which scales the baud by the xtal
factor.

### `SockServer.tla`, with `MCSockServer.tla`

The CLI of `talaria_cli.py` with its WiFi interface and its socket
server: three host threads and the device.

- **CLI thread** (`cli`, `cmd`, `quitting`). `Create`, `DestroyBegin` and
  `DestroyEnd` (the two RPCs of `WCM.close`), `SetNetwork(add)` (which either succeeds or prints `failed` and changes nothing) and
  `AutoConnect(enabled)` are `StwCli`'s interface commands. `IfCreate(w)`
  is `WCM.handle` (`wcm.if_create`, which installs that WCM's
  `notify_received`), `IfStateOf` is `set_if_state` and `check_handle` is
  itself. `Start` is `http s` (`do_run`), `HttpExit` is `http -e`, and
  `Quit`/`QuitExit` are `quit` (shutdown of the app, then destroy, then
  exit). `ShutdownApp` is `shutdown()`, and `Joined` is the return of
  `hio_thread.join()`. A CLI RPC is one step taken when nothing is on the
  link (`CliCalls`): it holds `call_mutex`, and its answer is read after
  the indications before it.
- **WCM objects** (`cw`, `sw`, `wIf`, `wConn`, `notifyTo`). They are
  numbered in the order `create` makes them. `StwCli._w` is `cw`. The
  server keeps the WCM it was started with (`sw`). `notifyTo` is the WCM
  whose `notify_received` handles `wcm.if_notify`; `destroy` never removes
  it.
- **Server thread** (`srv`). `SetupBegin`, `SetupAddr`, `SetupServer`,
  `SetupDone` are `setup()` and `sock_thread`. `SetupBegin` includes the
  lazy `if_create` of `get_ifconfig4` when the server's WCM lost its
  interface. `ServerPop`, `RecvDone`, `SendDone`, `CloseHttpDone` are
  `server()`'s loop and `process_incoming`; the loop serves only while
  `wConn[sw]` holds. `ServerStop`, `CloseAllNext`, `CloseAllWait`,
  `CloseListenDone` are the code after the loop, including the dict
  iteration of `sockets_close_all` that raises when the dict changes size.
  Each server `dev.call` is two steps: the request is sent (the device
  runs it and queues the answer on `fromDev`) and the answer is consumed.
- **Reader thread.** `Accept`, `DataReady`, `Close` and `NotifyReceived`
  (`WCM.notify_received` with `StwCli.link_status_cb`, `LinkStatusCb`)
  handle the indication at the head of `fromDev`.
- **Device and peers.** `PeerConnect`, `PeerSend`, `PeerClose`, `LinkUp`
  and `LinkDown`. The link comes up only on an interface with a network and
  auto-connect (`Eligible`). It goes down on its own (bounded), or, without
  a bound, once its interface loses the network, auto-connect or its
  existence; the LINK DOWN may come before or after `if_destroy` returns.
  Socket numbers come from `Fds` and interface handles from `IfHandles`;
  both are reused once freed.

A host-initiated `sock.close` is answered without a close indication; the
firmware is not in the repository, and the handlers only need the peer's.

`StwCliInit` is the interface state `StwCli.__init__` sets. `do_run` is
`HIOTCPSocket.do_run`, and `get_ifconfig4` is `WCM.get_ifconfig4` with its
lazy `if_create`.

### `Ping.tla`, with `MCPing.tla`

This module models the ICMP echo client of `ping.py` (`Ping.ping` over IPv4)
and the echo request `ICMP` builds. It has one host thread. The device
socket and the network are the environment.

| Constant | Meaning |
|---|---|
| `PSizes` | The `--size` values the user may give. |
| `Count` | `--count`. |
| `MaxReplies` | Bounds the replies the peer sends to one request. With a bound of 2 a reply can be duplicated. |
| `MaxStray` | Bounds the echo packets and ICMP errors that answer no request of ours. |
| `SetupMayFail` | Whether `sock.client` may fail in `setup()`. |
| `HioMaxSize` | `HIO.hiomaxsize`. |
| `Entries` | How ping is started: `talaria_cli`'s `ping` (`"cli"`) or `ping.py`'s `main` (`"main"`). |

The checksum is modelled at byte level:

- `WordSum` and `checksum` are `ICMP.checksum`. It sums big-endian words, pads an odd last byte, and folds the carry once.
- `RequestCksum` is the field `ICMP.__init__` writes.
- `InternetChecksum` is the RFC 1071 reference, which folds until no carry is left.
- `CksumValid` is a receiver's test. A request the receiver rejects is never answered.

How the code maps to the actions:

- `CliPing` is `talaria_cli`'s `ping`, with its refusals and its `size <= hiomaxsize` check.
- `Main` is `ping.py`'s `main`. It never reaches `Ping.ping`, because `hostio.open` fails or `WCM.connect` asserts.
- `setup` is `setup()`.
- `Send` is one turn of the send loop: build the request, record it in `tracker`, `sendto`. `SendTooLarge` is the same turn when the `sock.sendto` frame (`SendtoLen`, 44 bytes plus the payload) is longer than `hiomaxsize`, so `writemsg` raises.
- `Tick` is the end of the interval. `WaitAcquire` and `NextRequest` are the `ready_sem` wait.
- `RecvOne` and `RecvEmpty` are `get_reply`'s `recvfrom` loop.
- `DrainAcquire` and `DrainEnd` are the final loop over `tracker`. `DrainEnd` then computes `Finished`, the statistics print, which raises without an `i`, without `last_reply`, or with one rtt sample.
- `PeerReply` and `Stray` are the network. Each delivery queues a packet and releases `ready_sem`, as the `sock.notification` handler does.

### `WcmScan.tla`, with `MCWcmScan.tla`

This module models a `scan` command end to end. It has three threads: the
CLI thread in `StwCli.scan` and `ScanUtils.scan`, the reader thread
dispatching frames, and the device, which reports the access points it
heard and answers the request.

| Constant | Meaning |
|---|---|
| `Aps` | The access points (model values). |
| `Ap` | What each one advertises: SSID bytes, channel, RSN AKM suites, WPA AKM suites, number of pairwise ciphers, and the first RSN capabilities byte. |
| `LateInds` | Whether the device may answer before it has reported every access point it heard. |
| `MaxScans` | The number of `scan` commands typed. |
| `NetSsids`, `NoSsid` | The values `StwCli._ssid` may hold when `get_iface_info` runs: `None` (`NoSsid`), or the SSID `add_network` was given. |

The decoders are operators over byte sequences, with the code's 0-based
offsets (`At(ie, k)` is `ie[k]`):

- `LocateFrom` and `ie_locate` are `ie_locate`'s loop. Reading the length past the end raises `IndexError`, and an element longer than the rest gives `None`.
- `ie_ssid` and `ie_channel` are the code's functions.
- `AuthDecode` is `ie_authmode_decode`, with every early return that keeps the bits found so far. `AkmBit` is the AKM loop, and `capBits` is the capabilities test. `AuthFrom` is `ie_authmode`'s walk over the elements.
- `Decode` is `decode`. A non-UTF-8 SSID makes `.decode('utf-8')` raise.
- `Beacon` builds the element list an access point sends: SSID, rates, DS parameter set, then RSN and WPA elements as 802.11 lays them out. It is the input, and it is not code of the repository.
- `Decoded` applies `Decode` to each access point's beacon once.

How the code maps to the actions:

- `Scan` is `StwCli.scan` with its `check_handle` and range checks (`paramsOk` stands for all of them, and for a non-ASCII `scan_ssid`). When they pass, it is `WCM.scan` up to the call (`WcmScanCall`): `scan_result = set()`, `set_ind_handler(if_scan, scan_notify)`, and the request written.
- `DeviceReport` and `DeviceAnswer` are the firmware.
- `ReaderInd` and `ReaderRsp` are `HIO.run`'s dispatch of an indication (`ind_handler.get(key, print)`) and of the response.
- `ScanReturn` is the rest of `WCM.scan` (`WcmScanEnd`: `set_ind_handler(if_scan, None)` and the return) and `ScanUtils.scan` up to `channels_flush`.
- `DecodeOne` is one turn of the `while len(resp) > 0` loop: `pop`, `decode`, `channels_update` (or the printed exception).
- `DecodeDone` ends the loop.
- `GetIfaceInfo` is `StwCli.get_iface_info`. Without a handle it prints the state. Its two ifconfig RPCs may raise, and then the `except` clause prints. Otherwise it prints the `|AP` line with `get_channel(self._ssid)`. `apLine` holds that line's SSID and channel. `lookup` returns the first `channels_db` entry with the SSID. The dict's order is the arbitrary pop order of the decode loop, so the model lets any matching entry come first.

`db` is `channels_db`. `shown` is the authmask `print_scan` formats for each
BSSID.

## Runs

| Run | Module | cfg | Expect | Checks |
|---|---|---|---|---|
| suspend | HostIO | `HostIOSuspend.cfg` | pass | `TypeOK`, `ResponseMatchesRequest`, `NoRequestLostToSleep`, `IdleLeadsToSleep`, `CallsComplete`, `RPCSpec` |
| faults | HostIO | `HostIOFaults.cfg` | pass | `NoRequestLostToSleep` |
| mutex_leak | HostIO | `HostIOMutexLeak.cfg` | violation | `MutexReleasedOnReturn` |
| framing | Framing | `Framing.cfg` | pass | `TypeOK`, `FramesIntact`, `FramesDelivered`, `FramesWritten`, `CloseReturns` |
| codec_roundtrip | HioCodec | `HioCodecRoundTrip.cfg` | pass | `TypeOK`, `FrameRoundTrip` |
| registry | HioRegistry | `HioRegistry.cfg` | pass | `TypeOK`, `EveryFrameResolves`, `IndicationReachesItsHandler` |
| boot | BootImage | `BootImage.cfg` | pass | `TypeOK`, `RangesNormalised`, `BootImageComplete`, `StreamReachesRom` |
| boot_stream_lost | BootImage | `BootImageStreamLost.cfg` | violation | `StreamReachesRom` |
| sock_server | SockServer | `SockServer.cfg` | pass | `TypeOK`, `AcceptedTracked`, `IfStateTracksLink`, `DataServed` |
| sock_shutdown | SockServer | `SockServerShutdown.cfg` | violation | `ShutdownStopsServer` |
| ping | Ping | `Ping.cfg` | pass | `TypeOK`, `PingEnds` |
| wcm_scan | WcmScan | `WcmScan.cfg` | pass | `TypeOK`, `ScanRecordsAps`, `SecurityShown`, `ScanCompletes`, `ChannelShown` |

What the properties say:

- **`ResponseMatchesRequest`.** The reply a caller gets has that caller's trxid and kind.
- **`NoRequestLostToSleep`.** No request reaches the device while it is asleep. This is the hazard between the reader's `target_sleep` and a caller's `target_wakeup`.
- **`CallsComplete`.** Every call returns.
- **`IdleLeadsToSleep`.** When all callers are idle, the device is eventually put to sleep, unless a new call starts.
- **`RPCSpec`.** `HostIO` implements `RPCChannel`: calls run one at a time, each is answered and returns its own response, and each returns.
- **`FramesIntact`.** `readmsg` returns exactly the device's frames, in order, whatever the read chunks, the between-frame timeouts and the Spidev transfers.
- **`FramesDelivered`.** Every frame the device sends is eventually returned by `readmsg`, on Spidev whatever the interrupt pin does, unless `close()` ended the read loop first.
- **`CloseReturns`.** `close()` returns: the read loop sees `raw` and leaves, and `join()` returns. This holds on Serial and Socket because their reads time out.
- **`FramesWritten`.** Every frame a writer passes to `writemsg` eventually reaches the device. On Serial, pyserial's loop finishes it. On FtdiSPI, the read loop sends what is left in `outq` between two frames from the device.
- **`MutexReleasedOnReturn`.** No call has returned or raised while still holding `call_mutex`.
- **`FrameRoundTrip`.** A frame decodes to the class, direction, trxid and values it was built from.
- **`EveryFrameResolves`.** Every frame of every registered class and direction is resolved by `lookup_class` to that class and direction.
- **`IndicationReachesItsHandler`.** An indication reaches the handler set for its class, or the default print.
- **`RangesNormalised`.** `Memory.ranges` stays sorted, disjoint and merged, and covers exactly the written addresses.
- **`BootImageComplete`.** When the ROM enters the image, every address `load` wrote holds its own content.
- **`StreamReachesRom`.** The boot stream `write_memory` sends is heard by the ROM, at the baud the host sends at.
- **`SeqNeverRaises`.** `parse_boot_seq` returns for every `--seq`.
- **`AcceptedTracked`.** Every connection the device accepted while the server is up is in `hio_acceptqueue` or its indication is on the link.
- **`DataServed`.** Data sent on an accepted connection is eventually read, unless the connection closes, the server stops or the device's link is down.
- **`IfStateTracksLink`.** Once the link indications on the way are handled, `_if_state` of a held interface says CONNECTED exactly when the device's link is up on it.
- **`ShutdownStopsServer`.** When `shutdown()` has returned, the server thread has ended.
- **`PingEnds`.** `ping()` ends, by returning or raising, even when every reply is lost.
- **`ScanRecordsAps`.** After a `scan` command, `channels_db` holds exactly the access points the device reported for it, each with its beacon's SSID and channel. The exception is an access point whose SSID is not UTF-8, which `decode` drops. This needs the handler installed before the request, the reader's dispatch order, the flush, and `ie_locate`'s walk all to be right.
- **`SecurityShown`.** The security printed for an access point has exactly the AKM bits of the suites it advertises in its RSN and WPA elements, across pairwise cipher lists of any length.
- **`ScanCompletes`.** A `scan` command returns, even when `decode` raises for an indication. The loop pops before it decodes.
- **`ChannelShown`** (an action property). The channel that `get_iface_info` prints for `_ssid` is the beacon channel of an access point with that SSID, reported in the last scan. The line shows no channel only when no such access point was reported. This depends on the flush, the handler, the decode loop and `lookup`'s SSID match.

The violation runs are the findings listed in `PROJECT.json`:

- **mutex_leak.** `Wakeup TIMEOUT` and `HioMaxSizeError` leave `call_mutex` held.
- **boot_stream_lost.** With `--reset none` and `--flash vm` (the defaults) for an image with virtual-memory segments, the flash helper is started and never reset away, and the boot stream is written to it instead of the ROM.
- **sock_shutdown.** `http -e` or `quit` during `setup()` returns without stopping the server thread, which then serves for ever.

Further code problems are recorded as hazards with the constants that show
them, because the number of runs is capped. Where a cfg reproduces one, the
cfg is kept beside the runs:

- A response that arrives after its call timed out is queued, and `wait_rsp` hands it to the next caller. `HostIOLateReply.cfg` violates `ResponseMatchesRequest`. The spec says a late response is discarded.
- `ie_authmode_decode` takes bit 3 (0x08) of the RSN capabilities as management frame protection (`+PMF`) and bit 2 as `IE_PROTECT_BIT_CAP`. Those are PTKSA replay counter bits; MFPC and MFPR are bits 7 and 6. `WcmScanPmf.cfg` violates `PmfShown`. An access point with caps 0x0c is shown as `+PMF`, and one with MFPC is not.
- `WCM.scan` removes its handler as soon as the response is read. An `if_scan` indication dispatched after the response is printed and not recorded. `WcmScanLateInds.cfg` lets the device answer first and violates `ScanRecordsAps`.
- An unknown frame kills the read loop: `Message(None, None)` fails its assertion. `HostIOUnknownFrame.cfg` violates `CallsComplete`. The spec says such a frame is logged and dropped.
- A read of Serial or Socket that times out inside a frame drops the bytes read so far, and the rest of the frame is then read as a length. `FramingMidFrameGap.cfg` violates `FramesIntact`.
- Two threads writing on Serial (a caller, and the read loop's `target_sleep`) interleave their frames when `os.write` takes part of a buffer. `FramingTwoWriters.cfg` violates `DeviceFramesIntact`, which says the device deframes only frames the host meant to send and, once the writers are done, has all of them.
- `Socket.write` ignores the count `send` returns. `FramingPartialSend.cfg` violates `DeviceFramesIntact`.
- `irq_event` is never cleared, so in irq mode 1 the read loop sends a `hio.irqack` before every `read(n)` after the first interrupt. That makes two per frame, for an interrupt raised once. `FramingIrqAck.cfg` violates `AcksAnswerIrqs`.
- An edge of the interrupt pin while `GpioIrq` is between two `wait_for_edge` calls is not seen, and the thread then waits for the wrong edge. `FramingLostEdge.cfg` violates `EdgeInSync`.
- `Spidev.read` waits for the FIFO bit only, then clocks `n` bytes. A device FIFO holding part of a frame desynchronises `readmsg`. `FramingSpiUnderrun.cfg` violates `FramesIntact`.
- `close()` on a Spidev link: a read loop already inside `readmsg` polls `status()` with no timeout, so with a silent device `join()` never returns. `FramingCloseSpi.cfg` violates `CloseReturns`.
- `close()` on an FtdiSPI link: frames still in `outq` are sent only by the read loop's `wait_status`, which stops with the loop. `FramingCloseFtdi.cfg` violates `FramesWritten`.
- `Serial.sync` restarts its match from the breaking byte alone, so a sync string that overlaps itself is never found: with the banner `aaab` and the sync `aab`, `sy` goes `a`, `aa`, `a`, `b` and `open()` never returns. `FramingSyncOverlap.cfg` violates `FramesDelivered`. Only `flash.py --sync` passes a sync string, and it cannot be run from this repository (see Not modelled); the bug is in `hostio.open`, the library function.
- `unpack` drops a trailing stray byte instead of rejecting the frame. `HioCodecStrayByte.cfg` violates `DecodeAccountsForFrame`, which says a frame `unpack` accepts is consumed to its last byte (the length check at hostio.py:149 is disabled by `if False`).
- After a reset with `--xtal 80`, `main()` changes the host to `--speed` without the xtal factor the ROM applies, so the stream goes out at the wrong baud. `Options` with `o.reset # "none"` and xtal 80 violates `StreamReachesRom`.
- `destroy` under a running server: the server keeps the old `WCM`, which no longer hears `if_notify` once `create` installs the new one, so it sleeps for ever on a connected interface. `DestroyUnderServer = TRUE` with seven commands violates `DataServed`.
- A call of a class without `rsp` leaves `pending` at 1 for ever. `NoRspKinds = {irqack}` with `Suspend` violates `IdleLeadsToSleep`.
- An image ending near the top of RAM loses its bank 3 data (`BootImageComplete`).
- On Spidev, `target_wakeup` trusts a `wakeup_event` left set by an earlier wake. After a call timed out, the next caller passes the wake check at once. The late response then lets the reader clear the event and send `sleep` ahead of that caller's request. `HostIOFaults.cfg` with `Paths = {"spidev"}` and `OpenSuspend = TRUE` violates `NoRequestLostToSleep`. The suspend run covers Spidev without timeouts and passes. No tool passes `suspend=True` to `open()`, so in the repository a Spidev never enables suspend at all.
- `Memory.add` puts an int into `Memory.ranges` on an overlap, and a write word calls the undefined `cmd_pbwrite`. Either one ends `boot.py`. `BootImageRaises.cfg` violates `SeqNeverRaises`, which says `parse_boot_seq` returns for every `--seq`.
- When a Socket peer closes, `readmsg` raises `Disconnect`, the read loop ends, and waiting callers hang. `Paths = {"unix"}` with `PeerMayClose = TRUE` violates `CallsComplete`.
- `ICMP.checksum` folds the carry once, and RFC 1071 folds until none is left. With `--size 64` the request with seq 457 needs a second fold. It goes out with field 0xffff where 0xfffe is due, so the peer drops it. `PingChecksum.cfg` violates `SentChecksumsValid`, which says every echo request sent carries the Internet checksum of its bytes. The ping run's payloads need one fold only, so it does not check this.
- `get_reply` adds one to `num_reply` for every echo packet: duplicates, echoes of a seq no longer tracked and stray echoes. `ping()` returns that count as rx and prints the loss from it. `PingRxCount.cfg` violates `RxCountsReplies`, which says rx is the number of requests answered (their rtt samples); a stray echo is counted before any reply.
- The statistics print of `ping()` raises when fewer than two replies were timed, because `statistics.stdev` needs two samples. With the defaults and lost replies, `PingRaises.cfg` violates `PingReturns`, which says `ping()` returns its count. Through the CLI the exception is printed as a failed ping.
- `talaria_cli`'s `ping` admits `--size` up to `hiomaxsize`, but the `sock.sendto` frame is 44 bytes longer. `writemsg` then raises inside `call()`, which leaves `call_mutex` held and the socket open. `PingMaxSize.cfg` (`-s 100`) violates `CliSizeCheckSuffices`.
- `ping.py`'s `main` always fails: `WCM.connect` asserts that it is deprecated. `Main` models this, and no property is needed.

## Bounds

- **HostIO.** With two or three callers, every pair of callers interleaves, and a third can start a call during a wake/sleep handoff. Five calls are enough for the sequence sleep, wake, sleep, wake. `trxid` is kept modulo 2^16 as in `next_seq`; bounded runs never wrap it, and since `wait_rsp` never compares trxids a wrap would not change which response a caller gets. The suspend run takes one path of each backend kind (serial, ftdi, spidev, socket), with `OpenSuspend`. The faults run takes a serial and a unix path with a peer that may close.
- **Framing.** Two frames each way: a query response and a wakeup indication from the device, and a query and a config request from one caller. Reads may return one byte or the whole remainder, so every split of the header and body happens. Two `None` returns. On Spidev every irq mode, with the pin starting at either level and moving up to three times. That is enough for a trigger, a non-triggering edge and an edge missed while the thread is busy. Serial and Socket behaviours may close the link at any point after the writers return, including mid-frame and while the device still sends. The pass run opens Serial with the sync string `ab` after the banner `aab`, so the match is broken once and must restart at the breaking byte; the other transports have no sync. The repro cfgs change one constant each.
- **Ping.** Three requests (the default `--count`), so a reply may be late for one request and arrive during the next one's interval. Payloads are 0 bytes, 1 byte (odd, padded), 32 bytes (the default) and 100 bytes (through the CLI, a frame too large for `hiomaxsize` 128). A reply may be lost or duplicated, and there is one stray echo packet or ICMP error. Both entries are covered, and so is a failing `setup`. The checksum needs a second fold only for some sequence numbers and sizes, which the `PingChecksum.cfg` reproduction reaches with 458 requests.
- **HioCodec.** Field values whose bytes differ (so byte order and width show), a negative `int32`, empty and non-empty variable arrays, and trxids 7 and 65535 (the top of the 16-bit range).
- **HioRegistry.** The whole catalog: every class of every group.
- **BootImage.** Four ELF layouts: one below bank 3; one across its lower edge with a segment in virtual memory; one ending inside bank 3, which needs the 0x80000 floor of `bank3_fixup`; and one with three segments around bank 3. Seven `--seq` values cover every word kind, `cont`, `next`, entry before load, and a trailing write word. The pass run takes `UsualOptions`: every option at xtal 40, with `--reset none` only together with `--flash nope`; the two excluded regions are the two boot findings, each shown by its own constants.
- **SockServer.** Two socket numbers and two connections force a number to be reused while the old connection's indications may still be queued. One data segment per behaviour; the read-until-empty loop still runs its failing `recvfrom`. Five interface commands are enough for create, add_network and auto_connect, then destroy and create again, or remove_network and add_network under a running server. Two WCM objects and two handles let a new interface take a fresh handle while the old link is still being torn down. Two link changes of the device's own take the link down and up again. The user does not destroy the interface under a live server thread (`DestroyUnderServer = FALSE`); the hazard list gives the constants that show what happens when they do.

- **WcmScan.** Three access points: one WPA2-PSK with two pairwise ciphers, so the AKM list starts past a cipher list longer than one; one open with a 0xff byte in its SSID, so `decode` raises; and one with both RSN (802.1X and SAE) and WPA1 (PSK) elements, so `ie_authmode` walks two security elements and ORs them. The device hears any subset and reports it in any order. Two commands, each of which may be refused, so a flush after an earlier scan matters. `get_iface_info` may run before, between and after them. `_ssid` may be `None`, `A` (ap3), `AA` (ap1, of which `A` is a prefix) or an SSID nobody advertises.

## Fairness

- **HostIO.**
  - Caller steps after `Acquire` are weakly fair: a thread inside `call()` keeps running.
  - The reader loop and the device are weakly fair.
  - `Acquire` has no fairness, because a program may stop calling. For the same reason deadlock is not checked (`CHECK_DEADLOCK FALSE`); a stuck call shows up as a `CallsComplete` violation instead.
- **SockServer.** The server thread, the reader and the join are weakly fair. The user, the peers and the device's link changes are not: a user may never stop the server, a peer may never send, and a link may never come up. When nothing is left to do, the server thread sleeps in its loop and the CLI waits at its prompt, so deadlock is not checked.
- **Framing.** The read loop (`ReaderLoop`, `Read`, `ReadTimeout`, `WaitIrq`, `SpiRead`, `FtdiRead`, `FtdiFlush`), `join()`, the writer, the `GpioIrq` thread and the device's sending, its banner and `Serial.sync`'s reads are weakly fair. The interrupt pin has no fairness, because a device need never raise it; `FramesDelivered` therefore holds only if no read waits on the interrupt. Both directions end, and a closed link stays closed, so deadlock is not checked.
- **Ping.** The ping thread is weakly fair (`PingStep`): it always runs, and `Tick` is time passing. The network and the peer have no fairness: replies may all be lost. A run ends in `done`, so deadlock is not checked.
- **HioCodec, HioRegistry and BootImage.** These are sequential: one frame, one import order or one `--seq`. They reach a final state, which is not an error. `main()` ends at `end` or `exit` and stops there.

- **WcmScan.** The reader thread, the CLI thread's steps after the request, and the device are weakly fair. The device reports what it heard and answers. Without this the call in `WCM.scan`, which has no timeout, would never return. `Scan` has no fairness: the user need not type. After the last command the CLI waits at its prompt, so deadlock is not checked.

**Symmetry.** Caller threads are interchangeable (`CallerSymmetry`). This is
sound because no property names a particular caller.

## Plan

Done: `HostIO`, `RPCChannel` (refined by `HostIO`), `Framing` (with Spidev, `Gpiodev` and `GpioIrq`), `HioCodec`, `HioRegistry`, `BootImage`, `SockServer`, `Ping`, `WcmScan`.

Next, in order:

1. `HostIO` close() while a caller is blocked in `wait_rsp` (the byte-level close is in `Framing`).
2. `Ping` over IPv6 (`echo_rsp_types`' IPv6 entries) and the rtt arithmetic.
3. The IPv4 address type of `StwCli` (see Not modelled), in a module of its own beside `SockServer`.

Abstract specifications worth stating:

- **Memory.** A set of addresses. `RangesNormalised` checks the set equality state by state; a refinement mapping would state it as a specification.

## Not modelled

- The transfers themselves: pyserial, the socket calls, `spidev`'s ioctl and pyftdi. `Framing` models what `read` and `write` return, not how.
- ELF parsing, the secure-boot stream and signing (`boot.py`, `signature.py`). `SecureBootStream.cmd_write` calls an undefined `self.foo` and discards the encrypted data. It is noted here and not modelled.
- Code generation (`generate.py`).
- The interactive CLI commands other than the socket server.
- Formatting helpers under `bits/`.
- The IPv4 address type (`_ipv4_type`: `link_status_cb` sets DYNAMIC on CONNECTED, `set_iface_info4` sets STATIC, destroy resets it). `set_iface_info4` refuses when the type is DYNAMIC ("DHCP already running"). It then blocks in `if_set_addr4`, and a CONNECTED indication handled meanwhile by the reader thread sets DYNAMIC, which the CLI then overwrites with STATIC. The check is made before a blocking call, and the write after it. It belongs with the interface state of `SockServer`, whose pass run already explores about a million states. Adding this state there would put that run and its mutants beyond their time limits, so it is not modelled.
- `flash.py`. It imports `bits.flash` and `bits.partitions`, which `src/script/bits/` does not contain (and `gdbremote`, which it tolerates missing), so it cannot run from this repository. Its one use of a hostio feature nothing else uses, `open(sync=...)`, is modelled in `Framing`.

These are either pure I/O or data transformations with no concurrency or
protocol state for TLC to explore.
