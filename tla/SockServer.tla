---------------------------- MODULE SockServer ----------------------------
(***************************************************************************)
(* The HIO socket server of talaria_cli.py (class HIOTCPSocket, is_server) *)
(* and the CLI commands that start and stop it, together with the WiFi     *)
(* interface it serves on (StwCli create/destroy/add_network/              *)
(* remove_network/auto_connect and the WCM objects of wcm.py).             *)
(*                                                                         *)
(* Three host threads share the objects' fields:                           *)
(*  - the server thread (sock_thread: setup, then server() and its         *)
(*    process_incoming), which makes blocking dev.call RPCs;               *)
(*  - the HIO reader thread, which runs the indication handlers accept,    *)
(*    data_ready and close, and WCM.notify_received for link changes;      *)
(*  - the CLI thread, which runs one command at a time: the interface      *)
(*    commands, http s, http -e and quit.                                  *)
(* The device answers each request when it is sent and queues the answer  *)
(* behind the indications already on the link (fromDev is FIFO). Peers    *)
(* connect, send data and close at any time; the station link comes up    *)
(* when the interface has a network and auto-connect, and goes down.      *)
(*                                                                         *)
(* A server request/response round trip is two steps of the server thread:*)
(* Issue (the device runs the request at once) and the step that consumes *)
(* the response at the head of fromDev. A CLI command takes call_mutex     *)
(* only when no call is outstanding, and its answer is read after the      *)
(* indications before it, so a CLI RPC is one step taken when fromDev is   *)
(* empty. Socket numbers are a small pool the device reuses.               *)
(***************************************************************************)
EXTENDS Integers, Sequences, FiniteSets

CONSTANTS
    Fds,            \* socket numbers the device hands out (positive ints)
    IfHandles,      \* interface handles wcm.if_create hands out (non-zero)
    MaxWcm,         \* bound on WCM objects, one per create command
    MaxConns,       \* bound on peer connections
    MaxData,        \* bound on data segments sent by peers
    MaxLinkEvents,  \* bound on link changes the device makes on its own
    MaxCmds,        \* bound on interface commands the user types
    DestroyUnderServer  \* may the user type destroy while a server thread
                        \* is alive?

ASSUME Fds \subseteq Nat \ {0} /\ IfHandles \subseteq Nat \ {0}
       /\ MaxWcm \in Nat \ {0} /\ MaxConns \in Nat /\ MaxData \in Nat
       /\ MaxLinkEvents \in Nat /\ MaxCmds \in Nat
       /\ DestroyUnderServer \in BOOLEAN

None == 0            \* self.hio_sock = None, _handle = None, _w = None
Wcms == 1..MaxWcm    \* WCM objects, numbered in the order created

VARIABLES
    \* --- device ---
    open,         \* sockets open on the device
    listen,       \* the listening socket, or None
    kind,         \* kind[f]: the peer on connection f speaks "http" or "raw"
    pend,         \* pend[f]: data segments waiting on connection f
    devIfs,       \* interfaces that exist on the device
    devNet,       \* interfaces with a network added
    devAuto,      \* interfaces with auto-connect enabled
    link,         \* the interface whose station link is up, or None
    nconn, ndata, nlink,   \* counters for the bounds
    fromDev,      \* frames on the link towards the host
    \* --- host: HIOTCPSocket fields ---
    handlers,     \* sock.* indication handlers installed by setup()
    hioSock,      \* self.hio_sock
    running,      \* self.hio_host_running
    acceptq,      \* self.hio_acceptqueue (keys = values = socket numbers)
    dataq,        \* self.hio_dataqueue
    \* --- host: StwCli and WCM fields ---
    handle,       \* StwCli._handle
    ifState,      \* StwCli._if_state
    cw,           \* StwCli._w: the current WCM object, or None
    sw,           \* HIOTCPSocket._w: the WCM object the server holds
    wIf,          \* wIf[w]: WCM w's _iface_handle
    wConn,        \* wConn[w]: WCM w's connected
    notifyTo,     \* the WCM whose notify_received handles wcm.if_notify
    \* --- server thread ---
    srv,          \* where the server thread is
    cur,          \* fd argument of process_incoming
    isHttp,       \* process_incoming's local is_http
    iterLeft,     \* sockets_close_all: values not yet visited
    iterSize,     \* len(hio_acceptqueue) when the iteration began
    \* --- CLI thread ---
    cli,          \* the http server app as the CLI sees it
    cmd,          \* "destroy" between WCM.close's two RPCs
    quitting,     \* quit was typed
    ncmd          \* interface commands typed, for the bound

devS == <<open, listen, kind, pend, nconn, ndata>>
devW == <<devIfs, devNet, devAuto, link, nlink>>
dev  == <<devS, devW>>
host == <<handlers, hioSock, running, acceptq, dataq>>
wcm  == <<handle, ifState, cw, sw, wIf, wConn, notifyTo>>
thr  == <<srv, cur, isHttp, iterLeft, iterSize>>
clis == <<cli, cmd, quitting, ncmd>>
vars == <<dev, fromDev, host, wcm, thr, clis>>

Conns == open \ {listen}          \* accepted connections on the device

\* A frame from the device. t is "rsp" (the answer to the pending call)
\* or an indication: "connection", "notification", "close", "if_notify"
\* (ok: 202 CONNECTED, or 201 LINK DOWN).
Frame(t, f, ok, http) == [t |-> t, fd |-> f, ok |-> ok, http |-> http]
Rsp(ok)  == Frame("rsp", None, ok, FALSE)
Ind(t, f) == Frame(t, f, TRUE, FALSE)

SrvStates == {"none", "start", "addr", "server", "notif", "loop", "recv",
              "send", "closehttp", "closeall", "closeallwait",
              "closelisten", "ended"}
AfterLoop == {"closeall", "closeallwait", "closelisten", "ended"}
IfStates == {"NONE", "CREATED", "CONNECTED"}

TypeOK ==
    /\ open \subseteq Fds /\ listen \in Fds \cup {None}
    /\ kind \in [Fds -> {"http", "raw"}] /\ pend \in [Fds -> 0..MaxData]
    /\ devIfs \subseteq IfHandles /\ devNet \subseteq devIfs
    /\ devAuto \subseteq devIfs /\ link \in IfHandles \cup {None}
    /\ nconn \in 0..MaxConns /\ ndata \in 0..MaxData
    /\ nlink \in 0..MaxLinkEvents
    /\ \A i \in 1..Len(fromDev) :
          fromDev[i].t \in {"rsp", "connection", "notification", "close",
                            "if_notify"}
    /\ handlers \in BOOLEAN /\ running \in BOOLEAN
    /\ hioSock \in Fds \cup {None}
    /\ acceptq \subseteq Fds /\ dataq \subseteq Fds
    /\ handle \in IfHandles \cup {None} /\ ifState \in IfStates
    /\ cw \in Wcms \cup {None} /\ sw \in Wcms \cup {None}
    /\ wIf \in [Wcms -> IfHandles \cup {None}] /\ wConn \in [Wcms -> BOOLEAN]
    /\ notifyTo \in Wcms \cup {None}
    /\ srv \in SrvStates /\ cur \in Fds \cup {None} /\ isHttp \in BOOLEAN
    \* the listening socket is never in the accept queue
    /\ iterLeft \subseteq Fds /\ iterSize \in 0..Cardinality(Fds) - 1
    /\ cli \in {"idle", "running", "joining", "stopped", "exit"}
    /\ cmd \in {"none", "destroy"} /\ quitting \in BOOLEAN
    /\ ncmd \in 0..MaxCmds

\* StwCli.__init__: no interface (set_handle(), IfState.NONE).
\* StwCli.__init__: no interface handle, IfState.NONE, no socket apps.
StwCliInit == handle = None /\ ifState = "NONE" /\ cli = "idle"

Init ==
    /\ open = {} /\ listen = None
    /\ kind = [f \in Fds |-> "raw"] /\ pend = [f \in Fds |-> 0]
    /\ devIfs = {} /\ devNet = {} /\ devAuto = {} /\ link = None
    /\ nconn = 0 /\ ndata = 0 /\ nlink = 0
    /\ fromDev = <<>>
    /\ handlers = FALSE /\ hioSock = None /\ running = FALSE
    /\ acceptq = {} /\ dataq = {}
    /\ StwCliInit /\ cw = None /\ sw = None
    /\ wIf = [w \in Wcms |-> None] /\ wConn = [w \in Wcms |-> FALSE]
    /\ notifyTo = None
    /\ srv = "none" /\ cur = None /\ isHttp = FALSE
    /\ iterLeft = {} /\ iterSize = 0
    /\ cmd = "none" /\ quitting = FALSE /\ ncmd = 0

-----------------------------------------------------------------------------
(* The device runs a request when it is sent; the answer is appended to   *)
(* q, the link as it is after the server consumed the previous answer.    *)

DevUnchanged == UNCHANGED <<open, listen, kind, pend, nconn, ndata>>

\* wcm.if_get_addr4 and sock.notification: answered, no socket state.
DevAnswer(q) == fromDev' = Append(q, Rsp(TRUE)) /\ DevUnchanged

\* sock.server: a listening socket, or a failure (the port is taken).
DevServer(q) ==
    /\ \/ \E f \in Fds \ open :
             /\ open' = open \cup {f} /\ listen' = f
             /\ fromDev' = Append(q, Frame("rsp", f, TRUE, FALSE))
       \/ UNCHANGED <<open, listen>> /\ fromDev' = Append(q, Rsp(FALSE))
    /\ UNCHANGED <<kind, pend, nconn, ndata>>

\* sock.recvfrom(fd): one waiting segment, or status != 0.
DevRecv(q, f) ==
    LET ok == f \in Conns /\ pend[f] > 0 IN
    /\ pend' = IF ok THEN [pend EXCEPT ![f] = @ - 1] ELSE pend
    /\ fromDev' = Append(q, Frame("rsp", f, ok, ok /\ kind[f] = "http"))
    /\ UNCHANGED <<open, listen, kind, nconn, ndata>>

\* sock.sendto(fd): the reply goes to the peer.
DevSendto(q, f) == fromDev' = Append(q, Rsp(f \in Conns)) /\ DevUnchanged

\* sock.close(fd) from the host: answered, no close indication.
DevClose(q, f) ==
    /\ open' = open \ {f}
    /\ listen' = IF f = listen THEN None ELSE listen
    /\ pend' = [pend EXCEPT ![f] = 0]
    /\ fromDev' = Append(q, Rsp(f \in open))
    /\ UNCHANGED <<kind, nconn, ndata>>

RspAtHead == fromDev # <<>> /\ Head(fromDev).t = "rsp"
Answer == Head(fromDev)
Rest == Tail(fromDev)

-----------------------------------------------------------------------------
(* CLI thread: the interface commands of StwCli, which go through the      *)
(* WCM object in StwCli._w, and http s, http -e and quit.                 *)

\* The CLI reads a command: no command is half done and quit was not typed.
CliFree == cmd = "none" /\ ~quitting /\ cli \notin {"joining", "exit"}

\* The user types an interface command (create, destroy, add_network,
\* remove_network or auto_connect).
Typed == ncmd < MaxCmds /\ ncmd' = ncmd + 1

\* A CLI RPC takes call_mutex when no call is outstanding.
CliCalls == fromDev = <<>>

\* Handles wcm.if_create may return: not of an existing interface, nor of
\* one whose link the device has not yet taken down.
FreeHandles == IfHandles \ (devIfs \cup {link})

\* StwCli.check_handle.
check_handle == handle # None

\* StwCli.set_if_state, given the handle and the WCM it reads.
IfStateOf(h, w) ==
    IF h = None THEN "NONE" ELSE IF wConn[w] THEN "CONNECTED" ELSE "CREATED"

CliKeep == UNCHANGED <<devS, fromDev, host, thr, cli>>

\* Bug variant: the handle property does not install notify_received.
IfCreateKeepsHandler(w) ==
    \/ \E h \in FreeHandles :
          /\ devIfs' = devIfs \cup {h} /\ wIf' = [wIf EXCEPT ![w] = h]
          /\ UNCHANGED notifyTo
    \/ UNCHANGED <<devIfs, wIf, notifyTo>>

\* WCM.handle for WCM w without an interface: wcm.if_create. A non-zero
\* handle is stored in _iface_handle and w's notify_received becomes the
\* wcm.if_notify handler; a zero one leaves both.
IfCreate(w) ==
    \/ \E h \in FreeHandles :
          /\ devIfs' = devIfs \cup {h} /\ wIf' = [wIf EXCEPT ![w] = h]
          /\ notifyTo' = w
    \/ UNCHANGED <<devIfs, wIf, notifyTo>>

\* create: refused if a handle exists. WCM(dev, link_status_cb) checks
\* hio.query (always answered in the model) and becomes StwCli._w; its
\* handle property creates the interface. StwCli takes _iface_handle and
\* sets _if_state.
Create ==
    /\ CliFree /\ Typed /\ CliCalls /\ ~check_handle /\ cw # MaxWcm
    /\ LET w == IF cw = None THEN 1 ELSE cw + 1 IN
       /\ cw' = w /\ IfCreate(w)
       /\ handle' = wIf'[w] /\ ifState' = IfStateOf(wIf'[w], w)
    /\ UNCHANGED <<devNet, devAuto, link, nlink, sw, wConn, cmd, quitting>>
    /\ CliKeep

\* WCM.add_network, WCM.remove_network and WCM.auto_connect on interface
\* i: one wcm RPC each, which the device applies to the interface.
add_network(i)    == devNet' = devNet \cup {i}
remove_network(i) == devNet' = devNet \ {i}
auto_connect(i, enabled) ==
    devAuto' = IF enabled THEN devAuto \cup {i} ELSE devAuto \ {i}

\* The standalone destroy command, or quit's: refused without a handle.
\* WCM.close first calls auto_connect(False) on its interface.
DestroyBegin ==
    /\ \/ CliFree /\ Typed /\ (DestroyUnderServer \/ srv \in {"none", "ended"})
       \/ /\ quitting /\ cmd = "none" /\ cli \notin {"joining", "exit"}
          /\ UNCHANGED ncmd
    /\ CliCalls /\ check_handle
    /\ auto_connect(wIf[cw], FALSE) /\ cmd' = "destroy"
    /\ UNCHANGED <<devIfs, devNet, link, nlink, wcm, quitting>> /\ CliKeep

\* WCM.close: wcm.if_destroy. On status 0 _iface_handle = None and
\* StwCli.destroy clears its handle and sets _if_state (NONE); otherwise
\* close returns False and destroy does nothing. The if_notify handler is
\* left in place. quit then calls sys.exit.
DestroyEnd ==
    /\ cmd = "destroy" /\ CliCalls
    /\ \/ /\ devIfs' = devIfs \ {wIf[cw]} /\ devNet' = devNet \ {wIf[cw]}
          /\ devAuto' = devAuto \ {wIf[cw]}
          /\ wIf' = [wIf EXCEPT ![cw] = None]
          /\ handle' = None /\ ifState' = "NONE"
       \/ UNCHANGED <<devIfs, devNet, devAuto, wIf, handle, ifState>>
    /\ cmd' = "none"
    /\ cli' = IF quitting THEN "exit" ELSE cli
    /\ UNCHANGED <<link, nlink, cw, sw, wConn, notifyTo, quitting, ncmd>>
    /\ UNCHANGED <<devS, fromDev, host, thr>>

\* add_network / remove_network: refused without a handle; on status 0
\* StwCli calls set_if_state, otherwise it prints "failed" (the device
\* refused the network and kept its list).
SetNetwork(add) ==
    /\ CliFree /\ Typed /\ CliCalls /\ check_handle
    /\ \/ /\ IF add THEN add_network(wIf[cw]) ELSE remove_network(wIf[cw])
          /\ ifState' = IfStateOf(handle, cw)
       \/ UNCHANGED <<devNet, ifState>>
    /\ UNCHANGED <<devIfs, devAuto, link, nlink, handle, cw, sw, wIf, wConn,
                   notifyTo, cmd, quitting>>
    /\ CliKeep

\* auto_connect: refused without a handle; the status is only printed.
AutoConnect(enabled) ==
    /\ CliFree /\ Typed /\ CliCalls /\ check_handle
    /\ auto_connect(wIf[cw], enabled)
    /\ UNCHANGED <<devIfs, devNet, link, nlink, wcm, cmd, quitting>>
    /\ CliKeep

\* HIOTCPSocket.do_run for a server: start the sock_thread.
do_run == srv' = "start"

\* http s: http() requires a handle and IfState.CONNECTED; no server app
\* may be in hio_sock_appls. do_run starts sock_thread; the new
\* HIOTCPSocket holds StwCli._w.
Start ==
    /\ CliFree /\ cli = "idle" /\ check_handle /\ ifState = "CONNECTED"
    /\ do_run /\ cli' = "running" /\ sw' = cw
    /\ UNCHANGED <<dev, fromDev, host, cur, isHttp, iterLeft, iterSize>>
    /\ UNCHANGED <<handle, ifState, cw, wIf, wConn, notifyTo, cmd, quitting,
                   ncmd>>

\* shutdown() returns at once if hio_host_running is False, and otherwise
\* clears it and joins the server thread.
ShutdownApp ==
    IF running
    THEN running' = FALSE /\ cli' = "joining"
    ELSE UNCHANGED running /\ cli' = "stopped"

\* http -e: refused without a handle or unless CONNECTED; pops the app
\* and calls its shutdown().
HttpExit ==
    /\ CliFree /\ cli = "running" /\ check_handle /\ ifState = "CONNECTED"
    /\ ShutdownApp
    /\ UNCHANGED <<dev, fromDev, handlers, hioSock, acceptq, dataq, wcm, thr,
                   cmd, quitting, ncmd>>

\* quit: shutdown() of every app in hio_sock_appls, then destroy if
\* check_handle() (DestroyBegin), then sys.exit (QuitExit, or DestroyEnd).
Quit ==
    /\ CliFree /\ quitting' = TRUE
    /\ IF cli = "running" THEN ShutdownApp ELSE UNCHANGED <<running, cli>>
    /\ UNCHANGED <<dev, fromDev, handlers, hioSock, acceptq, dataq, wcm, thr,
                   cmd, ncmd>>

QuitExit ==
    /\ quitting /\ cmd = "none" /\ cli \notin {"joining", "exit"}
    /\ ~check_handle /\ cli' = "exit"
    /\ UNCHANGED <<dev, fromDev, host, wcm, thr, cmd, quitting, ncmd>>

\* hio_thread.join() returns when the server thread has ended.
Joined ==
    /\ cli = "joining" /\ srv = "ended" /\ cli' = "stopped"
    /\ UNCHANGED <<dev, fromDev, host, wcm, thr, cmd, quitting, ncmd>>

-----------------------------------------------------------------------------
(* Server thread: sock_thread, setup, server, process_incoming,           *)
(* sockets_close_all.                                                      *)

ThrUnchanged == UNCHANGED <<cur, isHttp, iterLeft, iterSize>>

\* The interface state and the CLI's command, which server steps leave.
SrvKeep == UNCHANGED <<devW, wcm, cmd, quitting, ncmd>>

\* WCM.get_ifconfig4 of WCM w, which get_ipaddr_info calls for a server
\* (IPv4). Its handle property creates an interface first if w has none
\* (the CLI destroyed it): with a zero handle the call of wcm.if_get_addr4
\* raises. wcm.if_get_addr4 is answered (a failed call still yields an
\* address).
get_ifconfig4(w) ==
    /\ IF wIf[w] # None THEN UNCHANGED <<devIfs, wIf, notifyTo>>
                        ELSE IfCreate(w)
    /\ IF wIf'[w] # None THEN DevAnswer(fromDev)
                         ELSE UNCHANGED fromDev /\ DevUnchanged

\* sock_thread: hio_host_running is False, so setup() runs. It installs the
\* connection, notification and close handlers, then get_ipaddr_info; an
\* exception there ends sock_thread.
SetupBegin ==
    /\ srv = "start" /\ ~running /\ handlers' = TRUE
    /\ get_ifconfig4(sw)
    /\ srv' = IF wIf'[sw] # None THEN "addr" ELSE "ended"
    /\ UNCHANGED <<hioSock, running, acceptq, dataq, cli>> /\ ThrUnchanged
    /\ UNCHANGED <<devNet, devAuto, link, nlink, handle, ifState, cw, sw,
                   wConn, cmd, quitting, ncmd>>

\* setup: the address is in; call sock.server with the uri.
SetupAddr ==
    /\ srv = "addr" /\ RspAtHead
    /\ DevServer(Rest) /\ srv' = "server"
    /\ UNCHANGED <<host, cli>> /\ ThrUnchanged /\ SrvKeep

\* setup: assert rsp.status == 0, hio_sock = rsp.socket, then call
\* sock.notification. A failed status raises inside setup's try: setup
\* returns False, sock_thread stores it and its assert ends the thread.
SetupServer ==
    /\ srv = "server" /\ RspAtHead
    /\ IF Answer.ok
       THEN /\ hioSock' = Answer.fd /\ DevAnswer(Rest) /\ srv' = "notif"
            /\ UNCHANGED running
       ELSE /\ fromDev' = Rest /\ DevUnchanged /\ running' = FALSE
            /\ srv' = "ended" /\ UNCHANGED hioSock
    /\ UNCHANGED <<handlers, acceptq, dataq, cli>> /\ ThrUnchanged /\ SrvKeep

\* setup returns True: self.hio_host_running = self.setup(), then server().
SetupDone ==
    /\ srv = "notif" /\ RspAtHead
    /\ fromDev' = Rest /\ DevUnchanged
    /\ running' = TRUE /\ srv' = "loop"
    /\ UNCHANGED <<handlers, hioSock, acceptq, dataq, cli>>
    /\ ThrUnchanged /\ SrvKeep

\* server(): with hio_host_running set, its WCM connected and the data
\* queue not empty, popitem a socket and enter process_incoming, whose
\* first step is sock.recvfrom. (An empty queue or a down link sleeps.)
ServerPop ==
    /\ srv = "loop" /\ running /\ wConn[sw] /\ dataq # {}
    /\ \E f \in dataq :
          /\ dataq' = dataq \ {f} /\ cur' = f /\ isHttp' = FALSE
          /\ DevRecv(fromDev, f)
    /\ srv' = "recv"
    /\ UNCHANGED <<handlers, hioSock, running, acceptq, cli,
                   iterLeft, iterSize>> /\ SrvKeep

\* After the loop: 'if self.hio_sock:' close the listening socket.
CloseListen(q) ==
    IF hioSock # None
    THEN DevClose(q, hioSock) /\ srv' = "closelisten"
    ELSE fromDev' = q /\ DevUnchanged /\ srv' = "ended"

\* Bug variant: the size is recorded one too high.
ServerStopSizePlusOne ==
    /\ srv = "loop" /\ ~running
    /\ IF acceptq # {}
       THEN /\ srv' = "closeall" /\ iterLeft' = acceptq
            /\ iterSize' = Cardinality(acceptq) + 1
            /\ UNCHANGED fromDev /\ DevUnchanged
       ELSE CloseListen(fromDev) /\ UNCHANGED <<iterLeft, iterSize>>
    /\ UNCHANGED <<host, cli, cur, isHttp>> /\ SrvKeep

\* server(): hio_host_running is False, so the loop ends; if the accept
\* queue is not empty sockets_close_all iterates over its values.
ServerStop ==
    /\ srv = "loop" /\ ~running
    /\ IF acceptq # {}
       THEN /\ srv' = "closeall" /\ iterLeft' = acceptq
            /\ iterSize' = Cardinality(acceptq)
            /\ UNCHANGED fromDev /\ DevUnchanged
       ELSE CloseListen(fromDev) /\ UNCHANGED <<iterLeft, iterSize>>
    /\ UNCHANGED <<host, cli, cur, isHttp>> /\ SrvKeep

\* process_incoming: recvfrom answered. Data: is_http is set from it and
\* the reply (a counter message, or http_response) goes out by sendto.
\* status != 0: an HTTP peer's socket is closed; the loop is left.
RecvDone ==
    /\ srv = "recv" /\ RspAtHead
    /\ IF Answer.ok
       THEN /\ isHttp' = Answer.http /\ DevSendto(Rest, cur) /\ srv' = "send"
       ELSE /\ UNCHANGED isHttp
            /\ IF isHttp
               THEN DevClose(Rest, cur) /\ srv' = "closehttp"
               ELSE fromDev' = Rest /\ DevUnchanged /\ srv' = "loop"
    /\ UNCHANGED <<host, cli, cur, iterLeft, iterSize>> /\ SrvKeep

\* process_incoming: sendto answered (its status is not looked at); the
\* while True loop calls recvfrom again.
SendDone ==
    /\ srv = "send" /\ RspAtHead
    /\ DevRecv(Rest, cur) /\ srv' = "recv"
    /\ UNCHANGED <<host, cli>> /\ ThrUnchanged /\ SrvKeep

\* process_incoming: the close of the HTTP socket is answered; break.
CloseHttpDone ==
    /\ srv = "closehttp" /\ RspAtHead
    /\ fromDev' = Rest /\ DevUnchanged /\ srv' = "loop"
    /\ UNCHANGED <<host, cli>> /\ ThrUnchanged /\ SrvKeep

\* sockets_close_all: the next value of the dict iterator. If the size of
\* hio_acceptqueue changed since the iteration began, next() raises
\* RuntimeError; it escapes server(), whose remaining lines (the close of
\* the listening socket) are skipped, and sock_thread swallows it.
CloseAllNext ==
    /\ srv = "closeall"
    /\ IF Cardinality(acceptq) # iterSize
       THEN srv' = "ended" /\ UNCHANGED <<fromDev, iterLeft>> /\ DevUnchanged
       ELSE IF iterLeft = {}
       THEN CloseListen(fromDev) /\ UNCHANGED iterLeft
       ELSE \E f \in iterLeft :
               /\ DevClose(fromDev, f) /\ iterLeft' = iterLeft \ {f}
               /\ srv' = "closeallwait"
    /\ UNCHANGED <<host, cli, cur, isHttp, iterSize>> /\ SrvKeep

\* sockets_close_all: dev.call(sock.close, fd) answered.
CloseAllWait ==
    /\ srv = "closeallwait" /\ RspAtHead
    /\ fromDev' = Rest /\ DevUnchanged /\ srv' = "closeall"
    /\ UNCHANGED <<host, cli>> /\ ThrUnchanged /\ SrvKeep

\* server(): the close of the listening socket is answered; the thread
\* sleeps, prints 'server closed' and ends.
CloseListenDone ==
    /\ srv = "closelisten" /\ RspAtHead
    /\ fromDev' = Rest /\ DevUnchanged /\ srv' = "ended"
    /\ UNCHANGED <<host, cli>> /\ ThrUnchanged /\ SrvKeep

-----------------------------------------------------------------------------
(* Reader thread: the indication at the head of fromDev goes to its        *)
(* handler. Before setup() installs the sock.* handlers they are printed.  *)

IndAtHead(t) == fromDev # <<>> /\ Head(fromDev).t = t

ReaderUnchanged == UNCHANGED <<dev, thr, clis, wcm>> /\ fromDev' = Rest

\* Bug variant: accept ignores connections until hio_host_running is set.
AcceptWhenRunning ==
    /\ IndAtHead("connection")
    /\ acceptq' = IF handlers /\ running THEN acceptq \cup {Answer.fd}
                  ELSE acceptq
    /\ UNCHANGED <<handlers, hioSock, running, dataq>>
    /\ ReaderUnchanged

\* accept: hio_acceptqueue[msg.socket] = msg.socket.
Accept ==
    /\ IndAtHead("connection")
    /\ acceptq' = IF handlers THEN acceptq \cup {Answer.fd} ELSE acceptq
    /\ UNCHANGED <<handlers, hioSock, running, dataq>>
    /\ ReaderUnchanged

\* data_ready: a socket in the accept queue is put in the data queue.
\* (For the listening socket it sets hio_dataReady, which server() never
\* reads.)
DataReady ==
    /\ IndAtHead("notification")
    /\ dataq' = IF handlers /\ Answer.fd \in acceptq
                THEN dataq \cup {Answer.fd} ELSE dataq
    /\ UNCHANGED <<handlers, hioSock, running, acceptq>>
    /\ ReaderUnchanged

\* close: the socket leaves both queues; for the listening socket
\* hio_sock = None.
Close ==
    /\ IndAtHead("close")
    /\ IF handlers
       THEN /\ acceptq' = acceptq \ {Answer.fd}
            /\ dataq' = dataq \ {Answer.fd}
            /\ hioSock' = IF Answer.fd = hioSock THEN None ELSE hioSock
       ELSE UNCHANGED <<acceptq, dataq, hioSock>>
    /\ UNCHANGED <<handlers, running>>
    /\ ReaderUnchanged

\* StwCli.link_status_cb(link_up, msgtype) for 202 (up) and 201 (down).
LinkStatusCb(up) == IF up THEN "CONNECTED" ELSE "CREATED"

\* Bug variant: the indication moves _if_state but not WCM.connected.
NotifyReceivedNoFlag ==
    /\ IndAtHead("if_notify")
    /\ IF notifyTo # None
       THEN ifState' = LinkStatusCb(Answer.ok)
       ELSE UNCHANGED ifState
    /\ UNCHANGED <<handle, cw, sw, wIf, wConn, notifyTo>>
    /\ UNCHANGED <<dev, thr, clis, host>> /\ fromDev' = Rest

\* WCM.notify_received of the WCM that installed the handler: 201 (LINK
\* DOWN) clears its connected and 202 (CONNECTED) sets it, and
\* StwCli.link_status_cb sets _if_state to CREATED or CONNECTED. Without a
\* handler the indication is printed.
NotifyReceived ==
    /\ IndAtHead("if_notify")
    /\ IF notifyTo # None
       THEN /\ wConn' = [wConn EXCEPT ![notifyTo] = Answer.ok]
            /\ ifState' = LinkStatusCb(Answer.ok)
       ELSE UNCHANGED <<wConn, ifState>>
    /\ UNCHANGED <<handle, cw, sw, wIf, notifyTo>>
    /\ UNCHANGED <<dev, thr, clis, host>> /\ fromDev' = Rest

-----------------------------------------------------------------------------
(* Device and peers (environment).                                         *)

EnvUnchanged == UNCHANGED <<host, thr, clis, wcm>>

\* A peer connects to the listening socket over the link.
PeerConnect ==
    /\ link # None /\ listen # None /\ nconn < MaxConns
    /\ \E f \in Fds \ open, k \in {"http", "raw"} :
          /\ open' = open \cup {f}
          /\ kind' = [kind EXCEPT ![f] = k] /\ pend' = [pend EXCEPT ![f] = 0]
          /\ fromDev' = Append(fromDev, Ind("connection", f))
    /\ nconn' = nconn + 1
    /\ UNCHANGED <<listen, ndata, devW>> /\ EnvUnchanged

\* A peer sends a segment; the device raises sock.notification.
PeerSend ==
    /\ link # None /\ ndata < MaxData
    /\ \E f \in Conns :
          /\ pend' = [pend EXCEPT ![f] = @ + 1]
          /\ fromDev' = Append(fromDev, Ind("notification", f))
    /\ ndata' = ndata + 1
    /\ UNCHANGED <<open, listen, kind, nconn, devW>> /\ EnvUnchanged

\* A peer closes; the device frees the socket and raises sock.close.
PeerClose ==
    /\ \E f \in Conns :
          /\ open' = open \ {f} /\ pend' = [pend EXCEPT ![f] = 0]
          /\ fromDev' = Append(fromDev, Ind("close", f))
    /\ UNCHANGED <<listen, kind, nconn, ndata, devW>> /\ EnvUnchanged

\* Interfaces the station may associate on.
Eligible == devNet \cap devAuto

\* The station link comes up on an interface with a network and
\* auto-connect (wcm.if_notify 202).
LinkUp ==
    /\ link = None /\ nlink < MaxLinkEvents
    /\ \E h \in Eligible : link' = h
    /\ nlink' = nlink + 1
    /\ fromDev' = Append(fromDev, Frame("if_notify", None, TRUE, FALSE))
    /\ UNCHANGED <<devIfs, devNet, devAuto>> /\ DevUnchanged /\ EnvUnchanged

\* The link goes down (201): on its own, or because its interface lost its
\* network, its auto-connect or its existence (not counted).
LinkDown ==
    /\ link # None /\ (nlink < MaxLinkEvents \/ link \notin Eligible)
    /\ link' = None
    /\ nlink' = IF link \in Eligible THEN nlink + 1 ELSE nlink
    /\ fromDev' = Append(fromDev, Frame("if_notify", None, FALSE, FALSE))
    /\ UNCHANGED <<devIfs, devNet, devAuto>> /\ DevUnchanged /\ EnvUnchanged

-----------------------------------------------------------------------------
ServerStep ==
    \/ SetupBegin \/ SetupAddr \/ SetupServer \/ SetupDone \/ ServerPop
    \/ RecvDone \/ SendDone \/ CloseHttpDone \/ ServerStop \/ CloseAllNext
    \/ CloseAllWait \/ CloseListenDone

ReaderStep == Accept \/ DataReady \/ Close \/ NotifyReceived

CliStep ==
    \/ Create \/ DestroyBegin \/ DestroyEnd
    \/ \E add \in BOOLEAN : SetNetwork(add)
    \/ \E enabled \in BOOLEAN : AutoConnect(enabled)
    \/ Start \/ HttpExit \/ Quit \/ QuitExit \/ Joined

Next ==
    \/ CliStep \/ ServerStep \/ ReaderStep
    \/ PeerConnect \/ PeerSend \/ PeerClose \/ LinkUp \/ LinkDown

\* A running thread keeps running: the server thread, the reader and the
\* join are weakly fair. The user's commands, the peers and the device's
\* link changes are not.
Spec == Init /\ [][Next]_vars /\ WF_vars(ServerStep) /\ WF_vars(ReaderStep)
        /\ WF_vars(Joined)

-----------------------------------------------------------------------------
(* Properties.                                                             *)

\* Every connection the device accepted while the server is up is known to
\* the host: it is in hio_acceptqueue, or its connection indication is
\* still on the link. It depends on setup() installing the handlers before
\* sock.server creates the listening socket, and on the reader keeping the
\* order of connection and close indications for a reused socket number.
AcceptedTracked ==
    srv \notin AfterLoop \cup {"none", "start"} =>
        \A f \in Conns :
            \/ f \in acceptq
            \/ \E i \in 1..Len(fromDev) :
                  fromDev[i] = Ind("connection", f)

\* Data a peer sends on an accepted connection is eventually read by
\* process_incoming, unless the connection is closed, the server is
\* stopping, or the station link is down (server() then only sleeps).
\* Covers the hand-off data_ready -> hio_dataqueue -> popitem,
\* process_incoming's read-until-empty loop, and server()'s reading of its
\* WCM's connected flag, which notify_received must keep up to date.
DataServed ==
    \A f \in Fds :
        (f \in Conns /\ pend[f] > 0)
            ~> (pend[f] = 0 \/ f \notin Conns \/ srv \in AfterLoop
                \/ link = None)

\* Once the link indications on the way have been handled and no destroy
\* is half done, StwCli._if_state of the interface the CLI holds says
\* CONNECTED exactly when the device's link is up on that interface. It
\* relies on create installing the new WCM's notify_received, on
\* link_status_cb, and on set_if_state (after add/remove_network) reading
\* the same WCM that the notifications update.
IfStateTracksLink ==
    /\ check_handle /\ cmd = "none"
    /\ \A i \in 1..Len(fromDev) : fromDev[i].t # "if_notify"
    => (ifState = "CONNECTED" <=> link = handle)

\* When shutdown() has returned (http -e or quit), the server thread has
\* ended: shutdown clears hio_host_running and joins hio_thread.
ShutdownStopsServer == cli = "stopped" => srv = "ended"
=============================================================================
