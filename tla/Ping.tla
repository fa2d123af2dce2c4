-------------------------------- MODULE Ping --------------------------------
(***************************************************************************)
(* The ICMP echo client of ping.py (class Ping, over IPv4) and the echo    *)
(* request it builds (class ICMP).                                         *)
(*                                                                         *)
(* One host thread runs Ping.ping: setup opens a raw ICMP socket on the    *)
(* device; then, for each of --count requests, it builds an ICMP echo      *)
(* request, records its sequence number in self.tracker, sends it and      *)
(* waits out the interval on ready_sem, calling get_reply each time the    *)
(* semaphore is released; then it drains the last replies and prints the   *)
(* statistics. The HIO reader thread releases ready_sem once for every     *)
(* sock.notification indication, which the device sends when a packet     *)
(* lands in the socket. get_reply reads packets with sock.recvfrom until   *)
(* the device answers status != 0 (nothing left).                          *)
(*                                                                         *)
(* The network drops an echo request whose checksum is wrong (RFC 792),    *)
(* and may lose, duplicate and reorder replies; other echo packets and     *)
(* ICMP errors also reach the socket. Passing time is the action Tick:    *)
(* the interval of the current request has run out.                        *)
(***************************************************************************)
EXTENDS Integers, Sequences, FiniteSets

CONSTANTS
    PSizes,        \* values of --size (payload bytes) the user may give
    Count,         \* --count
    MaxReplies,    \* bound on replies the peer sends to one request
    MaxStray,      \* bound on ICMP packets that answer no request of ours
    SetupMayFail,  \* may sock.client fail in setup?
    HioMaxSize,    \* HIO.hiomaxsize: 128, or the maxsize hio.query reported
    Entries        \* how ping is started: "cli" (talaria_cli ping) or
                   \* "main" (ping.py's main)

ASSUME PSizes \subseteq Nat /\ Count \in Nat /\ MaxReplies \in Nat
       /\ MaxStray \in Nat /\ SetupMayFail \in BOOLEAN
       /\ HioMaxSize \in Nat /\ Entries \subseteq {"cli", "main"}

Word == 65536                       \* 16-bit words of the checksum
ID == 4660                          \* ICMP(id=0x1234), the default
ECHO_REQUEST == 8
ECHO_REPLY == 0
DEST_UNREACH == 3                   \* an ICMP error: not an echo type
EchoTypes == {ECHO_REPLY, ECHO_REQUEST}  \* echo_rsp_types, IPv4 entries
StraySeq == Count                   \* a sequence number never sent

(***************************************************************************)
(* ICMP.checksum and the echo request ICMP.__init__ builds.                *)
(***************************************************************************)
\* sum(struct.unpack(">nH", buf + pad)): big-endian 16-bit words, an odd
\* last byte padded with a zero byte.
WordAt(bs, j) ==
    (bs[2 * j - 1] * 256) + (IF 2 * j <= Len(bs) THEN bs[2 * j] ELSE 0)

\* The sum of words lo..hi, split in halves to keep the recursion shallow.
RECURSIVE WordSumIn(_, _, _)
WordSumIn(bs, lo, hi) ==
    IF lo > hi THEN 0
    ELSE IF lo = hi THEN WordAt(bs, lo)
    ELSE LET mid == (lo + hi) \div 2
         IN  WordSumIn(bs, lo, mid) + WordSumIn(bs, mid + 1, hi)

WordSum(bs) == WordSumIn(bs, 1, (Len(bs) + 1) \div 2)

\* ICMP.checksum(buf, s) with the carry folded once.  The mutant below is
\* the sum with no fold at all.
checksumNoFold(bs, s) == s + WordSum(bs)
checksum(bs, s) ==
    LET t == s + WordSum(bs) IN ((t \div Word) % Word) + (t % Word)

\* struct.pack(">BBHHH", type, code, 0, id, seq): the checksum field zero.
HeaderBytes(seq) ==
    <<ECHO_REQUEST, 0, 0, 0, ID \div 256, ID % 256, seq \div 256, seq % 256>>

\* bytes(i%256 for i in range(size)), the default payload
Payload(size) == [k \in 1..size |-> (k - 1) % 256]

\* The checksum field of the request: cksum = checksum(hdr), then
\* checksum(payload, cksum), written as ~cksum & 0xffff.
RequestCksum(size, seq) ==
    LET c == checksum(Payload(size), checksum(HeaderBytes(seq), 0))
    IN  Word - 1 - (c % Word)

(***************************************************************************)
(* The reference: the RFC 1071 Internet checksum, the ones' complement of  *)
(* the ones'-complement sum, whose end-around carry is added until none    *)
(* is left.                                                                *)
(***************************************************************************)
RECURSIVE OnesFold(_)
OnesFold(t) == IF t < Word THEN t ELSE OnesFold((t \div Word) + (t % Word))

InternetChecksum(bs) == Word - 1 - OnesFold(WordSum(bs))

\* What a receiver checks: the request's field is the checksum of the
\* request with that field zero.
CksumValid(size, seq, cksum) ==
    cksum = InternetChecksum(HeaderBytes(seq) \o Payload(size))

\* The length of the sock.sendto request frame that carries an echo
\* request: the 4-byte header, socket, size and flags (uint32 each), addr
\* (ipaddr6, 16 bytes), addrlen and port (uint16 each), then the ICMP
\* packet, 8 header bytes and the payload.  HIO.writemsg raises
\* HioMaxSizeError for a frame longer than hiomaxsize.
SendtoLen(size) == 4 + 3 * 4 + 16 + 2 * 2 + 8 + size

VARIABLES
    entry,     \* "cli" or "main"
    phase,     \* where the run is: "cli", "main" (before Ping.ping),
               \* "setup", "send", "wait", "recv", "drain" or "done"
    ret,       \* the loop get_reply returns to: "wait" or "drain"
    psize,     \* the payload size of this run
    sent,      \* requests sent: the loop index i is sent - 1
    tracker,   \* self.tracker: sequence numbers sent and not yet answered
    nrtt,      \* len(self.rtt_stats)
    numReply,  \* self.num_reply
    called,    \* get_reply has run, so self.last_reply is set
    elapsed,   \* the interval of the current request has run out
    sem,       \* the count of ready_sem
    rxq,       \* packets in the device socket, oldest first
    reqs,      \* reqs[k]: the request with seq k-1 as sent on the wire,
               \* with the verdict of a receiver's checksum test
    nrep,      \* nrep[k]: replies the peer has sent to reqs[k]
    nstray,    \* stray packets so far
    outcome    \* how ping() ended

vars == <<entry, phase, ret, psize, sent, tracker, nrtt, numReply, called,
          elapsed, sem, rxq, reqs, nrep, nstray, outcome>>

Packet == [type: {ECHO_REPLY, ECHO_REQUEST, DEST_UNREACH}, seq: 0..Word - 1]

Init ==
    /\ entry \in Entries /\ phase = entry /\ ret = "wait"
    /\ psize \in PSizes
    /\ sent = 0 /\ tracker = {} /\ nrtt = 0 /\ numReply = 0
    /\ called = FALSE /\ elapsed = FALSE /\ sem = 0 /\ rxq = <<>>
    /\ reqs = <<>> /\ nrep = <<>> /\ nstray = 0 /\ outcome = "none"

(***************************************************************************)
(* The ping thread.                                                        *)
(***************************************************************************)
\* The end of ping(): close the socket and print the statistics.  Line 206
\* reads the loop variable i, unbound when count is 0; line 208 reads
\* self.last_reply, set only by get_reply; line 210 takes the stdev of
\* rtt_stats, which needs two samples.
Finished ==
    CASE sent = 0    -> "no_i"
      [] ~called     -> "no_last_reply"
      [] nrtt = 1    -> "stdev"
      [] OTHER       -> "returned"

\* talaria_cli's ping: refused without an interface handle, unless the
\* interface is CONNECTED, for --count below 1, for --size above
\* hiomaxsize, and for a host name sock.resolve cannot resolve; otherwise
\* Ping.ping runs.  Its except clause prints whatever ping() raises.
CliPing ==
    /\ phase = "cli"
    /\ \/ phase' = "done" /\ outcome' = "refused"
       \/ /\ Count >= 1 /\ psize <= HioMaxSize
          /\ phase' = "setup" /\ UNCHANGED outcome
    /\ UNCHANGED <<entry, ret, psize, sent, tracker, nrtt, numReply, called,
                   elapsed, sem, rxq, reqs, nrep, nstray>>

\* ping.py's main: hostio.open returns None for a path it does not know
\* (sys.exit), and otherwise WCM.connect raises AssertionError
\* ('deprecated'): Ping.ping is never reached.
Main ==
    /\ phase = "main"
    /\ phase' = "done" /\ outcome' \in {"no_device", "deprecated"}
    /\ UNCHANGED <<entry, ret, psize, sent, tracker, nrtt, numReply, called,
                   elapsed, sem, rxq, reqs, nrep, nstray>>

\* setup(): sock.client, then sock.notification; ping() returns 0 when
\* sock.client answers status != 0.
setup ==
    /\ phase = "setup"
    /\ \/ /\ phase' = IF Count > 0 THEN "send" ELSE "drain"
          /\ UNCHANGED outcome
       \/ /\ SetupMayFail
          /\ phase' = "done" /\ outcome' = "setup_failed"
    /\ UNCHANGED <<entry, ret, psize, sent, tracker, nrtt, numReply, called,
                   elapsed, sem, rxq, reqs, nrep, nstray>>

\* One turn of the for loop: build the request, track it, sendto.
Send ==
    /\ phase = "send" /\ sent < Count /\ SendtoLen(psize) <= HioMaxSize
    /\ LET seq == sent % Word IN
         /\ tracker' = tracker \cup {seq}
         /\ reqs' = Append(reqs, LET c == RequestCksum(psize, seq) IN
                        [seq |-> seq, cksum |-> c,
                         valid |-> CksumValid(psize, seq, c)])
    /\ nrep' = Append(nrep, 0)
    /\ sent' = sent + 1 /\ elapsed' = FALSE /\ phase' = "wait"
    /\ UNCHANGED <<entry, ret, psize, nrtt, numReply, called, sem, rxq, nstray,
                   outcome>>

\* The request is tracked, then sock.sendto raises HioMaxSizeError out of
\* HIO.call (call_mutex still held); only KeyboardInterrupt is caught in
\* ping(), so the socket is not closed and no statistics are printed.
SendTooLarge ==
    /\ phase = "send" /\ sent < Count /\ SendtoLen(psize) > HioMaxSize
    /\ tracker' = tracker \cup {sent % Word}
    /\ sent' = sent + 1 /\ phase' = "done" /\ outcome' = "maxsize"
    /\ UNCHANGED <<entry, ret, psize, nrtt, numReply, called, elapsed, sem,
                   rxq, reqs, nrep, nstray>>

\* The interval runs out: acquire(timeout=wait_time) times out, or
\* wait_time is no longer positive.
Tick ==
    /\ phase = "wait" /\ ~elapsed
    /\ elapsed' = TRUE
    /\ UNCHANGED <<entry, phase, ret, psize, sent, tracker, nrtt, numReply,
                   called, sem, rxq, reqs, nrep, nstray, outcome>>

\* ready_sem acquired, blocking while the interval lasts, non-blocking
\* after it: get_reply runs (and sets last_reply).
WaitAcquire ==
    /\ phase = "wait" /\ sem > 0
    /\ sem' = sem - 1 /\ called' = TRUE
    /\ phase' = "recv" /\ ret' = "wait"
    /\ UNCHANGED <<entry, psize, sent, tracker, nrtt, numReply, elapsed, rxq,
                   reqs, nrep, nstray, outcome>>

\* The interval is over and ready_sem is zero: break to the next request,
\* or to the drain loop after the last.
NextRequest ==
    /\ phase = "wait" /\ elapsed /\ sem = 0
    /\ phase' = IF sent < Count THEN "send" ELSE "drain"
    /\ UNCHANGED <<entry, ret, psize, sent, tracker, nrtt, numReply, called,
                   elapsed, sem, rxq, reqs, nrep, nstray, outcome>>

\* get_reply: one sock.recvfrom that returns a packet.  Any echo type
\* counts in num_reply; a tracked seq is deleted and its rtt recorded.
RecvOneKeepsTracker(p) ==
    /\ numReply' = numReply + (IF p.type \in EchoTypes THEN 1 ELSE 0)
    /\ nrtt' = nrtt + (IF p.type \in EchoTypes /\ p.seq \in tracker THEN 1 ELSE 0)
    /\ UNCHANGED tracker
RecvOneAnySeq(p) ==
    /\ numReply' = numReply + (IF p.type \in EchoTypes THEN 1 ELSE 0)
    /\ nrtt' = nrtt + (IF p.type \in EchoTypes THEN 1 ELSE 0)
    /\ tracker' = tracker \ {p.seq}
RecvPacket(p) ==
    /\ numReply' = numReply + (IF p.type \in EchoTypes THEN 1 ELSE 0)
    /\ IF p.type \in EchoTypes /\ p.seq \in tracker
         THEN /\ tracker' = tracker \ {p.seq}
              /\ nrtt' = nrtt + 1
         ELSE UNCHANGED <<tracker, nrtt>>

RecvOne ==
    /\ phase = "recv" /\ rxq # <<>>
    /\ RecvPacket(Head(rxq))
    /\ rxq' = Tail(rxq)
    /\ UNCHANGED <<entry, phase, ret, psize, sent, called, elapsed, sem, reqs,
                   nrep, nstray, outcome>>

\* sock.recvfrom answers status != 0: get_reply returns.
RecvEmpty ==
    /\ phase = "recv" /\ rxq = <<>>
    /\ phase' = ret
    /\ UNCHANGED <<entry, ret, psize, sent, tracker, nrtt, numReply, called,
                   elapsed, sem, rxq, reqs, nrep, nstray, outcome>>

\* The drain loop: while tracker is not empty, acquire(timeout=2).
DrainAcquire ==
    /\ phase = "drain" /\ tracker # {} /\ sem > 0
    /\ sem' = sem - 1 /\ called' = TRUE
    /\ phase' = "recv" /\ ret' = "drain"
    /\ UNCHANGED <<entry, psize, sent, tracker, nrtt, numReply, elapsed, rxq,
                   reqs, nrep, nstray, outcome>>

\* The drain loop ends, every request answered or the 2 s acquire timed
\* out, and ping() closes the socket and prints the statistics.  The
\* mutant leaves only when every request is answered.
DrainEndOnlyWhenEmpty ==
    /\ phase = "drain" /\ tracker = {}
    /\ phase' = "done" /\ outcome' = Finished
    /\ UNCHANGED <<entry, ret, psize, sent, tracker, nrtt, numReply, called,
                   elapsed, sem, rxq, reqs, nrep, nstray>>
DrainEnd ==
    /\ phase = "drain" /\ (tracker = {} \/ sem = 0)
    /\ phase' = "done" /\ outcome' = Finished
    /\ UNCHANGED <<entry, ret, psize, sent, tracker, nrtt, numReply, called,
                   elapsed, sem, rxq, reqs, nrep, nstray>>

PingStep == CliPing \/ Main \/ setup \/ Send \/ SendTooLarge \/ Tick
            \/ WaitAcquire \/ NextRequest \/ RecvOne
            \/ RecvEmpty \/ DrainAcquire \/ DrainEnd

(***************************************************************************)
(* The network and the device.  A packet that reaches the socket is        *)
(* queued and the device's sock.notification releases ready_sem.           *)
(***************************************************************************)
SocketOpen == phase \notin {"cli", "main", "setup", "done"}

Deliver(p) ==
    /\ rxq' = Append(rxq, p)
    /\ sem' = sem + 1

\* The peer answers a request it received intact, possibly more than once.
PeerReply(k) ==
    /\ SocketOpen
    /\ reqs[k].valid /\ nrep[k] < MaxReplies
    /\ Deliver([type |-> ECHO_REPLY, seq |-> reqs[k].seq])
    /\ nrep' = [nrep EXCEPT ![k] = @ + 1]
    /\ UNCHANGED <<entry, phase, ret, psize, sent, tracker, nrtt, numReply,
                   called, elapsed, reqs, nstray, outcome>>

\* An echo packet for another sequence number, or an ICMP error.
Stray(t) ==
    /\ SocketOpen /\ nstray < MaxStray
    /\ Deliver([type |-> t, seq |-> StraySeq])
    /\ nstray' = nstray + 1
    /\ UNCHANGED <<entry, phase, ret, psize, sent, tracker, nrtt, numReply,
                   called, elapsed, reqs, nrep, outcome>>

Next ==
    \/ PingStep
    \/ \E k \in 1..Len(reqs) : PeerReply(k)
    \/ \E t \in {ECHO_REPLY, DEST_UNREACH} : Stray(t)

\* The ping thread always runs, and time passes; the network owes nothing.
Spec == Init /\ [][Next]_vars /\ WF_vars(PingStep)

(***************************************************************************)
(* Properties.                                                             *)
(***************************************************************************)
TypeOK ==
    /\ entry \in Entries
    /\ phase \in {"cli", "main", "setup", "send", "wait", "recv", "drain",
                  "done"}
    /\ ret \in {"wait", "drain"}
    /\ psize \in PSizes
    /\ sent \in 0..Count
    /\ tracker \subseteq 0..Count - 1
    /\ nrtt \in 0..sent
    /\ numReply \in Nat /\ called \in BOOLEAN /\ elapsed \in BOOLEAN
    /\ sem \in Nat
    /\ rxq \in Seq(Packet)
    /\ Len(reqs) = Len(nrep) /\ Len(reqs) \in {sent, sent - 1}
    /\ \A k \in DOMAIN nrep : nrep[k] \in 0..MaxReplies
    /\ nstray \in 0..MaxStray
    /\ outcome \in {"none", "setup_failed", "no_i", "no_last_reply", "stdev",
                    "returned", "refused", "no_device", "deprecated",
                    "maxsize"}

\* Every echo request ICMP.__init__ sends carries the Internet checksum of
\* its header and payload, so a receiver accepts it (ICMP.checksum's fold
\* of the carry).
SentChecksumsValid == \A k \in 1..Len(reqs) : reqs[k].valid

\* The rx of the statistics, also ping()'s return value, counts the
\* requests of this run that were answered (one rtt sample each):
\* get_reply's num_reply must not count duplicates, echoes of a seq no
\* longer tracked, or stray echo packets, or rx exceeds the replies and
\* the printed loss (clamped at 0) undercounts.
RxCountsReplies == numReply = nrtt

\* ping() ends, by returning or raising, even when replies are lost: the
\* drain loop gives up after a timeout and get_reply stops at the first
\* empty sock.recvfrom.
PingEnds == <>(phase = "done")

\* ping() returns its count of replies, rather than raising while it
\* prints the statistics.
PingReturns == <>(outcome \in {"setup_failed", "returned"})

\* talaria_cli's size check (size <= hiomaxsize) admits only payloads whose
\* sock.sendto request fits in a frame, so HIO.writemsg never raises
\* HioMaxSizeError during a ping the CLI let through.
CliSizeCheckSuffices == entry = "cli" => outcome # "maxsize"
=============================================================================
