------------------------------ MODULE MCHostIO ------------------------------
(* Model-checking instance of HostIO: the caller threads are symmetric.    *)
EXTENDS HostIO, TLC

CallerSymmetry == Permutations(Callers)

(***************************************************************************)
(* Refinement mapping onto RPCChannel.  A call is "served" once the        *)
(* device has answered its request: the response, with the trxid the call *)
(* wrote, is on the link, in the read loop's hands or in rsp_queue.        *)
(***************************************************************************)
AnswersCall(f, c) == f.dir = "rsp" /\ f.trxid = myTrx[c]

AnswerInFlight(c) ==
  \/ \E i \in DOMAIN fromDev : AnswersCall(fromDev[i], c)
  \/ rpc \in {"sleep", "deliver"} /\ AnswersCall(rmsg, c)
  \/ \E i \in DOMAIN rsp_queue : AnswersCall(rsp_queue[i], c)

CallState(c) ==
  CASE pc[c] = "idle"                        -> "idle"
    [] pc[c] = "wait" /\ AnswerInFlight(c)   -> "served"
    [] OTHER                                 -> "called"

RPC == INSTANCE RPCChannel
         WITH state  <- [c \in Callers |-> CallState(c)],
              op     <- kind,
              answer <- [c \in Callers |->
                           IF reply[c] = NoReply THEN NoReply
                                                 ELSE reply[c].kind]

\* HIO.call, with the wake/sleep handshakes, the read loop's FIFO pairing
\* of responses and the backends' transports, implements the channel:
\* calls run one at a time under call_mutex, each is answered by the
\* device and returns its own response, and each returns.
RPCSpec == RPC!Spec
=============================================================================
