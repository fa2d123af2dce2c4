----------------------------- MODULE RPCChannel -----------------------------
(***************************************************************************)
(* What HIO.call promises the threads that call it, with the link, the     *)
(* device's sleep state, the read loop and the transaction ids left out:   *)
(* calls run one at a time; the device executes the request of the call   *)
(* in progress; the call then returns the response to that request; and   *)
(* a call that has started returns.                                        *)
(*                                                                         *)
(* HostIO implements this for calls of classes with a rsp field list and  *)
(* no timeouts (see MCHostIO, RPCSpec).                                    *)
(***************************************************************************)
CONSTANTS
  Callers,   \* the threads that call
  Kinds,     \* the message classes they call
  NoReply    \* the call has not returned a response

VARIABLES
  state,     \* caller -> "idle", "called" (request not yet executed) or
             \* "served" (executed, response not yet returned)
  op,        \* caller -> the class of its current or last call
  answer     \* caller -> the class of the response its last call returned

vars == <<state, op, answer>>

Init ==
  /\ state = [c \in Callers |-> "idle"]
  /\ op = [c \in Callers |-> CHOOSE k \in Kinds : TRUE]
  /\ answer = [c \in Callers |-> NoReply]

\* A call starts only when no other call is in progress.
Call(c, k) ==
  /\ \A d \in Callers : state[d] = "idle"
  /\ state' = [state EXCEPT ![c] = "called"]
  /\ op' = [op EXCEPT ![c] = k]
  /\ answer' = [answer EXCEPT ![c] = NoReply]

\* The device executes the request and produces its response.
Serve(c) ==
  /\ state[c] = "called"
  /\ state' = [state EXCEPT ![c] = "served"]
  /\ UNCHANGED <<op, answer>>

\* The call returns the response to its own request.
Return(c) ==
  /\ state[c] = "served"
  /\ state' = [state EXCEPT ![c] = "idle"]
  /\ answer' = [answer EXCEPT ![c] = op[c]]
  /\ UNCHANGED op

Next ==
  \E c \in Callers : \/ \E k \in Kinds : Call(c, k)
                     \/ Serve(c) \/ Return(c)

\* A started call is executed and returns; nobody is obliged to call.
Spec == Init /\ [][Next]_vars
        /\ \A c \in Callers : WF_vars(Serve(c)) /\ WF_vars(Return(c))
=============================================================================
