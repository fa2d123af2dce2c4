----------------------------- MODULE MCFraming ------------------------------
(* Model-checking instance of Framing: frames of the hio group (query,    *)
(* config, sleep and irqack requests; a query response and a wakeup       *)
(* indication), as call_async, target_sleep and irqack pack them, fields  *)
(* left out.                                                               *)
EXTENDS Framing

\* [group, msgid with the direction bits, trxid (2 bytes)]
QueryRsp  == <<0, 128, 0, 0>>
WakeupInd == <<0, 197, 0, 0>>
QueryReq  == <<0, 0, 0, 0>>
ConfigReq == <<0, 1, 1, 0>>
SleepReq  == <<0, 2, 0, 0>>
IrqAckReq == <<0, 3, 0, 0>>

TwoUp == <<QueryRsp, WakeupInd>>

\* open() without sync=, and a device that prints nothing before its frames.
NoSync == <<>>
NoBanner == <<>>
\* sync="ab": a banner "aab" (a = 1, b = 2), where the first "a" is a false
\* start that sync's s = r recovers from.
SyncAB == <<1, 2>>
BannerAAB == <<1, 1, 2>>
\* sync="aab" after the banner "aaab": the string is there, overlapping a
\* false start two bytes long.
SyncAAB == <<1, 1, 2>>
BannerAAAB == <<1, 1, 1, 2>>

\* The caller thread's two calls; target_sleep on the read loop's thread.
CallerFrames == [w \in Writers |-> IF w = "caller" THEN <<QueryReq, ConfigReq>>
                                                  ELSE <<SleepReq>>]
=============================================================================
