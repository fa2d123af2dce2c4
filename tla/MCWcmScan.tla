----------------------------- MODULE MCWcmScan -----------------------------
(* Model-checking instance of WcmScan: three access points.  ap1 is a    *)
(* WPA2-PSK network with two pairwise ciphers and RSN capabilities 0x0c  *)
(* (16 PTKSA replay counters); ap2 is open with an SSID that is not      *)
(* UTF-8; ap3 is WPA2-Enterprise and WPA3-SAE in RSN with WPA1-PSK, MFP  *)
(* capable (0x80).                                                        *)
EXTENDS WcmScan

CONSTANTS ap1, ap2, ap3

\* _ssid: None, or the SSID of the network add_network was given: ap3's
\* (A), ap1's (AA, which has A as a prefix), or one no access point
\* advertises.
Ssids == {NoSsid, <<65>>, <<65, 65>>, <<66>>}

ApAds ==
  (ap1 :> [ssid |-> <<65, 65>>, chan |-> 6, rsn |-> <<2>>, wpa |-> <<>>, np |-> 2, caps |-> 12])
  @@ (ap2 :> [ssid |-> <<255, 65>>, chan |-> 1, rsn |-> <<>>, wpa |-> <<>>, np |-> 1, caps |-> 0])
  @@ (ap3 :> [ssid |-> <<65>>, chan |-> 11, rsn |-> <<1, 8>>, wpa |-> <<2>>, np |-> 1, caps |-> 128])
=============================================================================
