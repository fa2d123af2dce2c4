---------------------------- MODULE MCHioRegistry ----------------------------
(* Model-checking instance of HioRegistry: every schema module imported    *)
(* (hostio.py imports api.hio first), with the indication handlers that    *)
(* hostio.py, wcm.py and talaria_cli.py set.                                *)
EXTENDS HioRegistry

AllModules == <<"hio", "sock", "wcm", "debug", "flash", "bt", "bt_host",
                "traffic_agent">>

ToolHandlers == {<<"hio", "wakeup">>, <<"wcm", "if_notify">>,
                 <<"wcm", "if_scan">>, <<"sock", "notification">>,
                 <<"sock", "connection">>, <<"sock", "close">>}
=============================================================================
