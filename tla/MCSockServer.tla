---------------------------- MODULE MCSockServer ----------------------------
(* Model-checking instance of SockServer: two socket numbers, so that the  *)
(* listening socket and a connection are open at once and a closed number *)
(* is handed out again; two interface handles, so that a destroyed        *)
(* interface's handle need not come back at once.                          *)
EXTENDS SockServer

TwoFds == {1, 2}
ThreeFds == {1, 2, 3}
TwoIfs == {7, 8}
=============================================================================
