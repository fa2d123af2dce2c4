------------------------------- MODULE MCPing -------------------------------
(* Model-checking instance of Ping.                                        *)
EXTENDS Ping

\* An empty, an odd-length and the default (32-byte) payload, and one the
\* CLI admits (100 <= hiomaxsize) whose sendto frame is too long.
UsualSizes == {0, 1, 32, 100}
\* A 64-byte payload: the request with seq 457 needs a second carry fold.
FoldSize == {64}
=============================================================================
