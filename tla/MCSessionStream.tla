--------------------------- MODULE MCSessionStream ---------------------------
(* SessionStream on one session of either transport, short enough to check   *)
(* and long enough to evict, to overflow the socket, to restart and to lose  *)
(* the connection twice.                                                    *)
EXTENDS SessionStream
=============================================================================
