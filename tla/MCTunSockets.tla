---------------------------- MODULE MCTunSockets ----------------------------
(* An instance of TunSockets: a connection and a datagram endpoint that    *)
(* take turns in the one slot of the socket set, with the smallest buffers *)
(* and rings that can be full.                                             *)
EXTENDS TunSockets
=============================================================================
