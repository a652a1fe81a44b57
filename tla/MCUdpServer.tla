---------------------------- MODULE MCUdpServer ----------------------------
(* UdpServer with two senders. *)
EXTENDS UdpServer

CONSTANTS p1, p2, nobody
=============================================================================
