---------------------------- MODULE MCClientTable ----------------------------
(* ClientTable for TLC: three or four connections.                          *)
EXTENDS ClientTable, TLC

CONSTANTS a, b, c1, m

(* Connections to the same port are interchangeable.                         *)
PortSymmetry == Permutations(Conns \ Managers) \cup Permutations(Managers)

(* A connection waiting at a listener is accepted in the end (main.c's poll   *)
(* and accept); by the symmetry above one connection stands for all.         *)
OneIsAccepted == QueuedIsAccepted(a)

(* What that connection sent is received in the end, whatever events a close *)
(* drops (handle_close_client).                                              *)
OneIsReceived == SentIsReceived(a)

=============================================================================
