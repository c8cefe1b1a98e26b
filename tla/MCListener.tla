------------------------------ MODULE MCListener ------------------------------
(* Listener for TLC: two clients and a manager.                              *)
EXTENDS Listener

CONSTANTS a, b

(* The port there is, a free one, the manager's, none, and two numbers that   *)
(* do not fit sixteen bits: 0 and the free one again.                        *)
MCNumbers == {110, 111, 112, 0, 65536, 65647}

(* The connection a that waits at the listener is accepted, unless a PORT or  *)
(* IPV6 closes the listener or fails (main.c's poll and accept).             *)
OneIsHeard == WaitingIsHeard(a)

=============================================================================
