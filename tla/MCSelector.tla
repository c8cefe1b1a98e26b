------------------------------ MODULE MCSelector ------------------------------
(* Selector for TLC.                                                         *)
EXTENDS Selector

CONSTANTS w1, w2

MCInterests == {{}, {"r", "w"}}

(* A job of w1 that is in the list is told, whatever w2 does                 *)
(* (handle_block_notifications and selector_notify_block).                   *)
OneIsTold == Told(w1)

=============================================================================
