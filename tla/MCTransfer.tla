----------------------------- MODULE MCTransfer -----------------------------
(* Transfer for two clients and two children at a time.                      *)
EXTENDS Transfer

CONSTANTS c1, c2

MCClients == {c1, c2}
MCSizes   == {2}
MCTyped   == [c \in Clients |-> IF c = c1 THEN 2 ELSE 1]

(* A client that waits gets its answer to the end (send_file, send_file_process), *)
(* and one that quits, or is dropped, sees it (handle_close_client): checked  *)
(* for the client that asks twice.                                           *)
OneAnswerComes == AnswerComes(c1)
OneQuitIsSeen  == QuitIsSeen(c1)

=============================================================================
