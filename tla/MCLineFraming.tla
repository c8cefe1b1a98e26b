---------------------------- MODULE MCLineFraming ----------------------------
(***************************************************************************)
(* LineFraming with names of two characters and a buffer of five: a line may  *)
(* need several receives, a receive may hold several lines.                  *)
(***************************************************************************)
EXTENDS LineFraming

CONSTANTS x, y, q   \* ordinary characters

MCByte     == {x, y, q, CR, LF, NUL}
MCMessages == {<<x, x, y, CR, LF>>, <<y, y, LF>>, <<q, q, CR, LF>>}
MCQuit     == <<q, q>>

=============================================================================
