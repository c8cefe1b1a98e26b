------------------------------ MODULE MCShared ------------------------------
(* Buffer and ParserEngine for TLC, the two parts of src/shared that others   *)
(* use.  They share nothing: a behaviour works with the buffer, or feeds the  *)
(* parser.  The words are of up to three letters, over a letter, a lower-case *)
(* letter, a digit and a letter that is not ASCII; the bytes are these in      *)
(* either case, NUL, and the last byte.                                      *)
EXTENDS Buffer, ParserEngine

MCInput == {0, 49, 65, 97, 98, 195, 255}
MCWords == UNION {[1 .. n -> {49, 65, 98, 195}] : n \in 0 .. 3}

ParserUnused == word = <<>> /\ fed = <<>> /\ ~aborted
BufferUnused == data = Cleared /\ read = 0 /\ write = 0 /\ got = Zero

SharedNext == \/ Next /\ ParserUnused /\ UNCHANGED parser_vars
              \/ ParserNext /\ BufferUnused /\ UNCHANGED vars

SharedInit == Init /\ parser_init

SharedSpec == SharedInit /\ [][SharedNext]_<<vars, parser_vars>>

=============================================================================
