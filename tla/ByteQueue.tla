------------------------------ MODULE ByteQueue ------------------------------
(***************************************************************************)
(* What a buffer promises: bytes are taken in the order they were put, each  *)
(* once, until the buffer is reset.                                          *)
(***************************************************************************)
EXTENDS Integers, Sequences

CONSTANT Byte

VARIABLE queue

Init == queue = <<>>

Put == /\ queue' \in Seq(Byte) /\ Len(queue') >= Len(queue)
       /\ SubSeq(queue', 1, Len(queue)) = queue

Take == \E n \in 1 .. Len(queue) : queue' = SubSeq(queue, n + 1, Len(queue))

Reset == queue' = <<>>

Next == Put \/ Take \/ Reset

Spec == Init /\ [][Next]_queue

=============================================================================
