-------------------------------- MODULE Buffer --------------------------------
(***************************************************************************)
(* The byte buffer of src/shared/buffer.c: an array, a read and a write      *)
(* pointer (here offsets from data), and a limit.  A caller either moves one *)
(* byte (buffer_write, buffer_read), or asks for a pointer and the room      *)
(* there (buffer_write_ptr, buffer_read_ptr), works on the bytes itself and  *)
(* says how many with buffer_write_adv or buffer_read_adv.                   *)
(*                                                                           *)
(* No caller of the repository reads on after compacting a buffer that still *)
(* held bytes: the one call, in handle_client, drops the buffer next.        *)
(* OnDemand says whether callers do.                                         *)
(***************************************************************************)
EXTENDS Integers, Sequences

CONSTANTS Byte, Zero,    \* characters, and the null one
          N,             \* the size given to buffer_init
          OnDemand       \* whether a buffer with unread bytes is compacted

ASSUME BufferAssumption == N \in Nat /\ N > 0 /\ Zero \in Byte /\ OnDemand \in BOOLEAN

VARIABLES data, read, write,
          got            \* what the last buffer_read returned

limit == N
vars  == <<data, read, write, got>>

TypeOK ==
    /\ data \in [0 .. N - 1 -> Byte]
    /\ read \in 0 .. limit /\ write \in 0 .. limit
    /\ got \in Byte

Init ==
    /\ data \in [0 .. N - 1 -> {Zero}] /\ read = 0 /\ write = 0
    /\ got = Zero

CanWrite == limit - write > 0
CanRead  == write - read > 0

Cleared == [k \in 0 .. N - 1 |-> Zero]

(* Faulty variant: the bytes unread counted from the start of the array.     *)
CompactKeepsWrite(r) == data' = Cleared /\ read' = 0 /\ write' = write

(* buffer_compact, with the read pointer at r: the bytes unread go to the     *)
(* front, and then the memset clears the array from data to limit, with them. *)
CompactFrom(r) == data' = Cleared /\ read' = 0 /\ write' = write - r

(* Faulty variant: the pointers left where they meet.                        *)
ReadAdvanceNever(n) == read' = read + n /\ UNCHANGED <<data, write>>

(* The pointers once n bytes were read: where they meet the buffer compacts  *)
(* itself.                                                                   *)
ReadAdvance(n) ==
    IF read + n = write
    THEN CompactFrom(read + n)
    ELSE read' = read + n /\ UNCHANGED <<data, write>>

buffer_reset == read' = 0 /\ write' = 0 /\ UNCHANGED <<data, got>>

(* A full buffer drops the byte.                                             *)
buffer_write(c) ==
    /\ IF CanWrite
       THEN data' = [data EXCEPT ![write] = c] /\ write' = write + 1
       ELSE UNCHANGED <<data, write>>
    /\ UNCHANGED <<read, got>>

buffer_read ==
    IF CanRead
    THEN got' = data[read] /\ ReadAdvance(1)
    ELSE got' = Zero /\ UNCHANGED <<data, read, write>>

(* The bytes of s are stored from buffer_write_ptr on.                       *)
buffer_write_adv(s) ==
    /\ Len(s) <= limit - write
    /\ data' = [k \in 0 .. N - 1 |-> IF k >= write /\ k < write + Len(s) THEN s[k - write + 1]
                                     ELSE data[k]]
    /\ write' = write + Len(s)
    /\ UNCHANGED <<read, got>>

buffer_read_adv(n) == ReadAdvance(n) /\ UNCHANGED got

buffer_compact == (read = write \/ OnDemand) /\ CompactFrom(read) /\ UNCHANGED got

Next ==
    \/ buffer_reset \/ buffer_read \/ buffer_compact
    \/ \E c \in Byte : buffer_write(c)
    \/ \E k \in 0 .. limit - write : \E s \in [1 .. k -> Byte] : buffer_write_adv(s)
    \/ \E n \in 0 .. write - read : buffer_read_adv(n)

Spec == Init /\ [][Next]_vars

-----------------------------------------------------------------------------
(* The bytes written and not yet read.                                       *)
Unread == [k \in 1 .. write - read |-> data[read + k - 1]]

(* An empty buffer has all its room again: nobody waits to write into a       *)
(* buffer nobody can read.                                                   *)
EmptyHasRoom == ~CanRead => limit - write = N

(* Bytes leave in the order they came, each once (ByteQueue).                *)
Queue == INSTANCE ByteQueue WITH queue <- Unread

QueueSpec == Queue!Spec

(* The drawing of buffer.h:65: compaction keeps the bytes unread.            *)
CompactKeeps == [][buffer_compact => Unread' = Unread]_vars

=============================================================================
