---------------------------- MODULE Shared_proofs ----------------------------
(***************************************************************************)
(* Proofs about the two modules that src/shared gives to whoever needs a     *)
(* protocol: the buffer, of any size, and the parser of any word, both over  *)
(* any bytes.                                                                *)
(***************************************************************************)
EXTENDS Buffer, ParserEngine, TLAPS

-----------------------------------------------------------------------------
(* The buffer.                                                              *)

(* The inductive invariant: R <= W <= limit (buffer.h:24), and pointers that  *)
(* meet meet at the start.                                                   *)
IInv == TypeOK /\ read <= write /\ (read = write => read = 0)

(* Compacting from the read pointer.                                         *)
LEMMA CompactKeepsIInv ==
    ASSUME IInv, NEW r \in 0 .. write, CompactFrom(r), got' \in Byte
    PROVE  IInv'
<1>1. /\ read \in Nat /\ write \in Nat /\ N \in Nat /\ write <= N /\ r \in Nat /\ r <= write
      /\ Zero \in Byte
  BY BufferAssumption DEF IInv, TypeOK, limit
<1>2. data' \in [0 .. N - 1 -> Byte]
  BY <1>1 DEF CompactFrom, Cleared
<1>3. read' = 0 /\ write' = write - r
  BY DEF CompactFrom
<1>4. read' \in 0 .. N /\ write' \in 0 .. N /\ read' <= write'
  BY <1>1, <1>3
<1> QED
  BY <1>2, <1>3, <1>4 DEF IInv, TypeOK, limit

(* Reading on, no further than what was written.                             *)
LEMMA AdvanceKeepsIInv ==
    ASSUME IInv, NEW n \in 0 .. write - read, ReadAdvance(n), got' \in Byte
    PROVE  IInv'
<1>1. /\ read \in Nat /\ write \in Nat /\ N \in Nat /\ write <= N /\ n \in Nat
      /\ read + n <= write /\ read + n \in 0 .. write
  BY BufferAssumption DEF IInv, TypeOK, limit
<1>2. CASE read + n = write
  BY <1>1, <1>2, CompactKeepsIInv DEF ReadAdvance
<1>3. CASE read + n # write
  <2>1. read' = read + n /\ data' = data /\ write' = write
    BY <1>3 DEF ReadAdvance
  <2>2. read' \in 0 .. N /\ read' <= write' /\ read' # write'
    BY <1>1, <1>3, <2>1
  <2> QED
    BY <2>1, <2>2 DEF IInv, TypeOK, limit
<1> QED
  BY <1>2, <1>3

(* Writing, no further than the limit.                                       *)
LEMMA WriteKeepsIInv ==
    ASSUME IInv, NEW k \in 1 .. limit - write, data' \in [0 .. N - 1 -> Byte],
           write' = write + k, read' = read, got' = got
    PROVE  IInv'
<1>1. /\ read \in Nat /\ write \in Nat /\ N \in Nat /\ k \in Nat /\ k >= 1
      /\ write + k <= N /\ read <= write
  BY BufferAssumption DEF IInv, TypeOK, limit
<1>2. read' \in 0 .. N /\ write' \in 0 .. N /\ read' <= write' /\ read' # write'
  BY <1>1
<1> QED
  BY <1>2 DEF IInv, TypeOK, limit

(* Every step keeps the invariant.                                           *)
LEMMA NextIInv == IInv /\ [Next]_vars => IInv'
<1> SUFFICES ASSUME IInv, [Next]_vars PROVE IInv'
  OBVIOUS
<1>1. /\ read \in Nat /\ write \in Nat /\ N \in Nat /\ write <= N /\ read <= write
      /\ data \in [0 .. N - 1 -> Byte] /\ got \in Byte /\ Zero \in Byte
  BY BufferAssumption DEF IInv, TypeOK, limit
<1>2. CASE UNCHANGED vars
  BY <1>2 DEF vars, IInv, TypeOK, limit
<1>3. CASE buffer_reset
  BY <1>1, <1>3 DEF buffer_reset, IInv, TypeOK, limit
<1>4. CASE buffer_read
  <2>1. CASE CanRead
    <3>1. 1 \in 0 .. write - read /\ read \in 0 .. N - 1
      BY <1>1, <2>1 DEF CanRead
    <3>2. ReadAdvance(1) /\ got' = data[read]
      BY <1>4, <2>1 DEF buffer_read
    <3>3. got' \in Byte
      BY <1>1, <3>1, <3>2
    <3> QED
      BY <3>1, <3>2, <3>3, AdvanceKeepsIInv
  <2>2. CASE ~CanRead
    BY <1>1, <1>4, <2>2 DEF buffer_read, IInv, TypeOK, limit
  <2> QED
    BY <2>1, <2>2
<1>5. CASE buffer_compact
  <2>1. read \in 0 .. write
    BY <1>1
  <2> QED
    BY <1>1, <1>5, <2>1, CompactKeepsIInv DEF buffer_compact
<1>6. ASSUME NEW c \in Byte, buffer_write(c) PROVE IInv'
  <2>1. CASE CanWrite
    <3>1. 1 \in 1 .. limit - write /\ write \in 0 .. N - 1
      BY <1>1, <2>1 DEF CanWrite, limit
    <3>2. /\ data' = [data EXCEPT ![write] = c] /\ write' = write + 1
          /\ read' = read /\ got' = got
      BY <1>6, <2>1 DEF buffer_write
    <3>3. data' \in [0 .. N - 1 -> Byte]
      BY <1>1, <3>2
    <3> QED
      BY <3>1, <3>2, <3>3, WriteKeepsIInv
  <2>2. CASE ~CanWrite
    BY <1>6, <2>2 DEF buffer_write, IInv, TypeOK, limit
  <2> QED
    BY <2>1, <2>2
<1>7. ASSUME NEW k \in 0 .. limit - write, NEW s \in [1 .. k -> Byte], buffer_write_adv(s)
      PROVE  IInv'
  <2>1. k \in Nat /\ Len(s) = k /\ k <= N - write
    BY <1>1 DEF limit
  <2>2. /\ write' = write + k /\ read' = read /\ got' = got
        /\ data' = [i \in 0 .. N - 1 |-> IF i >= write /\ i < write + k THEN s[i - write + 1]
                                         ELSE data[i]]
    BY <1>7, <2>1 DEF buffer_write_adv
  <2>3. ASSUME NEW i \in 0 .. N - 1, i >= write, i < write + k PROVE s[i - write + 1] \in Byte
    <3>1. i - write + 1 \in 1 .. k
      BY <1>1, <2>1, <2>3
    <3> QED
      BY <3>1
  <2>4. data' \in [0 .. N - 1 -> Byte]
    BY <1>1, <2>2, <2>3
  <2>5. CASE k = 0
    <3>1. write' = write
      BY <1>1, <2>2, <2>5
    <3> QED
      BY <2>2, <2>4, <3>1 DEF IInv, TypeOK, limit
  <2>6. CASE k # 0
    <3>1. k \in 1 .. limit - write
      BY <1>1, <2>1, <2>6 DEF limit
    <3> QED
      BY <2>2, <2>4, <3>1, WriteKeepsIInv
  <2> QED
    BY <2>5, <2>6
<1>8. ASSUME NEW n \in 0 .. write - read, buffer_read_adv(n) PROVE IInv'
  BY <1>1, <1>8, AdvanceKeepsIInv DEF buffer_read_adv
<1> QED
  BY <1>2, <1>3, <1>4, <1>5, <1>6, <1>7, <1>8 DEF Next

(* The invariant, for every behaviour.                                       *)
THEOREM Invariance == Spec => []IInv
<1>1. Init => IInv
  BY BufferAssumption DEF Init, IInv, TypeOK, limit
<1>2. IInv /\ [Next]_vars => IInv'
  BY NextIInv
<1> QED
  BY <1>1, <1>2, PTL DEF Spec

(* Type correctness: both pointers stay in the array.                        *)
THEOREM TypeCorrect == Spec => []TypeOK
<1>1. IInv => TypeOK
  BY DEF IInv
<1> QED
  BY <1>1, Invariance, PTL

(* An empty buffer takes as many bytes as a new one, whatever went through.   *)
THEOREM EmptyBufferHasRoom == Spec => []EmptyHasRoom
<1>1. IInv => EmptyHasRoom
  <2> SUFFICES ASSUME IInv, ~CanRead PROVE limit - write = N
    BY DEF EmptyHasRoom
  <2>1. read \in Nat /\ write \in Nat /\ read <= write /\ N \in Nat
    BY BufferAssumption DEF IInv, TypeOK, limit
  <2>2. write = 0
    BY <2>1 DEF CanRead, IInv
  <2> QED
    BY <2>1, <2>2 DEF limit
<1> QED
  BY <1>1, Invariance, PTL

-----------------------------------------------------------------------------
(* The buffer implements the queue.                                         *)

(* Two sequences are the same if their elements are.                         *)
LEMMA SameElements ==
    ASSUME NEW S, NEW s \in Seq(S), NEW t \in Seq(S), Len(s) = Len(t),
           \A k \in 1 .. Len(s) : s[k] = t[k]
    PROVE  s = t
OBVIOUS

(* The bytes unread, one by one.                                             *)
LEMMA UnreadBytes ==
    ASSUME IInv
    PROVE  /\ Unread \in Seq(Byte) /\ Len(Unread) = write - read
           /\ \A k \in 1 .. write - read : Unread[k] = data[read + k - 1]
<1>1. /\ read \in Nat /\ write \in Nat /\ N \in Nat /\ write <= N /\ read <= write
      /\ data \in [0 .. N - 1 -> Byte]
  BY BufferAssumption DEF IInv, TypeOK, limit
<1>2. write - read \in Nat
  BY <1>1
<1>3. ASSUME NEW k \in 1 .. write - read PROVE data[read + k - 1] \in Byte
  <2>1. read + k - 1 \in 0 .. N - 1
    BY <1>1
  <2> QED
    BY <1>1, <2>1
<1> QED
  BY <1>2, <1>3 DEF Unread

(* Where the pointers meet there are none.                                   *)
LEMMA UnreadNone ==
    ASSUME IInv', write' = read'
    PROVE  Unread' = <<>>
<1>1. read' \in Nat /\ write' \in Nat
  BY BufferAssumption DEF IInv, TypeOK, limit
<1>2. write' - read' = 0
  <2> DEFINE x == read'
             y == write'
  <2>1. x \in Nat /\ y \in Nat /\ y = x
    BY <1>1
  <2> HIDE DEF x, y
  <2>2. y - x = 0
    BY <2>1
  <2> QED
    BY <2>2 DEF x, y
<1> QED
  BY <1>2 DEF Unread

(* Writing puts bytes behind those unread.                                   *)
LEMMA WritePuts ==
    ASSUME IInv, IInv', read' = read, write' >= write,
           \A i \in 0 .. N - 1 : i < write => data'[i] = data[i]
    PROVE  Queue!Put
<1> DEFINE q == Unread
           r == Unread'
<1>1. /\ read \in Nat /\ write \in Nat /\ N \in Nat /\ write <= N /\ read <= write
      /\ write' \in Nat
  BY BufferAssumption DEF IInv, TypeOK, limit
<1>2. /\ q \in Seq(Byte) /\ Len(q) = write - read
      /\ \A k \in 1 .. write - read : q[k] = data[read + k - 1]
  BY UnreadBytes
<1>3. /\ r \in Seq(Byte) /\ Len(r) = write' - read
      /\ \A k \in 1 .. write' - read : r[k] = data'[read + k - 1]
  <2>1. (IInv => /\ Unread \in Seq(Byte) /\ Len(Unread) = write - read
                 /\ \A k \in 1 .. write - read : Unread[k] = data[read + k - 1])'
    BY UnreadBytes, PTL
  <2> QED
    BY <2>1
<1> HIDE DEF q, r
<1>4. Len(r) >= Len(q) /\ Len(q) \in Nat
  BY <1>1, <1>2, <1>3
<1>5. ASSUME NEW k \in 1 .. Len(q) PROVE r[k] = q[k]
  <2>1. k \in 1 .. write - read
    BY <1>2
  <2>2. k \in Nat /\ k >= 1 /\ k <= write - read
    BY <1>1, <2>1
  <2>3. k \in 1 .. write' - read
    <3> DEFINE y == write'
    <3>1. y \in Nat /\ y >= write
      BY <1>1
    <3> HIDE DEF y
    <3>2. k \in 1 .. y - read
      BY <1>1, <2>2, <3>1
    <3> QED
      BY <3>2 DEF y
  <2>4. read + k - 1 \in 0 .. N - 1 /\ read + k - 1 < write
    BY <1>1, <2>2
  <2>5. data'[read + k - 1] = data[read + k - 1]
    BY <2>4
  <2> QED
    BY <2>5, <2>1, <2>3, <1>2, <1>3
<1>6. /\ SubSeq(r, 1, Len(q)) \in Seq(Byte) /\ Len(SubSeq(r, 1, Len(q))) = Len(q)
      /\ \A k \in 1 .. Len(q) : SubSeq(r, 1, Len(q))[k] = r[k]
  BY <1>3, <1>4
<1>7. SubSeq(r, 1, Len(q)) = q
  BY <1>2, <1>5, <1>6, SameElements
<1> QED
  BY <1>3, <1>4, <1>7 DEF q, r, Queue!Put

(* Reading takes the first n of them; when the pointers meet, all there are.  *)
LEMMA ReadTakes ==
    ASSUME IInv, IInv', NEW n \in 0 .. write - read, ReadAdvance(n)
    PROVE  Queue!Next \/ UNCHANGED Unread
<1>1. /\ read \in Nat /\ write \in Nat /\ N \in Nat /\ write <= N /\ read <= write
      /\ n \in Nat
  BY BufferAssumption DEF IInv, TypeOK, limit
<1>2. CASE read + n = write
  <2>1. CompactFrom(write)
    BY <1>2 DEF ReadAdvance
  <2>2. write' = read'
    BY <1>1, <2>1 DEF CompactFrom
  <2> QED
    BY <2>2, UnreadNone DEF Queue!Next, Queue!Reset
<1>3. CASE read + n # write /\ n = 0
  BY <1>1, <1>3 DEF ReadAdvance, Unread
<1>4. CASE read + n # write /\ n # 0
  <2> DEFINE q == Unread
             r == Unread'
             t == SubSeq(q, n + 1, Len(q))
  <2>1. read' = read + n /\ write' = write /\ data' = data
    BY <1>4 DEF ReadAdvance
  <2>2. /\ q \in Seq(Byte) /\ Len(q) = write - read
        /\ \A k \in 1 .. write - read : q[k] = data[read + k - 1]
    BY UnreadBytes
  <2>3. /\ r \in Seq(Byte) /\ Len(r) = write - (read + n)
        /\ \A k \in 1 .. write - (read + n) : r[k] = data[(read + n) + k - 1]
    <3>1. (IInv => /\ Unread \in Seq(Byte) /\ Len(Unread) = write - read
                   /\ \A k \in 1 .. write - read : Unread[k] = data[read + k - 1])'
      BY UnreadBytes, PTL
    <3> QED
      BY <3>1, <2>1
  <2> HIDE DEF q, r
  <2>4. n \in 1 .. Len(q)
    BY <1>1, <1>4, <2>2
  <2>5. /\ t \in Seq(Byte) /\ Len(t) = Len(q) - n
        /\ \A k \in 1 .. Len(q) - n : t[k] = q[n + k]
    BY <2>2, <2>4
  <2> HIDE DEF t
  <2>6. Len(t) = Len(r)
    BY <1>1, <2>2, <2>3, <2>5
  <2>7. ASSUME NEW k \in 1 .. Len(r) PROVE r[k] = t[k]
    <3>1. /\ k \in 1 .. write - (read + n) /\ k \in 1 .. Len(q) - n
          /\ n + k \in 1 .. write - read /\ (read + n) + k - 1 = read + (n + k) - 1
      BY <1>1, <2>2, <2>3
    <3> QED
      BY <3>1, <2>2, <2>3, <2>5
  <2>8. r = t
    BY <2>3, <2>5, <2>6, <2>7, SameElements
  <2> QED
    BY <2>4, <2>8 DEF q, r, t, Queue!Next, Queue!Take
<1> QED
  BY <1>2, <1>3, <1>4

(* Every step puts, takes, or empties the queue, or leaves it, if no buffer    *)
(* that holds bytes is compacted by its caller.                              *)
LEMMA NextQueue ==
    ASSUME ~OnDemand
    PROVE  IInv /\ IInv' /\ [Next]_vars => [Queue!Next]_Unread
<1> SUFFICES ASSUME IInv, IInv', [Next]_vars PROVE Queue!Next \/ UNCHANGED Unread
  OBVIOUS
<1>1. /\ read \in Nat /\ write \in Nat /\ N \in Nat /\ write <= N /\ read <= write
      /\ data \in [0 .. N - 1 -> Byte]
  BY BufferAssumption DEF IInv, TypeOK, limit
<1>2. CASE UNCHANGED vars
  BY <1>2 DEF vars, Unread
<1>3. CASE buffer_reset
  BY <1>3, UnreadNone DEF buffer_reset, Queue!Next, Queue!Reset
<1>4. CASE buffer_read
  <2>1. CASE CanRead
    <3>1. 1 \in 0 .. write - read
      BY <1>1, <2>1 DEF CanRead
    <3> QED
      BY <1>4, <2>1, <3>1, ReadTakes DEF buffer_read
  <2>2. CASE ~CanRead
    BY <1>4, <2>2 DEF buffer_read, Unread
  <2> QED
    BY <2>1, <2>2
<1>5. CASE buffer_compact
  <2>1. read = write /\ write' = write - read /\ read' = 0
    BY <1>5 DEF buffer_compact, CompactFrom
  <2>2. write' = read'
    BY <1>1, <2>1
  <2> QED
    BY <2>2, UnreadNone DEF Queue!Next, Queue!Reset
<1>6. ASSUME NEW c \in Byte, buffer_write(c) PROVE Queue!Next \/ UNCHANGED Unread
  <2>1. CASE CanWrite
    <3>1. data' = [data EXCEPT ![write] = c] /\ write' = write + 1 /\ read' = read
      BY <1>6, <2>1 DEF buffer_write
    <3>2. \A i \in 0 .. N - 1 : i < write => data'[i] = data[i]
      BY <1>1, <3>1
    <3>3. write' >= write
      BY <1>1, <3>1
    <3> QED
      BY <3>1, <3>2, <3>3, WritePuts DEF Queue!Next
  <2>2. CASE ~CanWrite
    BY <1>6, <2>2 DEF buffer_write, Unread
  <2> QED
    BY <2>1, <2>2
<1>7. ASSUME NEW k \in 0 .. limit - write, NEW s \in [1 .. k -> Byte], buffer_write_adv(s)
      PROVE  Queue!Next \/ UNCHANGED Unread
  <2>1. k \in Nat /\ Len(s) = k
    BY <1>1 DEF limit
  <2>2. /\ write' = write + k /\ read' = read
        /\ data' = [i \in 0 .. N - 1 |-> IF i >= write /\ i < write + k THEN s[i - write + 1]
                                         ELSE data[i]]
    BY <1>7, <2>1 DEF buffer_write_adv
  <2>3. \A i \in 0 .. N - 1 : i < write => data'[i] = data[i]
    BY <1>1, <2>2
  <2>4. write' >= write
    BY <1>1, <2>1, <2>2
  <2> QED
    BY <2>2, <2>3, <2>4, WritePuts DEF Queue!Next
<1>8. ASSUME NEW n \in 0 .. write - read, buffer_read_adv(n)
      PROVE  Queue!Next \/ UNCHANGED Unread
  BY <1>8, ReadTakes DEF buffer_read_adv
<1> QED
  BY <1>2, <1>3, <1>4, <1>5, <1>6, <1>7, <1>8 DEF Next

(* Bytes leave a buffer in the order they came, each once, as long as no       *)
(* caller compacts one that still holds bytes: no caller of the repository    *)
(* reads on after that (buffer.c's memset clears what it has just moved).    *)
THEOREM ImplementsQueue ==
    ASSUME ~OnDemand
    PROVE  Spec => QueueSpec
<1>1. Init => Queue!Init
  <2> SUFFICES ASSUME Init PROVE Unread = <<>>
    BY DEF Queue!Init
  <2>1. write - read = 0
    BY DEF Init
  <2> QED
    BY <2>1 DEF Unread
<1>2. IInv /\ IInv' /\ [Next]_vars => [Queue!Next]_Unread
  BY NextQueue
<1>3. Spec => []IInv
  BY Invariance
<1> QED
  BY <1>1, <1>2, <1>3, PTL DEF Spec, QueueSpec, Queue!Spec

-----------------------------------------------------------------------------
(* The parser.                                                              *)

(* The inductive invariant: the state counts the letters that agreed, or is  *)
(* the sink.                                                                 *)
StateOK == state = IF Agrees(fed, word) THEN Len(fed) ELSE StNeq(word)

ParserIInv == ParserTypeOK /\ StateOK /\ Verdict

(* A byte matches one of the two transitions of a letter exactly if it is    *)
(* that letter in either case.                                               *)
LEMMA LetterMatches ==
    ASSUME NEW s \in 1 .. 255, NEW c \in 0 .. 254
    PROVE  SameLetter(s, c) <=>
               c = tolower(Char(s)) \/ c = toupper(Char(s))
<1>1. CASE s > 127
  <2>1. Char(s) \in -128 .. -1
    BY <1>1 DEF Char
  <2>2. tolower(Char(s)) < 0 /\ toupper(Char(s)) < 0
    BY <2>1 DEF tolower, toupper
  <2> QED
    BY <1>1, <2>2 DEF SameLetter
<1>2. CASE s <= 127
  <2>1. Char(s) = s
    BY <1>2 DEF Char
  <2>2. SameLetter(s, c) <=> tolower(s) = tolower(c)
    BY <1>2 DEF SameLetter
  <2>3. CASE s \in 65 .. 90
    BY <2>1, <2>2, <2>3 DEF tolower, toupper
  <2>4. CASE s \in 97 .. 122
    BY <2>1, <2>2, <2>4 DEF tolower, toupper
  <2>5. CASE s \notin 65 .. 90 /\ s \notin 97 .. 122
    BY <2>1, <2>2, <2>5 DEF tolower, toupper
  <2> QED
    BY <2>3, <2>4, <2>5
<1> QED
  BY <1>1, <1>2

(* Both cases of a letter are bytes or negative, never ANY or a class.       *)
LEMMA CasesAreBytes ==
    ASSUME NEW s \in 1 .. 255
    PROVE  /\ tolower(Char(s)) \in Int /\ tolower(Char(s)) <= 255
           /\ toupper(Char(s)) \in Int /\ toupper(Char(s)) <= 255
<1>1. Char(s) \in -128 .. 127
  BY DEF Char
<1> QED
  BY <1>1 DEF tolower, toupper

(* The value of ANY (parser.h:45).                                           *)
LEMMA AnyIs512 == ANY = 512
  BY DEF ANY

(* In the states EQ and NEQ every byte takes the one transition.             *)
LEMMA TakenAtEnd ==
    ASSUME NEW s, NEW c \in 0 .. 254
    PROVE  Taken(<<Otherwise(s)>>, c) = {1}
<1> DEFINE row == <<Otherwise(s)>>
<1>1. DOMAIN row = {1} /\ row[1] = Otherwise(s)
  OBVIOUS
<1>2. Matches(row[1], c)
  BY <1>1 DEF Matches, Otherwise
<1>3. \A j \in 1 .. 1 - 1 : ~Matches(row[j], c)
  OBVIOUS
<1> HIDE DEF row
<1>4. Taken(row, c) = {1}
  BY <1>1, <1>2, <1>3 DEF Taken
<1> QED
  BY <1>4 DEF row

(* The transitions of the state of letter l.                                  *)
LetterRow(s, l, d, e) ==
    <<[when |-> tolower(Char(l)), dest |-> d, acts |-> e],
      [when |-> toupper(Char(l)), dest |-> d, acts |-> e],
      Otherwise(s)>>

(* In the state of a letter the byte takes one of the first two transitions  *)
(* if it is that letter, and the third if not.                               *)
LEMMA TakenAtLetter ==
    ASSUME NEW s, NEW l \in 1 .. 255, NEW c \in 0 .. 254, NEW d, NEW e
    PROVE  /\ Taken(LetterRow(s, l, d, e), c) # {}
           /\ SameLetter(l, c) => Taken(LetterRow(s, l, d, e), c) \subseteq {1, 2}
           /\ ~SameLetter(l, c) => Taken(LetterRow(s, l, d, e), c) = {3}
<1> DEFINE lo == tolower(Char(l))
           up == toupper(Char(l))
           row == <<[when |-> lo, dest |-> d, acts |-> e],
                    [when |-> up, dest |-> d, acts |-> e],
                    Otherwise(s)>>
<1>0. LetterRow(s, l, d, e) = row
  BY DEF LetterRow
<1>1. DOMAIN row = {1, 2, 3}
  OBVIOUS
<1>2. /\ row[1] = [when |-> lo, dest |-> d, acts |-> e]
      /\ row[2] = [when |-> up, dest |-> d, acts |-> e]
      /\ row[3] = Otherwise(s)
  OBVIOUS
<1>3. row[1].when = lo /\ row[2].when = up /\ row[3].when = ANY
  BY <1>2 DEF Otherwise
<1>4. lo \in Int /\ lo <= 255 /\ up \in Int /\ up <= 255
  BY CasesAreBytes
<1>5. SameLetter(l, c) <=> c = lo \/ c = up
  BY LetterMatches
<1> HIDE DEF lo, up, row
<1>6. /\ Matches(row[1], c) <=> c = lo
      /\ Matches(row[2], c) <=> c = up
      /\ Matches(row[3], c)
  <2>1. ~(lo > 255) /\ ~(up > 255) /\ lo # ANY /\ up # ANY
    BY <1>4, AnyIs512
  <2> QED
    BY <1>3, <1>4, <2>1 DEF Matches
<1>7. \A k \in 1 .. 3 : k \in Taken(row, c) <=>
          Matches(row[k], c) /\ \A j \in 1 .. k - 1 : ~Matches(row[j], c)
  BY <1>1 DEF Taken
<1>8. Taken(row, c) \subseteq {1, 2, 3}
  BY <1>1 DEF Taken
<1>9. 1 \in Taken(row, c) <=> Matches(row[1], c)
  BY <1>7
<1>10. 2 \in Taken(row, c) <=> Matches(row[2], c) /\ ~Matches(row[1], c)
  BY <1>7
<1>11. 3 \in Taken(row, c) <=>
           Matches(row[3], c) /\ ~Matches(row[1], c) /\ ~Matches(row[2], c)
  BY <1>7
<1> QED
  BY <1>0, <1>5, <1>6, <1>8, <1>9, <1>10, <1>11

(* One byte more agrees if the bytes before did and it is the next letter.   *)
LEMMA AgreesAppend ==
    ASSUME NEW w \in Seq(0 .. 254), NEW s \in Seq(1 .. 255), NEW c \in 0 .. 254
    PROVE  Agrees(Append(w, c), s) <=>
               Agrees(w, s) /\ Len(w) < Len(s) /\ SameLetter(s[Len(w) + 1], c)
<1> DEFINE x == Append(w, c)
<1>1. Len(x) = Len(w) + 1 /\ Len(w) \in Nat /\ Len(s) \in Nat
  OBVIOUS
<1>2. \A k \in 1 .. Len(w) : x[k] = w[k]
  OBVIOUS
<1>3. x[Len(w) + 1] = c
  OBVIOUS
<1> HIDE DEF x
<1>4. ASSUME Agrees(x, s)
      PROVE  Agrees(w, s) /\ Len(w) < Len(s) /\ SameLetter(s[Len(w) + 1], c)
  <2>1. Len(w) + 1 <= Len(s) /\ \A k \in 1 .. Len(w) + 1 : SameLetter(s[k], x[k])
    BY <1>4, <1>1 DEF Agrees
  <2>2. \A k \in 1 .. Len(w) : SameLetter(s[k], w[k])
    BY <2>1, <1>1, <1>2
  <2>3. SameLetter(s[Len(w) + 1], c)
    BY <2>1, <1>1, <1>3
  <2> QED
    BY <1>1, <2>1, <2>2, <2>3 DEF Agrees
<1>5. ASSUME Agrees(w, s), Len(w) < Len(s), SameLetter(s[Len(w) + 1], c)
      PROVE  Agrees(x, s)
  <2>1. \A k \in 1 .. Len(w) : SameLetter(s[k], x[k])
    BY <1>5, <1>2 DEF Agrees
  <2>2. \A k \in 1 .. Len(w) + 1 : k \in 1 .. Len(w) \/ k = Len(w) + 1
    BY <1>1
  <2>3. \A k \in 1 .. Len(w) + 1 : SameLetter(s[k], x[k])
    BY <2>1, <2>2, <1>3, <1>5
  <2> QED
    BY <1>1, <1>5, <2>3 DEF Agrees
<1> QED
  BY <1>4, <1>5 DEF x

(* What a sequence holds.                                                    *)
LEMMA LettersOf ==
    ASSUME NEW S, NEW s \in Seq(S)
    PROVE  \A k \in 1 .. Len(s) : s[k] \in S
  OBVIOUS

(* A row of the table, by its state.                                         *)
LEMMA RowOf ==
    ASSUME NEW s \in Seq(1 .. 255), NEW k \in 0 .. StNeq(s)
    PROVE  /\ k >= Len(s) => States(s)[k] = <<Otherwise(s)>>
           /\ k < Len(s) => LET a == IF k + 1 = Len(s) THEN <<"EQ">> ELSE <<"MAYEQ">>
                            IN States(s)[k] = LetterRow(s, s[k + 1], k + 1, a)
<1>1. CASE k >= Len(s)
  BY <1>1 DEF States
<1>2. CASE ~(k >= Len(s))
  BY <1>2 DEF States, LetterRow
<1> QED
  BY <1>1, <1>2

(* The step of a byte within the classes.                                    *)
LEMMA FeedStep ==
    ASSUME ParserIInv, NEW c \in Input, parser_feed(c)
    PROVE  ParserIInv'
<1> DEFINE row == States(word)[state]
           hit == Taken(row, c)
           Event(a) == [type |-> a, data |-> c]
<1>1. /\ c \in 0 .. 254 /\ word \in Words /\ word \in Seq(1 .. 255) /\ fed \in Seq(0 .. 254)
      /\ state \in 0 .. StNeq(word) /\ Len(word) \in Nat /\ Len(fed) \in Nat
  BY ParserAssumption DEF ParserIInv, ParserTypeOK, parser_feed, classes
<1>2. fed' = Append(fed, c) /\ word' = word /\ aborted' = aborted
  BY DEF parser_feed
<1>3. fed' \in Seq(0 .. 254) /\ fed' # <<>> /\ Len(fed') = Len(fed) + 1 /\ fed'[Len(fed')] = c
  BY <1>1, <1>2
<1>4. Agrees(fed', word) <=>
          /\ Agrees(fed, word) /\ Len(fed) < Len(word)
          /\ SameLetter(word[Len(fed) + 1], c)
  BY <1>1, <1>2, AgreesAppend
<1>5. hit # {} => \E k \in hit :
          /\ events' = [a \in DOMAIN row[k].acts |-> [type |-> row[k].acts[a], data |-> c]]
          /\ state' = row[k].dest
  BY DEF parser_feed
<1>6. Agrees(fed', word) <=> state < Len(word) /\ SameLetter(word[state + 1], c)
  <2>1. CASE Agrees(fed, word)
    BY <2>1, <1>1, <1>4 DEF ParserIInv, StateOK
  <2>2. CASE ~Agrees(fed, word)
    BY <2>2, <1>1, <1>4 DEF ParserIInv, StateOK, StNeq
  <2> QED
    BY <2>1, <2>2
<1>7. Agrees(fed', word) => state = Len(fed)
  BY <1>4 DEF ParserIInv, StateOK
<1>8. /\ state' = IF Agrees(fed', word) THEN state + 1 ELSE StNeq(word)
      /\ events' = <<Event(IF ~Agrees(fed', word) THEN "NEQ"
                          ELSE IF state + 1 = Len(word) THEN "EQ" ELSE "MAYEQ")>>
  <2>1. CASE state >= Len(word)
    <3>1. row = <<Otherwise(word)>>
      BY <2>1, <1>1, RowOf
    <3>2. hit = {1}
      <4>1. c \in 0 .. 254
        BY <1>1
      <4>2. Taken(<<Otherwise(word)>>, c) = {1}
        BY <4>1, TakenAtEnd, Zenon
      <4> QED
        BY <3>1, <4>2
    <3>3. row[1] = Otherwise(word)
      BY <3>1
    <3>4. row[1].acts = <<"NEQ">> /\ row[1].dest = StNeq(word)
      BY <3>3 DEF Otherwise
    <3> HIDE DEF row, hit
    <3>5. /\ events' = [a \in DOMAIN row[1].acts |-> [type |-> row[1].acts[a], data |-> c]]
          /\ state' = row[1].dest
      BY <3>2, <1>5
    <3>6. events' = <<Event("NEQ")>>
      BY <3>4, <3>5
    <3>7. ~Agrees(fed', word)
      BY <2>1, <1>1, <1>6
    <3> QED
      BY <3>4, <3>5, <3>6, <3>7
  <2>2. CASE state < Len(word)
    <3> DEFINE l == word[state + 1]
               act == IF state + 1 = Len(word) THEN <<"EQ">> ELSE <<"MAYEQ">>
    <3>0. state + 1 \in 1 .. Len(word)
      BY <2>2, <1>1 DEF StNeq
    <3>1. l \in 1 .. 255
      <4>1. \A k \in 1 .. Len(word) : word[k] \in 1 .. 255
        BY <1>1, LettersOf
      <4> QED
        BY <3>0, <4>1
    <3>2. row = LetterRow(word, l, state + 1, act)
      BY <2>2, <1>1, RowOf
    <3>3. /\ row[1].dest = state + 1 /\ row[1].acts = act
          /\ row[2].dest = state + 1 /\ row[2].acts = act
      BY <3>2 DEF LetterRow
    <3>4. row[3] = Otherwise(word)
      BY <3>2 DEF LetterRow
    <3>5. row[3].acts = <<"NEQ">> /\ row[3].dest = StNeq(word)
      BY <3>4 DEF Otherwise
    <3> HIDE DEF act, l, row, hit
    <3>6. /\ hit # {}
          /\ SameLetter(l, c) => hit \subseteq {1, 2}
          /\ ~SameLetter(l, c) => hit = {3}
      <4>1. c \in 0 .. 254
        BY <1>1
      <4>2. /\ Taken(LetterRow(word, l, state + 1, act), c) # {}
            /\ SameLetter(l, c) => Taken(LetterRow(word, l, state + 1, act), c) \subseteq {1, 2}
            /\ ~SameLetter(l, c) => Taken(LetterRow(word, l, state + 1, act), c) = {3}
        BY <3>1, <4>1, TakenAtLetter, Zenon
      <4> QED
        BY <3>2, <4>2 DEF hit
    <3>7. act = <<IF state + 1 = Len(word) THEN "EQ" ELSE "MAYEQ">>
      BY DEF act
    <3>8. Agrees(fed', word) <=> SameLetter(l, c)
      BY <2>2, <1>6 DEF l
    <3>9. PICK k \in hit :
             /\ events' = [a \in DOMAIN row[k].acts |-> [type |-> row[k].acts[a], data |-> c]]
             /\ state' = row[k].dest
      BY <3>6, <1>5
    <3>10. CASE SameLetter(l, c)
      <4>1. row[k].acts = act /\ row[k].dest = state + 1
        BY <3>3, <3>6, <3>9, <3>10
      <4>2. events' = <<Event(IF state + 1 = Len(word) THEN "EQ" ELSE "MAYEQ")>>
        BY <4>1, <3>7, <3>9
      <4> QED
        BY <4>1, <4>2, <3>8, <3>9, <3>10
    <3>11. CASE ~SameLetter(l, c)
      <4>1. row[k].acts = <<"NEQ">> /\ row[k].dest = StNeq(word)
        BY <3>5, <3>6, <3>9, <3>11
      <4>2. events' = <<Event("NEQ")>>
        BY <4>1, <3>9
      <4> QED
        BY <4>1, <4>2, <3>8, <3>9, <3>11
    <3> QED
      BY <3>10, <3>11
  <2> QED
    BY <2>1, <2>2, <1>1
<1> HIDE DEF row, hit
<1>9. StateOK'
  <2>1. Agrees(fed', word) => state + 1 = Len(fed')
    BY <1>3, <1>7
  <2> QED
    BY <1>2, <1>8, <2>1 DEF StateOK
<1>10. Verdict'
  <2>1. Expected(fed', word) = IF ~Agrees(fed', word) THEN "NEQ"
                               ELSE IF state + 1 = Len(word) THEN "EQ" ELSE "MAYEQ"
    BY <1>3, <1>7 DEF Expected
  <2> QED
    BY <1>2, <1>3, <1>8, <2>1 DEF Verdict
<1>11. ParserTypeOK'
  <2>1. state' \in 0 .. StNeq(word)
    BY <1>1, <1>6, <1>8 DEF StNeq
  <2>2. Event("EQ") \in [type : {"MAYEQ", "EQ", "NEQ"}, data : 0 .. 255]
        /\ Event("NEQ") \in [type : {"MAYEQ", "EQ", "NEQ"}, data : 0 .. 255]
        /\ Event("MAYEQ") \in [type : {"MAYEQ", "EQ", "NEQ"}, data : 0 .. 255]
    BY <1>1
  <2>3. events' \in Seq([type : {"MAYEQ", "EQ", "NEQ"}, data : 0 .. 255]) /\ Len(events') = 1
    BY <1>8, <2>2
  <2> QED
    BY <1>1, <1>2, <1>3, <2>1, <2>3 DEF ParserIInv, ParserTypeOK
<1> QED
  BY <1>9, <1>10, <1>11 DEF ParserIInv

(* Initially nothing was fed.                                                *)
LEMMA InitParser ==
    ASSUME parser_init
    PROVE  ParserIInv
<1>1. fed = <<>> /\ state = 0 /\ word \in Words /\ word \in Seq(1 .. 255) /\ Len(word) \in Nat
  BY ParserAssumption DEF parser_init
<1>2. Agrees(fed, word)
  BY <1>1 DEF Agrees
<1>3. StateOK /\ Verdict
  BY <1>1, <1>2 DEF StateOK, Verdict
<1>4. ParserTypeOK
  <2>1. events = <<[type |-> "MAYEQ", data |-> 0]>> /\ aborted = FALSE
    BY DEF parser_init
  <2>2. [type |-> "MAYEQ", data |-> 0] \in [type : {"MAYEQ", "EQ", "NEQ"}, data : 0 .. 255]
    OBVIOUS
  <2>3. events \in Seq([type : {"MAYEQ", "EQ", "NEQ"}, data : 0 .. 255]) /\ Len(events) = 1
    BY <2>1, <2>2
  <2>4. state \in 0 .. StNeq(word) /\ fed \in Seq(0 .. 254)
    BY <1>1 DEF StNeq
  <2> QED
    BY <1>1, <2>1, <2>3, <2>4 DEF ParserTypeOK
<1> QED
  BY <1>3, <1>4 DEF ParserIInv

(* Every step keeps the invariant.                                           *)
LEMMA NextParser ==
    ASSUME ParserIInv, [ParserNext]_parser_vars
    PROVE  ParserIInv'
<1>1. CASE \E c \in Input : parser_feed(c)
  BY <1>1, FeedStep
<1>2. CASE \E c \in Input : FeedOutside(c)
  <2>1. /\ word' = word /\ state' = state /\ events' = events /\ fed' = fed
        /\ aborted' \in BOOLEAN
    BY <1>2 DEF FeedOutside
  <2> QED
    BY <2>1 DEF ParserIInv, ParserTypeOK, StateOK, Verdict
<1>3. CASE parser_reset
  <2>1. fed' = <<>> /\ state' = 0 /\ word' = word /\ events' = events /\ aborted' = aborted
    BY <1>3 DEF parser_reset
  <2>2. word \in Seq(1 .. 255) /\ Len(word) \in Nat
    BY ParserAssumption DEF ParserIInv, ParserTypeOK
  <2>3. Agrees(<<>>, word)
    BY <2>2 DEF Agrees
  <2>4. StateOK' /\ Verdict'
    BY <2>1, <2>3 DEF StateOK, Verdict
  <2>5. ParserTypeOK'
    BY <2>1, <2>2 DEF ParserIInv, ParserTypeOK, StNeq
  <2> QED
    BY <2>4, <2>5 DEF ParserIInv
<1>4. CASE UNCHANGED parser_vars
  BY <1>4 DEF parser_vars, ParserIInv, ParserTypeOK, StateOK, Verdict
<1> QED
  BY <1>1, <1>2, <1>3, <1>4 DEF ParserNext

(* The parser built for any word, fed any bytes between resets, says after   *)
(* each whether they are the word, a beginning of it, or neither, whatever   *)
(* the case of the letters (parser_feed over parser_utils_strcmpi's table).  *)
THEOREM VerdictAlways == ParserSpec => []Verdict
<1>1. ParserIInv => Verdict
  BY DEF ParserIInv
<1>2. parser_init => ParserIInv
  BY InitParser
<1>3. ParserIInv /\ [ParserNext]_parser_vars => ParserIInv'
  BY NextParser
<1> QED
  BY <1>1, <1>2, <1>3, PTL DEF ParserSpec

(* The state stays in the table, whatever is fed (parser_feed).              *)
THEOREM ParserTypeCorrect == ParserSpec => []ParserTypeOK
<1>1. ParserIInv => ParserTypeOK
  BY DEF ParserIInv
<1>2. parser_init => ParserIInv
  BY InitParser
<1>3. ParserIInv /\ [ParserNext]_parser_vars => ParserIInv'
  BY NextParser
<1> QED
  BY <1>1, <1>2, <1>3, PTL DEF ParserSpec

=============================================================================
