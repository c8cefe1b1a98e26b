-------------------------- MODULE LineFraming_proofs --------------------------
(***************************************************************************)
(* Proofs about LineFraming, for any buffer size, any messages and any cuts  *)
(* of the stream.                                                            *)
(***************************************************************************)
EXTENDS LineFraming, FiniteSetTheorems, TLAPS

(* Where aux stands in the stream: so many of its bytes were walked.         *)
Walked == taken - Len(buff) + aux

(* Inside handle_client: recv_buffer was emptied, buff is the last chunk and  *)
(* its terminator, and every LF walked ran one command.                      *)
Parsing ==
    /\ recv_buffer = <<>>
    /\ aux_init <= aux /\ aux <= Len(buff)
    /\ Len(buff) <= BUFFER_SIZE /\ Len(buff) - 1 <= taken
    /\ buff[Len(buff)] = NUL
    /\ \A k \in 1 .. Len(buff) - 1 : buff[k] = stream[taken - Len(buff) + 1 + k]
    /\ Len(command) < BUFFER_SIZE
    /\ Len(executed) = Cardinality(LinesIn(Walked))

(* The inductive invariant.                                                  *)
IInv ==
    /\ TypeOK
    /\ Len(recv_buffer) < BUFFER_SIZE
    /\ pc = "parse" => Parsing
    /\ pc = "poll" => Len(executed) = Cardinality(LinesIn(taken))

(* The lines ended by one more byte.                                         *)
LEMMA OneMore ==
    ASSUME NEW n \in Nat
    PROVE  /\ Cardinality(LinesIn(n)) \in Nat
           /\ Cardinality(LinesIn(n + 1)) =
                IF stream[n + 1] = LF THEN Cardinality(LinesIn(n)) + 1 ELSE Cardinality(LinesIn(n))
<1>1. IsFiniteSet(1 .. n)
  BY FS_Interval
<1>2. IsFiniteSet(LinesIn(n))
  BY <1>1, FS_Subset DEF LinesIn
<1>3. Cardinality(LinesIn(n)) \in Nat
  BY <1>2, FS_CardinalityType
<1>4. CASE stream[n + 1] = LF
  <2>1. LinesIn(n + 1) = LinesIn(n) \cup {n + 1} /\ n + 1 \notin LinesIn(n)
    BY <1>4 DEF LinesIn
  <2> QED
    BY <1>2, <1>3, <1>4, <2>1, FS_AddElement
<1>5. CASE stream[n + 1] # LF
  <2>1. LinesIn(n + 1) = LinesIn(n)
    BY <1>5 DEF LinesIn
  <2> QED
    BY <1>3, <1>5, <2>1
<1> QED
  BY <1>4, <1>5

(* Before anything was received.                                             *)
LEMMA InitIInv == Init => IInv
<1> SUFFICES ASSUME Init PROVE IInv
  OBVIOUS
<1>1. TypeOK
  BY FramingAssumption DEF Init, TypeOK
<1>2. LinesIn(0) = {}
  BY DEF LinesIn
<1>3. Len(executed) = Cardinality(LinesIn(taken))
  BY <1>2, FS_EmptySet DEF Init
<1>4. Len(recv_buffer) < BUFFER_SIZE /\ pc = "poll"
  BY FramingAssumption DEF Init
<1> QED
  BY <1>1, <1>3, <1>4 DEF IInv

(* What the peer sends later does not change what was received.              *)
LEMMA SendKeeps ==
    ASSUME IInv, NEW m \in Messages, Send(m)
    PROVE  IInv'
<1>1. m \in Seq(Byte \ {NUL}) /\ stream \in Seq(Byte \ {NUL}) /\ taken \in 0 .. Len(stream)
  BY FramingAssumption DEF IInv, TypeOK
<1>2. /\ stream' = stream \o m
      /\ UNCHANGED <<taken, buff, aux, aux_init, command, recv_buffer, executed, cuts, tidy, pc>>
  BY DEF Send, ghosts
<1>3. /\ stream' \in Seq(Byte \ {NUL}) /\ Len(stream') >= Len(stream)
      /\ \A k \in 1 .. Len(stream) : stream'[k] = stream[k]
  BY <1>1, <1>2
<1>4. TypeOK'
  BY <1>1, <1>2, <1>3 DEF IInv, TypeOK
<1>5. ASSUME NEW n \in 0 .. Len(stream) PROVE LinesIn(n)' = LinesIn(n)
  BY <1>1, <1>3 DEF LinesIn
<1>6. CASE pc = "parse"
  <2>1. Parsing
    BY <1>6 DEF IInv
  <2>2. Len(buff) \in Nat /\ aux \in Nat
    BY DEF IInv, TypeOK
  <2>3. Walked \in 0 .. Len(stream) /\ Walked' = Walked
    BY <1>1, <1>2, <2>1, <2>2 DEF Parsing, Walked, IInv, TypeOK
  <2>4. (LinesIn(Walked))' = LinesIn(Walked)
    <3>1. \A p \in 1 .. Walked : stream'[p] = stream[p]
      BY <1>1, <1>3, <2>3
    <3>2. (LinesIn(Walked))' = {p \in 1 .. Walked' : stream'[p] = LF}
      BY DEF LinesIn
    <3> QED
      BY <2>3, <3>1, <3>2 DEF LinesIn
  <2>5. ASSUME NEW k \in 1 .. Len(buff) - 1
        PROVE  stream'[taken - Len(buff) + 1 + k] = stream[taken - Len(buff) + 1 + k]
    <3>1. Len(buff) - 1 <= taken /\ taken <= Len(stream) /\ taken \in Nat /\ Len(stream) \in Nat
      BY <1>1, <2>1 DEF Parsing
    <3>2. taken - Len(buff) + 1 + k \in 1 .. Len(stream)
      BY <2>2, <3>1
    <3> QED
      BY <1>3, <3>2
  <2>6. Parsing'
    BY <1>2, <2>1, <2>4, <2>5 DEF Parsing
  <2> QED
    BY <1>2, <1>4, <1>6, <2>6 DEF IInv
<1>7. CASE pc # "parse"
  <2>1. (LinesIn(taken))' = LinesIn(taken)
    BY <1>1, <1>2, <1>3 DEF LinesIn
  <2> QED
    BY <1>2, <1>4, <1>7, <2>1 DEF IInv
<1> QED
  BY <1>6, <1>7

(* A receive fits: what was kept and what comes are each less than the        *)
(* buffer.                                                                   *)
LEMMA ReceiveKeeps ==
    ASSUME IInv, NEW n \in 1 .. BUFFER_SIZE - 1, Receive(n)
    PROVE  IInv'
<1> DEFINE c == Chunk(n)
<1>1. /\ stream \in Seq(Byte \ {NUL}) /\ Len(stream) \in Nat /\ taken \in Nat
      /\ BUFFER_SIZE \in Nat /\ n \in Nat /\ n >= 1 /\ n <= BUFFER_SIZE - 1
      /\ taken + n <= Len(stream) /\ pc = "poll" /\ BUFFER_SIZE > 1
  BY FramingAssumption DEF IInv, TypeOK, Receive
<1>2. /\ command' = recv_buffer /\ recv_buffer' = <<>>
      /\ buff' = Append(c, NUL) /\ taken' = taken + n
      /\ aux' = 1 /\ aux_init' = 1 /\ pc' = "parse"
      /\ UNCHANGED <<stream, executed, cuts, tidy>>
  BY DEF Receive, ghosts
<1>3. /\ c \in Seq(Byte) /\ Len(c) = n
      /\ \A k \in 1 .. n : c[k] = stream[taken + k]
  BY <1>1 DEF Chunk
<1> HIDE DEF c
<1>4. /\ buff' \in Seq(Byte) /\ Len(buff') = n + 1 /\ buff'[n + 1] = NUL
      /\ \A k \in 1 .. n : buff'[k] = c[k]
  BY <1>1, <1>2, <1>3, FramingAssumption
<1>5. taken + n \in 0 .. Len(stream)
  BY <1>1
<1>6. recv_buffer \in Seq(Byte) /\ Len(recv_buffer) < BUFFER_SIZE
  BY DEF IInv, TypeOK
<1>7. TypeOK'
  BY <1>2, <1>4, <1>5, <1>6 DEF IInv, TypeOK
<1>8. Walked' = taken
  BY <1>1, <1>2, <1>4 DEF Walked
<1>9. Len(executed)' = Cardinality(LinesIn(Walked))'
  <2>1. (LinesIn(Walked))' = LinesIn(taken)
    BY <1>2, <1>8 DEF LinesIn
  <2> QED
    BY <1>1, <1>2, <2>1 DEF IInv
<1>10. ASSUME NEW k \in 1 .. Len(buff') - 1
       PROVE  buff'[k] = stream'[taken' - Len(buff') + 1 + k]
  <2>1. k \in 1 .. n /\ taken' - Len(buff') + 1 + k = taken + k
    BY <1>1, <1>2, <1>4
  <2> QED
    BY <1>2, <1>3, <1>4, <2>1
<1>11. /\ aux_init' <= aux' /\ aux' <= Len(buff') /\ Len(buff') <= BUFFER_SIZE
       /\ Len(buff') - 1 <= taken' /\ buff'[Len(buff')] = NUL
  BY <1>1, <1>2, <1>4
<1>12. Parsing'
  BY <1>2, <1>6, <1>9, <1>10, <1>11 DEF Parsing
<1>13. Len(recv_buffer') < BUFFER_SIZE
  BY <1>1, <1>2
<1> QED
  BY <1>2, <1>7, <1>12, <1>13 DEF IInv

(* What the steps inside handle_client start from.                           *)
LEMMA InsideFacts ==
    ASSUME IInv, pc = "parse"
    PROVE  /\ Parsing
           /\ buff \in Seq(Byte) /\ Len(buff) \in Nat
           /\ aux \in Nat /\ aux_init \in Nat /\ aux >= 1 /\ aux_init >= 1
           /\ taken \in Nat /\ BUFFER_SIZE \in Nat
           /\ command \in Seq(Byte) /\ executed \in Seq(Seq(Byte))
           /\ buff[aux] # NUL => /\ aux + 1 <= Len(buff)
                                 /\ buff[aux] = stream[Walked + 1] /\ Walked \in Nat
           /\ buff[aux] = NUL => aux = Len(buff)
<1>1. /\ Parsing
      /\ buff \in Seq(Byte) /\ Len(buff) \in Nat
      /\ aux \in Nat /\ aux_init \in Nat /\ aux >= 1 /\ aux_init >= 1
      /\ taken \in Nat /\ BUFFER_SIZE \in Nat
      /\ command \in Seq(Byte) /\ executed \in Seq(Seq(Byte))
  BY FramingAssumption DEF IInv, TypeOK
<1>2. stream \in Seq(Byte \ {NUL}) /\ taken <= Len(stream) /\ Len(stream) \in Nat
  BY DEF IInv, TypeOK
<1>3. CASE aux = Len(buff)
  BY <1>1, <1>3 DEF Parsing
<1>4. CASE aux # Len(buff)
  <2>1. aux \in 1 .. Len(buff) - 1 /\ aux + 1 <= Len(buff)
    BY <1>1, <1>4 DEF Parsing
  <2>2. Walked + 1 = taken - Len(buff) + 1 + aux /\ Walked \in Nat
    BY <1>1, <2>1 DEF Walked, Parsing
  <2>3. buff[aux] = stream[Walked + 1]
    BY <1>1, <2>1, <2>2 DEF Parsing
  <2>4. Walked + 1 \in 1 .. Len(stream)
    BY <1>1, <1>2, <2>1, <2>2
  <2>5. buff[aux] # NUL
    BY <1>2, <2>3, <2>4
  <2> QED
    BY <1>1, <2>1, <2>2, <2>3, <2>5
<1> QED
  BY <1>3, <1>4

(* A character that ends nothing.                                            *)
LEMMA CharacterKeeps == ASSUME IInv, Character PROVE IInv'
<1>1. /\ pc = "parse" /\ buff[aux] # LF /\ buff[aux] # NUL
      /\ aux' = aux + 1
      /\ UNCHANGED <<stream, taken, buff, aux_init, command, recv_buffer, executed, cuts, tidy, pc>>
  BY DEF Character, ghosts
<1>2. /\ Parsing /\ Len(buff) \in Nat /\ aux \in Nat /\ aux_init \in Nat /\ taken \in Nat
      /\ aux + 1 <= Len(buff) /\ buff[aux] = stream[Walked + 1] /\ Walked \in Nat
  BY <1>1, InsideFacts
<1>3. TypeOK'
  BY <1>1, <1>2 DEF IInv, TypeOK
<1>4. Walked' = Walked + 1
  BY <1>1, <1>2 DEF Walked
<1>5. Cardinality(LinesIn(Walked + 1)) = Cardinality(LinesIn(Walked))
  BY <1>1, <1>2, OneMore
<1>6. Len(executed)' = Cardinality(LinesIn(Walked))'
  <2>1. (LinesIn(Walked))' = LinesIn(Walked + 1)
    BY <1>1, <1>4 DEF LinesIn
  <2> QED
    BY <1>1, <1>2, <1>5, <2>1 DEF Parsing
<1>7. Parsing'
  BY <1>1, <1>2, <1>6 DEF Parsing
<1> QED
  BY <1>1, <1>3, <1>7 DEF IInv

(* A line: one command more, and command is empty again.                     *)
LEMMA LineKeeps == ASSUME IInv, Line PROVE IInv'
<1>1. /\ pc = "parse" /\ buff[aux] = LF
      /\ aux' = aux + 1 /\ aux_init' = aux + 1
      /\ UNCHANGED <<stream, taken, buff, recv_buffer>>
  BY DEF Line
<1>2. buff[aux] # NUL
  BY <1>1, FramingAssumption
<1>3. /\ Parsing /\ buff \in Seq(Byte) /\ Len(buff) \in Nat
      /\ aux \in Nat /\ aux_init \in Nat /\ aux_init >= 1 /\ taken \in Nat /\ aux >= 1
      /\ command \in Seq(Byte) /\ executed \in Seq(Seq(Byte)) /\ BUFFER_SIZE \in Nat
      /\ aux + 1 <= Len(buff) /\ buff[aux] = stream[Walked + 1] /\ Walked \in Nat
  BY <1>1, <1>2, InsideFacts
<1>4. TextEnd \in Int /\ TextEnd <= Len(buff)
  BY <1>3 DEF TextEnd
<1>5. SubSeq(buff, aux_init, TextEnd) \in Seq(Byte)
  BY <1>3, <1>4
<1>6. Whole \in Seq(Byte)
  BY <1>3, <1>5 DEF Whole
<1>7. CASE Len(Whole) < PREFIX
  <2>1. pc' = "aborted" /\ UNCHANGED <<command, executed, cuts, tidy>>
    BY <1>7 DEF Line, ghosts
  <2>2. TypeOK'
    BY <1>1, <1>3, <2>1 DEF IInv, TypeOK
  <2> QED
    BY <1>1, <2>1, <2>2 DEF IInv
<1>8. CASE ~(Len(Whole) < PREFIX)
  <2>1. /\ pc' \in {"closed", "parse"} /\ executed' = Append(executed, Whole) /\ command' = <<>>
    BY <1>8 DEF Line
  <2>2. executed' \in Seq(Seq(Byte)) /\ Len(executed') = Len(executed) + 1
    BY <1>3, <1>6, <2>1
  <2>3. cuts' \in 0 .. 2 /\ tidy' \in Seq(BOOLEAN)
    <3>1. cuts' = 0 /\ tidy' = Append(tidy, cuts < 2)
      BY <1>8 DEF Line
    <3>2. tidy \in Seq(BOOLEAN) /\ (cuts < 2) \in BOOLEAN
      BY DEF IInv, TypeOK
    <3> QED
      BY <3>1, <3>2
  <2>4. TypeOK'
    BY <1>1, <1>3, <2>1, <2>2, <2>3 DEF IInv, TypeOK
  <2>5. Walked' = Walked + 1
    BY <1>1, <1>3 DEF Walked
  <2>6. Cardinality(LinesIn(Walked + 1)) = Cardinality(LinesIn(Walked)) + 1
    BY <1>1, <1>3, OneMore
  <2>7. Len(executed') = Cardinality(LinesIn(Walked))'
    <3>1. (LinesIn(Walked))' = LinesIn(Walked + 1)
      BY <1>1, <2>5 DEF LinesIn
    <3> QED
      BY <1>3, <2>2, <2>6, <3>1 DEF Parsing
  <2>8. Len(command') < BUFFER_SIZE
    BY <2>1, FramingAssumption
  <2>9. Parsing'
    BY <1>1, <1>3, <2>7, <2>8 DEF Parsing
  <2> QED
    BY <1>1, <2>1, <2>9, <2>4 DEF IInv
<1> QED
  BY <1>7, <1>8

(* The rest of a chunk is shorter than the chunk.                            *)
LEMMA EndKeeps == ASSUME IInv, EndOfChunk PROVE IInv'
<1> DEFINE r == SubSeq(buff, aux_init, aux - 1)
<1>1. /\ pc = "parse" /\ buff[aux] = NUL
      /\ recv_buffer' = recv_buffer \o r
      /\ command' = <<>> /\ pc' = "poll"
      /\ UNCHANGED <<stream, taken, buff, aux, aux_init, executed, tidy>>
      /\ cuts' \in 0 .. 2
  BY DEF EndOfChunk, CutsNow, IInv, TypeOK
<1>2. /\ Parsing /\ buff \in Seq(Byte) /\ Len(buff) \in Nat
      /\ aux \in Nat /\ aux_init \in Nat /\ aux_init >= 1 /\ taken \in Nat
      /\ BUFFER_SIZE \in Nat /\ aux = Len(buff)
  BY <1>1, InsideFacts
<1>3. recv_buffer = <<>> /\ aux_init <= aux /\ Len(buff) <= BUFFER_SIZE
  BY <1>2 DEF Parsing
<1>4. r \in Seq(Byte) /\ Len(r) = aux - aux_init
  BY <1>2, <1>3
<1> HIDE DEF r
<1>5. recv_buffer' = r
  BY <1>1, <1>3, <1>4
<1>6. recv_buffer' \in Seq(Byte) /\ Len(recv_buffer') < BUFFER_SIZE
  BY <1>2, <1>3, <1>4, <1>5
<1>7. TypeOK'
  BY <1>1, <1>6 DEF IInv, TypeOK
<1>8. Walked = taken
  BY <1>2 DEF Walked
<1>9. Len(executed') = Cardinality(LinesIn(taken))'
  BY <1>1, <1>2, <1>8 DEF Parsing, LinesIn
<1> QED
  BY <1>1, <1>6, <1>7, <1>9 DEF IInv

(* Every step keeps the invariant.                                           *)
LEMMA NextIInv == IInv /\ [Next]_vars => IInv'
<1> SUFFICES ASSUME IInv, [Next]_vars PROVE IInv'
  OBVIOUS
<1>1. CASE UNCHANGED vars
  BY <1>1 DEF vars, ghosts, IInv, TypeOK, Parsing, LinesIn, Walked
<1>2. ASSUME NEW m \in Messages, Send(m) PROVE IInv'
  BY <1>2, SendKeeps
<1>3. ASSUME NEW n \in 1 .. BUFFER_SIZE - 1, Receive(n) PROVE IInv'
  BY <1>3, ReceiveKeeps
<1>4. CASE Character
  BY <1>4, CharacterKeeps
<1>5. CASE Line
  BY <1>5, LineKeeps
<1>6. CASE EndOfChunk
  BY <1>6, EndKeeps
<1> QED
  BY <1>1, <1>2, <1>3, <1>4, <1>5, <1>6 DEF Next, Parse

(* The invariant, for every behaviour.                                       *)
THEOREM Invariance == Spec => []IInv
<1>1. Init => IInv
  BY InitIInv
<1>2. IInv /\ [Next]_vars => IInv'
  BY NextIInv
<1> QED
  BY <1>1, <1>2, PTL DEF Spec

(* Type correctness of the parser.                                           *)
THEOREM TypeCorrect == Spec => []TypeOK
<1>1. IInv => TypeOK
  BY DEF IInv
<1> QED
  BY <1>1, Invariance, PTL

(* The unchecked strcpy and strcat of handle_client (pop3.c:768, 791, 1066)   *)
(* stay inside command and recv_buffer, whatever the size of the buffers.     *)
THEOREM CopiesFit == Spec => []InBounds
<1>1. IInv => InBounds
  <2> SUFFICES ASSUME IInv PROVE InBounds
    OBVIOUS
  <2>1. CASE pc = "parse"
    <3>1. /\ Parsing /\ Len(buff) \in Nat /\ aux_init \in Nat /\ aux_init >= 1
          /\ BUFFER_SIZE \in Nat /\ command \in Seq(Byte)
      BY <2>1, InsideFacts
    <3>2. Len(command) + (Len(buff) - aux_init) < 2 * BUFFER_SIZE
      BY <3>1 DEF Parsing
    <3> QED
      BY <2>1, <3>1, <3>2 DEF InBounds, Parsing, IInv
  <2>2. CASE pc # "parse"
    BY <2>2 DEF InBounds, IInv
  <2> QED
    BY <2>1, <2>2
<1> QED
  BY <1>1, Invariance, PTL

(* However TCP cuts the stream, one command runs for each line: none is       *)
(* dropped, doubled or split.                                                *)
THEOREM OneCommandPerLine == Spec => []LinesCounted
<1>1. IInv => LinesCounted
  BY DEF IInv, LinesCounted
<1> QED
  BY <1>1, Invariance, PTL

-----------------------------------------------------------------------------
(* Which bytes a command is made of.                                         *)

(* Where the part of the line at hand that this chunk holds begins: after so  *)
(* many bytes of the stream.                                                 *)
Start == taken - Len(buff) + aux_init

(* What was kept of the unfinished line of the first n bytes of st is an end  *)
(* of it; all of it while c, the receives that ended inside it, is less than *)
(* 2.                                                                        *)
Residue(st, b, n, c) ==
    \E m \in 0 .. n :
        /\ b = SubSeq(st, m + 1, n)
        /\ \A p \in m + 1 .. n : st[p] # LF
        /\ c < 2 => m = 0 \/ st[m] = LF
        /\ c = 0 => m = n
        /\ c = 1 => m < n /\ st[n] # CR

Framed ==
    /\ pc = "parse" => /\ Len(buff) > 1
                       /\ Residue(stream, command, Start, cuts)
                       /\ \A p \in Start + 1 .. Walked : stream[p] # LF
                       /\ aux_init > 1 => command = <<>> /\ stream[Start] = LF
    /\ pc = "poll" => Residue(stream, recv_buffer, taken, cuts)

(* The i-th LF of st is at p, and the i-th line.                             *)
LinesOf(st, n) == {r \in 1 .. n : st[r] = LF}

Ends(st, i, p) == p \in 1 .. Len(st) /\ st[p] = LF /\ Cardinality(LinesOf(st, p)) = i

LineEnd(st, i) == CHOOSE p \in 1 .. Len(st) : st[p] = LF /\ Cardinality(LinesOf(st, p)) = i

LineOf(st, i) ==
    LET first == IF i = 1 THEN 1 ELSE LineEnd(st, i - 1) + 1
        last  == LineEnd(st, i) - 1
    IN  SubSeq(st, first, IF last >= first /\ st[last] = CR THEN last - 1 ELSE last)

Ended == /\ Len(tidy) = Len(executed)
         /\ \A i \in 1 .. Len(executed) : \E p \in 1 .. Len(stream) : Ends(stream, i, p)

(* The second inductive invariant, on top of IInv.                           *)
LinesInv == Framed /\ Ended /\ TailKept /\ LinesExact

(* A part of a sequence, its elements counted from where it starts.          *)
LEMMA Part ==
    ASSUME NEW S, NEW s \in Seq(S), NEW a \in Nat, NEW b \in Nat, a <= b, b <= Len(s)
    PROVE  /\ SubSeq(s, a + 1, b) \in Seq(S) /\ Len(SubSeq(s, a + 1, b)) = b - a
           /\ \A k \in 1 .. b - a : SubSeq(s, a + 1, b)[k] = s[a + k]
OBVIOUS

(* Two sequences are the same if their elements are.                         *)
LEMMA SameElements ==
    ASSUME NEW S, NEW s \in Seq(S), NEW t \in Seq(S), Len(s) = Len(t),
           \A k \in 1 .. Len(s) : s[k] = t[k]
    PROVE  s = t
OBVIOUS

(* Two parts that follow each other.                                         *)
LEMMA PartsJoin ==
    ASSUME NEW S, NEW s \in Seq(S), NEW a \in Nat, NEW b \in Nat, NEW c \in Nat,
           a <= b, b <= c, c <= Len(s)
    PROVE  SubSeq(s, a + 1, b) \o SubSeq(s, b + 1, c) = SubSeq(s, a + 1, c)
<1> DEFINE x == SubSeq(s, a + 1, b)
           y == SubSeq(s, b + 1, c)
           z == SubSeq(s, a + 1, c)
<1>1. x \in Seq(S) /\ Len(x) = b - a /\ \A k \in 1 .. b - a : x[k] = s[a + k]
  BY Part
<1>2. y \in Seq(S) /\ Len(y) = c - b /\ \A k \in 1 .. c - b : y[k] = s[b + k]
  BY Part
<1>3. z \in Seq(S) /\ Len(z) = c - a /\ \A k \in 1 .. c - a : z[k] = s[a + k]
  BY Part
<1> HIDE DEF x, y, z
<1>4. /\ x \o y \in Seq(S) /\ Len(x \o y) = Len(x) + Len(y)
      /\ \A k \in 1 .. Len(x) + Len(y) : (x \o y)[k] = IF k <= Len(x) THEN x[k] ELSE y[k - Len(x)]
  <2>1. x \in Seq(S) /\ y \in Seq(S)
    BY <1>1, <1>2
  <2> QED
    BY <2>1
<1>5. ASSUME NEW k \in 1 .. c - a PROVE (x \o y)[k] = z[k]
  <2>1. CASE k <= b - a
    BY <2>1, <1>1, <1>2, <1>3, <1>4
  <2>2. CASE ~(k <= b - a)
    <3>1. k - (b - a) \in 1 .. c - b /\ b + (k - (b - a)) = a + k
      BY <2>2
    <3>2. (x \o y)[k] = y[k - (b - a)]
      <4>1. Len(x) = b - a /\ k \in 1 .. Len(x) + Len(y) /\ ~(k <= Len(x))
        BY <2>2, <1>1, <1>2
      <4>2. (x \o y)[k] = y[k - Len(x)]
        BY <4>1, <1>4
      <4> QED
        BY <4>1, <4>2
    <3>3. y[k - (b - a)] = s[a + k]
      BY <3>1, <1>2
    <3> QED
      BY <3>2, <3>3, <1>3
  <2> QED
    BY <2>1, <2>2
<1>6. x \o y = z
  <2>1. Len(x \o y) = Len(z) /\ Len(z) = c - a
    BY <1>1, <1>2, <1>3, <1>4
  <2>2. \A k \in 1 .. Len(x \o y) : (x \o y)[k] = z[k]
    BY <1>5, <2>1
  <2> QED
    BY <2>1, <2>2, <1>3, <1>4, SameElements
<1> QED
  BY <1>6 DEF x, y, z

(* The end of a part is a part.                                              *)
LEMMA PartEnds ==
    ASSUME NEW S, NEW s \in Seq(S), NEW a \in Nat, NEW b \in Nat, NEW c \in Nat,
           a <= b, b <= c, c <= Len(s)
    PROVE  EndsWith(SubSeq(s, a + 1, c), SubSeq(s, b + 1, c))
<1> DEFINE x == SubSeq(s, a + 1, c)
           y == SubSeq(s, b + 1, c)
           k == b - a
           z == SubSeq(x, k + 1, Len(x))
<1>1. x \in Seq(S) /\ Len(x) = c - a /\ \A i \in 1 .. c - a : x[i] = s[a + i]
  BY Part
<1>2. y \in Seq(S) /\ Len(y) = c - b /\ \A i \in 1 .. c - b : y[i] = s[b + i]
  BY Part
<1>3. k \in Nat /\ k <= Len(x) /\ Len(x) \in Nat
  BY <1>1
<1>4. z \in Seq(S) /\ Len(z) = Len(x) - k /\ \A i \in 1 .. Len(x) - k : z[i] = x[k + i]
  BY <1>1, <1>3, Part
<1> HIDE DEF x, y, z
<1>5. Len(z) = Len(y) /\ Len(z) = c - b
  BY <1>1, <1>2, <1>4
<1>6. ASSUME NEW i \in 1 .. Len(z) PROVE z[i] = y[i]
  <2>1. i \in 1 .. c - b /\ i \in 1 .. Len(x) - k /\ k + i \in 1 .. c - a /\ a + (k + i) = b + i
    BY <1>1, <1>4, <1>5
  <2>2. z[i] = x[k + i] /\ x[k + i] = s[a + (k + i)] /\ y[i] = s[b + i]
    BY <2>1, <1>1, <1>2, <1>4
  <2> QED
    BY <2>1, <2>2
<1>7. z = y
  BY <1>2, <1>4, <1>5, <1>6, SameElements
<1>8. k \in 0 .. Len(x) /\ SubSeq(x, k + 1, Len(x)) = y
  BY <1>3, <1>7 DEF z
<1> QED
  BY <1>8 DEF EndsWith, x, y

(* A sequence and a longer one agree on a part of the first.                 *)
LEMMA PartSame ==
    ASSUME NEW S, NEW s \in Seq(S), NEW t \in Seq(S), NEW a \in Nat, NEW b \in Nat,
           a <= b, b <= Len(s), Len(s) <= Len(t), \A k \in 1 .. Len(s) : t[k] = s[k]
    PROVE  SubSeq(t, a + 1, b) = SubSeq(s, a + 1, b)
<1> DEFINE x == SubSeq(s, a + 1, b)
           y == SubSeq(t, a + 1, b)
<1>1. Len(s) \in Nat /\ Len(t) \in Nat /\ b <= Len(t)
  OBVIOUS
<1>2. x \in Seq(S) /\ Len(x) = b - a /\ \A i \in 1 .. b - a : x[i] = s[a + i]
  BY Part
<1>3. y \in Seq(S) /\ Len(y) = b - a /\ \A i \in 1 .. b - a : y[i] = t[a + i]
  BY <1>1, Part
<1> HIDE DEF x, y
<1>4. \A i \in 1 .. b - a : t[a + i] = s[a + i]
  BY <1>1
<1>5. x = y
  BY <1>2, <1>3, <1>4, SameElements
<1> QED
  BY <1>5 DEF x, y

(* One LF later is one line more: a line has one end.                        *)
LEMMA MoreLines ==
    ASSUME NEW st, NEW p \in Nat, NEW q \in Nat, p <= q
    PROVE  /\ IsFiniteSet(LinesOf(st, q)) /\ Cardinality(LinesOf(st, q)) \in Nat
           /\ Cardinality(LinesOf(st, p)) = Cardinality(LinesOf(st, q)) =>
                \A r \in p + 1 .. q : st[r] # LF
<1>1. IsFiniteSet(1 .. q) /\ LinesOf(st, q) \in SUBSET (1 .. q)
  BY FS_Interval DEF LinesOf
<1>2. IsFiniteSet(LinesOf(st, q))
  BY <1>1, FS_Subset
<1>3. LinesOf(st, p) \in SUBSET LinesOf(st, q)
  BY DEF LinesOf
<1>4. ASSUME Cardinality(LinesOf(st, p)) = Cardinality(LinesOf(st, q)), NEW r \in p + 1 .. q
      PROVE  st[r] # LF
  <2>1. LinesOf(st, p) = LinesOf(st, q)
    BY <1>2, <1>3, <1>4, FS_Subset
  <2>2. r \in 1 .. q /\ r \notin LinesOf(st, p)
    BY <1>4 DEF LinesOf
  <2> QED
    BY <2>1, <2>2 DEF LinesOf
<1> QED
  BY <1>2, <1>4, FS_CardinalityType

(* So LineEnd is the LF that ends the line.                                 *)
LEMMA OneEnd ==
    ASSUME NEW st, Len(st) \in Nat, NEW i, NEW p, Ends(st, i, p)
    PROVE  LineEnd(st, i) = p
<1> DEFINE q == LineEnd(st, i)
<1>1. Ends(st, i, q)
  BY DEF Ends, LineEnd
<1> HIDE DEF q
<1>2. /\ p \in Nat /\ q \in Nat /\ p >= 1 /\ q >= 1 /\ st[p] = LF /\ st[q] = LF
      /\ Cardinality(LinesOf(st, p)) = Cardinality(LinesOf(st, q))
  BY <1>1 DEF Ends
<1>3. ~(p < q) /\ ~(q < p)
  BY <1>2, MoreLines
<1> QED
  BY <1>2, <1>3 DEF q

(* The line between two LFs that follow each other.                          *)
LEMMA LineBetween ==
    ASSUME NEW st, Len(st) \in Nat, NEW i \in Nat \ {0}, NEW p, NEW f \in Nat, Ends(st, i, p + 1),
           p \in Nat, IF i = 1 THEN f = 0 ELSE Ends(st, i - 1, f)
    PROVE  LineOf(st, i) = SubSeq(st, f + 1, IF p >= f + 1 /\ st[p] = CR THEN p - 1 ELSE p)
<1>1. LineEnd(st, i) - 1 = p
  BY OneEnd
<1>2. (IF i = 1 THEN 1 ELSE LineEnd(st, i - 1) + 1) = f + 1
  BY OneEnd
<1> QED
  BY <1>1, <1>2 DEF LineOf

(* SentLine, with the stream as a parameter.                                *)
LEMMA SentIsLineOf ==
    ASSUME NEW i PROVE SentLine(i) = LineOf(stream, i) /\ SentLine(i)' = LineOf(stream', i)
BY DEF SentLine, LineOf, EndOf, LineEnd, LinesIn, LinesOf

(* What holds of a stream holds of a longer one.                             *)
LEMMA LinesGrow ==
    ASSUME NEW st \in Seq(Byte), NEW su \in Seq(Byte), Len(st) <= Len(su),
           \A k \in 1 .. Len(st) : su[k] = st[k]
    PROVE  /\ \A i, p : Ends(st, i, p) => Ends(su, i, p)
           /\ \A b, c : \A n \in 0 .. Len(st) : Residue(st, b, n, c) => Residue(su, b, n, c)
           /\ \A i \in Nat \ {0} :
                (\E p : Ends(st, i, p)) /\ (i > 1 => \E p : Ends(st, i - 1, p)) =>
                    LineOf(su, i) = LineOf(st, i)
<1>0. Len(st) \in Nat /\ Len(su) \in Nat
  OBVIOUS
<1>1. ASSUME NEW i, NEW p, Ends(st, i, p) PROVE Ends(su, i, p)
  <2>1. p \in 1 .. Len(st)
    BY <1>1 DEF Ends
  <2>2. LinesOf(su, p) = LinesOf(st, p) /\ su[p] = st[p] /\ p \in 1 .. Len(su)
    BY <1>0, <2>1 DEF LinesOf
  <2> QED
    BY <1>1, <2>2 DEF Ends
<1>2. ASSUME NEW a \in Nat, NEW e \in Nat, a <= e, e <= Len(st)
      PROVE  SubSeq(su, a + 1, e) = SubSeq(st, a + 1, e)
  BY <1>0, <1>2, PartSame
<1>3. ASSUME NEW b, NEW c, NEW n \in 0 .. Len(st), Residue(st, b, n, c) PROVE Residue(su, b, n, c)
  <2>1. PICK m \in 0 .. n :
          /\ b = SubSeq(st, m + 1, n)
          /\ \A p \in m + 1 .. n : st[p] # LF
          /\ c < 2 => m = 0 \/ st[m] = LF
          /\ c = 0 => m = n
          /\ c = 1 => m < n /\ st[n] # CR
    BY <1>3 DEF Residue
  <2>2. b = SubSeq(su, m + 1, n)
    BY <1>0, <1>2, <2>1
  <2>3. (\A p \in m + 1 .. n : su[p] # LF) /\ (m # 0 => su[m] = st[m]) /\ (n # 0 => su[n] = st[n])
    <3>1. n \in Nat /\ m \in Nat /\ m <= n /\ n <= Len(st)
      BY <1>0
    <3>2. \A k \in Nat : k # 0 /\ k <= n => su[k] = st[k]
      BY <1>0, <3>1
    <3>3. \A p \in m + 1 .. n : p \in Nat /\ p # 0 /\ p <= n
      BY <3>1
    <3> QED
      BY <2>1, <3>1, <3>2, <3>3
  <2>4. c = 1 => m < n /\ su[n] # CR
    BY <2>1, <2>3
  <2>5. c < 2 => m = 0 \/ su[m] = LF
    BY <2>1, <2>3
  <2> QED
    BY <2>1, <2>2, <2>3, <2>4, <2>5 DEF Residue
<1>4. ASSUME NEW i \in Nat \ {0}, NEW q, Ends(st, i, q), i > 1 => \E p : Ends(st, i - 1, p)
      PROVE  LineOf(su, i) = LineOf(st, i)
  <2> DEFINE p == q - 1
  <2>1. p \in Nat /\ p + 1 = q /\ p < Len(st)
    BY <1>0, <1>4 DEF Ends
  <2>2. PICK f \in Nat : IF i = 1 THEN f = 0 ELSE Ends(st, i - 1, f)
    <3>1. CASE i = 1
      BY <3>1
    <3>2. CASE i # 1
      BY <1>4, <3>2 DEF Ends
    <3> QED
      BY <3>1, <3>2
  <2> HIDE DEF p
  <2> DEFINE e == IF p >= f + 1 /\ st[p] = CR THEN p - 1 ELSE p
             d == IF p >= f + 1 /\ su[p] = CR THEN p - 1 ELSE p
  <2>3. LineOf(st, i) = SubSeq(st, f + 1, e)
    BY <1>0, <1>4, <2>1, <2>2, LineBetween
  <2>4. Ends(su, i, p + 1) /\ (IF i = 1 THEN f = 0 ELSE Ends(su, i - 1, f))
    BY <1>1, <1>4, <2>1, <2>2
  <2>5. LineOf(su, i) = SubSeq(su, f + 1, d)
    BY <1>0, <2>1, <2>4, LineBetween
  <2>6. p >= f + 1 => su[p] = st[p]
    BY <1>0, <2>1
  <2>7. d = e
    BY <2>6
  <2>8. f <= p
    <3>1. CASE i = 1
      BY <2>1, <2>2, <3>1
    <3>2. CASE i # 1
      <4>1. Ends(st, i - 1, f) /\ Ends(st, i, p + 1)
        BY <1>4, <2>1, <2>2, <3>2
      <4>2. /\ f >= 1 /\ st[f] = LF /\ Cardinality(LinesOf(st, f)) = i - 1
            /\ st[p + 1] = LF /\ Cardinality(LinesOf(st, p + 1)) = i
        BY <4>1 DEF Ends
      <4>3. CASE f = p + 1
        BY <4>2, <4>3
      <4>4. CASE f > p + 1
        <5>0. p + 1 \in Nat /\ f \in Nat /\ p + 1 <= f
          BY <2>1, <4>4
        <5>1. IsFiniteSet(LinesOf(st, f))
          BY <5>0, MoreLines
        <5>3. LinesOf(st, p + 1) \in SUBSET LinesOf(st, f)
          BY <5>0 DEF LinesOf
        <5>2. Cardinality(LinesOf(st, p + 1)) <= Cardinality(LinesOf(st, f))
          BY <5>1, <5>3, FS_Subset
        <5> QED
          BY <4>2, <5>2
      <4> QED
        BY <2>1, <4>3, <4>4
    <3> QED
      BY <3>1, <3>2
  <2>9. e \in Nat /\ f <= e /\ e <= Len(st)
    BY <1>0, <2>1, <2>8
  <2> HIDE DEF d, e
  <2>10. SubSeq(su, f + 1, e) = SubSeq(st, f + 1, e)
    BY <1>2, <2>9
  <2> QED
    BY <2>3, <2>5, <2>7, <2>10
<1> QED
  BY <1>1, <1>3, <1>4

(* Where the parser stands in the stream.                                    *)
LEMMA StartFacts ==
    ASSUME IInv, pc = "parse"
    PROVE  /\ stream \in Seq(Byte) /\ Len(stream) \in Nat /\ taken <= Len(stream)
           /\ Start \in Nat /\ Walked \in Nat /\ Start <= Walked /\ Walked <= taken
           /\ Walked - Start = aux - aux_init
           /\ \A k \in 1 .. Len(buff) - 1 : buff[k] = stream[taken - Len(buff) + 1 + k]
<1>1. /\ Parsing /\ Len(buff) \in Nat /\ taken \in Nat
      /\ aux \in Nat /\ aux_init \in Nat /\ aux_init >= 1
  BY InsideFacts
<1>2. /\ aux_init <= aux /\ aux <= Len(buff) /\ Len(buff) - 1 <= taken
      /\ \A k \in 1 .. Len(buff) - 1 : buff[k] = stream[taken - Len(buff) + 1 + k]
  BY <1>1 DEF Parsing
<1>3. stream \in Seq(Byte \ {NUL}) /\ taken <= Len(stream)
  BY DEF IInv, TypeOK
<1>4. stream \in Seq(Byte) /\ Len(stream) \in Nat
  BY <1>3
<1>5. /\ Start \in Nat /\ Walked \in Nat /\ Start <= Walked /\ Walked <= taken
      /\ Walked - Start = aux - aux_init
  BY <1>1, <1>2 DEF Start, Walked
<1> QED
  BY <1>2, <1>3, <1>4, <1>5

(* The line at hand begins after the last LF walked, its LF is the next       *)
(* character.                                                                *)
LEMMA LineAtHand ==
    ASSUME IInv, LinesInv, pc = "parse", buff[aux] = LF
    PROVE  /\ Ends(stream, Len(executed) + 1, Walked + 1)
           /\ \E f \in 0 .. Walked :
                /\ IF Len(executed) = 0 THEN f = 0 ELSE Ends(stream, Len(executed), f)
                /\ f = 0 \/ stream[f] = LF
                /\ \A p \in f + 1 .. Walked : stream[p] # LF
<1> DEFINE W == Walked
           N == Len(executed)
<1>1. buff[aux] # NUL
  BY FramingAssumption
<1>2. /\ Parsing /\ aux \in Nat /\ Len(buff) \in Nat /\ taken \in Nat
      /\ aux + 1 <= Len(buff) /\ stream[W + 1] = LF /\ W \in Nat
      /\ executed \in Seq(Seq(Byte))
  BY <1>1, InsideFacts
<1>3. Len(stream) \in Nat /\ taken <= Len(stream) /\ N \in Nat
  BY <1>2, StartFacts
<1>4. W + 1 \in 1 .. Len(stream)
  BY <1>2, <1>3 DEF Walked
<1>5. LinesIn(W) = LinesOf(stream, W) /\ LinesIn(W + 1) = LinesOf(stream, W + 1)
  BY DEF LinesIn, LinesOf
<1>6. Cardinality(LinesOf(stream, W)) = N
  BY <1>2, <1>5 DEF Parsing
<1>7. Cardinality(LinesOf(stream, W + 1)) = N + 1
  BY <1>2, <1>5, <1>6, OneMore
<1>8. Ends(stream, N + 1, W + 1)
  BY <1>2, <1>4, <1>7 DEF Ends
<1> HIDE DEF W, N
<1>9. CASE N = 0
  <2>1. LinesOf(stream, 0) = {}
    BY DEF LinesOf
  <2>2. Cardinality(LinesOf(stream, 0)) = Cardinality(LinesOf(stream, W))
    BY <1>6, <1>9, <2>1, FS_EmptySet
  <2>3. \A p \in 0 + 1 .. W : stream[p] # LF
    BY <1>2, <2>2, MoreLines
  <2> QED
    BY <1>2, <1>8, <1>9, <2>3 DEF W, N
<1>10. CASE N # 0
  <2>1. PICK f \in 1 .. Len(stream) : Ends(stream, N, f)
    BY <1>3, <1>10 DEF LinesInv, Ended, N
  <2>2. stream[f] = LF /\ Cardinality(LinesOf(stream, f)) = Cardinality(LinesOf(stream, W)) /\ f \in Nat
    BY <1>3, <1>6, <2>1 DEF Ends
  <2>3. ~(W < f)
    <3>1. SUFFICES ASSUME W < f PROVE FALSE
      OBVIOUS
    <3>2. f \in W + 1 .. f
      BY <1>2, <2>2, <3>1
    <3> QED
      BY <1>2, <2>2, <3>1, <3>2, MoreLines
  <2>4. f \in 0 .. W
    BY <1>2, <2>2, <2>3
  <2>5. \A p \in f + 1 .. W : stream[p] # LF
    BY <1>2, <2>2, <2>4, MoreLines
  <2> QED
    BY <1>8, <1>10, <2>1, <2>2, <2>4, <2>5 DEF W, N
<1> QED
  BY <1>9, <1>10

(* What a command is: the end of the line at hand, and all of it when at     *)
(* most one receive ended inside it, not between its CR and LF.              *)
IsTail(l, c) == EndsWith(l, c) \/ EndsWith(Append(l, CR), c)

(* The command the next LF will complete.                                   *)
LEMMA WholeIsTail ==
    ASSUME IInv, LinesInv, pc = "parse", buff[aux] = LF
    PROVE  /\ IsTail(SentLine(Len(executed) + 1), Whole)
           /\ cuts < 2 => Whole = SentLine(Len(executed) + 1)
<1> DEFINE W == Walked
           N == Start
           i == Len(executed) + 1
           S == SentLine(i)
           Goal == IsTail(S, Whole) /\ (cuts < 2 => Whole = S)
<1>1. buff[aux] # NUL
  BY FramingAssumption
<1>2. /\ Parsing /\ aux \in Nat /\ aux_init \in Nat /\ aux_init >= 1 /\ Len(buff) \in Nat
      /\ buff \in Seq(Byte) /\ command \in Seq(Byte)
      /\ aux + 1 <= Len(buff) /\ executed \in Seq(Seq(Byte)) /\ cuts \in 0 .. 2 /\ taken \in Nat
  BY <1>1, InsideFacts DEF IInv, TypeOK
<1>3. /\ stream \in Seq(Byte) /\ Len(stream) \in Nat /\ taken <= Len(stream)
      /\ N \in Nat /\ W \in Nat /\ N <= W /\ W <= taken /\ W - N = aux - aux_init
      /\ \A k \in 1 .. Len(buff) - 1 : buff[k] = stream[taken - Len(buff) + 1 + k]
  BY StartFacts
<1>4. aux_init <= aux
  BY <1>2 DEF Parsing
<1>5. /\ Residue(stream, command, N, cuts)
      /\ \A p \in N + 1 .. W : stream[p] # LF
      /\ aux_init > 1 => command = <<>> /\ stream[N] = LF
  BY DEF LinesInv, Framed
<1>6. PICK f \in 0 .. W :
        /\ IF Len(executed) = 0 THEN f = 0 ELSE Ends(stream, Len(executed), f)
        /\ f = 0 \/ stream[f] = LF
        /\ \A p \in f + 1 .. W : stream[p] # LF
  BY LineAtHand
<1>7. Ends(stream, i, W + 1)
  BY LineAtHand
<1> DEFINE E == IF W >= f + 1 /\ stream[W] = CR THEN W - 1 ELSE W
<1>8. S = SubSeq(stream, f + 1, E)
  <2>1. i \in Nat \ {0} /\ (i = 1 <=> Len(executed) = 0) /\ i - 1 = Len(executed)
    BY <1>2
  <2>2. IF i = 1 THEN f = 0 ELSE Ends(stream, i - 1, f)
    BY <1>6, <2>1
  <2>3. LineOf(stream, i) = SubSeq(stream, f + 1, IF W >= f + 1 /\ stream[W] = CR THEN W - 1 ELSE W)
    <3>1. f \in Nat /\ W \in Nat /\ Len(stream) \in Nat /\ i \in Nat \ {0}
      BY <1>3, <2>1
    <3> HIDE DEF W, i
    <3> QED
      BY <3>1, <1>7, <2>2, LineBetween
  <2> QED
    BY <2>3, SentIsLineOf
<1>9. PICK m \in 0 .. N :
        /\ command = SubSeq(stream, m + 1, N)
        /\ \A p \in m + 1 .. N : stream[p] # LF
        /\ cuts < 2 => m = 0 \/ stream[m] = LF
        /\ cuts = 0 => m = N
        /\ cuts = 1 => m < N /\ stream[N] # CR
  BY <1>5 DEF Residue
<1> HIDE DEF W, N, i, S
<1>10. f <= m
  <2>1. SUFFICES ASSUME m < f PROVE FALSE
    BY <1>3
  <2>2. stream[f] = LF /\ (f \in m + 1 .. N \/ f \in N + 1 .. W)
    BY <1>3, <1>6, <2>1
  <2> QED
    BY <1>5, <1>9, <2>2
<1>11. cuts < 2 => m = f
  <2>1. SUFFICES ASSUME cuts < 2, f < m PROVE FALSE
    BY <1>3, <1>10
  <2>2. stream[m] = LF /\ m \in f + 1 .. W
    BY <1>3, <1>9, <2>1
  <2> QED
    BY <1>6, <2>2
<1>12. E \in Nat /\ f <= E /\ E <= W /\ W <= Len(stream) /\ f \in Nat
  <2>1. f \in Nat /\ f <= W /\ W \in Nat /\ W <= Len(stream)
    BY <1>2, <1>3
  <2>2. CASE W >= f + 1 /\ stream[W] = CR
    BY <2>1, <2>2
  <2>3. CASE ~(W >= f + 1 /\ stream[W] = CR)
    BY <2>1, <2>3
  <2> QED
    BY <2>2, <2>3
<1>13. ASSUME aux_init < aux PROVE Goal
  <2>1. W - 1 \in Nat /\ N <= W - 1 /\ W >= f + 1
    BY <1>2, <1>3, <1>9, <1>10, <1>13
  <2>2. buff[aux - 1] = stream[W] /\ aux > 1
    <3>1. aux - 1 \in 1 .. Len(buff) - 1 /\ taken - Len(buff) + 1 + (aux - 1) = W
      BY <1>2, <1>13 DEF W, Walked
    <3>2. buff[aux - 1] = stream[taken - Len(buff) + 1 + (aux - 1)]
      BY <1>3, <3>1
    <3>3. aux > 1
      BY <1>2, <1>13
    <3> QED
      BY <3>1, <3>2, <3>3
  <2>3. /\ TextEnd = E - (taken - Len(buff) + 1) /\ TextEnd \in Nat /\ aux_init - 1 <= TextEnd
        /\ TextEnd <= Len(buff) /\ N <= E
    <3>1. W = taken - Len(buff) + aux /\ N = taken - Len(buff) + aux_init
      BY DEF W, Walked, N, Start
    <3>2. \/ TextEnd = aux - 2 /\ E = W - 1
          \/ TextEnd = aux - 1 /\ E = W
      <4>1. CASE stream[W] = CR
        BY <2>1, <2>2, <4>1 DEF TextEnd
      <4>2. CASE stream[W] # CR
        BY <2>1, <2>2, <4>2 DEF TextEnd
      <4> QED
        BY <4>1, <4>2
    <3>3. /\ aux \in Nat /\ aux_init \in Nat /\ aux_init >= 1 /\ aux_init < aux
          /\ Len(buff) \in Nat /\ aux + 1 <= Len(buff) /\ taken \in Nat
          /\ N \in Nat /\ W \in Nat /\ N <= W - 1
      BY <1>2, <1>3, <1>13, <2>1
    <3> HIDE DEF E
    <3> QED
      BY <3>1, <3>2, <3>3
  <2> DEFINE a == aux_init - 1
  <2>4. /\ a \in Nat /\ a <= TextEnd /\ TextEnd - a = E - N
        /\ \A k \in 1 .. TextEnd - a : buff[a + k] = stream[N + k]
    <3>1. N = taken - Len(buff) + aux_init
      BY DEF N, Start
    <3>2. a \in Nat /\ a <= TextEnd /\ TextEnd - a = E - N
      BY <1>2, <1>3, <1>12, <2>3, <3>1
    <3>3. ASSUME NEW k \in 1 .. TextEnd - a PROVE buff[a + k] = stream[N + k]
      <4>1. /\ a + k \in 1 .. Len(buff) - 1
            /\ taken - Len(buff) + 1 + (a + k) = N + k
        <5>1. TextEnd <= Len(buff) - 1
          <6> HIDE DEF E
          <6>1. E \in Nat /\ taken \in Nat /\ Len(buff) \in Nat /\ E <= W /\ W <= taken /\ W \in Nat
            BY <1>2, <1>3, <1>12
          <6>2. E <= taken
            BY <6>1
          <6>3. TextEnd = E - (taken - Len(buff) + 1)
            BY <2>3
          <6> QED
            BY <6>1, <6>2, <6>3
        <5> QED
          BY <1>2, <1>3, <3>1, <3>2, <2>3, <5>1
      <4> QED
        BY <1>3, <4>1
    <3> QED
      BY <3>2, <3>3
  <2>5. SubSeq(buff, a + 1, TextEnd) = SubSeq(stream, N + 1, E)
    <3> HIDE DEF a, E
    <3>1. N <= E /\ E <= Len(stream) /\ N \in Nat /\ E \in Nat
      BY <1>3, <1>12, <2>3
    <3>2. buff \in Seq(Byte) /\ stream \in Seq(Byte)
      BY <1>2, <1>3
    <3>3. TextEnd \in Nat /\ TextEnd <= Len(buff)
      BY <2>3
    <3>4. /\ a \in Nat /\ a <= TextEnd /\ TextEnd - a = E - N
          /\ \A k \in 1 .. TextEnd - a : buff[a + k] = stream[N + k]
      BY <2>4
    <3> DEFINE x == SubSeq(buff, a + 1, TextEnd)
               y == SubSeq(stream, N + 1, E)
    <3>5. x \in Seq(Byte) /\ Len(x) = TextEnd - a /\ \A k \in 1 .. TextEnd - a : x[k] = buff[a + k]
      BY <3>2, <3>3, <3>4, Part
    <3>6. y \in Seq(Byte) /\ Len(y) = E - N /\ \A k \in 1 .. E - N : y[k] = stream[N + k]
      BY <3>1, <3>2, Part
    <3> HIDE DEF x, y
    <3>7. x = y
      BY <3>4, <3>5, <3>6, SameElements
    <3> QED
      BY <3>7 DEF x, y
  <2>6. Whole = SubSeq(stream, m + 1, E)
    <3>1. a + 1 = aux_init
      BY <1>2
    <3>2. Whole = SubSeq(stream, m + 1, N) \o SubSeq(stream, N + 1, E)
      BY <1>9, <2>5, <3>1 DEF Whole
    <3> HIDE DEF E
    <3>3. m \in Nat /\ m <= N /\ N <= E /\ E <= Len(stream)
      BY <1>3, <1>12, <2>3
    <3> QED
      BY <1>3, <1>12, <3>2, <3>3, PartsJoin
  <2>7. EndsWith(S, Whole)
    <3> HIDE DEF E
    <3>1. f \in Nat /\ m \in Nat /\ m <= E /\ E <= Len(stream)
      BY <1>3, <1>12, <2>3
    <3> QED
      BY <1>3, <1>8, <1>10, <1>12, <2>6, <3>1, PartEnds
  <2>8. cuts < 2 => Whole = S
    BY <1>8, <1>11, <2>6
  <2> QED
    BY <2>7, <2>8 DEF IsTail
<1>14. ASSUME aux_init = aux, aux > 1 PROVE Goal
  <2>1. W = N /\ command = <<>> /\ stream[W] = LF /\ W # 0
    <3>1. W = N
      BY <1>3, <1>14 DEF W, N, Walked, Start
    <3>2. command = <<>> /\ stream[W] = LF
      BY <1>5, <1>14, <3>1
    <3>3. W >= 1
      BY <1>2, <1>14, InsideFacts DEF W, Walked, Parsing
    <3> QED
      BY <3>1, <3>2, <3>3
  <2>2. f = W /\ E = W
    BY <1>3, <1>6, <2>1
  <2>3. Whole = <<>>
    <3>1. aux - 1 \in 1 .. Len(buff) - 1 /\ taken - Len(buff) + 1 + (aux - 1) = W
      BY <1>2, <1>14 DEF W, Walked
    <3>2. buff[aux - 1] = stream[W]
      BY <1>3, <3>1
    <3>3. TextEnd = aux - 1
      BY <2>1, <3>2, FramingAssumption DEF TextEnd
    <3>4. SubSeq(buff, (aux - 1) + 1, aux - 1) = <<>>
      <4>1. aux - 1 \in Nat /\ aux - 1 <= Len(buff)
        BY <1>2, <1>14
      <4>2. /\ SubSeq(buff, (aux - 1) + 1, aux - 1) \in Seq(Byte)
            /\ Len(SubSeq(buff, (aux - 1) + 1, aux - 1)) = (aux - 1) - (aux - 1)
        BY <1>2, <4>1, Part
      <4> QED
        BY <1>2, <4>2
    <3>5. (aux - 1) + 1 = aux_init
      BY <1>2, <1>14
    <3> QED
      BY <2>1, <3>3, <3>4, <3>5 DEF Whole
  <2>4. S = <<>>
    <3>1. S = SubSeq(stream, W + 1, W)
      BY <1>8, <2>2
    <3>2. SubSeq(stream, W + 1, W) \in Seq(Byte) /\ Len(SubSeq(stream, W + 1, W)) = W - W
      BY <1>3, Part
    <3> QED
      BY <1>3, <3>1, <3>2
  <2>5. EndsWith(S, Whole)
    <3>1. SubSeq(stream, W + 1, W) = S
      BY <1>8, <2>2
    <3>2. EndsWith(S, S)
      <4>1. W \in Nat /\ W <= W /\ W <= Len(stream) /\ stream \in Seq(Byte)
        BY <1>3, <1>12
      <4>2. EndsWith(SubSeq(stream, W + 1, W), SubSeq(stream, W + 1, W))
        BY <4>1, PartEnds
      <4> QED
        BY <3>1, <4>2
    <3> QED
      BY <2>3, <2>4, <3>2
  <2> QED
    BY <2>3, <2>4, <2>5 DEF IsTail
<1>15. ASSUME aux_init = aux, ~(aux > 1) PROVE Goal
  <2>1. W = N
    BY <1>3, <1>15 DEF W, N, Walked, Start
  <2>2. aux = 1 /\ aux_init = 1 /\ TextEnd = 0
    BY <1>2, <1>15 DEF TextEnd
  <2>3. SubSeq(buff, 0 + 1, 0) = <<>>
    <3>1. SubSeq(buff, 0 + 1, 0) \in Seq(Byte) /\ Len(SubSeq(buff, 0 + 1, 0)) = 0 - 0
      BY <1>2, Part
    <3> QED
      BY <3>1
  <2>4. Whole = SubSeq(stream, m + 1, W)
    <3>0. 0 + 1 = 1
      OBVIOUS
    <3>1. Whole = command \o <<>>
      BY <2>2, <2>3, <3>0 DEF Whole
    <3> QED
      BY <1>2, <1>9, <2>1, <3>1
  <2>5. EndsWith(SubSeq(stream, f + 1, W), Whole)
    <3>1. f \in Nat /\ m \in Nat /\ W \in Nat /\ f <= m /\ m <= W /\ W <= Len(stream)
      BY <1>3, <1>10, <1>12, <2>1
    <3>2. EndsWith(SubSeq(stream, f + 1, W), SubSeq(stream, m + 1, W))
      BY <1>3, <3>1, PartEnds
    <3> QED
      BY <2>4, <3>2
  <2>6. CASE E = W
    <3>1. S = SubSeq(stream, f + 1, W)
      BY <1>8, <2>6
    <3> QED
      BY <1>11, <2>4, <2>5, <3>1 DEF IsTail
  <2>7. CASE W >= f + 1 /\ stream[W] = CR
    <3>1. Append(S, CR) = SubSeq(stream, f + 1, W)
      <4>1. S = SubSeq(stream, f + 1, W - 1) /\ f <= W - 1 /\ W - 1 \in Nat
        BY <1>3, <1>8, <2>7
      <4> DEFINE v == W - 1
                 z == SubSeq(stream, f + 1, W)
                 x == SubSeq(stream, f + 1, v)
      <4>2. z \in Seq(Byte) /\ Len(z) = W - f /\ \A k \in 1 .. W - f : z[k] = stream[f + k]
        BY <1>3, <1>12, Part
      <4>3. x \in Seq(Byte) /\ Len(x) = W - 1 - f /\ \A k \in 1 .. W - 1 - f : x[k] = stream[f + k]
        <5>1. f \in Nat /\ v \in Nat /\ f <= v /\ v <= Len(stream)
          BY <1>3, <1>12, <4>1
        <5>2. v - f = W - 1 - f
          OBVIOUS
        <5> HIDE DEF v
        <5>3. x \in Seq(Byte) /\ Len(x) = v - f /\ \A k \in 1 .. v - f : x[k] = stream[f + k]
          BY <1>3, <5>1, Part
        <5> QED
          BY <5>2, <5>3
      <4> HIDE DEF z, x
      <4>4. /\ Append(x, CR) \in Seq(Byte) /\ Len(Append(x, CR)) = Len(x) + 1
            /\ \A k \in 1 .. Len(x) + 1 : Append(x, CR)[k] = IF k = Len(x) + 1 THEN CR ELSE x[k]
        BY <4>3, FramingAssumption
      <4>5. ASSUME NEW k \in 1 .. W - f PROVE Append(x, CR)[k] = z[k]
        <5>1. CASE k = W - f
          <6>1. f + k = W /\ k = Len(x) + 1 /\ k \in 1 .. Len(x) + 1
            BY <1>3, <4>1, <4>3, <5>1
          <6> QED
            BY <2>7, <4>2, <4>4, <6>1
        <5>2. CASE k # W - f
          <6>1. k \in 1 .. W - 1 - f /\ k # Len(x) + 1 /\ k \in 1 .. Len(x) + 1
            BY <1>3, <4>1, <4>3, <5>2
          <6> QED
            BY <4>2, <4>3, <4>4, <6>1
        <5> QED
          BY <5>1, <5>2
      <4>6. Len(Append(x, CR)) = Len(z) /\ Len(z) = W - f
        BY <1>3, <4>2, <4>3, <4>4
      <4>7. Append(x, CR) = z
        BY <4>2, <4>4, <4>5, <4>6, SameElements
      <4> QED
        BY <4>1, <4>7 DEF x, z
    <3>2. ~(cuts < 2)
      BY <1>2, <1>3, <1>9, <1>11, <2>1, <2>7
    <3> QED
      BY <2>5, <3>1, <3>2 DEF IsTail
  <2> QED
    BY <2>6, <2>7
<1> QED
  BY <1>2, <1>4, <1>13, <1>14, <1>15 DEF S, i

(* Steps that execute no command leave those executed as they were.          *)
LEMMA HistoryKeeps ==
    ASSUME IInv, LinesInv, stream' \in Seq(Byte), Len(stream) <= Len(stream'),
           \A k \in 1 .. Len(stream) : stream'[k] = stream[k],
           UNCHANGED <<executed, tidy>>
    PROVE  Ended' /\ TailKept' /\ LinesExact'
<1>1. /\ stream \in Seq(Byte) /\ executed \in Seq(Seq(Byte)) /\ tidy \in Seq(BOOLEAN)
      /\ Len(executed) \in Nat /\ DOMAIN executed = 1 .. Len(executed)
  <2>1. stream \in Seq(Byte \ {NUL}) /\ executed \in Seq(Seq(Byte)) /\ tidy \in Seq(BOOLEAN)
    BY DEF IInv, TypeOK
  <2> QED
    BY <2>1
<1>2. Ended /\ TailKept /\ LinesExact
  BY DEF LinesInv
<1>3. ASSUME NEW i \in 1 .. Len(executed)
      PROVE  (\E p \in 1 .. Len(stream') : Ends(stream', i, p)) /\ SentLine(i)' = SentLine(i)
  <2>1. PICK p \in 1 .. Len(stream) : Ends(stream, i, p)
    BY <1>2 DEF Ended
  <2>2. Ends(stream', i, p)
    BY <1>1, <2>1, LinesGrow
  <2>3. i > 1 => \E q : Ends(stream, i - 1, q)
    <3>1. i > 1 => i - 1 \in 1 .. Len(executed)
      BY <1>1
    <3> QED
      BY <3>1, <1>2 DEF Ended
  <2>4. i \in Nat \ {0}
    BY <1>1
  <2>5. LineOf(stream', i) = LineOf(stream, i)
    BY <1>1, <2>1, <2>3, <2>4, LinesGrow
  <2> QED
    BY <2>2, <2>5, SentIsLineOf DEF Ends
<1>4. Ended'
  BY <1>2, <1>3 DEF Ended
<1>5. TailKept'
  <2>1. SUFFICES ASSUME NEW i \in 1 .. Len(executed)
                 PROVE  \/ EndsWith(SentLine(i)', executed'[i])
                        \/ EndsWith(Append(SentLine(i)', CR), executed'[i])
    BY <1>1 DEF TailKept
  <2> QED
    BY <1>1, <1>2, <1>3 DEF TailKept
<1>6. LinesExact'
  <2>1. SUFFICES ASSUME NEW i \in 1 .. Len(executed), tidy'[i] PROVE executed'[i] = SentLine(i)'
    BY <1>1 DEF LinesExact
  <2> QED
    BY <1>1, <1>2, <1>3, <2>1 DEF LinesExact
<1> QED
  BY <1>4, <1>5, <1>6

(* Nothing was executed at first.                                           *)
LEMMA InitLines == Init => LinesInv
<1> SUFFICES ASSUME Init PROVE LinesInv
  OBVIOUS
<1>1. /\ stream = <<>> /\ taken = 0 /\ recv_buffer = <<>> /\ executed = <<>> /\ cuts = 0
      /\ tidy = <<>> /\ pc = "poll"
  BY DEF Init
<1>2. Residue(stream, recv_buffer, taken, cuts)
  <2>1. SubSeq(<<>>, 0 + 1, 0) = <<>>
    OBVIOUS
  <2> QED
    BY <1>1, <2>1 DEF Residue
<1>3. Framed
  BY <1>1, <1>2 DEF Framed
<1>4. Ended /\ TailKept /\ LinesExact
  BY <1>1 DEF Ended, TailKept, LinesExact
<1> QED
  BY <1>3, <1>4 DEF LinesInv

(* What the peer adds to the stream changes no line that has ended.         *)
LEMMA SendLines ==
    ASSUME IInv, LinesInv, NEW m \in Messages, Send(m)
    PROVE  LinesInv'
<1>1. /\ m \in Seq(Byte \ {NUL}) /\ stream \in Seq(Byte \ {NUL}) /\ taken \in 0 .. Len(stream)
  BY FramingAssumption DEF IInv, TypeOK
<1>2. /\ stream' = stream \o m
      /\ UNCHANGED <<taken, buff, aux, aux_init, command, recv_buffer, executed, cuts, tidy, pc>>
  BY DEF Send, ghosts
<1>3. /\ stream \in Seq(Byte) /\ stream' \in Seq(Byte) /\ Len(stream) <= Len(stream')
      /\ \A k \in 1 .. Len(stream) : stream'[k] = stream[k] /\ Len(stream) \in Nat
  BY <1>1, <1>2
<1>4. Ended' /\ TailKept' /\ LinesExact'
  BY <1>2, <1>3, HistoryKeeps
<1>5. ASSUME NEW b, NEW c, NEW n \in 0 .. Len(stream), Residue(stream, b, n, c)
      PROVE  Residue(stream', b, n, c)
  BY <1>3, <1>5, LinesGrow
<1>6. CASE pc = "parse"
  <2>1. /\ Start \in 0 .. Len(stream) /\ Start <= Walked /\ Walked <= Len(stream) /\ Start \in Nat
        /\ Walked \in Nat /\ Len(stream) \in Nat
    BY <1>1, <1>6, StartFacts
  <2>2. Start' = Start /\ Walked' = Walked
    BY <1>2 DEF Start, Walked
  <2>3. /\ Len(buff) > 1 /\ Residue(stream, command, Start, cuts)
        /\ \A p \in Start + 1 .. Walked : stream[p] # LF
        /\ aux_init > 1 => command = <<>> /\ stream[Start] = LF
    BY <1>6 DEF LinesInv, Framed
  <2>4. Residue(stream', command, Start, cuts)
    BY <1>5, <2>1, <2>3
  <2>5. \A p \in Start + 1 .. Walked : stream'[p] # LF
    BY <1>3, <2>1, <2>3
  <2>6. aux_init > 1 => stream'[Start] = LF
    <3>1. aux_init > 1 => Start >= 1
      BY <1>1, <1>6, InsideFacts DEF Start, Parsing
    <3> QED
      BY <1>3, <2>1, <2>3, <3>1
  <2>7. Framed'
    BY <1>2, <1>6, <2>2, <2>3, <2>4, <2>5, <2>6 DEF Framed
  <2> QED
    BY <1>4, <2>7 DEF LinesInv
<1>7. CASE pc = "poll"
  <2>1. Residue(stream, recv_buffer, taken, cuts)
    BY <1>7 DEF LinesInv, Framed
  <2>2. Residue(stream', recv_buffer, taken, cuts)
    BY <1>1, <1>5, <2>1
  <2>3. Framed'
    BY <1>2, <1>7, <2>2 DEF Framed
  <2> QED
    BY <1>4, <2>3 DEF LinesInv
<1>8. CASE pc \notin {"parse", "poll"}
  BY <1>2, <1>4, <1>8 DEF LinesInv, Framed
<1> QED
  BY <1>6, <1>7, <1>8

(* A receive takes up what was kept; nothing of the new chunk is walked yet. *)
LEMMA ReceiveLines ==
    ASSUME IInv, LinesInv, NEW n \in 1 .. BUFFER_SIZE - 1, Receive(n)
    PROVE  LinesInv'
<1> DEFINE c == Chunk(n)
<1>1. /\ stream \in Seq(Byte) /\ Len(stream) \in Nat /\ taken \in Nat
      /\ n \in Nat /\ n >= 1 /\ taken + n <= Len(stream) /\ pc = "poll"
  <2>1. stream \in Seq(Byte \ {NUL}) /\ taken \in Nat
    BY DEF IInv, TypeOK
  <2> QED
    BY <2>1, FramingAssumption DEF Receive
<1>2. /\ command' = recv_buffer /\ buff' = Append(c, NUL) /\ taken' = taken + n
      /\ aux' = 1 /\ aux_init' = 1 /\ pc' = "parse"
      /\ UNCHANGED <<stream, executed, cuts, tidy>>
  BY DEF Receive, ghosts
<1>3. c \in Seq(Byte) /\ Len(c) = n
  BY <1>1 DEF Chunk
<1> HIDE DEF c
<1>4. Len(buff') = n + 1
  BY <1>2, <1>3
<1>5. Start' = taken /\ Walked' = taken
  BY <1>1, <1>2, <1>4 DEF Start, Walked
<1>6. Residue(stream, recv_buffer, taken, cuts)
  BY <1>1 DEF LinesInv, Framed
<1>7. \A p \in Start' + 1 .. Walked' : stream'[p] # LF
  BY <1>1, <1>5
<1>8. Framed'
  BY <1>1, <1>2, <1>4, <1>5, <1>6, <1>7 DEF Framed
<1>9. Ended' /\ TailKept' /\ LinesExact'
  BY <1>1, <1>2, HistoryKeeps
<1> QED
  BY <1>8, <1>9 DEF LinesInv

(* A character that is no LF belongs to the line at hand.                   *)
LEMMA CharacterLines == ASSUME IInv, LinesInv, Character PROVE LinesInv'
<1>1. /\ pc = "parse" /\ buff[aux] # LF /\ buff[aux] # NUL
      /\ aux' = aux + 1
      /\ UNCHANGED <<stream, taken, buff, aux_init, command, recv_buffer, executed, cuts, tidy, pc>>
  BY DEF Character, ghosts
<1>2. /\ aux \in Nat /\ buff[aux] = stream[Walked + 1] /\ taken \in Nat /\ Len(buff) \in Nat
  BY <1>1, InsideFacts
<1>3. stream \in Seq(Byte) /\ Len(stream) \in Nat /\ Start \in Nat /\ Walked \in Nat
  BY <1>1, StartFacts
<1>4. Walked' = Walked + 1 /\ Start' = Start
  BY <1>1, <1>2 DEF Walked, Start
<1>5. /\ Len(buff) > 1 /\ Residue(stream, command, Start, cuts)
      /\ \A p \in Start + 1 .. Walked : stream[p] # LF
      /\ aux_init > 1 => command = <<>> /\ stream[Start] = LF
  BY <1>1 DEF LinesInv, Framed
<1>6. \A p \in Start' + 1 .. Walked' : stream'[p] # LF
  <2>1. SUFFICES ASSUME NEW p \in Start + 1 .. Walked + 1 PROVE stream[p] # LF
    BY <1>1, <1>4
  <2>2. CASE p = Walked + 1
    BY <1>1, <1>2, <2>2
  <2>3. CASE p # Walked + 1
    BY <1>3, <1>5, <2>3
  <2> QED
    BY <2>2, <2>3
<1>7. Framed'
  BY <1>1, <1>4, <1>5, <1>6 DEF Framed
<1>8. Ended' /\ TailKept' /\ LinesExact'
  BY <1>1, <1>3, HistoryKeeps
<1> QED
  BY <1>7, <1>8 DEF LinesInv

(* After a line the next one begins, with nothing kept and no cut.           *)
LEMMA LineLines == ASSUME IInv, LinesInv, Line PROVE LinesInv'
<1>1. /\ pc = "parse" /\ buff[aux] = LF
      /\ aux' = aux + 1 /\ aux_init' = aux + 1
      /\ UNCHANGED <<stream, taken, buff, recv_buffer>>
  BY DEF Line
<1>2. /\ stream \in Seq(Byte) /\ Len(stream) \in Nat /\ Walked \in Nat
  BY <1>1, StartFacts
<1>3. CASE Len(Whole) < PREFIX
  <2>1. pc' = "aborted" /\ UNCHANGED <<executed, tidy>>
    BY <1>3 DEF Line, ghosts
  <2>2. Ended' /\ TailKept' /\ LinesExact'
    BY <1>1, <1>2, <2>1, HistoryKeeps
  <2> QED
    BY <2>1, <2>2 DEF LinesInv, Framed
<1>4. CASE ~(Len(Whole) < PREFIX)
  <2> DEFINE n == Len(executed)
  <2>1. /\ pc' \in {"closed", "parse"} /\ executed' = Append(executed, Whole) /\ command' = <<>>
        /\ cuts' = 0 /\ tidy' = Append(tidy, cuts < 2)
    BY <1>4 DEF Line
  <2>2. /\ executed \in Seq(Seq(Byte)) /\ tidy \in Seq(BOOLEAN) /\ n \in Nat /\ Len(tidy) = n
        /\ aux \in Nat /\ taken \in Nat /\ Len(buff) \in Nat /\ aux >= 1
    BY <1>1, InsideFacts DEF IInv, TypeOK, LinesInv, Ended
  <2>3. Ends(stream, n + 1, Walked + 1)
    BY <1>1, LineAtHand
  <2>4. /\ IsTail(SentLine(n + 1), Whole) /\ (cuts < 2 => Whole = SentLine(n + 1))
    BY <1>1, WholeIsTail
  <2>5. ASSUME NEW i PROVE SentLine(i)' = SentLine(i)
    <3>1. SentLine(i)' = LineOf(stream', i) /\ SentLine(i) = LineOf(stream, i)
      BY SentIsLineOf
    <3> QED
      BY <1>1, <3>1
  <2>6. Len(executed') = n + 1 /\ DOMAIN executed' = 1 .. n + 1
    <3>1. Whole \in Seq(Byte)
      <4>1. /\ command \in Seq(Byte) /\ buff \in Seq(Byte) /\ aux_init \in Nat /\ aux_init >= 1
            /\ aux <= Len(buff)
        BY <1>1, InsideFacts DEF Parsing
      <4>2. TextEnd \in Int /\ TextEnd <= Len(buff)
        BY <2>2, <4>1 DEF TextEnd
      <4>3. SubSeq(buff, aux_init, TextEnd) \in Seq(Byte)
        BY <4>1, <4>2
      <4> QED
        BY <4>1, <4>3 DEF Whole
    <3> QED
      BY <2>1, <2>2, <3>1
  <2>7. /\ Len(tidy') = n + 1
        /\ executed'[n + 1] = Whole /\ tidy'[n + 1] = (cuts < 2)
        /\ \A i \in 1 .. n : executed'[i] = executed[i] /\ tidy'[i] = tidy[i]
    BY <2>1, <2>2
  <2>8. Ended'
    <3>1. SUFFICES ASSUME NEW i \in 1 .. n + 1 PROVE \E p \in 1 .. Len(stream) : Ends(stream, i, p)
      BY <1>1, <2>6, <2>7 DEF Ended
    <3>2. CASE i = n + 1
      BY <2>3, <3>2 DEF Ends
    <3>3. CASE i # n + 1
      <4>1. i \in 1 .. n
        BY <2>2, <3>3
      <4> QED
        BY <4>1 DEF LinesInv, Ended
    <3> QED
      BY <3>2, <3>3
  <2>9. ASSUME NEW i \in 1 .. n + 1
        PROVE  IsTail(SentLine(i), executed'[i]) /\ (tidy'[i] => executed'[i] = SentLine(i))
    <3>1. CASE i = n + 1
      BY <2>4, <2>7, <3>1
    <3>2. CASE i # n + 1
      <4>1. i \in 1 .. n /\ i \in DOMAIN executed
        BY <2>2, <3>2
      <4> QED
        BY <2>7, <4>1 DEF LinesInv, TailKept, LinesExact, IsTail
    <3> QED
      BY <3>1, <3>2
  <2>10. TailKept'
    <3>1. SUFFICES ASSUME NEW i \in 1 .. n + 1
                   PROVE  \/ EndsWith(SentLine(i)', executed'[i])
                          \/ EndsWith(Append(SentLine(i)', CR), executed'[i])
      BY <2>6 DEF TailKept
    <3> QED
      BY <2>5, <2>9 DEF IsTail
  <2>11. LinesExact'
    <3>1. SUFFICES ASSUME NEW i \in 1 .. n + 1, tidy'[i] PROVE executed'[i] = SentLine(i)'
      BY <2>6 DEF LinesExact
    <3> QED
      BY <2>5, <2>9, <3>1
  <2>12. Framed'
    <3>1. Start' = Walked + 1 /\ Walked' = Walked + 1
      BY <1>1, <2>2 DEF Start, Walked
    <3>2. stream[Walked + 1] = LF /\ Walked + 1 <= Len(stream)
      BY <2>3 DEF Ends
    <3>3. Residue(stream, <<>>, Walked + 1, 0)
      <4> DEFINE q == Walked + 1
      <4>1. q \in Nat /\ q <= Len(stream) /\ stream[q] = LF
        BY <1>2, <3>2
      <4> HIDE DEF q
      <4>2. SubSeq(stream, q + 1, q) \in Seq(Byte) /\ Len(SubSeq(stream, q + 1, q)) = q - q
        BY <1>2, <4>1, Part
      <4>3. SubSeq(stream, q + 1, q) = <<>>
        BY <4>1, <4>2
      <4>4. Residue(stream, <<>>, q, 0)
        BY <4>1, <4>3 DEF Residue
      <4> QED
        BY <4>4 DEF q
    <3>4. \A p \in Start' + 1 .. Walked' : stream'[p] # LF
      BY <1>2, <3>1
    <3>5. Len(buff) > 1
      BY <1>1 DEF LinesInv, Framed
    <3> QED
      BY <1>1, <2>1, <3>1, <3>2, <3>3, <3>4, <3>5 DEF Framed
  <2> QED
    BY <2>8, <2>10, <2>11, <2>12 DEF LinesInv
<1> QED
  BY <1>3, <1>4

(* At the end of a chunk the unfinished line is what follows the last LF of   *)
(* it; what was kept before is dropped, and cuts tells.                      *)
LEMMA EndLines == ASSUME IInv, LinesInv, EndOfChunk PROVE LinesInv'
<1> DEFINE N == Start
<1>1. /\ pc = "parse" /\ buff[aux] = NUL
      /\ recv_buffer' = recv_buffer \o SubSeq(buff, aux_init, aux - 1)
      /\ cuts' = CutsNow /\ pc' = "poll"
      /\ UNCHANGED <<stream, taken, buff, aux, aux_init, executed, tidy>>
  BY DEF EndOfChunk
<1>2. /\ Parsing /\ buff \in Seq(Byte) /\ Len(buff) \in Nat
      /\ aux \in Nat /\ aux_init \in Nat /\ aux_init >= 1 /\ taken \in Nat /\ aux = Len(buff)
      /\ cuts \in 0 .. 2
  BY <1>1, InsideFacts DEF IInv, TypeOK
<1>3. /\ stream \in Seq(Byte) /\ Len(stream) \in Nat /\ taken <= Len(stream) /\ N \in Nat
      /\ \A k \in 1 .. Len(buff) - 1 : buff[k] = stream[taken - Len(buff) + 1 + k]
  BY <1>1, StartFacts
<1>4. /\ Len(buff) > 1 /\ Residue(stream, command, N, cuts)
      /\ \A p \in N + 1 .. Walked : stream[p] # LF
      /\ aux_init > 1 => command = <<>> /\ stream[N] = LF
  BY <1>1 DEF LinesInv, Framed
<1>5. recv_buffer = <<>> /\ aux_init <= aux
  BY <1>2 DEF Parsing
<1>6. Walked = taken /\ N = taken - aux + aux_init /\ N <= taken
  BY <1>2, <1>5 DEF Walked, Start
<1> HIDE DEF N
<1>7. recv_buffer' = SubSeq(stream, N + 1, taken)
  <2> DEFINE a == aux_init - 1
             e == aux - 1
             r == SubSeq(buff, a + 1, e)
  <2>1. /\ a \in Nat /\ e \in Nat /\ a <= e /\ e <= Len(buff) /\ e - a = taken - N
        /\ a + 1 = aux_init
    BY <1>2, <1>3, <1>5, <1>6
  <2>2. ASSUME NEW k \in 1 .. e - a PROVE buff[a + k] = stream[N + k]
    <3>1. a + k \in 1 .. Len(buff) - 1 /\ taken - Len(buff) + 1 + (a + k) = N + k
      BY <1>2, <1>3, <1>5, <1>6
    <3> QED
      BY <1>3, <3>1
  <2> HIDE DEF a, e
  <2>3. r = SubSeq(stream, N + 1, taken)
    <3>1. buff \in Seq(Byte) /\ stream \in Seq(Byte) /\ N \in Nat /\ taken \in Nat
      BY <1>2, <1>3
    <3>2. a \in Nat /\ e \in Nat /\ a <= e /\ N <= taken /\ e - a = taken - N
      BY <1>6, <2>1
    <3>3. e <= Len(buff) /\ taken <= Len(stream)
      BY <1>3, <2>1
    <3>4. \A k \in 1 .. e - a : buff[a + k] = stream[N + k]
      BY <2>2
    <3> DEFINE y == SubSeq(stream, N + 1, taken)
    <3>5. r \in Seq(Byte) /\ Len(r) = e - a /\ \A k \in 1 .. e - a : r[k] = buff[a + k]
      BY <3>1, <3>2, <3>3, Part
    <3>6. y \in Seq(Byte) /\ Len(y) = taken - N /\ \A k \in 1 .. taken - N : y[k] = stream[N + k]
      BY <3>1, <3>2, <3>3, Part
    <3> HIDE DEF r, y
    <3>7. r = y
      BY <3>2, <3>4, <3>5, <3>6, SameElements
    <3> QED
      BY <3>7 DEF y
  <2>4. r \in Seq(Byte)
    BY <1>2, <2>1, Part
  <2>5. recv_buffer' = <<>> \o r
    BY <1>1, <1>5, <2>1 DEF e
  <2> HIDE DEF r
  <2>6. recv_buffer' = r
    BY <2>4, <2>5
  <2> QED
    BY <2>3, <2>6
<1>8. \A p \in N + 1 .. taken : stream[p] # LF
  BY <1>4, <1>6
<1>9. Residue(stream, recv_buffer', taken, cuts')
  <2>1. CASE aux_init = aux
    <3>1. N = taken /\ cuts' = cuts /\ command = <<>>
      BY <1>1, <1>2, <1>3, <1>4, <1>6, <2>1 DEF CutsNow
    <3>2. SubSeq(stream, taken + 1, taken) = <<>>
      <4>1. /\ SubSeq(stream, taken + 1, taken) \in Seq(Byte)
            /\ Len(SubSeq(stream, taken + 1, taken)) = taken - taken
        BY <1>2, <1>3, Part
      <4> QED
        BY <1>2, <4>1
    <3> QED
      BY <1>4, <1>7, <3>1, <3>2
  <2>2. CASE aux_init # aux
    <3>1. N < taken /\ N \in 0 .. taken
      BY <1>2, <1>3, <1>5, <1>6, <2>2
    <3>2. buff[aux - 1] = stream[taken]
      <4>1. aux - 1 \in 1 .. Len(buff) - 1 /\ taken - Len(buff) + 1 + (aux - 1) = taken
        BY <1>2, <1>4
      <4>2. buff[aux - 1] = stream[taken - Len(buff) + 1 + (aux - 1)]
        BY <1>3, <4>1
      <4> QED
        BY <4>1, <4>2
    <3>3. cuts' = IF cuts = 0 /\ stream[taken] # CR THEN 1 ELSE 2
      BY <1>1, <2>2, <3>2 DEF CutsNow
    <3>4. cuts = 0 => N = 0 \/ stream[N] = LF
      BY <1>4 DEF Residue
    <3>5. /\ cuts' < 2 => N = 0 \/ stream[N] = LF
          /\ cuts' # 0
          /\ cuts' = 1 => stream[taken] # CR
      BY <3>3, <3>4
    <3> QED
      BY <1>7, <1>8, <3>1, <3>5 DEF Residue
  <2> QED
    BY <2>1, <2>2
<1>10. Framed'
  BY <1>1, <1>9 DEF Framed
<1>11. Ended' /\ TailKept' /\ LinesExact'
  BY <1>1, <1>3, HistoryKeeps
<1> QED
  BY <1>10, <1>11 DEF LinesInv

(* Every step keeps the second invariant.                                   *)
LEMMA NextLines == IInv /\ LinesInv /\ [Next]_vars => LinesInv'
<1> SUFFICES ASSUME IInv, LinesInv, [Next]_vars PROVE LinesInv'
  OBVIOUS
<1>1. CASE UNCHANGED vars
  <2>1. Framed'
    BY <1>1 DEF LinesInv, Framed, Start, Walked, vars, ghosts
  <2>2. stream \in Seq(Byte) /\ UNCHANGED <<stream, executed, tidy>>
    <3>1. stream \in Seq(Byte \ {NUL})
      BY DEF IInv, TypeOK
    <3> QED
      BY <1>1, <3>1 DEF vars, ghosts
  <2>3. Ended' /\ TailKept' /\ LinesExact'
    BY <2>2, HistoryKeeps
  <2> QED
    BY <2>1, <2>3 DEF LinesInv
<1>2. ASSUME NEW m \in Messages, Send(m) PROVE LinesInv'
  BY <1>2, SendLines
<1>3. ASSUME NEW n \in 1 .. BUFFER_SIZE - 1, Receive(n) PROVE LinesInv'
  BY <1>3, ReceiveLines
<1>4. CASE Character
  BY <1>4, CharacterLines
<1>5. CASE Line
  BY <1>5, LineLines
<1>6. CASE EndOfChunk
  BY <1>6, EndLines
<1> QED
  BY <1>1, <1>2, <1>3, <1>4, <1>5, <1>6 DEF Next, Parse

(* It holds in every behaviour.                                             *)
LEMMA LinesInvariance == Spec => []LinesInv
<1>1. Init => IInv /\ LinesInv
  BY InitIInv, InitLines
<1>2. (IInv /\ LinesInv) /\ [Next]_vars => (IInv /\ LinesInv)'
  BY NextIInv, NextLines
<1> QED
  BY <1>1, <1>2, PTL DEF Spec

(* Wherever TCP cuts the stream, a command executed (pop3.c:791) is an end of *)
(* its line, with or without the CR: never bytes of another line.            *)
THEOREM CommandsAreTails == Spec => []TailKept
<1>1. LinesInv => TailKept
  BY DEF LinesInv
<1> QED
  BY <1>1, LinesInvariance, PTL

(* A line cut at most once, not between its CR and LF, is executed whole: what *)
(* handle_client keeps for the next receive (pop3.c:1066) is enough for that. *)
THEOREM TidyLinesExact == Spec => []LinesExact
<1>1. LinesInv => LinesExact
  BY DEF LinesInv
<1> QED
  BY <1>1, LinesInvariance, PTL

=============================================================================
