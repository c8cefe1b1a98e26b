----------------------------- MODULE LineFraming -----------------------------
(***************************************************************************)
(* How handle_client (pop3.c) cuts the byte stream of one connection into   *)
(* command lines: it receives what is there into buff, walks it character    *)
(* by character, and keeps the unfinished rest in recv_buffer for the next    *)
(* call.  command starts as what recv_buffer held; every complete line ends   *)
(* in command and is executed.  TCP may cut the stream anywhere.              *)
(*                                                                           *)
(* One step is one receive, one character, one line or the end of a chunk.   *)
(* What the commands do is Pop3Session; a receive that fails is ClientTable.  *)
(***************************************************************************)
EXTENDS Integers, Sequences, FiniteSets

CONSTANTS Byte, CR, LF, NUL,   \* characters, and the three that matter
          Messages,            \* what a peer may send at once
          MaxSent,             \* bound: the bytes a peer sends
          BUFFER_SIZE,         \* the array a receive fills, terminator included
          PREFIX,              \* the length of a command's name: 4
          QuitLine             \* the name of QUIT

ASSUME FramingAssumption ==
    /\ {CR, LF, NUL} \subseteq Byte
    /\ CR # LF /\ CR # NUL /\ LF # NUL
    /\ Messages \subseteq Seq(Byte \ {NUL})
    /\ MaxSent \in Nat
    /\ BUFFER_SIZE \in Nat /\ BUFFER_SIZE > 1
    /\ PREFIX \in Nat
    /\ QuitLine \in Seq(Byte)

VARIABLES stream,              \* what the peer has sent
          taken,               \* how much of it was received
          buff, aux, aux_init, \* the chunk, the character, the start of its line
          command, recv_buffer,
          executed,            \* ghost: the lines executed, in order
          cuts,                \* ghost: receives that ended inside the line at hand; 2
                               \* stands for more, or for one between its CR and LF
          tidy,                \* ghost: of each line executed, whether cuts was less than 2
          pc                   \* "poll" outside handle_client, "parse" inside

ghosts == <<executed, cuts, tidy>>
vars   == <<stream, taken, buff, aux, aux_init, command, recv_buffer, ghosts, pc>>

TypeOK ==
    /\ stream \in Seq(Byte \ {NUL})
    /\ taken \in 0 .. Len(stream)
    /\ buff \in Seq(Byte) /\ aux \in Nat \ {0} /\ aux_init \in Nat \ {0}
    /\ command \in Seq(Byte) /\ recv_buffer \in Seq(Byte)
    /\ executed \in Seq(Seq(Byte))
    /\ cuts \in 0 .. 2 /\ tidy \in Seq(BOOLEAN)
    /\ pc \in {"poll", "parse", "closed", "aborted"}

Init ==
    /\ stream = <<>> /\ taken = 0
    /\ buff = <<>> /\ aux = 1 /\ aux_init = 1
    /\ command = <<>> /\ recv_buffer = <<>>
    /\ executed = <<>> /\ cuts = 0 /\ tidy = <<>>
    /\ pc = "poll"

Send(m) ==
    /\ Len(stream) + Len(m) <= MaxSent
    /\ stream' = stream \o m
    /\ UNCHANGED <<taken, buff, aux, aux_init, command, recv_buffer, ghosts, pc>>

Chunk(n) == SubSeq(stream, taken + 1, taken + n)

(* Faulty variant: the residue kept after it was used.                       *)
ReceiveKeepsResidue(n) ==
    /\ pc = "poll" /\ n \in 1 .. BUFFER_SIZE - 1 /\ taken + n <= Len(stream)
    /\ command' = recv_buffer
    /\ buff' = Append(Chunk(n), NUL) /\ taken' = taken + n
    /\ aux' = 1 /\ aux_init' = 1
    /\ pc' = "parse"
    /\ UNCHANGED <<stream, recv_buffer, ghosts>>

Receive(n) ==
    /\ pc = "poll" /\ n \in 1 .. BUFFER_SIZE - 1 /\ taken + n <= Len(stream)
    /\ command' = recv_buffer /\ recv_buffer' = <<>>
    /\ buff' = Append(Chunk(n), NUL) /\ taken' = taken + n
    /\ aux' = 1 /\ aux_init' = 1
    /\ pc' = "parse"
    /\ UNCHANGED <<stream, ghosts>>

Character ==
    /\ pc = "parse" /\ buff[aux] \notin {LF, NUL}
    /\ aux' = aux + 1
    /\ UNCHANGED <<stream, taken, buff, aux_init, command, recv_buffer, ghosts, pc>>

(* Where the text of the line before aux ends: a CR just before is dropped.  *)
TextEnd == IF aux > 1 /\ buff[aux - 1] = CR THEN aux - 2 ELSE aux - 1

Whole == command \o SubSeq(buff, aux_init, TextEnd)

IsQuit(l) == SubSeq(l, 1, PREFIX) = QuitLine

(* Faulty variants: command not emptied after a line; a line whose start was  *)
(* kept from before not executed.                                            *)
LineKeepsCommand ==
    /\ pc = "parse" /\ buff[aux] = LF
    /\ IF Len(Whole) < PREFIX
       THEN pc' = "aborted" /\ UNCHANGED <<command, ghosts>>
       ELSE /\ pc' = IF IsQuit(Whole) THEN "closed" ELSE "parse"
            /\ executed' = Append(executed, Whole)
            /\ cuts' = 0 /\ tidy' = Append(tidy, cuts < 2)
            /\ command' = Whole
    /\ aux' = aux + 1 /\ aux_init' = aux + 1
    /\ UNCHANGED <<stream, taken, buff, recv_buffer>>

LineSkipsKept ==
    /\ pc = "parse" /\ buff[aux] = LF
    /\ IF Len(Whole) < PREFIX
       THEN pc' = "aborted" /\ UNCHANGED <<command, ghosts>>
       ELSE /\ pc' = IF IsQuit(Whole) THEN "closed" ELSE "parse"
            /\ executed' = IF command = <<>> THEN Append(executed, Whole) ELSE executed
            /\ cuts' = 0 /\ tidy' = IF command = <<>> THEN Append(tidy, cuts < 2) ELSE tidy
            /\ command' = <<>>
    /\ aux' = aux + 1 /\ aux_init' = aux + 1
    /\ UNCHANGED <<stream, taken, buff, recv_buffer>>

(* A line shorter than a name trips the assertion of buffer_read_adv; QUIT    *)
(* returns, whatever follows it in the chunk.                                *)
Line ==
    /\ pc = "parse" /\ buff[aux] = LF
    /\ IF Len(Whole) < PREFIX
       THEN pc' = "aborted" /\ UNCHANGED <<command, ghosts>>
       ELSE /\ pc' = IF IsQuit(Whole) THEN "closed" ELSE "parse"
            /\ executed' = Append(executed, Whole)
            /\ cuts' = 0 /\ tidy' = Append(tidy, cuts < 2)
            /\ command' = <<>>
    /\ aux' = aux + 1 /\ aux_init' = aux + 1
    /\ UNCHANGED <<stream, taken, buff, recv_buffer>>

(* The receive ended inside a line, unless its last character was an LF.      *)
CutsNow == IF aux_init = aux THEN cuts
           ELSE IF cuts = 0 /\ buff[aux - 1] # CR THEN 1 ELSE 2

(* Faulty variants: the chunk saved whole; a call that never returns with a   *)
(* residue.                                                                  *)
EndOfChunkSavesAll ==
    /\ pc = "parse" /\ buff[aux] = NUL
    /\ recv_buffer' = recv_buffer \o SubSeq(buff, 1, aux - 1)
    /\ command' = <<>> /\ cuts' = CutsNow /\ pc' = "poll"
    /\ UNCHANGED <<stream, taken, buff, aux, aux_init, executed, tidy>>

EndOfChunkWaits ==
    /\ pc = "parse" /\ buff[aux] = NUL /\ aux_init = aux
    /\ command' = <<>> /\ cuts' = CutsNow /\ pc' = "poll"
    /\ UNCHANGED <<stream, taken, buff, aux, aux_init, recv_buffer, executed, tidy>>

(* What follows the last LF of the chunk is kept.  command is a local         *)
(* variable: what recv_buffer had held is gone if no LF came.                *)
EndOfChunk ==
    /\ pc = "parse" /\ buff[aux] = NUL
    /\ recv_buffer' = recv_buffer \o SubSeq(buff, aux_init, aux - 1)
    /\ command' = <<>> /\ cuts' = CutsNow /\ pc' = "poll"
    /\ UNCHANGED <<stream, taken, buff, aux, aux_init, executed, tidy>>

Parse == Character \/ Line \/ EndOfChunk

Next == \/ \E m \in Messages : Send(m)
        \/ \E n \in 1 .. BUFFER_SIZE - 1 : Receive(n)
        \/ Parse

Spec == Init /\ [][Next]_vars

(* A socket with bytes to read is found by every poll, and a call of          *)
(* handle_client runs to its end.                                            *)
Fairness == /\ WF_vars(\E n \in 1 .. BUFFER_SIZE - 1 : Receive(n))
            /\ WF_vars(Parse)

FairSpec == Spec /\ Fairness

-----------------------------------------------------------------------------
(* The lines of the stream, to compare with.                                 *)

LinesIn(n) == {p \in 1 .. n : stream[p] = LF}

EndOf(i) == CHOOSE p \in 1 .. Len(stream) : stream[p] = LF /\ Cardinality(LinesIn(p)) = i

SentLine(i) ==
    LET first == IF i = 1 THEN 1 ELSE EndOf(i - 1) + 1
        last  == EndOf(i) - 1
    IN  SubSeq(stream, first, IF last >= first /\ stream[last] = CR THEN last - 1 ELSE last)

EndsWith(s, t) == \E k \in 0 .. Len(s) : SubSeq(s, k + 1, Len(s)) = t

(* The sizes of pop3.h: recv_buffer and command are 2 * BUFFER_SIZE bytes,    *)
(* and strcpy and strcat write into them unchecked; what command can still    *)
(* take in this chunk fits as well.                                          *)
InBounds ==
    /\ Len(recv_buffer) < BUFFER_SIZE
    /\ pc = "parse" => /\ aux_init <= aux /\ aux <= Len(buff)
                       /\ Len(buff) <= BUFFER_SIZE
                       /\ Len(command) + (Len(buff) - aux_init) < 2 * BUFFER_SIZE

(* However the stream is cut, the commands are executed in the order of the   *)
(* lines, one for each LF read, none twice.                                  *)
LinesCounted ==
    pc = "poll" => Len(executed) = Cardinality(LinesIn(taken))

(* However the stream is cut, a command executed is the end of the line sent, *)
(* or that end and the CR: never bytes of another line.                      *)
TailKept ==
    \A i \in DOMAIN executed : \/ EndsWith(SentLine(i), executed[i])
                               \/ EndsWith(Append(SentLine(i), CR), executed[i])

(* A line that came in at most two parts, its CR and LF in one of them, is    *)
(* executed as it was sent, whatever happened to the lines around it.        *)
LinesExact == \A i \in DOMAIN executed : tidy[i] => executed[i] = SentLine(i)

(* Every line sent is executed at last, unless the connection or the server   *)
(* ends.                                                                     *)
LinesServed ==
    \A i \in 1 .. MaxSent :
        Cardinality(LinesIn(Len(stream))) >= i ~>
            Len(executed) >= i \/ pc \in {"closed", "aborted"}

(* The report (p. 5): CR LF received in two parts was fixed.                 *)
SplitAccepted == \A i \in DOMAIN executed : executed[i] # <<>> => executed[i][Len(executed[i])] # CR

(* pop3.c:1065 keeps an unfinished command for the next receive: none of it   *)
(* is lost.                                                                  *)
NothingLost == \A i \in DOMAIN executed : Len(executed[i]) >= Len(SentLine(i))

(* buffer.h:24: R <= W <= limit; buffer_read_adv asserts it.                 *)
ReadBehindWrite == pc # "aborted"

=============================================================================
