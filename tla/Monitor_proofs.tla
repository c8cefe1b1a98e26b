---------------------------- MODULE Monitor_proofs ----------------------------
(***************************************************************************)
(* Proofs about Monitor, for any number of commands and of forks: the client *)
(* is in step with the server unless an answer was cut or not waited for,    *)
(* and nothing is mixed with a log.                                          *)
(***************************************************************************)
EXTENDS Monitor, TLAPS

-----------------------------------------------------------------------------
(* What the system calls do to the stream.                                  *)

(* recv takes a beginning, that is not empty, and leaves the rest.           *)
LEMMA RecvTakes ==
    ASSUME TypeOK, NEW chunk \in Chunks, recv(chunk)
    PROVE  /\ Len(chunk) \in 1 .. Len(stream)
           /\ \A n \in 1 .. Len(chunk) : chunk[n] = stream[n]
           /\ stream' \in Seq(Pieces) /\ Len(stream') = Len(stream) - Len(chunk)
           /\ \A n \in 1 .. Len(stream') : stream'[n] = stream[Len(chunk) + n]
<1>1. stream \in Seq(Pieces) /\ Len(stream) \in Nat
  BY DEF TypeOK
<1>2. PICK m \in 1 .. Len(stream) : chunk = SubSeq(stream, 1, m)
  BY DEF Chunks
<1>3. m \in Nat /\ m >= 1 /\ m <= Len(stream)
  BY <1>1, <1>2
<1>4. Len(chunk) = m /\ \A n \in 1 .. m : chunk[n] = stream[n]
  BY <1>1, <1>2, <1>3
<1>5. stream' = SubSeq(stream, m + 1, Len(stream))
  BY <1>4 DEF recv
<1> DEFINE rest == SubSeq(stream, m + 1, Len(stream))
<1>6. /\ rest \in Seq(Pieces) /\ Len(rest) = Len(stream) - m
      /\ \A n \in 1 .. Len(stream) - m : rest[n] = stream[m + n]
  BY <1>1, <1>3
<1> HIDE DEF rest
<1>7. stream' = rest
  BY <1>5 DEF rest
<1> QED
  BY <1>3, <1>4, <1>6, <1>7

(* An answer that recv did not cut was read whole.                           *)
LEMMA WholeAnswer ==
    ASSUME TypeOK, NEW chunk \in Chunks, recv(chunk), stream = Answer, ~Cuts(chunk)
    PROVE  stream' = <<>>
<1>1. /\ Len(chunk) \in 1 .. Len(stream)
      /\ \A n \in 1 .. Len(chunk) : chunk[n] = stream[n]
      /\ stream' \in Seq(Pieces) /\ Len(stream') = Len(stream) - Len(chunk)
  BY RecvTakes
<1>2. Len(stream) = 2 /\ stream[1] = "head"
  BY DEF Answer
<1>3. Len(chunk) # 1
  <2>1. SUFFICES ASSUME Len(chunk) = 1 PROVE FALSE
    OBVIOUS
  <2>2. chunk[1] = "head"
    BY <1>1, <1>2, <2>1
  <2> QED
    BY <2>1, <2>2 DEF Cuts
<1>4. Len(chunk) = 2
  BY <1>1, <1>2, <1>3
<1>5. Len(stream') = 0
  BY <1>1, <1>2, <1>4
<1> QED
  BY <1>1, <1>5

(* A sender that is lost takes with it an end of what it sent.               *)
LEMMA GoTypes ==
    ASSUME TypeOK, Go
    PROVE  gone' = TRUE /\ stream' \in Seq(Pieces)
<1>1. stream \in Seq(Pieces) /\ Len(stream) \in Nat
  BY DEF TypeOK
<1>2. PICK n \in 0 .. Len(stream) : stream' = SubSeq(stream, 1, n)
  BY DEF Go
<1>3. SubSeq(stream, 1, n) \in Seq(Pieces)
  BY <1>1
<1> QED
  BY <1>2, <1>3 DEF Go

(* What a child sends, and the answer, are pieces.                           *)
LEMMA SentPieces ==
    /\ Answer \in Seq(Pieces) /\ Len(Answer) = 2 /\ Answer[1] = "head" /\ Answer[2] = "tail"
    /\ <<"text">> \in Seq(Pieces)
    /\ <<"dot", "crlf">> \in Seq(Pieces)
BY DEF Answer, Pieces

-----------------------------------------------------------------------------
(* Every step keeps the types.                                              *)

(* The steps of the client.                                                  *)
LEMMA ClientTypes ==
    ASSUME TypeOK, Client \/ Prompt
    PROVE  TypeOK'
<1>1. requests \in Seq(Lines \cup {"connect"}) /\ stream \in Seq(Pieces)
  BY DEF TypeOK
<1>2. ASSUME NEW chunk \in Chunks, recv(chunk) PROVE stream' \in Seq(Pieces)
  BY <1>2, RecvTakes
<1>3. ASSUME NEW command \in Lines, send(command) \/ SendFails
      PROVE  requests' \in Seq(Lines \cup {"connect"})
  <2>1. Append(requests, command) \in Seq(Lines \cup {"connect"})
    BY <1>1
  <2>2. requests' = requests \/ requests' = Append(requests, command)
    BY <1>3 DEF send, SendFails
  <2> QED
    BY <1>1, <2>1, <2>2
<1>4. CASE recv_initial_response
  <2>1. stream' \in Seq(Pieces)
    BY <1>1, <1>2, <1>4 DEF recv_initial_response, NothingMore
  <2>2. slipped' \in BOOLEAN
    BY <1>4 DEF recv_initial_response, Cuts, TypeOK
  <2> QED
    BY <1>4, <2>1, <2>2 DEF recv_initial_response, TypeOK, server
<1>5. CASE Verify
  <2>1. "other" \in Lines
    BY DEF Lines
  <2>2. requests' \in Seq(Lines \cup {"connect"})
    BY <1>3, <1>5, <2>1 DEF Verify
  <2> QED
    BY <1>5, <2>2 DEF Verify, TypeOK, server
<1>6. CASE Verified
  <2>1. stream' \in Seq(Pieces)
    BY <1>1, <1>2, <1>6 DEF Verified, NothingMore
  <2>2. slipped' \in BOOLEAN
    BY <1>6 DEF Verified, Cuts, TypeOK
  <2> QED
    BY <1>6, <2>1, <2>2 DEF Verified, TypeOK, server
<1>7. CASE Reply
  <2>1. stream' \in Seq(Pieces)
    BY <1>1, <1>2, <1>7 DEF Reply, NothingMore
  <2>2. slipped' \in BOOLEAN
    BY <1>7 DEF Reply, Cuts, TypeOK
  <2> QED
    BY <1>7, <2>1, <2>2 DEF Reply, TypeOK, server
<1>8. CASE Log
  <2>1. stream' \in Seq(Pieces)
    BY <1>1, <1>2, <1>8 DEF Log, NothingMore
  <2>2. slipped' \in BOOLEAN /\ stuck' \in BOOLEAN
    BY <1>8 DEF Log, TypeOK
  <2> QED
    BY <1>8, <2>1, <2>2 DEF Log, TypeOK, server
<1>9. CASE Prompt
  <2>1. PICK line \in Lines : IF line = "QUIT" THEN disconnect_from_server ELSE Send(line)
    BY <1>9 DEF Prompt
  <2>2. "QUIT" \in Lines
    BY DEF Lines
  <2>3. requests' \in Seq(Lines \cup {"connect"})
    BY <1>3, <2>1, <2>2 DEF disconnect_from_server, Send
  <2>4. typed' \in 0 .. MaxTyped
    BY <1>9, MonitorAssumption DEF Prompt, TypeOK
  <2>5. /\ pc' \in {"verify", "log", "reply", "ended", "killed"}
        /\ status' \in {"ONLINE", "OFFLINE"}
        /\ slipped' \in BOOLEAN
    BY <2>1 DEF disconnect_from_server, Send, TypeOK
  <2> QED
    BY <1>9, <2>3, <2>4, <2>5 DEF Prompt, TypeOK, server
<1> QED
  BY <1>4, <1>5, <1>6, <1>7, <1>8, <1>9 DEF Client

(* The steps of the server.                                                  *)
LEMMA ServerTypes ==
    ASSUME TypeOK, handle_client \/ ServerEnds \/ \E k \in Forks : send_file(k)
    PROVE  TypeOK'
<1>1. requests \in Seq(Lines \cup {"connect"}) /\ stream \in Seq(Pieces)
  BY DEF TypeOK
<1>2. /\ children \in [Forks -> {"none", "text", "mark", "ended"}]
      /\ forked \in 0 .. MaxForks /\ MaxForks \in Nat
  BY MonitorAssumption DEF TypeOK
<1>3. ASSUME Says(Answer) PROVE stream' \in Seq(Pieces) /\ gone' = gone
  BY <1>1, <1>3, SentPieces DEF Says
<1>4. CASE handle_client
  <2>1. requests' \in Seq(Lines \cup {"connect"})
    BY <1>1, <1>4 DEF handle_client
  <2>2. /\ stream' \in Seq(Pieces) /\ gone' \in BOOLEAN
    <3>1. Go \/ Says(Answer)
      BY <1>4 DEF handle_client
    <3> QED
      BY <1>3, <3>1, GoTypes DEF TypeOK
  <2>3. /\ children' \in [Forks -> {"none", "text", "mark", "ended"}]
        /\ forked' \in 0 .. MaxForks /\ stuck' \in BOOLEAN
    <3>1. CASE Head(requests) = "LOGG" /\ forked < MaxForks
      <4>1. /\ forked' = forked + 1 /\ stuck' = stuck
            /\ children' = [children EXCEPT ![forked + 1] = "text"]
        BY <1>4, <3>1 DEF handle_client
      <4>2. forked' \in 0 .. MaxForks
        BY <1>2, <3>1, <4>1
      <4>3. children' \in [Forks -> {"none", "text", "mark", "ended"}]
        BY <1>2, <4>1
      <4> QED
        BY <4>1, <4>2, <4>3 DEF TypeOK
    <3>2. CASE ~(Head(requests) = "LOGG" /\ forked < MaxForks)
      <4>1. children' = children /\ forked' = forked /\ (stuck' = stuck \/ stuck' = TRUE)
        BY <1>4, <3>2 DEF handle_client
      <4> QED
        BY <1>2, <4>1 DEF TypeOK
    <3> QED
      BY <3>1, <3>2
  <2> QED
    BY <1>4, <2>1, <2>2, <2>3 DEF handle_client, TypeOK, client
<1>5. CASE ServerEnds
  <2>1. stream' \in Seq(Pieces) /\ gone' = TRUE
    BY <1>5, GoTypes DEF ServerEnds
  <2> QED
    BY <1>5, <2>1 DEF ServerEnds, TypeOK, client
<1>6. ASSUME NEW k \in Forks, send_file(k) PROVE TypeOK'
  <2>1. stream' \in Seq(Pieces)
    BY <1>1, <1>6, SentPieces DEF send_file
  <2>2. children' \in [Forks -> {"none", "text", "mark", "ended"}]
    BY <1>2, <1>6 DEF send_file
  <2> QED
    BY <1>6, <2>1, <2>2 DEF send_file, TypeOK, client
<1> QED
  BY <1>4, <1>5, <1>6

-----------------------------------------------------------------------------
(* Every step keeps what is said of what is under way.                       *)

(* The client receives: what is left of the stream ends as it did.           *)
LEMMA ReceiveKeeps ==
    ASSUME TypeOK, UnderWay, NEW chunk \in Chunks, recv(chunk),
           UNCHANGED <<server, requests>>, pc = "log" => pc' = "log"
    PROVE  (\A k \in Forks : InLog(k)') /\ LogAsked' /\ LogEnding'
<1>1. children' = children /\ forked' = forked /\ requests' = requests
  BY DEF server
<1>2. \A k \in Forks : Running(k)' <=> Running(k)
  BY <1>1 DEF Running
<1>3. \A k \in Forks : InLog(k)'
  BY <1>1, <1>2 DEF UnderWay, InLog
<1>4. LogAsked'
  BY <1>1, <1>2 DEF UnderWay, LogAsked
<1>5. /\ Len(chunk) \in 1 .. Len(stream) /\ stream' \in Seq(Pieces)
      /\ Len(stream') = Len(stream) - Len(chunk)
      /\ \A n \in 1 .. Len(stream') : stream'[n] = stream[Len(chunk) + n]
  BY RecvTakes
<1>6. Len(stream) \in Nat /\ Len(stream') \in Nat
  BY <1>5 DEF TypeOK
<1>7. ASSUME NEW n \in 1 .. Len(stream'), stream'[n] = "crlf"
      PROVE  pc' = "log" /\ n = Len(stream') /\ requests' = <<>> /\ \A k \in Forks : ~Running(k)'
  <2>1. stream[Len(chunk) + n] = "crlf"
    BY <1>5, <1>7
  <2>2. Len(chunk) + n \in 1 .. Len(stream)
    BY <1>5, <1>6
  <2>3. /\ pc = "log" /\ Len(chunk) + n = Len(stream) /\ requests = <<>>
        /\ \A k \in Forks : ~Running(k)
    BY <2>1, <2>2 DEF UnderWay, LogEnding
  <2>4. n = Len(stream')
    <3>1. Len(chunk) + n = Len(stream) /\ Len(stream') = Len(stream) - Len(chunk)
      BY <1>5, <2>3
    <3>2. Len(chunk) \in Int /\ n \in Int /\ Len(stream) \in Int
      BY <1>5, <1>6
    <3> QED
      BY <3>1, <3>2
  <2> QED
    BY <1>1, <1>2, <2>3, <2>4
<1>8. LogEnding'
  BY <1>7 DEF LogEnding
<1> QED
  BY <1>3, <1>4, <1>8

(* The client takes the answer it waits for, or part of it, or finds that     *)
(* nothing more comes.                                                       *)
LEMMA AnswerKeeps ==
    ASSUME TypeOK, UnderWay, NEW chunk \in Chunks, recv(chunk),
           UNCHANGED <<server, requests>>,
           pc \in {"greeting", "noop", "reply"}, pc' \in {"verify", "prompt"},
           slipped' = (slipped \/ Cuts(chunk))
    PROVE  UnderWay'
<1>1. (\A k \in Forks : InLog(k)') /\ LogAsked' /\ LogEnding'
  BY ReceiveKeeps
<1>2. ASSUME ~slipped' PROVE requests' = <<>> /\ stream' = <<>>
  <2>1. Asked \/ Told
    BY <1>2 DEF UnderWay, OneAnswer
  <2>2. stream # <<>>
    <3>1. Len(chunk) \in 1 .. Len(stream)
      BY RecvTakes
    <3> QED
      BY <3>1
  <2>3. requests = <<>> /\ stream = Answer
    BY <2>1, <2>2 DEF Asked, Told
  <2> QED
    BY <1>2, <2>3, WholeAnswer
<1>3. OneAnswer'
  BY <1>2 DEF OneAnswer, Quiet
<1> QED
  BY <1>1, <1>3 DEF UnderWay

(* The client sends a command: nothing is under way but it.                  *)
LEMMA SendKeeps ==
    ASSUME TypeOK, UnderWay, NEW command \in Lines, requests' = Append(requests, command),
           UNCHANGED <<server, stream>>,
           pc \in {"verify", "prompt"}, command = "LOGG" => pc' = "log",
           pc' # "greeting", pc' \in {"verify", "prompt"} => slipped', ~slipped' => ~slipped
    PROVE  UnderWay'
<1>1. /\ children' = children /\ forked' = forked /\ stream' = stream
      /\ requests \in Seq(Lines \cup {"connect"}) /\ stream \in Seq(Pieces)
  BY DEF server, TypeOK
<1>2. (\A k \in Forks : ~Running(k)) /\ \A k \in Forks : ~Running(k)'
  BY <1>1 DEF UnderWay, InLog, Running
<1>3. /\ Len(requests) \in Nat
      /\ \A n \in 1 .. Len(requests) : requests[n] # "LOGG"
  BY <1>1 DEF UnderWay, LogAsked
<1>4. /\ Len(requests') = Len(requests) + 1
      /\ requests'[Len(requests) + 1] = command
      /\ \A n \in 1 .. Len(requests) : requests'[n] = requests[n]
  BY <1>1
<1>5. LogAsked'
  <2>1. SUFFICES ASSUME NEW n \in 1 .. Len(requests'), requests'[n] = "LOGG"
                 PROVE  pc' = "log" /\ n = Len(requests')
    BY <1>2 DEF LogAsked
  <2>2. n \in 1 .. Len(requests) \/ n = Len(requests')
    BY <1>3, <1>4
  <2>3. n \notin 1 .. Len(requests)
    BY <1>3, <1>4, <2>1
  <2> QED
    BY <1>4, <2>1, <2>2, <2>3
<1>6. LogEnding'
  BY <1>1 DEF UnderWay, LogEnding
<1>7. OneAnswer'
  <2>1. SUFFICES ASSUME ~slipped', pc' \in {"noop", "reply"} PROVE Asked'
    BY DEF OneAnswer
  <2>2. requests = <<>> /\ stream = <<>>
    BY <2>1 DEF UnderWay, OneAnswer, Quiet
  <2>3. command # "LOGG"
    BY <2>1
  <2>4. Len(requests') = 1 /\ requests'[1] = command
    BY <1>3, <1>4, <2>2
  <2> QED
    BY <1>1, <2>2, <2>3, <2>4 DEF Asked
<1> QED
  BY <1>2, <1>5, <1>6, <1>7 DEF UnderWay, InLog

(* The log: what comes with its end in one recv is all there is.             *)
LEMMA LogKeeps ==
    ASSUME TypeOK, UnderWay, ~gone, Log
    PROVE  UnderWay'
<1>1. PICK chunk \in Chunks :
        /\ recv(chunk)
        /\ IF HasMark(chunk)
           THEN pc' = "verify" /\ slipped' = FALSE /\ stuck' = FALSE
           ELSE UNCHANGED <<pc, slipped>>
  BY DEF Log, NothingMore, Closed
<1>2. pc = "log" /\ UNCHANGED <<server, requests>>
  BY DEF Log
<1>3. CASE HasMark(chunk)
  <2>1. PICK n \in 1 .. Len(chunk) - 1 : chunk[n + 1] = "crlf"
    BY <1>3 DEF HasMark
  <2>2. /\ Len(chunk) \in 1 .. Len(stream) /\ stream' \in Seq(Pieces)
        /\ \A m \in 1 .. Len(chunk) : chunk[m] = stream[m]
        /\ Len(stream') = Len(stream) - Len(chunk)
    BY <1>1, RecvTakes
  <2>3. Len(stream) \in Nat
    BY DEF TypeOK
  <2>4. n + 1 \in 1 .. Len(chunk) /\ n + 1 \in 1 .. Len(stream)
    BY <2>1, <2>2, <2>3
  <2>5. stream[n + 1] = "crlf"
    BY <2>1, <2>2, <2>4
  <2>6. n + 1 = Len(stream) /\ requests = <<>> /\ \A k \in Forks : ~Running(k)
    BY <2>4, <2>5 DEF UnderWay, LogEnding
  <2>7. Len(stream') = 0
    BY <2>2, <2>3, <2>4, <2>6
  <2>8. stream' = <<>> /\ requests' = <<>> /\ \A k \in Forks : ~Running(k)'
    BY <1>2, <2>2, <2>6, <2>7 DEF server, Running
  <2> QED
    BY <1>1, <1>3, <2>8 DEF UnderWay, InLog, LogAsked, LogEnding, OneAnswer, Quiet
<1>4. CASE ~HasMark(chunk)
  <2>1. pc' = pc /\ recv(chunk)
    BY <1>1, <1>4
  <2>2. (\A k \in Forks : InLog(k)') /\ LogAsked' /\ LogEnding'
    BY <1>2, <2>1, ReceiveKeeps
  <2>3. OneAnswer'
    BY <1>2, <2>1 DEF OneAnswer
  <2> QED
    BY <2>2, <2>3 DEF UnderWay
<1> QED
  BY <1>3, <1>4

(* The steps of the client, while the server is there.                       *)
LEMMA ClientKeeps ==
    ASSUME TypeOK, UnderWay, ~gone, Client \/ Prompt
    PROVE  UnderWay'
<1>1. CASE recv_initial_response
  <2>1. PICK chunk \in Chunks : recv(chunk) /\ slipped' = Cuts(chunk)
    BY <1>1 DEF recv_initial_response, NothingMore, Closed
  <2>2. pc = "greeting" /\ pc' = "verify" /\ UNCHANGED <<server, requests>>
    BY <1>1 DEF recv_initial_response, NothingMore, Closed
  <2>3. slipped' = (slipped \/ Cuts(chunk))
    <3>1. ~slipped
      BY <2>2 DEF UnderWay, OneAnswer
    <3>2. (slipped \/ Cuts(chunk)) = Cuts(chunk)
      BY <3>1, Zenon DEF Cuts
    <3> QED
      BY <2>1, <3>2
  <2> QED
    BY <2>1, <2>2, <2>3, AnswerKeeps
<1>2. CASE Verify
  <2>1. /\ pc = "verify" /\ pc' = "noop" /\ slipped' = slipped
        /\ requests' = Append(requests, "other") /\ UNCHANGED <<server, stream>>
    BY <1>2 DEF Verify, send, SendFails, Closed
  <2>2. "other" \in Lines
    BY DEF Lines
  <2> QED
    BY <2>1, <2>2, SendKeeps
<1>3. CASE Verified
  <2>1. PICK chunk \in Chunks : recv(chunk) /\ slipped' = (slipped \/ Cuts(chunk))
    BY <1>3 DEF Verified, NothingMore, Closed
  <2>2. pc = "noop" /\ pc' = "prompt" /\ UNCHANGED <<server, requests>>
    BY <1>3 DEF Verified
  <2> QED
    BY <2>1, <2>2, AnswerKeeps
<1>4. CASE Reply
  <2>1. PICK chunk \in Chunks : recv(chunk) /\ slipped' = (slipped \/ Cuts(chunk))
    BY <1>4 DEF Reply, NothingMore, Closed
  <2>2. pc = "reply" /\ pc' = "verify" /\ UNCHANGED <<server, requests>>
    BY <1>4 DEF Reply
  <2> QED
    BY <2>1, <2>2, AnswerKeeps
<1>5. CASE Prompt
  <2>1. PICK line \in Lines : IF line = "QUIT" THEN disconnect_from_server ELSE Send(line)
    BY <1>5 DEF Prompt
  <2>2. pc = "prompt" /\ UNCHANGED <<server, stream>>
    BY <1>5 DEF Prompt
  <2>3. CASE line = "QUIT"
    <3>1. /\ requests' = Append(requests, "QUIT") /\ pc' \in {"ended", "killed"}
          /\ slipped' = slipped
      BY <2>1, <2>3 DEF disconnect_from_server, send, SendFails, Closed
    <3> QED
      BY <2>2, <2>3, <3>1, SendKeeps
  <2>4. CASE line # "QUIT"
    <3>1. /\ requests' = Append(requests, line)
          /\ slipped' = (slipped \/ get_command(line) = "none")
          /\ pc' = CASE get_command(line) = "none" -> "verify"
                     [] get_command(line) = "LOGG" -> "log"
                     [] OTHER                      -> "reply"
      BY <2>1, <2>4 DEF Send, send, SendFails, Closed
    <3>2. line = "LOGG" => pc' = "log"
      BY <3>1 DEF get_command
    <3>3. pc' \in {"verify", "prompt"} => slipped'
      BY <3>1
    <3> QED
      BY <2>2, <3>1, <3>2, <3>3, SendKeeps
  <2> QED
    BY <2>3, <2>4
<1>6. CASE Log
  BY <1>6, LogKeeps
<1> QED
  BY <1>1, <1>2, <1>3, <1>4, <1>5, <1>6 DEF Client

(* The server answers a command, and forks for a LOGG.                       *)
LEMMA HandleKeeps ==
    ASSUME TypeOK, UnderWay, ~gone', handle_client
    PROVE  UnderWay'
<1>1. /\ requests \in Seq(Lines \cup {"connect"}) /\ stream \in Seq(Pieces)
      /\ Len(requests) \in Nat /\ Len(stream) \in Nat
      /\ children \in [Forks -> {"none", "text", "mark", "ended"}]
  BY DEF TypeOK
<1>2. requests # <<>> /\ requests' = Tail(requests) /\ pc' = pc /\ slipped' = slipped
  BY DEF handle_client, client
<1>3. /\ Len(requests) >= 1 /\ Head(requests) = requests[1]
      /\ Len(requests') = Len(requests) - 1
      /\ \A n \in 1 .. Len(requests') : requests'[n] = requests[n + 1]
  BY <1>1, <1>2
<1>4. stream' = stream \o Answer
  BY DEF handle_client, Go, Says
<1>5. \A k \in Forks : ~Running(k)
  BY <1>2 DEF UnderWay, InLog
<1>6. \A n \in 1 .. Len(stream) : stream[n] # "crlf"
  BY <1>2 DEF UnderWay, LogEnding
<1>7. LogEnding'
  <2>1. stream' = stream \o <<"head", "tail">>
    BY <1>4 DEF Answer
  <2>2. /\ Len(stream') = Len(stream) + 2
        /\ \A n \in 1 .. Len(stream) : stream'[n] = stream[n]
        /\ stream'[Len(stream) + 1] = "head" /\ stream'[Len(stream) + 2] = "tail"
    BY <1>1, <2>1
  <2>3. ASSUME NEW n \in 1 .. Len(stream') PROVE stream'[n] # "crlf"
    <3>1. n \in 1 .. Len(stream) \/ n = Len(stream) + 1 \/ n = Len(stream) + 2
      BY <1>1, <2>2
    <3> QED
      BY <1>6, <2>2, <3>1
  <2> QED
    BY <2>3 DEF LogEnding
<1>8. CASE Head(requests) = "LOGG"
  <2>1. pc = "log" /\ Len(requests) = 1
    BY <1>1, <1>3, <1>8 DEF UnderWay, LogAsked
  <2>2. requests' = <<>>
    BY <1>1, <1>2, <2>1
  <2>3. \A k \in Forks : Running(k)' => k = forked'
    <3>1. CASE forked < MaxForks
      <4>1. forked' = forked + 1 /\ children' = [children EXCEPT ![forked + 1] = "text"]
        BY <1>8, <3>1 DEF handle_client
      <4> QED
        BY <1>1, <1>5, <4>1 DEF Running
    <3>2. CASE ~(forked < MaxForks)
      <4>1. children' = children
        BY <1>8, <3>2 DEF handle_client
      <4> QED
        BY <1>5, <4>1 DEF Running
    <3> QED
      BY <3>1, <3>2
  <2>4. OneAnswer' /\ LogAsked' /\ \A k \in Forks : InLog(k)'
    BY <1>2, <2>1, <2>2, <2>3 DEF OneAnswer, LogAsked, InLog
  <2> QED
    BY <1>7, <2>4 DEF UnderWay
<1>9. CASE Head(requests) # "LOGG"
  <2>1. children' = children /\ forked' = forked
    BY <1>9 DEF handle_client, Go
  <2>2. \A k \in Forks : ~Running(k)'
    BY <1>5, <2>1 DEF Running
  <2>3. LogAsked'
    <3>1. SUFFICES ASSUME NEW n \in 1 .. Len(requests'), requests'[n] = "LOGG"
                   PROVE  pc' = "log" /\ n = Len(requests')
      BY <2>2 DEF LogAsked
    <3>2. n + 1 \in 1 .. Len(requests) /\ requests[n + 1] = "LOGG"
      BY <1>1, <1>3, <3>1
    <3>3. pc = "log" /\ n + 1 = Len(requests)
      BY <3>2 DEF UnderWay, LogAsked
    <3>4. n = Len(requests')
      BY <1>1, <1>3, <3>3
    <3> QED
      BY <1>2, <3>3, <3>4
  <2>4. OneAnswer'
    <3>1. ASSUME ~slipped, pc \in {"greeting", "noop", "reply"} PROVE Told'
      <4>1. Len(requests) = 1 /\ stream = <<>>
        BY <1>2, <3>1 DEF UnderWay, OneAnswer, Asked, Told
      <4>2. requests' = <<>>
        BY <1>1, <1>2, <4>1
      <4>3. stream' = Answer
        BY <1>4, <4>1, SentPieces
      <4> QED
        BY <4>2, <4>3 DEF Told
    <3>2. ~slipped => pc \notin {"verify", "prompt"}
      BY <1>2 DEF UnderWay, OneAnswer, Quiet
    <3>3. pc = "greeting" => ~slipped
      BY DEF UnderWay, OneAnswer
    <3> QED
      BY <1>2, <3>1, <3>2, <3>3 DEF OneAnswer
  <2> QED
    BY <1>7, <2>2, <2>3, <2>4 DEF UnderWay, InLog
<1> QED
  BY <1>8, <1>9

(* The child sends the log, then its end.                                    *)
LEMMA SendFileKeeps ==
    ASSUME TypeOK, UnderWay, NEW k \in Forks, send_file(k)
    PROVE  UnderWay'
<1>1. stream \in Seq(Pieces) /\ Len(stream) \in Nat
      /\ children \in [Forks -> {"none", "text", "mark", "ended"}]
  BY DEF TypeOK
<1>2. Running(k) /\ pc = "log" /\ requests = <<>> /\ k = forked
  BY DEF send_file, UnderWay, InLog
<1>3. \A j \in Forks : Running(j) => j = k
  BY <1>2 DEF UnderWay, InLog
<1>4. pc' = pc /\ requests' = requests /\ forked' = forked /\ slipped' = slipped
  BY DEF send_file, client
<1>5. /\ \A j \in Forks : j # k => children'[j] = children[j]
      /\ children'[k] = IF children[k] = "text" THEN "mark" ELSE "ended"
  BY <1>1 DEF send_file
<1>6. \A j \in Forks : Running(j)' => j = k
  BY <1>3, <1>5 DEF Running
<1>7. \A n \in 1 .. Len(stream) : stream[n] # "crlf"
  BY <1>2 DEF UnderWay, LogEnding
<1>8. LogEnding'
  <2>1. CASE children[k] = "text"
    <3>1. stream' = stream \o <<"text">>
      BY <2>1 DEF send_file
    <3>2. /\ Len(stream') = Len(stream) + 1
          /\ \A n \in 1 .. Len(stream) : stream'[n] = stream[n]
          /\ stream'[Len(stream) + 1] = "text"
      BY <1>1, <3>1, SentPieces
    <3>3. ASSUME NEW n \in 1 .. Len(stream') PROVE stream'[n] # "crlf"
      <4>1. n \in 1 .. Len(stream) \/ n = Len(stream) + 1
        BY <1>1, <3>2
      <4> QED
        BY <1>7, <3>2, <4>1
    <3> QED
      BY <3>3 DEF LogEnding
  <2>2. CASE children[k] # "text"
    <3>1. stream' = stream \o <<"dot", "crlf">>
      BY <2>2 DEF send_file
    <3>2. /\ Len(stream') = Len(stream) + 2
          /\ \A n \in 1 .. Len(stream) : stream'[n] = stream[n]
          /\ stream'[Len(stream) + 1] = "dot"
      BY <1>1, <3>1, SentPieces
    <3>3. \A j \in Forks : ~Running(j)'
      BY <1>3, <1>5, <2>2 DEF Running
    <3>4. ASSUME NEW n \in 1 .. Len(stream'), stream'[n] = "crlf" PROVE n = Len(stream')
      <4>1. n \in 1 .. Len(stream) \/ n = Len(stream) + 1 \/ n = Len(stream')
        BY <1>1, <3>2
      <4> QED
        BY <1>7, <3>2, <3>4, <4>1
    <3> QED
      BY <1>2, <1>4, <3>3, <3>4 DEF LogEnding
  <2> QED
    BY <2>1, <2>2
<1>9. LogAsked' /\ OneAnswer'
  BY <1>2, <1>4 DEF LogAsked, OneAnswer
<1> QED
  BY <1>2, <1>4, <1>6, <1>8, <1>9 DEF UnderWay, InLog

-----------------------------------------------------------------------------
(* The invariant, and what follows.                                         *)

(* Every step keeps the invariant.                                          *)
LEMMA NextIInv == IInv /\ [Next]_vars => IInv'
<1> SUFFICES ASSUME IInv, [Next]_vars PROVE IInv'
  OBVIOUS
<1>1. CASE UNCHANGED vars
  BY <1>1 DEF vars, client, server, IInv, TypeOK, UnderWay, InLog, Running, LogAsked, LogEnding,
              OneAnswer, Quiet, Asked, Told
<1>2. CASE Client \/ Prompt
  <2>1. TypeOK'
    BY <1>2, ClientTypes DEF IInv
  <2>2. gone' = gone
    BY <1>2 DEF Client, Prompt, recv_initial_response, Verify, Verified, Reply, Log, server
  <2> QED
    BY <1>2, <2>1, <2>2, ClientKeeps DEF IInv
<1>3. CASE handle_client
  <2>1. TypeOK'
    BY <1>3, ServerTypes DEF IInv
  <2>2. ~gone
    BY <1>3 DEF handle_client
  <2> QED
    BY <1>3, <2>1, <2>2, HandleKeeps DEF IInv
<1>4. CASE ServerEnds
  <2>1. TypeOK'
    BY <1>4, ServerTypes DEF IInv
  <2>2. gone' = TRUE
    BY <1>4 DEF ServerEnds, Go
  <2> QED
    BY <2>1, <2>2 DEF IInv
<1>5. ASSUME NEW k \in Forks, send_file(k) PROVE IInv'
  <2>1. TypeOK'
    BY <1>5, ServerTypes DEF IInv
  <2>2. gone' = gone
    BY <1>5 DEF send_file
  <2> QED
    BY <1>5, <2>1, <2>2, SendFileKeeps DEF IInv
<1> QED
  BY <1>1, <1>2, <1>3, <1>4, <1>5 DEF Next

(* The invariant, for every behaviour.                                       *)
THEOREM Invariance == Spec => []IInv
<1>1. Init => IInv
  <2> SUFFICES ASSUME Init PROVE IInv
    OBVIOUS
  <2>1. TypeOK
    <3>1. <<"connect">> \in Seq(Lines \cup {"connect"}) /\ <<>> \in Seq(Pieces)
      OBVIOUS
    <3>2. 0 \in 0 .. MaxTyped /\ 0 \in 0 .. MaxForks
      BY MonitorAssumption
    <3>3. /\ requests \in Seq(Lines \cup {"connect"}) /\ stream \in Seq(Pieces)
          /\ typed \in 0 .. MaxTyped /\ forked \in 0 .. MaxForks
      BY <3>1, <3>2 DEF Init
    <3>4. children \in [Forks -> {"none", "text", "mark", "ended"}]
      BY DEF Init
    <3> QED
      BY <3>3, <3>4 DEF Init, TypeOK
  <2>2. Asked
    BY DEF Init, Asked
  <2> QED
    BY <2>1, <2>2 DEF Init, IInv, UnderWay, InLog, Running, LogAsked, LogEnding, OneAnswer
<1>2. IInv /\ [Next]_vars => IInv'
  BY NextIInv
<1> QED
  BY <1>1, <1>2, PTL DEF Spec

(* Type correctness: no process is started beyond the table, what is under    *)
(* way is made of commands and pieces of answers.                            *)
THEOREM TypeCorrect == Spec => []TypeOK
<1>1. IInv => TypeOK
  BY DEF IInv
<1> QED
  BY <1>1, Invariance, PTL

(* A client whose answers were neither cut nor left unread finds nothing old  *)
(* before its next command (recv_response, verify_server_status).            *)
THEOREM StaysInStep == Spec => []InStep
<1>1. IInv => InStep
  BY DEF IInv, InStep, UnderWay, InLog, OneAnswer, Quiet
<1> QED
  BY <1>1, Invariance, PTL

(* No other command of the client is at the server while a log is sent, even  *)
(* for a client that is out of step.                                         *)
THEOREM LogIsUnmixed == Spec => []LogUnmixed
<1>1. IInv => LogUnmixed
  BY DEF IInv, LogUnmixed, UnderWay, InLog
<1> QED
  BY <1>1, Invariance, PTL

=============================================================================
