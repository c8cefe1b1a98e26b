-------------------------------- MODULE Monitor --------------------------------
(***************************************************************************)
(* The monitoring client (src/client) and the server at the other end of its *)
(* connection.  The client has no framing: whatever one recv returns is the  *)
(* answer, so what a recv returns is modelled as TCP allows it, any part of  *)
(* what was sent and not read.  A socket is a sequence of pieces: an answer  *)
(* is a head and a tail, the log that LOGG asks for is its text and the      *)
(* ".\r\n" at the end, again two pieces.                                     *)
(***************************************************************************)
EXTENDS Integers, Sequences

CONSTANTS MaxTyped,    \* bound: lines the operator types
          MaxForks     \* children the server may have, ended or not: it waits for none

ASSUME MonitorAssumption == MaxTyped \in Nat /\ MaxForks \in Nat

(* Lines by what get_command makes of them, QUIT, one of fewer than four      *)
(* characters, and any other (NOOP, STAT, a word mistyped).                  *)
Lines  == {"CONFIG", "INFO", "METR", "LOGG", "QUIT", "short", "other"}
Forks  == 1 .. MaxForks
Answer == <<"head", "tail">>

VARIABLES
    pc,          \* what the client is at
    status,      \* connection_status
    typed,       \* lines typed
    requests,    \* commands sent that the server has not read
    stream,      \* pieces sent to the client that it has not read
    children,    \* the processes forked for LOGG
    forked,      \* how many there are
    gone,        \* the server closed the connection, or ended
    slipped,     \* ghost: an answer was not waited for, or cut, since the last LOGG
    stuck        \* ghost: the end of the log was cut, or never sent

client == <<pc, status, typed, slipped>>
server == <<children, forked, gone>>
vars   == <<client, server, requests, stream, stuck>>

(* The connection is made, and the server has not accepted it yet.            *)
Init ==
    /\ pc = "greeting" /\ status = "OFFLINE" /\ typed = 0
    /\ requests = <<"connect">> /\ stream = <<>>
    /\ children = [k \in Forks |-> "none"] /\ forked = 0
    /\ gone = FALSE
    /\ slipped = FALSE /\ stuck = FALSE

-----------------------------------------------------------------------------
(* The socket, as the client sees it.                                       *)

Running(k) == children[k] \in {"text", "mark"}
Closed     == gone /\ \A k \in Forks : ~Running(k)    \* a child holds the socket too

(* recv returns what there is, or the first part of it.                      *)
Chunks      == {SubSeq(stream, 1, n) : n \in 1 .. Len(stream)}
recv(chunk) == stream' = SubSeq(stream, Len(chunk) + 1, Len(stream))

(* recv returns 0, or an error.                                              *)
NothingMore == Closed /\ stream = <<>> /\ UNCHANGED stream

Cuts(chunk) == chunk[Len(chunk)] = "head"

(* What is sent when the server is gone is lost, until the client hears of it *)
(* by a send that fails.                                                     *)
send(command) ==
    /\ status = "ONLINE"
    /\ requests' = IF gone THEN requests ELSE Append(requests, command)

(* When it has, send fails, or SIGPIPE ends the client.                      *)
SendFails == Closed /\ UNCHANGED requests

-----------------------------------------------------------------------------
(* The client.                                                              *)

recv_initial_response ==
    /\ pc = "greeting"
    /\ \/ /\ \E chunk \in Chunks : recv(chunk) /\ slipped' = Cuts(chunk)
          /\ status' = "ONLINE" /\ pc' = "verify"
       \/ NothingMore /\ pc' = "ended" /\ UNCHANGED <<status, slipped>>
    /\ UNCHANGED <<typed, server, requests, stuck>>

(* verify_server_status sends NOOP, and is OFFLINE if that fails.            *)
Verify ==
    /\ pc = "verify"
    /\ \/ send("other") /\ pc' = "noop" /\ UNCHANGED status
       \/ SendFails /\ pc' = "ended" /\ status' = "OFFLINE"
       \/ SendFails /\ pc' = "killed" /\ UNCHANGED status
    /\ UNCHANGED <<typed, slipped, server, stream, stuck>>

(* Faulty variant: the answer is left where it is.                           *)
VerifiedUnread ==
    /\ pc = "noop"
    /\ status' = "ONLINE" /\ pc' = "prompt"
    /\ UNCHANGED <<typed, slipped, server, requests, stream, stuck>>

(* What its recv returns is not looked at: it is ONLINE.                     *)
Verified ==
    /\ pc = "noop"
    /\ \/ \E chunk \in Chunks : recv(chunk) /\ slipped' = (slipped \/ Cuts(chunk))
       \/ NothingMore /\ UNCHANGED slipped
    /\ status' = "ONLINE" /\ pc' = "prompt"
    /\ UNCHANGED <<typed, server, requests, stuck>>

(* What is none of the commands (-1 in the code).                            *)
get_command(line) == IF line \in {"CONFIG", "INFO", "METR", "LOGG"} THEN line ELSE "none"

disconnect_from_server ==
    /\ send("QUIT") \/ SendFails
    /\ pc' \in {"ended", "killed"} /\ (pc' = "killed" => Closed)
    /\ UNCHANGED <<status, slipped>>

(* recv_response reads nothing when get_command finds none.                  *)
Send(line) ==
    \/ /\ send(line)
       /\ pc' = CASE get_command(line) = "none" -> "verify"
                  [] get_command(line) = "LOGG" -> "log"
                  [] OTHER                      -> "reply"
       /\ slipped' = (slipped \/ get_command(line) = "none")
       /\ UNCHANGED status
    \/ SendFails /\ status' = "OFFLINE" /\ pc' = "verify" /\ UNCHANGED slipped
    \/ SendFails /\ pc' = "killed" /\ UNCHANGED <<status, slipped>>

(* The loop of main, while the status is ONLINE.                             *)
Prompt ==
    /\ pc = "prompt" /\ status = "ONLINE" /\ typed < MaxTyped
    /\ typed' = typed + 1
    /\ \E line \in Lines : IF line = "QUIT" THEN disconnect_from_server ELSE Send(line)
    /\ UNCHANGED <<server, stream, stuck>>

(* recv_response for all but LOGG: one recv.                                 *)
Reply ==
    /\ pc = "reply" /\ pc' = "verify"
    /\ \/ \E chunk \in Chunks : recv(chunk) /\ slipped' = (slipped \/ Cuts(chunk))
       \/ NothingMore /\ UNCHANGED slipped
    /\ UNCHANGED <<status, typed, server, requests, stuck>>

(* strstr finds ".\r\n" in what was read if it is all there.                 *)
HasMark(chunk) == \E n \in 1 .. Len(chunk) - 1 : chunk[n] = "dot" /\ chunk[n + 1] = "crlf"

(* Faulty variant: the log is over when the answer to LOGG is.               *)
LogAnswered ==
    /\ pc = "log" /\ pc' = "verify"
    /\ \/ \E chunk \in Chunks : recv(chunk) /\ slipped' = (slipped \/ Cuts(chunk))
       \/ NothingMore /\ UNCHANGED slipped
    /\ UNCHANGED <<status, typed, server, requests, stuck>>

(* Faulty variant: the answer to LOGG and the log are read apart.            *)
LogAfterAnswer ==
    /\ pc = "log"
    /\ \/ \E chunk \in Chunks :
            /\ recv(chunk)
            /\ IF HasMark(chunk) /\ chunk[1] # "head"
               THEN pc' = "verify" /\ slipped' = FALSE /\ stuck' = FALSE
               ELSE /\ UNCHANGED <<pc, slipped>>
                    /\ stuck' = (stuck \/ chunk[Len(chunk)] = "dot")
       \/ NothingMore /\ pc' = "verify" /\ UNCHANGED <<slipped, stuck>>
    /\ UNCHANGED <<status, typed, server, requests>>

(* recv_response for LOGG: until the end of the log is in what one recv read, *)
(* or there is nothing more.                                                 *)
Log ==
    /\ pc = "log"
    /\ \/ \E chunk \in Chunks :
            /\ recv(chunk)
            /\ IF HasMark(chunk)
               THEN pc' = "verify" /\ slipped' = FALSE /\ stuck' = FALSE
               ELSE /\ UNCHANGED <<pc, slipped>>
                    /\ stuck' = (stuck \/ chunk[Len(chunk)] = "dot")
       \/ NothingMore /\ pc' = "verify" /\ UNCHANGED <<slipped, stuck>>
    /\ UNCHANGED <<status, typed, server, requests>>

-----------------------------------------------------------------------------
(* The server.                                                              *)

(* What was sent and has not arrived may be lost with the sender.            *)
Go ==
    /\ gone' = TRUE
    /\ \E n \in 0 .. Len(stream) : stream' = SubSeq(stream, 1, n)

Says(answer) == stream' = stream \o answer /\ UNCHANGED gone

(* The greeting, and one answer to each command of a manager; a short line is *)
(* the end of the server (buffer_read_adv's assertion).  The log is sent by  *)
(* a child, if one can be forked.                                            *)
handle_client ==
    /\ requests # <<>> /\ ~gone
    /\ requests' = Tail(requests)
    /\ CASE Head(requests) = "short" -> Go /\ UNCHANGED <<children, forked, stuck>>
         [] Head(requests) = "LOGG" ->
              /\ Says(Answer)
              /\ IF forked < MaxForks
                 THEN /\ forked' = forked + 1 /\ UNCHANGED stuck
                      /\ children' = [children EXCEPT ![forked + 1] = "text"]
                 ELSE stuck' = TRUE /\ UNCHANGED <<children, forked>>
         [] OTHER -> Says(Answer) /\ UNCHANGED <<children, forked, stuck>>
    /\ UNCHANGED client

(* send_file in the child: the file, then the end in one send.               *)
send_file(k) ==
    /\ Running(k)
    /\ stream' = stream \o (IF children[k] = "text" THEN <<"text">> ELSE <<"dot", "crlf">>)
    /\ children' = [children EXCEPT ![k] = IF @ = "text" THEN "mark" ELSE "ended"]
    /\ UNCHANGED <<client, forked, gone, requests, stuck>>

(* No place in the table, or the server ends, for whatever reason.           *)
ServerEnds ==
    /\ ~gone /\ Go
    /\ UNCHANGED <<client, children, forked, requests, stuck>>

-----------------------------------------------------------------------------
Client == recv_initial_response \/ Verify \/ Verified \/ Reply \/ Log

Next ==
    \/ Client \/ Prompt
    \/ handle_client \/ ServerEnds
    \/ \E k \in Forks : send_file(k)

(* The client goes on by itself but for the operator; the processes of the    *)
(* server run.                                                               *)
Spec ==
    /\ Init /\ [][Next]_vars
    /\ WF_vars(Client) /\ WF_vars(handle_client)
    /\ \A k \in Forks : WF_vars(send_file(k))

-----------------------------------------------------------------------------
(* Properties.                                                              *)

Pieces == {"head", "tail", "text", "dot", "crlf"}

(* Every variable has its type.                                              *)
TypeOK ==
    /\ pc \in {"greeting", "verify", "noop", "prompt", "reply", "log", "ended", "killed"}
    /\ status \in {"ONLINE", "OFFLINE"}
    /\ typed \in 0 .. MaxTyped
    /\ requests \in Seq(Lines \cup {"connect"})
    /\ stream \in Seq(Pieces)
    /\ children \in [Forks -> {"none", "text", "mark", "ended"}] /\ forked \in 0 .. MaxForks
    /\ gone \in BOOLEAN /\ slipped \in BOOLEAN /\ stuck \in BOOLEAN

(* Nothing of an earlier answer is there for the next command to take for its *)
(* own, unless recv cut one or a command was typed that recv_response does   *)
(* not wait for; a LOGG that sees its end makes up for both, however far     *)
(* the client had fallen behind (recv_response).                             *)
InStep ==
    pc = "prompt" /\ ~slipped /\ ~gone =>
      /\ requests = <<>> /\ stream = <<>>
      /\ \A k \in Forks : ~Running(k)

(* While a child sends the log no command of this client is at the server,    *)
(* whose answer would be mixed with it on the one socket: the client sends   *)
(* nothing until the log ends (send_file_process does not wait either).      *)
LogUnmixed == (\E k \in Forks : Running(k)) /\ ~gone => requests = <<>>

(* The client gets back to the operator or ends, whatever recv cuts, even if  *)
(* the server ends meanwhile: who waits has sent a command whose answer      *)
(* nobody has read.  But for LOGG: if the end of the log is cut, or no child *)
(* can be forked, nothing more will come (recv_response).                    *)
Busy == pc \notin {"prompt", "ended", "killed"}
ComesBack == Busy ~> ~Busy \/ (pc = "log" /\ stuck)

(* "Encuentra el final del mensaje y sale del bucle"                         *)
(* (monitoring_handler.c:199); refuted: not if recv cuts the end in two, nor *)
(* if the server's fork failed, after "+OK Log command".                     *)
LogEnds == pc = "log" ~> pc # "log"

(* "Envio un NOOP para chequear el estado del servidor"                      *)
(* (monitoring_handler.c:237); refuted: the server is gone, recv returns 0,  *)
(* and the status is ONLINE.                                                 *)
OnlineAnswered == [][pc = "noop" /\ status' = "ONLINE" /\ pc' = "prompt" => stream # <<>>]_vars

-----------------------------------------------------------------------------
(* The inductive invariant: what is under way between the two ends.  It says *)
(* nothing of a server that is gone, which sends no more.                    *)

InLog(k) == Running(k) => pc = "log" /\ requests = <<>> /\ k = forked

(* A LOGG is the last request, and nobody sends a log yet.                   *)
LogAsked ==
    \A n \in 1 .. Len(requests) : requests[n] = "LOGG" =>
        pc = "log" /\ n = Len(requests) /\ \A k \in Forks : ~Running(k)

(* The end of a log is the last that is under way.                           *)
LogEnding ==
    \A n \in 1 .. Len(stream) : stream[n] = "crlf" =>
        pc = "log" /\ n = Len(stream) /\ requests = <<>> /\ \A k \in Forks : ~Running(k)

Quiet  == requests = <<>> /\ stream = <<>>
Asked  == Len(requests) = 1 /\ requests[1] # "LOGG" /\ stream = <<>>
Told   == requests = <<>> /\ stream = Answer

(* A client in step waits for one answer, or for none.                       *)
OneAnswer ==
    /\ pc = "greeting" => ~slipped
    /\ ~slipped /\ pc \in {"verify", "prompt"} => Quiet
    /\ ~slipped /\ pc \in {"greeting", "noop", "reply"} => Asked \/ Told

UnderWay == (\A k \in Forks : InLog(k)) /\ LogAsked /\ LogEnding /\ OneAnswer

IInv == TypeOK /\ (~gone => UnderWay)

=============================================================================
