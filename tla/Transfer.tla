------------------------------- MODULE Transfer -------------------------------
(***************************************************************************)
(* How a mail gets to a client: RETR answers "+OK n octets" and forks a      *)
(* child (send_file_process), which opens the file and sends it, by itself   *)
(* or from the pipe of a transformation it forks in turn (fork_and_exec),     *)
(* and then the end marker (send_file).  Children, transformations, the       *)
(* server and the clients all run at their own pace; a send waits while the   *)
(* client's socket is full; a client may leave at any moment.                 *)
(*                                                                         *)
(* The other commands are here only as what they put on the same socket.      *)
(* A mail is so many blocks; a process forked holds every descriptor its      *)
(* parent had, the pipe's reading end too.                                    *)
(***************************************************************************)
EXTENDS Integers, Sequences, FiniteSets

CONSTANTS Clients,
          Sizes,         \* blocks of a mail
          Outputs,       \* blocks a transformation may write
          Window,        \* bound: what a client's socket holds unread
          PipeSize,      \* what a pipe holds
          MaxChildren,   \* bound: children, with their transformations, at one time
          MaxTyped,      \* bound: commands of each client
          None           \* no client

ASSUME TransferAssumption ==
    /\ Sizes \subseteq Nat \ {0} /\ Outputs \subseteq Nat
    /\ Window \in Nat \ {0} /\ PipeSize \in Nat \ {0}
    /\ MaxChildren \in Nat /\ MaxTyped \in [Clients -> Nat]
    /\ None \notin Clients

VARIABLES
    up,         \* the server runs
    at,         \* the client whose command it executes, or None
    cli_socket, \* clients whose connection the server has open
    here,       \* clients that have not left
    todo,       \* commands sent and not executed
    typed,      \* how many each sent
    stream,     \* what arrived at each client and it has not read
    expect,     \* ghost: what a client waits for
    lost,       \* ghost: clients one of whose transfers could not be started
    child       \* the process table

vars == <<up, at, cli_socket, here, todo, typed, stream, expect, lost, child>>
server == <<up, at, cli_socket, lost>>
client == <<here, todo, typed, expect>>

Slots == 1 .. MaxChildren

Line    == [what |-> "line"]
Ok(n)   == [what |-> "ok", octets |-> n]
Block   == [what |-> "block"]
(* whole: the child sent all of the file, and as it is (ghost).              *)
End(w)  == [what |-> "end", whole |-> w]

Piece == {Line, Block} \cup {Ok(n) : n \in Sizes} \cup {End(w) : w \in BOOLEAN}

(* A client waits for nothing, for the first line of an answer, or for the    *)
(* rest of a mail; of one that sent a command while it waited nothing is said. *)
Nothing  == [for |-> "nothing"]
Answer   == [for |-> "answer"]
Anything == [for |-> "anything"]
Body(n)  == [for |-> "body", left |-> n]

(* pc: where send_file is; "killed" if only its transformation is left.       *)
Process ==
    [pc : {"open", "copy", "pump", "mark", "killed"}, to : Clients, trans : BOOLEAN,
     left : Nat,                                  \* of the file, or of the output
     cut : BOOLEAN,                               \* the file could not be read on
     filter : {"none", "runs", "ended"}, pipe : 0 .. PipeSize,
     holds : SUBSET Clients]                      \* the connections it has copies of

Free == [pc |-> "free"]

TypeOK ==
    /\ up \in BOOLEAN /\ at \in Clients \cup {None}
    /\ cli_socket \subseteq Clients /\ here \subseteq Clients /\ lost \subseteq Clients
    /\ todo \in [Clients -> Seq({"RETR", "QUIT", "other"})]
    /\ typed \in [Clients -> Nat]
    /\ stream \in [Clients -> Seq(Piece)]
    /\ \A c \in Clients : \/ expect[c] \in {Nothing, Answer, Anything}
                          \/ expect[c].for = "body" /\ expect[c].left \in Int
    /\ child \in [Slots -> Process \cup {Free}]

Init ==
    /\ up = TRUE /\ at = None
    /\ cli_socket = Clients /\ here = Clients /\ lost = {}
    /\ todo = [c \in Clients |-> <<>>] /\ typed = [c \in Clients |-> 0]
    /\ stream = [c \in Clients |-> <<>>]
    /\ expect = [c \in Clients |-> Nothing]
    /\ child = [k \in Slots |-> Free]

-----------------------------------------------------------------------------
(* The network: a send to a client that has left is either lost or is the end *)
(* of the process that sends.                                                 *)

Room(c) == c \notin here \/ Len(stream[c]) < Window

Put(c, p) == stream' = IF c \in here THEN [stream EXCEPT ![c] = Append(@, p)] ELSE stream

(* The client's connection is closed for good.                                *)
Closed(c) == c \notin cli_socket /\ \A k \in Slots : child[k] = Free \/ c \notin child[k].holds

-----------------------------------------------------------------------------
(* The clients.                                                             *)

Type(c, command) ==
    /\ c \in here /\ typed[c] < MaxTyped[c]
    /\ todo' = [todo EXCEPT ![c] = Append(@, command)]
    /\ typed' = [typed EXCEPT ![c] = @ + 1]
    /\ expect' = [expect EXCEPT ![c] = IF @ = Nothing THEN Answer ELSE Anything]
    /\ UNCHANGED <<server, here, stream, child>>

(* What a client waits for once it has read a piece.                         *)
Then(e, p) ==
    CASE e = Anything      -> e
      [] p.what = "ok"     -> Body(p.octets)
      [] p.what = "block"  -> Body(e.left - 1)
      [] OTHER             -> Nothing

Read(c) ==
    /\ c \in here /\ stream[c] # <<>>
    /\ stream' = [stream EXCEPT ![c] = Tail(@)]
    /\ expect' = [expect EXCEPT ![c] = Then(@, Head(stream[c]))]
    /\ UNCHANGED <<server, here, todo, typed, child>>

Leave(c) ==
    /\ c \in here
    /\ here' = here \ {c}
    /\ stream' = [stream EXCEPT ![c] = <<>>]
    /\ expect' = [expect EXCEPT ![c] = Anything]
    /\ UNCHANGED <<server, todo, typed, child>>

-----------------------------------------------------------------------------
(* The server executes a command of one client at a time, and sleeps in send   *)
(* while that client's socket is full.                                       *)

Take(c) ==
    /\ up /\ at = None /\ c \in cli_socket /\ todo[c] # <<>>
    /\ at' = c
    /\ UNCHANGED <<up, cli_socket, lost, client, stream, child>>

Executes(c, command) ==
    /\ up /\ at = c /\ Room(c) /\ Head(todo[c]) = command
    /\ at' = None

other(c) ==
    /\ Executes(c, "other")
    /\ Put(c, Line)
    /\ todo' = [todo EXCEPT ![c] = Tail(@)]
    /\ UNCHANGED <<up, cli_socket, lost, here, typed, expect, child>>

Started(c, n, t) ==
    [pc |-> "open", to |-> c, trans |-> t, left |-> n, cut |-> FALSE, filter |-> "none",
     pipe |-> 0, holds |-> cli_socket]

(* view_message of a mail there is: counted, answered, and then the fork,      *)
(* which may fail.                                                           *)
Retr(c) ==
    /\ Executes(c, "RETR")
    /\ \E n \in Sizes :
         /\ Put(c, Ok(n))
         /\ \/ \E k \in Slots, t \in BOOLEAN :
                 /\ child[k] = Free
                 /\ child' = [child EXCEPT ![k] = Started(c, n, t)]
                 /\ UNCHANGED lost
            \/ /\ lost' = lost \cup {c}
               /\ UNCHANGED child
    /\ todo' = [todo EXCEPT ![c] = Tail(@)]
    /\ UNCHANGED <<up, cli_socket, here, typed, expect>>

(* What is left of the chunk after a QUIT is dropped.                        *)
Quit(c) ==
    /\ Executes(c, "QUIT")
    /\ Put(c, Line)
    /\ todo' = [todo EXCEPT ![c] = <<>>]
    /\ cli_socket' = cli_socket \ {c}
    /\ UNCHANGED <<up, lost, here, typed, expect, child>>

(* recv tells that the client has left.                                      *)
Notice(c) ==
    /\ up /\ at = None /\ c \in cli_socket \ here /\ todo[c] = <<>>
    /\ cli_socket' = cli_socket \ {c}
    /\ UNCHANGED <<up, at, lost, client, stream, child>>

(* The server ends: SIGPIPE from a client that left, or SIGINT.              *)
Down ==
    /\ up /\ (at = None \/ at \notin here)
    /\ up' = FALSE /\ at' = None /\ cli_socket' = {}
    /\ UNCHANGED <<lost, client, stream, child>>

-----------------------------------------------------------------------------
(* The children.                                                            *)

(* The child's own end; its transformation, if it still runs, goes on.       *)
Ends(k) == child' = [child EXCEPT ![k] =
                       IF @.filter = "runs" THEN [@ EXCEPT !.pc = "killed"] ELSE Free]

(* send_file: the file is opened, and with TRAN the pipe made and the          *)
(* transformation forked.                                                    *)
Open(k) ==
    /\ child[k].pc = "open"
    /\ \/ /\ ~child[k].trans
          /\ child' = [child EXCEPT ![k].pc = "copy"]
       \/ /\ child[k].trans
          /\ \E n \in Outputs :
               child' = [child EXCEPT ![k].pc = "pump", ![k].left = n, ![k].filter = "runs"]
    /\ UNCHANGED <<server, client, stream>>

(* open, pipe or fork fails: the child ends without a word.                  *)
OpenFails(k) ==
    /\ child[k].pc = "open"
    /\ Ends(k)
    /\ lost' = lost \cup {child[k].to}
    /\ UNCHANGED <<up, at, cli_socket, client, stream>>

(* transfer_without_transformation.                                          *)
Copy(k) ==
    /\ child[k].pc = "copy" /\ child[k].left > 0 /\ Room(child[k].to)
    /\ Put(child[k].to, Block)
    /\ child' = [child EXCEPT ![k].left = @ - 1]
    /\ UNCHANGED <<server, client>>

(* Faulty variant: the last block, not full, not sent.                       *)
CopyEndsEarly(k) ==
    /\ child[k].pc = "copy" /\ child[k].left <= 1
    /\ child' = [child EXCEPT ![k].pc = "mark"]
    /\ UNCHANGED <<server, client, stream>>

(* The file is at its end.                                                   *)
CopyEnds(k) ==
    /\ child[k].pc = "copy" /\ child[k].left = 0
    /\ child' = [child EXCEPT ![k].pc = "mark"]
    /\ UNCHANGED <<server, client, stream>>

(* read fails: the loop is left as at the end of the file.                   *)
ReadFails(k) ==
    /\ child[k].pc = "copy" /\ child[k].left > 0
    /\ child' = [child EXCEPT ![k].pc = "mark", ![k].cut = TRUE]
    /\ UNCHANGED <<server, client, stream>>

(* The transformation writes to the pipe, waiting while it is full, and ends.  *)
(* As it holds the reading end too, its writes never fail.                   *)
FilterWrites(k) ==
    /\ child[k] # Free /\ child[k].filter = "runs" /\ child[k].left > 0 /\ child[k].pipe < PipeSize
    /\ child' = [child EXCEPT ![k].left = @ - 1, ![k].pipe = @ + 1]
    /\ UNCHANGED <<server, client, stream>>

FilterEnds(k) ==
    /\ child[k] # Free /\ child[k].filter = "runs" /\ child[k].left = 0
    /\ child' = [child EXCEPT ![k] = IF @.pc = "killed" THEN Free
                                     ELSE [@ EXCEPT !.filter = "ended"]]
    /\ UNCHANGED <<server, client, stream>>

(* transfer_with_transformation: until nobody has the writing end.           *)
Pump(k) ==
    /\ child[k].pc = "pump" /\ child[k].pipe > 0 /\ Room(child[k].to)
    /\ Put(child[k].to, Block)
    /\ child' = [child EXCEPT ![k].pipe = @ - 1]
    /\ UNCHANGED <<server, client>>

(* Faulty variant: the child keeps the writing end open itself.              *)
PumpEndsNever(k) ==
    /\ child[k].pc = "pump" /\ child[k].pipe = 0 /\ child[k].filter = "none"
    /\ child' = [child EXCEPT ![k].pc = "mark"]
    /\ UNCHANGED <<server, client, stream>>

PumpEnds(k) ==
    /\ child[k].pc = "pump" /\ child[k].pipe = 0 /\ child[k].filter = "ended"
    /\ child' = [child EXCEPT ![k].pc = "mark"]
    /\ UNCHANGED <<server, client, stream>>

(* Faulty variant: the child goes on into the server's loop.                 *)
MarkStays(k) ==
    /\ child[k].pc = "mark" /\ Room(child[k].to)
    /\ Put(child[k].to, End(~child[k].cut /\ ~child[k].trans))
    /\ child' = [child EXCEPT ![k].pc = "killed"]
    /\ UNCHANGED <<server, client>>

(* The end marker, whatever was sent before it; and exit.                    *)
Mark(k) ==
    /\ child[k].pc = "mark" /\ Room(child[k].to)
    /\ Put(child[k].to, End(~child[k].cut /\ ~child[k].trans))
    /\ Ends(k)
    /\ UNCHANGED <<server, client>>

(* send to a client that left: SIGPIPE, or an error that ends the loop.      *)
Killed(k) ==
    /\ child[k].pc \in {"copy", "pump", "mark"} /\ child[k].to \notin here
    /\ Ends(k)
    /\ UNCHANGED <<server, client, stream>>

Serve == \E c \in Clients : Take(c) \/ other(c) \/ Retr(c) \/ Quit(c) \/ Notice(c)

Send(k) == \/ Open(k) \/ OpenFails(k) \/ Copy(k) \/ CopyEnds(k) \/ ReadFails(k)
           \/ Pump(k) \/ PumpEnds(k) \/ Mark(k) \/ Killed(k)

Filter(k) == FilterWrites(k) \/ FilterEnds(k)

Next == \/ \E c \in Clients : \/ \E command \in {"RETR", "QUIT", "other"} : Type(c, command)
                              \/ Read(c) \/ Leave(c)
        \/ Serve \/ Down
        \/ \E k \in Slots : Send(k) \/ Filter(k)

Spec == Init /\ [][Next]_vars

(* The system schedules every process; a client that does not leave goes on   *)
(* reading.                                                                 *)
FairSpec == /\ Spec
            /\ WF_vars(Serve)
            /\ \A k \in Slots : WF_vars(Send(k)) /\ WF_vars(Filter(k))
            /\ \A c \in Clients : WF_vars(Read(c))

-----------------------------------------------------------------------------
(* Properties.                                                              *)

(* The rest of a mail of n blocks: blocks, and behind them the end marker,    *)
(* behind n of them if the mail was sent whole.                              *)
Rest(w, n) == \A j \in 1 .. Len(w) :
                 \/ w[j] = Block
                 \/ j = Len(w) /\ w[j].what = "end" /\ (w[j].whole => j - 1 = n)

(* A client that waits for the end of each answer gets its answers one by one: *)
(* what has arrived is the beginning of the one it waits for, the octets of   *)
(* its mail from one child, as many as RETR announced, and the marker behind   *)
(* them; whatever its former children, other clients' or the server do.       *)
AnswersIntact ==
    \A c \in Clients :
        LET w == stream[c]
            e == expect[c]
        IN  CASE e = Nothing    -> w = <<>>
              [] e = Answer     -> \/ w \in {<<>>, <<Line>>}
                                   \/ /\ w # <<>> /\ w[1].what = "ok"
                                      /\ Rest(Tail(w), w[1].octets)
              [] e.for = "body" -> Rest(w, e.left)
              [] OTHER          -> TRUE

Waits(c) == expect[c] # Nothing /\ expect[c] # Anything

(* A transformation whose child is gone and that fills its pipe waits for     *)
(* ever, with the connections it holds.                                      *)
HeldByOrphan(c) ==
    \E k \in Slots : /\ child[k].pc = "killed" /\ child[k].pipe = PipeSize /\ child[k].left > 0
                     /\ c \in child[k].holds

(* It gets each of them to the end, unless its child could not be forked or   *)
(* could not open what it needs; if the server ends instead, it sees its      *)
(* connection closed, unless an orphan holds it.                             *)
AnswerComes(c) ==
    Waits(c) ~> (~Waits(c) \/ c \in lost \/ Closed(c) \/ HeldByOrphan(c))

(* A connection the server closes is closed for the client, whoever is being  *)
(* sent mail meanwhile, but for the orphans that hold a copy of it.          *)
QuitIsSeen(c) == (c \notin cli_socket) ~> (Closed(c) \/ HeldByOrphan(c))

(* The report (p. 3): at QUIT the connection is closed.                      *)
AlwaysClosed == \A c \in Clients : (c \notin cli_socket) ~> Closed(c)

(* RFC 1939, which the report (p. 2) implements: every command is answered.   *)
EndAlwaysComes == \A c \in Clients : Waits(c) ~> (~Waits(c) \/ Closed(c) \/ HeldByOrphan(c))

(* The report (p. 3): RETR downloads a complete message.                     *)
EndIsWhole == \A c \in Clients : \A j \in DOMAIN stream[c] :
                 stream[c][j].what = "end" => stream[c][j].whole

(* The report (p. 4): METR gives the bytes sent, that is, a transfer counted  *)
(* at RETR is one that was sent.                                             *)
CountedIsSent ==
    [][\A k \in Slots : child[k] # Free /\ child'[k] = Free =>
          child[k].pc = "mark" /\ ~child[k].cut /\ child[k].to \in here]_vars

=============================================================================
