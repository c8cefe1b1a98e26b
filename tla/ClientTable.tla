----------------------------- MODULE ClientTable -----------------------------
(***************************************************************************)
(* The poll loop of src/server/main.c and the two parallel arrays it keeps: *)
(* pollfds[] (entry 0 the POP3 listener, entry 1 the manager listener, entry *)
(* k+2 the socket of client k) and clients[] (the session record of client   *)
(* k).  A connection is accepted into the first free slot; when it ends, the *)
(* last client is moved into its slot.  One action per step of the loop that *)
(* another party can observe: poll, one entry of the scan, one recv, one     *)
(* line of the received chunk, one close.  Clients and the network act       *)
(* between any two of them.                                                  *)
(*                                                                           *)
(* What a line does to a mailbox is Pop3Session; how lines are cut out of    *)
(* the stream is LineFraming.  Here a chunk is a sequence of items: "line"   *)
(* (any command answered by one send), "quit", and "part", bytes without a   *)
(* newline.  The values AUTHORIZATION and TRANSACTION of client_state, which *)
(* main.c does not tell apart, are both written "POP3".                      *)
(*                                                                           *)
(* The build is the one of Makefile.inc (-fsanitize=address): an access out  *)
(* of bounds, to freed memory, or a second free ends the process.            *)
(***************************************************************************)
EXTENDS Integers, Sequences

CONSTANTS MAX_CLIENTS,    \* length of clients[]; pollfds[] has two entries more
          MAX_SOCKETS,    \* descriptors the process limit leaves for clients and the log;
                          \* at least one, or no connection is ever accepted
          MaxInbox,       \* bound: items of one client the kernel holds unread
          Signals,        \* bound: whether SIGINT may come
          Items,          \* what clients may send, of "part", "line" and "quit"
          Conns,          \* connections that may ever be made
          Managers,       \* those among them made to the manager port
          ServerSocket,   \* the descriptor of the POP3 listener
          ManagerSocket,  \* the descriptor of the manager listener
          None,           \* a descriptor of -1, a NULL pointer, no bytes
          Garbage         \* bytes of an uninitialized buffer

ASSUME TableAssumption ==
    /\ MAX_CLIENTS \in Nat \ {0}
    /\ MAX_SOCKETS \in Nat \ {0}
    /\ MaxInbox \in Nat
    /\ Signals \in BOOLEAN
    /\ Items \subseteq {"part", "line", "quit"}
    /\ Managers \subseteq Conns
    /\ None \notin Conns /\ Garbage \notin Conns \cup {None}
    /\ ServerSocket # ManagerSocket
    /\ ServerSocket \notin Conns \cup {None}
    /\ ManagerSocket \notin Conns \cup {None}

Listeners == {ServerSocket, ManagerSocket}
Slots     == 0 .. MAX_CLIENTS - 1
Entries   == 0 .. MAX_CLIENTS + 1

VARIABLES
    fd, revents,                  \* pollfds[]: descriptor, POLLIN reported
    cli_socket, client_state,     \* clients[]: socket and state
    ip,                           \* clients[]: the heap block with the address text
    recv_buffer,                  \* clients[]: whose bytes are kept for the next chunk
    client_count,
    pc, i,                        \* where the loop is, the entry it is at
    chunk,                        \* what is left of the chunk being parsed
    done,                         \* SIGINT was seen
    live,                         \* allocated address blocks, named by their connection
    total_historic_connections, max_consecutive_connections,
    queue,                        \* per listener: connections waiting in the kernel
    sock,                         \* what the kernel knows of each connection
    inbox,                        \* what each client sent and was not yet received
    peak,                         \* ghost: most clients ever held at once
    swapped                       \* ghost: <<closed, moved>>, closes that moved another client

pollfds == <<fd, revents>>
clients == <<cli_socket, client_state, ip, recv_buffer>>
metrics == <<total_historic_connections, max_consecutive_connections>>
net     == <<queue, sock, inbox>>
vars    == <<pollfds, clients, client_count, pc, i, chunk, done, live, metrics, net, peak, swapped>>

(* "fin": the peer closed; "rst": it reset, the error not yet reported;     *)
(* "broken": a reset already reported, or one that followed a fin; "closed":  *)
(* the server closed it.                                                     *)
SockStates == {"idle", "est", "fin", "rst", "broken", "closed"}

Halted  == {"aborted", "killed", "failed", "exit"}
PCs     == {"loop", "poll", "scan", "recv", "serve", "close"} \cup Halted
Running == pc \notin Halted

TypeOK ==
    /\ fd \in [Entries -> Conns \cup Listeners \cup {None}]
    /\ revents \in [Entries -> BOOLEAN]
    /\ cli_socket \in [Slots -> Conns \cup {None}]
    /\ client_state \in [Slots -> {"POP3", "MANAGER", "CLOSING", "ERROR_CLIENT"}]
    /\ ip \in [Slots -> Conns \cup {None}]
    /\ recv_buffer \in [Slots -> Conns \cup {None, Garbage}]
    /\ client_count \in 0 .. MAX_CLIENTS
    /\ pc \in PCs
    /\ i \in 0 .. MAX_CLIENTS + 2
    /\ chunk \in Seq(Items)
    /\ done \in BOOLEAN
    /\ live \subseteq Conns
    /\ total_historic_connections \in Nat
    /\ max_consecutive_connections \in Nat
    /\ queue \in [Listeners -> Seq(Conns)]
    /\ sock \in [Conns -> SockStates]
    /\ inbox \in [Conns -> Seq(Items)]
    /\ peak \in Nat
    /\ swapped \subseteq Conns \X Conns

(* clients[] is zeroed static memory; init_pollfds ran and the two listeners *)
(* were stored.                                                              *)
Init ==
    /\ fd = [e \in Entries |-> IF e = 0 THEN ServerSocket
                               ELSE IF e = 1 THEN ManagerSocket ELSE None]
    /\ revents = [e \in Entries |-> FALSE]
    /\ cli_socket = [k \in Slots |-> None]
    /\ client_state = [k \in Slots |-> "POP3"]
    /\ ip = [k \in Slots |-> None]
    /\ recv_buffer = [k \in Slots |-> None]
    /\ client_count = 0
    /\ pc = "loop" /\ i = 0 /\ chunk = <<>> /\ done = FALSE
    /\ live = {}
    /\ total_historic_connections = 0 /\ max_consecutive_connections = 0
    /\ queue = [l \in Listeners |-> <<>>]
    /\ sock = [c \in Conns |-> "idle"]
    /\ inbox = [c \in Conns |-> <<>>]
    /\ peak = 0 /\ swapped = {}

-----------------------------------------------------------------------------
(* Clients and the network.                                                 *)

PortOf(c) == IF c \in Managers THEN ManagerSocket ELSE ServerSocket

Connect(c) ==
    /\ Running
    /\ sock[c] = "idle"
    /\ sock' = [sock EXCEPT ![c] = "est"]
    /\ queue' = [queue EXCEPT ![PortOf(c)] = Append(@, c)]
    /\ UNCHANGED <<pollfds, clients, client_count, pc, i, chunk, done, live, metrics,
                   inbox, peak, swapped>>

ClientSend(c, item) ==
    /\ Running
    /\ sock[c] = "est" /\ Len(inbox[c]) < MaxInbox
    /\ inbox' = [inbox EXCEPT ![c] = Append(@, item)]
    /\ UNCHANGED <<pollfds, clients, client_count, pc, i, chunk, done, live, metrics,
                   queue, sock, peak, swapped>>

(* The client closes, leaving nothing unread ("fin") or something ("rst").  *)
ClientLeave(c, how) ==
    /\ Running
    /\ sock[c] = "est"
    /\ sock' = [sock EXCEPT ![c] = how]
    /\ UNCHANGED <<pollfds, clients, client_count, pc, i, chunk, done, live, metrics,
                   queue, inbox, peak, swapped>>

(* SIGINT: sigterm_handler sets done.                                        *)
Signal == Running /\ Signals /\ ~done /\ done' = TRUE

Interrupt ==
    /\ Signal
    /\ UNCHANGED <<pollfds, clients, client_count, pc, i, chunk, live, metrics, net,
                   peak, swapped>>

-----------------------------------------------------------------------------
(* The poll loop.                                                           *)

Readable(c) == inbox[c] # <<>> \/ sock[c] \in {"fin", "rst", "broken"}

Ready(f) == CASE f \in Listeners -> queue[f] # <<>>
              [] f \in Conns     -> Readable(f)
              [] OTHER           -> FALSE

(* The loop condition is tested, and then poll is called: a signal between   *)
(* the two is not seen before poll returns.                                  *)
LoopEnds ==
    /\ pc = "loop" /\ done
    /\ pc' = "exit"
    /\ UNCHANGED <<pollfds, clients, client_count, i, chunk, done, live, metrics, net,
                   peak, swapped>>

LoopStarts ==
    /\ pc = "loop" /\ ~done
    /\ pc' = "poll"
    /\ UNCHANGED <<pollfds, clients, client_count, i, chunk, done, live, metrics, net,
                   peak, swapped>>

SomeReady == \E e \in 0 .. client_count + 1 : Ready(fd[e])

(* The signal comes while poll sleeps: poll fails and the loop is left.      *)
PollInterrupted ==
    /\ Signal /\ pc = "poll" /\ ~SomeReady
    /\ pc' = "exit"
    /\ UNCHANGED <<pollfds, clients, client_count, i, chunk, live, metrics, net, peak, swapped>>

(* Faulty variants: poll given client_count entries, or client_count + 1.    *)
PollForgetsListeners ==
    /\ pc = "poll"
    /\ \E e \in 0 .. client_count - 1 : Ready(fd[e])
    /\ revents' = [e \in Entries |-> IF e <= client_count - 1 THEN Ready(fd[e]) ELSE revents[e]]
    /\ pc' = "scan" /\ i' = 0
    /\ UNCHANGED <<fd, clients, client_count, chunk, done, live, metrics, net, peak, swapped>>

PollForgetsLast ==
    /\ pc = "poll"
    /\ \E e \in 0 .. client_count : Ready(fd[e])
    /\ revents' = [e \in Entries |-> IF e <= client_count THEN Ready(fd[e]) ELSE revents[e]]
    /\ pc' = "scan" /\ i' = 0
    /\ UNCHANGED <<fd, clients, client_count, chunk, done, live, metrics, net, peak, swapped>>

(* poll(pollfds, client_count + 2, -1): sleeps until an entry is ready, then *)
(* writes the revents of the entries it was given and of no other.           *)
Poll ==
    /\ pc = "poll" /\ SomeReady
    /\ revents' = [e \in Entries |-> IF e <= client_count + 1 THEN Ready(fd[e]) ELSE revents[e]]
    /\ pc' = "scan" /\ i' = 0
    /\ UNCHANGED <<fd, clients, client_count, chunk, done, live, metrics, net, peak, swapped>>

(* The scan goes from entry i to the next one with an event, e: the entries  *)
(* between are only tested, which nobody else can see.                       *)
NextEvent(e) ==
    /\ pc = "scan" /\ e <= client_count + 1
    /\ revents[e]
    /\ \A d \in i .. e - 1 : ~revents[d]

ScanEnds ==
    /\ pc = "scan"
    /\ \A e \in i .. client_count + 1 : ~revents[e]
    /\ pc' = "loop" /\ i' = 0
    /\ UNCHANGED <<pollfds, clients, client_count, chunk, done, live, metrics, net,
                   peak, swapped>>

(* What one send leaves of a connection: a peer that closed may answer with  *)
(* a reset before the next send; a pending reset is reported by this one.    *)
AfterSend(s) == CASE s = "fin" -> {"fin", "broken"}
                  [] s = "rst" -> {"broken"}
                  [] OTHER     -> {s}

(* Faulty variant: the newcomer counted before the comparison.              *)
AddClientCountsItself(c, is_manager) ==
    /\ fd' = [fd EXCEPT ![client_count + 2] = c]
    /\ total_historic_connections' = total_historic_connections + 1
    /\ max_consecutive_connections' =
         IF client_count + 1 > max_consecutive_connections THEN client_count + 1
                                                     ELSE max_consecutive_connections
    /\ client_state' = [client_state EXCEPT ![client_count] = IF is_manager THEN "MANAGER" ELSE "POP3"]
    /\ ip' = [ip EXCEPT ![client_count] = c]
    /\ live' = live \cup {c}

(* add_client: the maximum is taken before client_count counts the newcomer; *)
(* revents and recv_buffer of the slot keep what was left there.             *)
add_client(c, is_manager) ==
    /\ fd' = [fd EXCEPT ![client_count + 2] = c]
    /\ total_historic_connections' = total_historic_connections + 1
    /\ max_consecutive_connections' =
         IF client_count > max_consecutive_connections THEN client_count
                                                       ELSE max_consecutive_connections
    /\ client_state' = [client_state EXCEPT ![client_count] = IF is_manager THEN "MANAGER" ELSE "POP3"]
    /\ ip' = [ip EXCEPT ![client_count] = c]
    /\ live' = live \cup {c}

(* An entry that is a listener: accept one connection, greet it, log it.     *)
(* log_connection opens the log file, so the connection that takes the last  *)
(* descriptor makes it call exit.                                            *)
Accept(e) ==
    /\ NextEvent(e) /\ fd[e] \in Listeners /\ queue[fd[e]] # <<>>
    /\ client_count < MAX_CLIENTS
    /\ revents' = [revents EXCEPT ![e] = FALSE]
    /\ LET c == Head(queue[fd[e]]) IN
         /\ queue' = [queue EXCEPT ![fd[e]] = Tail(@)]
         /\ add_client(c, fd[e] = ManagerSocket)
         /\ cli_socket' = [cli_socket EXCEPT ![client_count] = c]
         /\ \E s \in AfterSend(sock[c]) : sock' = [sock EXCEPT ![c] = s]
    /\ client_count' = client_count + 1
    /\ peak' = IF client_count + 1 > peak THEN client_count + 1 ELSE peak
    /\ pc' = IF client_count + 1 >= MAX_SOCKETS THEN "failed" ELSE "scan"
    /\ i' = e + 1
    /\ UNCHANGED <<recv_buffer, chunk, done, inbox, swapped>>

(* add_client lets client_count = MAX_CLIENTS through its guard and stores   *)
(* past the end of pollfds[].                                                *)
AcceptOverflows(e) ==
    /\ NextEvent(e) /\ fd[e] \in Listeners /\ queue[fd[e]] # <<>>
    /\ client_count = MAX_CLIENTS
    /\ pc' = "aborted"
    /\ UNCHANGED <<pollfds, clients, client_count, i, chunk, done, live, metrics, net,
                   peak, swapped>>

(* Faulty variant: the record of the next client.                            *)
ScanClientOffByOne(e) ==
    /\ NextEvent(e) /\ fd[e] \notin Listeners
    /\ revents' = [revents EXCEPT ![e] = FALSE]
    /\ pc' = "recv" /\ i' = e + 1
    /\ UNCHANGED <<fd, clients, client_count, chunk, done, live, metrics, net, peak, swapped>>

(* Any other entry: handle_client is called and reaches its recv.            *)
ScanClient(e) ==
    /\ NextEvent(e) /\ fd[e] \notin Listeners
    /\ revents' = [revents EXCEPT ![e] = FALSE]
    /\ pc' = "recv" /\ i' = e
    /\ UNCHANGED <<fd, clients, client_count, chunk, done, live, metrics, net, peak, swapped>>

-----------------------------------------------------------------------------
(* handle_client, for the client of the entry the scan is at.                *)

cur  == i - 2
Peer == cli_socket[cur]

(* recv returns some of the bytes the kernel holds.                          *)
RecvData ==
    /\ pc = "recv" /\ inbox[Peer] # <<>>
    /\ \E n \in 1 .. Len(inbox[Peer]) :
         /\ chunk' = SubSeq(inbox[Peer], 1, n)
         /\ inbox' = [inbox EXCEPT ![Peer] = SubSeq(@, n + 1, Len(@))]
    /\ recv_buffer' = [recv_buffer EXCEPT ![cur] = None]
    /\ pc' = "serve"
    /\ UNCHANGED <<fd, revents, cli_socket, client_state, ip, client_count, i, done, live,
                   metrics, queue, sock, peak, swapped>>

(* After a failed recv the loop parses the uninitialized stack buffer: what  *)
(* it keeps for the next chunk is whatever was left there.  An earlier chunk *)
(* left no newline before its first NUL, the walk having written over it, so *)
(* no line is executed; one left by another function's frame is not modelled.*)
StackBytes == {None, Garbage}

RecvEnd ==
    /\ pc = "recv" /\ inbox[Peer] = <<>> /\ sock[Peer] \in {"fin", "broken"}
    /\ client_state' = [client_state EXCEPT ![cur] = "CLOSING"]
    /\ \E g \in StackBytes : recv_buffer' = [recv_buffer EXCEPT ![cur] = g]
    /\ pc' = "close"
    /\ UNCHANGED <<pollfds, cli_socket, ip, client_count, i, chunk, done, live, metrics,
                   net, peak, swapped>>

(* recv fails with the reset: client_state is left as it was, the next poll  *)
(* reports the end of the connection.                                        *)
RecvError ==
    /\ pc = "recv" /\ inbox[Peer] = <<>> /\ sock[Peer] = "rst"
    /\ sock' = [sock EXCEPT ![Peer] = "broken"]
    /\ \E g \in StackBytes : recv_buffer' = [recv_buffer EXCEPT ![cur] = g]
    /\ pc' = "scan" /\ i' = i + 1
    /\ UNCHANGED <<pollfds, cli_socket, client_state, ip, client_count, chunk, done, live,
                   metrics, queue, inbox, peak, swapped>>

Blocked == pc = "recv" /\ inbox[Peer] = <<>> /\ sock[Peer] = "est"

(* The signal comes while recv sleeps: recv fails, as signal() in this build *)
(* (-std=c11, no BSD semantics) does not restart calls.                      *)
RecvInterrupted ==
    /\ Signal /\ Blocked
    /\ \E g \in StackBytes : recv_buffer' = [recv_buffer EXCEPT ![cur] = g]
    /\ pc' = "scan" /\ i' = i + 1
    /\ UNCHANGED <<pollfds, cli_socket, client_state, ip, client_count, chunk, live, metrics,
                   net, peak, swapped>>

(* One item of the chunk is done: the next one, or back to the scan.          *)
NextItem ==
    /\ chunk' = Tail(chunk)
    /\ pc' = IF Tail(chunk) = <<>> THEN "scan" ELSE "serve"
    /\ i'  = IF Tail(chunk) = <<>> THEN i + 1 ELSE i

ServePart ==
    /\ pc = "serve" /\ Head(chunk) = "part"
    /\ NextItem
    /\ recv_buffer' = [recv_buffer EXCEPT ![cur] = IF Tail(chunk) = <<>> THEN Peer ELSE @]
    /\ UNCHANGED <<pollfds, cli_socket, client_state, ip, client_count, done, live,
                   metrics, net, peak, swapped>>

(* A line: get_command_value logs the address, then the reply is sent; LIST  *)
(* sends one per message, and nothing when its argument is out of range.     *)
ServeLine ==
    /\ pc = "serve" /\ Head(chunk) = "line"
    /\ ip[cur] \in live
    /\ \/ /\ sock[Peer] # "broken"
          /\ \E s \in AfterSend(sock[Peer]) : sock' = [sock EXCEPT ![Peer] = s]
       \/ sock' = sock
    /\ NextItem \/ UNCHANGED <<chunk, pc, i>>
    /\ UNCHANGED <<pollfds, clients, client_count, done, live, metrics, queue, inbox,
                   peak, swapped>>

(* QUIT answers, closes the socket itself and drops the rest of the chunk.   *)
ServeQuit ==
    /\ pc = "serve" /\ Head(chunk) = "quit"
    /\ ip[cur] \in live /\ sock[Peer] # "broken"
    /\ chunk' = <<>>
    /\ client_state' = [client_state EXCEPT ![cur] = "CLOSING"]
    /\ sock' = [sock EXCEPT ![Peer] = "closed"]
    /\ inbox' = [inbox EXCEPT ![Peer] = <<>>]
    /\ pc' = "close"
    /\ UNCHANGED <<pollfds, cli_socket, ip, recv_buffer, client_count, i, done, live, metrics,
                   queue, peak, swapped>>

ServeStaleIp ==
    /\ pc = "serve" /\ Head(chunk) # "part"
    /\ ip[cur] \notin live
    /\ pc' = "aborted"
    /\ UNCHANGED <<pollfds, clients, client_count, i, chunk, done, live, metrics, net,
                   peak, swapped>>

(* SIGPIPE is not ignored: a second send to a peer that is gone is the last.  *)
ServeBrokenPipe ==
    /\ pc = "serve" /\ Head(chunk) # "part"
    /\ ip[cur] \in live /\ sock[Peer] = "broken"
    /\ pc' = "killed"
    /\ UNCHANGED <<pollfds, clients, client_count, i, chunk, done, live, metrics, net,
                   peak, swapped>>

-----------------------------------------------------------------------------
(* handle_close_client(index): the last client takes the place of the closed *)
(* one.  The address freed is that of the last client.                       *)

lastSlot == client_count - 1

(* Faulty variants: clients[] not moved with pollfds[]; the state of the     *)
(* closed client kept; the state started afresh; the address kept.           *)
MoveLastForgetsClients ==
    /\ fd' = [fd EXCEPT ![i] = fd[lastSlot + 2], ![lastSlot + 2] = None]
    /\ cli_socket' = [cli_socket EXCEPT ![lastSlot] = None]
    /\ client_state' = [client_state EXCEPT ![lastSlot] = "ERROR_CLIENT"]
    /\ UNCHANGED <<ip, recv_buffer>>

MoveLastKeepsState ==
    /\ fd' = [fd EXCEPT ![i] = fd[lastSlot + 2], ![lastSlot + 2] = None]
    /\ cli_socket' = [cli_socket EXCEPT ![cur] = cli_socket[lastSlot], ![lastSlot] = None]
    /\ client_state' = [client_state EXCEPT ![lastSlot] = "ERROR_CLIENT"]
    /\ ip' = [ip EXCEPT ![cur] = ip[lastSlot]]
    /\ recv_buffer' = [recv_buffer EXCEPT ![cur] = recv_buffer[lastSlot]]

MoveLastStartsAfresh ==
    /\ fd' = [fd EXCEPT ![i] = fd[lastSlot + 2], ![lastSlot + 2] = None]
    /\ cli_socket' = [cli_socket EXCEPT ![cur] = cli_socket[lastSlot], ![lastSlot] = None]
    /\ client_state' = [client_state EXCEPT ![cur] = "POP3", ![lastSlot] = "ERROR_CLIENT"]
    /\ ip' = [ip EXCEPT ![cur] = ip[lastSlot]]
    /\ recv_buffer' = [recv_buffer EXCEPT ![cur] = recv_buffer[lastSlot]]

MoveLastKeepsIp ==
    /\ fd' = [fd EXCEPT ![i] = fd[lastSlot + 2], ![lastSlot + 2] = None]
    /\ cli_socket' = [cli_socket EXCEPT ![cur] = cli_socket[lastSlot], ![lastSlot] = None]
    /\ client_state' = [client_state EXCEPT ![cur] = client_state[lastSlot],
                                            ![lastSlot] = "ERROR_CLIENT"]
    /\ recv_buffer' = [recv_buffer EXCEPT ![cur] = recv_buffer[lastSlot]]
    /\ UNCHANGED ip

MoveLast ==
    /\ fd' = [fd EXCEPT ![i] = fd[lastSlot + 2], ![lastSlot + 2] = None]
    /\ cli_socket' = [cli_socket EXCEPT ![cur] = cli_socket[lastSlot], ![lastSlot] = None]
    /\ client_state' = [client_state EXCEPT ![cur] = client_state[lastSlot],
                                            ![lastSlot] = "ERROR_CLIENT"]
    /\ ip' = [ip EXCEPT ![cur] = ip[lastSlot]]
    /\ recv_buffer' = [recv_buffer EXCEPT ![cur] = recv_buffer[lastSlot]]

Swap == IF cur = lastSlot THEN {} ELSE {<<Peer, cli_socket[lastSlot]>>}

(* Faulty variants: no descriptor closed; the last client's closed; the      *)
(* count lowered before the address is freed.                                *)
CloseLeaksSocket ==
    /\ pc = "close"
    /\ ip[cur] \in live /\ ip[lastSlot] \in live
    /\ MoveLast
    /\ live' = live \ {ip[lastSlot]}
    /\ swapped' = swapped \cup Swap
    /\ client_count' = client_count - 1
    /\ pc' = "scan"
    /\ UNCHANGED <<revents, i, chunk, done, metrics, net, peak>>

CloseWrongSocket ==
    /\ pc = "close"
    /\ ip[cur] \in live /\ ip[lastSlot] \in live
    /\ sock' = [sock EXCEPT ![fd[lastSlot + 2]] = "closed"]
    /\ MoveLast
    /\ live' = live \ {ip[lastSlot]}
    /\ swapped' = swapped \cup Swap
    /\ client_count' = client_count - 1
    /\ pc' = "scan"
    /\ UNCHANGED <<revents, i, chunk, done, metrics, queue, inbox, peak>>

CloseCountsFirst ==
    /\ pc = "close"
    /\ ip[cur] \in live /\ ip[lastSlot] \in live
    /\ sock' = [sock EXCEPT ![fd[i]] = "closed"]
    /\ MoveLast
    /\ live' = live \ {ip'[k] : k \in Slots \cap {lastSlot - 1}}
    /\ swapped' = swapped \cup Swap
    /\ client_count' = client_count - 1
    /\ pc' = "scan"
    /\ UNCHANGED <<revents, i, chunk, done, metrics, queue, inbox, peak>>

(* handle_close_client(i--): the scan looks at the same entry again.         *)
Close ==
    /\ pc = "close"
    /\ ip[cur] \in live /\ ip[lastSlot] \in live
    /\ sock' = [sock EXCEPT ![fd[i]] = "closed"]
    /\ MoveLast
    /\ live' = live \ {ip[lastSlot]}
    /\ swapped' = swapped \cup Swap
    /\ client_count' = client_count - 1
    /\ pc' = "scan"
    /\ UNCHANGED <<revents, i, chunk, done, metrics, queue, inbox, peak>>

(* The address logged, or the one freed, is a block freed before.            *)
CloseStaleIp ==
    /\ pc = "close"
    /\ ip[cur] \notin live \/ ip[lastSlot] \notin live
    /\ pc' = "aborted"
    /\ UNCHANGED <<pollfds, clients, client_count, i, chunk, done, live, metrics, net,
                   peak, swapped>>

-----------------------------------------------------------------------------
Handle == \/ RecvData \/ RecvEnd \/ RecvError
          \/ ServePart \/ ServeLine \/ ServeQuit \/ ServeStaleIp \/ ServeBrokenPipe

Server == \/ LoopStarts \/ LoopEnds \/ Poll \/ ScanEnds
          \/ \E e \in i .. client_count + 1 :
                Accept(e) \/ AcceptOverflows(e) \/ ScanClient(e)
          \/ Handle
          \/ Close \/ CloseStaleIp

Environment ==
    \/ Interrupt \/ PollInterrupted \/ RecvInterrupted
    \/ \E c \in Conns : \/ Connect(c)
                        \/ \E item \in Items : ClientSend(c, item)
                        \/ \E how \in {"fin", "rst"} : ClientLeave(c, how)

Next == Server \/ Environment

Spec == Init /\ [][Next]_vars
(* The server is one process the operating system keeps running; clients owe *)
(* it nothing.                                                               *)
FairSpec == Spec /\ WF_vars(Server)

-----------------------------------------------------------------------------
(* Properties.                                                              *)

Held     == 0 .. client_count - 1
Waiting  == {c \in Conns : \E l \in Listeners : \E n \in 1 .. Len(queue[l]) : queue[l][n] = c}
Down     == ~Running

(* The two arrays describe the same clients: entry k+2 of pollfds[] and slot *)
(* k of clients[] hold the same socket for every client held, no socket is   *)
(* held twice, and past the last client there is none.  Every close moves    *)
(* one client in both arrays (handle_close_client).                          *)
Aligned ==
    /\ fd[0] = ServerSocket /\ fd[1] = ManagerSocket
    /\ \A k \in Held : fd[k + 2] = cli_socket[k] /\ cli_socket[k] \in Conns
    /\ \A k \in Slots \ Held : fd[k + 2] = None /\ cli_socket[k] = None
    /\ \A j, k \in Held : cli_socket[j] = cli_socket[k] => j = k

(* handle_client and handle_close_client only ever run for a slot in use.    *)
HandlesHeldSlot == pc \in {"recv", "serve", "close"} => cur \in Held

(* No connection is forgotten: the table holds exactly the connections that  *)
(* were accepted and that the server has not closed (between QUIT's own close *)
(* and handle_close_client the entry is still there).                        *)
NoSocketLost ==
    pc # "aborted" =>
      LET open == {c \in Conns : sock[c] \notin {"idle", "closed"}} \ Waiting
          held == {cli_socket[k] : k \in Held}
      IN  /\ open \subseteq held
          /\ held \subseteq open \cup (IF pc = "close" THEN {Peer} ELSE {})

(* The manager privilege stays with the connection that came through the     *)
(* manager port, through every move of the table.                            *)
ManagerPrivilege ==
    \A k \in Held : client_state[k] # "CLOSING" =>
                      (client_state[k] = "MANAGER" <=> cli_socket[k] \in Managers)

(* METR's figures: the history counts every connection ever accepted, and    *)
(* the maximum is one less than the most clients held at once, because       *)
(* add_client compares before counting the newcomer.                         *)
MetricsLag ==
    /\ max_consecutive_connections = (IF peak = 0 THEN 0 ELSE peak - 1)
    /\ total_historic_connections >= peak
    /\ client_count <= peak

(* Address blocks: no two clients hold the same block while it is allocated, *)
(* and a client's dangling block is always its own, lost by a move.          *)
IpIsOwn == \A k \in Held : ip[k] = cli_socket[k]

(* A close that moves the last client frees that client's address and leaks  *)
(* the closed one's (main.c:60-75); no other step does either.  So the       *)
(* addresses allocated are those of the clients never moved and of those     *)
(* closed in favour of another, whatever the order of the closes.            *)
AddressesSwapped ==
    live = ({cli_socket[k] : k \in Held} \ {x[2] : x \in swapped}) \cup {x[1] : x \in swapped}

(* What the invariants above rest on: a connection waits once, in one queue, *)
(* and is not in the table while it waits; a chunk being parsed has an item.  *)
QueuesApart ==
    /\ \A l \in Listeners : \A n \in 1 .. Len(queue[l]) :
         /\ sock[queue[l][n]] # "idle"
         /\ \A k \in Held : queue[l][n] # cli_socket[k]
    /\ \A l, h \in Listeners : \A n \in 1 .. Len(queue[l]), j \in 1 .. Len(queue[h]) :
         queue[l][n] = queue[h][j] => l = h /\ n = j
    /\ \A k \in Held : sock[cli_socket[k]] # "idle"
    /\ pc = "serve" => chunk # <<>>

IInv == TypeOK /\ Aligned /\ HandlesHeldSlot /\ IpIsOwn /\ MetricsLag /\ QueuesApart

(* And what the invariants on connections rest on: a queue holds connections *)
(* to its own port, none closed;                                             *)
PortsApart ==
    \A l \in Listeners : \A n \in 1 .. Len(queue[l]) :
        PortOf(queue[l][n]) = l /\ sock[queue[l][n]] # "closed"

(* a connection open and not in a queue is in the table, and one in the      *)
(* table is open unless it is being closed;                                  *)
SocketsKept ==
    /\ \A c \in Conns : sock[c] \notin {"idle", "closed"} =>
          c \in Waiting \/ \E k \in Held : cli_socket[k] = c
    /\ pc # "aborted" =>
          \A k \in Held : sock[cli_socket[k]] = "closed" => pc = "close" /\ k = cur

(* the loop goes on only while a descriptor is left for the log;             *)
RoomForLog == pc # "failed" => client_count < MAX_SOCKETS

(* a client is closed after its QUIT, which closed the socket, or when all   *)
(* it sent was read and the end of it reported.                              *)
CloseIsDue ==
    pc = "close" => sock[Peer] = "closed" \/ (sock[Peer] \in {"fin", "broken"} /\ inbox[Peer] = <<>>)

(* and of a close that moved a client, the one closed is gone and the one    *)
(* moved is still held, since its next command or its close ends the process.*)
SwappedApart ==
    \A x \in swapped :
        /\ sock[x[1]] = "closed" /\ \A k \in Held : cli_socket[k] # x[1]
        /\ \E k \in Held : cli_socket[k] = x[2]

SocketInv == /\ IInv /\ PortsApart /\ SocketsKept /\ RoomForLog /\ CloseIsDue
             /\ ManagerPrivilege /\ AddressesSwapped /\ SwappedApart

(* A step that serves or closes one client leaves every other client's       *)
(* record as it was, even if it moves it to another slot.                    *)
OthersKept ==
    \A k \in Held : (pc \in {"recv", "serve", "close"} => k # cur) =>
      \E m \in Held' :
         /\ cli_socket'[m] = cli_socket[k] /\ fd'[m + 2] = fd[k + 2]
         /\ client_state'[m] = client_state[k]
         /\ ip'[m] = ip[k] /\ recv_buffer'[m] = recv_buffer[k]

OthersUntouched == [][OthersKept]_vars

(* The server closes a connection only when everything that client sent was  *)
(* received and the client is gone, or at a QUIT of that same client.        *)
FinishedClosed ==
    \A c \in Conns : sock[c] # "closed" /\ sock'[c] = "closed" =>
       \/ sock[c] \in {"fin", "broken"} /\ inbox[c] = <<>>
       \/ pc = "serve" /\ Head(chunk) = "quit" /\ Peer = c

ClosesOnlyFinished == [][FinishedClosed]_vars

(* A connection in a listener's queue is accepted in the end, unless the     *)
(* server went down or sleeps in a recv.                                     *)
QueuedIsAccepted(c) == c \in Waiting ~> (c \notin Waiting \/ Down \/ Blocked)

(* What a client sent is read in the end, although handle_close_client drops *)
(* the event of the client it moves: poll reports it again.                  *)
SentIsReceived(c) == inbox[c] # <<>> ~> (inbox[c] = <<>> \/ Down \/ Blocked)

(* sigterm_handler (main.c:19) says the server is cleaning up and exiting:    *)
(* after SIGINT it ends, unless it sleeps in recv.                           *)
SignalEnds == done ~> (Down \/ Blocked)

(* The report (p. 5) on the non-blocking server: it goes on serving; it must *)
(* never sleep in the recv of one client.                                    *)
NeverBlocksInRecv == ~Blocked

(* The loop never touches memory it freed or does not own.                   *)
NoMemoryError == pc # "aborted"

(* The maximum METR answers is the most clients held at once.                *)
MaxIsPeak == max_consecutive_connections = peak

(* Bytes kept for the next chunk of a client were sent by that client.       *)
ResidueIsOwn == \A k \in Held : recv_buffer[k] \in {None, Garbage, cli_socket[k]}

(* A client that leaves does not take the server down.                       *)
SurvivesLeavers == pc # "killed"

(* A connection more than the table or the process limit has room for is     *)
(* refused, and the server goes on.                                          *)
SurvivesCrowd == pc # "failed" /\ (pc = "aborted" => client_count < MAX_CLIENTS)

=============================================================================
