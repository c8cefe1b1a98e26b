-------------------------- MODULE ClientTable_proofs --------------------------
(* The connection table of main.c stays well formed, for every table size,   *)
(* every process limit and every set of connections.                         *)
EXTENDS ClientTable, TLAPS

(* The empty table satisfies the invariant.                                  *)
LEMMA InitInv == Init => IInv
<1> SUFFICES ASSUME Init PROVE IInv
    OBVIOUS
<1> USE TableAssumption DEF Init
<1>1. TypeOK
  <2>1. fd \in [Entries -> Conns \cup Listeners \cup {None}]
    BY DEF Entries, Listeners
  <2>2. /\ revents \in [Entries -> BOOLEAN] /\ cli_socket \in [Slots -> Conns \cup {None}]
        /\ ip \in [Slots -> Conns \cup {None}]
        /\ recv_buffer \in [Slots -> Conns \cup {None, Garbage}]
    OBVIOUS
  <2>3. client_state \in [Slots -> {"POP3", "MANAGER", "CLOSING", "ERROR_CLIENT"}]
    OBVIOUS
  <2>4. client_count \in 0 .. MAX_CLIENTS /\ i \in 0 .. MAX_CLIENTS + 2 /\ pc \in PCs
    BY DEF PCs
  <2>5. queue \in [Listeners -> Seq(Conns)] /\ sock \in [Conns -> SockStates]
    BY DEF SockStates
  <2>6. chunk \in Seq(Items) /\ inbox \in [Conns -> Seq(Items)]
    OBVIOUS
  <2>7. done \in BOOLEAN /\ live \subseteq Conns /\ metrics \in Nat \X Nat /\ peak \in Nat
        /\ swapped \subseteq Conns \X Conns
    BY DEF metrics
  <2> QED
    BY <2>1, <2>2, <2>3, <2>4, <2>5, <2>6, <2>7 DEF TypeOK, metrics
<1>2. Aligned
  <2>1. fd[0] = ServerSocket /\ fd[1] = ManagerSocket
    BY DEF Entries
  <2>2. \A k \in Slots : fd[k + 2] = None /\ cli_socket[k] = None
    BY DEF Entries, Slots
  <2> QED
    BY <2>1, <2>2 DEF Aligned, Held
<1>3. HandlesHeldSlot /\ IpIsOwn /\ MetricsLag
    BY DEF HandlesHeldSlot, IpIsOwn, MetricsLag, Held
<1>4. QueuesApart
    BY DEF QueuesApart, Held, Listeners
<1> QED
    BY <1>1, <1>2, <1>3, <1>4 DEF IInv

(* A step that leaves the table and the counters alone keeps what is said of  *)
(* them.                                                                     *)
LEMMA TableKept ==
    ASSUME IInv, UNCHANGED <<fd, cli_socket, ip, client_count, metrics, peak, swapped>>
    PROVE  Aligned' /\ IpIsOwn' /\ MetricsLag'
BY DEF IInv, Aligned, IpIsOwn, MetricsLag, Held, metrics

(* So does one that leaves the queues alone, and forgets no connection.      *)
LEMMA QueuesKept ==
    ASSUME IInv, UNCHANGED <<queue, cli_socket, client_count>>,
           \A c \in Conns : sock[c] # "idle" => sock'[c] # "idle",
           pc' = "serve" => chunk' # <<>>
    PROVE  QueuesApart'
<1>1. /\ \A k \in Held : cli_socket[k] \in Conns
      /\ \A l \in Listeners : \A n \in 1 .. Len(queue[l]) : queue[l][n] \in Conns
    BY DEF IInv, Aligned, TypeOK
<1>2. Held' = Held
    BY DEF Held
<1> QED
    BY <1>1, <1>2 DEF IInv, QueuesApart

(* A new connection is queued in one place, and was in no slot.              *)
LEMMA ConnectInv == ASSUME IInv, NEW c \in Conns, Connect(c) PROVE IInv'
<1> DEFINE l == PortOf(c)
<1> USE TableAssumption
<1>1. l \in Listeners
    BY DEF PortOf, Listeners
<1>2. /\ queue \in [Listeners -> Seq(Conns)] /\ sock \in [Conns -> SockStates]
      /\ queue' = [queue EXCEPT ![l] = Append(@, c)] /\ sock' = [sock EXCEPT ![c] = "est"]
    BY DEF Connect, IInv, TypeOK
<1> HIDE DEF l
<1>3. queue' \in [Listeners -> Seq(Conns)] /\ sock' \in [Conns -> SockStates]
    BY <1>1, <1>2 DEF SockStates
<1>4. TypeOK'
    BY <1>3 DEF IInv, TypeOK, Connect, pollfds, clients, metrics
<1>5. Aligned' /\ HandlesHeldSlot' /\ IpIsOwn' /\ MetricsLag'
  <2>1. HandlesHeldSlot'
    BY DEF IInv, HandlesHeldSlot, Held, cur, Connect
  <2> QED
    BY <2>1, TableKept DEF Connect, pollfds, clients
<1>6. QueuesApart'
  <2>1. \A k \in Held : c # cli_socket[k]
    BY DEF IInv, QueuesApart, Connect
  <2>2. \A h \in Listeners : \A n \in 1 .. Len(queue[h]) : queue[h][n] # c
    BY DEF IInv, QueuesApart, Connect
  <2>3. \A h \in Listeners : \A n \in 1 .. Len(queue'[h]) :
            \/ n \in 1 .. Len(queue[h]) /\ queue'[h][n] = queue[h][n]
            \/ h = l /\ n = Len(queue[h]) + 1 /\ queue'[h][n] = c
    BY <1>1, <1>2
  <2>4. \A d \in Conns : sock[d] # "idle" => sock'[d] # "idle"
    BY <1>2
  <2>5. Held' = Held /\ cli_socket' = cli_socket /\ pc' = pc /\ chunk' = chunk
    BY DEF Held, Connect, clients
  <2>6. sock'[c] # "idle" /\ \A k \in Held : cli_socket[k] \in Conns
    BY <1>2 DEF IInv, Aligned
  <2>7. \A h \in Listeners : \A n \in 1 .. Len(queue[h]) : queue[h][n] \in Conns
    BY <1>2
  <2>8. \A h \in Listeners : \A n \in 1 .. Len(queue'[h]) :
          /\ sock'[queue'[h][n]] # "idle"
          /\ \A k \in Held : queue'[h][n] # cli_socket[k]
    BY <2>1, <2>3, <2>4, <2>6, <2>7 DEF IInv, QueuesApart
  <2>9. ASSUME NEW h \in Listeners, NEW g \in Listeners,
               NEW n \in 1 .. Len(queue'[h]), NEW j \in 1 .. Len(queue'[g]),
               queue'[h][n] = queue'[g][j]
        PROVE  h = g /\ n = j
    <3>1. CASE n \in 1 .. Len(queue[h]) /\ queue'[h][n] = queue[h][n]
      <4>1. j \in 1 .. Len(queue[g]) /\ queue'[g][j] = queue[g][j]
        BY <2>2, <2>3, <2>9, <3>1
      <4>2. queue[h][n] = queue[g][j]
        BY <2>9, <3>1, <4>1
      <4>3. \A a, b \in Listeners : \A p \in 1 .. Len(queue[a]), q \in 1 .. Len(queue[b]) :
              queue[a][p] = queue[b][q] => a = b /\ p = q
        BY DEF IInv, QueuesApart
      <4> QED
        BY <3>1, <4>1, <4>2, <4>3
    <3>2. CASE h = l /\ n = Len(queue[h]) + 1 /\ queue'[h][n] = c
      BY <2>2, <2>3, <2>9, <3>2
    <3> QED
      BY <2>3, <2>9, <3>1, <3>2
  <2>10. /\ \A k \in Held : sock'[cli_socket[k]] # "idle"
         /\ pc = "serve" => chunk # <<>>
    BY <2>4, <2>6 DEF IInv, QueuesApart
  <2> QED
    BY <2>5, <2>8, <2>9, <2>10 DEF QueuesApart
<1> QED
    BY <1>4, <1>5, <1>6 DEF IInv

(* What clients send, their leaving and the signal leave the table alone.    *)
LEMMA ClientInv ==
    ASSUME IInv,
           \/ \E c \in Conns, item \in Items : ClientSend(c, item)
           \/ \E c \in Conns, how \in {"fin", "rst"} : ClientLeave(c, how)
           \/ Interrupt
    PROVE  IInv'
<1>1. /\ UNCHANGED <<pollfds, clients, client_count, pc, i, chunk, live, metrics, queue, peak, swapped>>
      /\ done' \in BOOLEAN
    BY DEF IInv, TypeOK, ClientSend, ClientLeave, Interrupt, Signal, net
<1>2. inbox' \in [Conns -> Seq(Items)]
  <2>1. CASE \E c \in Conns, item \in Items : ClientSend(c, item)
    BY <2>1 DEF IInv, TypeOK, ClientSend
  <2>2. CASE UNCHANGED inbox
    BY <2>2 DEF IInv, TypeOK
  <2> QED
    BY <2>1, <2>2 DEF ClientLeave, Interrupt, Signal, net
<1>3. /\ sock' \in [Conns -> SockStates]
      /\ \A c \in Conns : sock[c] # "idle" => sock'[c] # "idle"
    BY DEF IInv, TypeOK, ClientSend, ClientLeave, Interrupt, Signal, net, SockStates
<1>4. TypeOK'
    BY <1>1, <1>2, <1>3 DEF IInv, TypeOK, pollfds, clients, metrics
<1>5. Aligned' /\ IpIsOwn' /\ MetricsLag'
    BY <1>1, TableKept DEF pollfds, clients
<1>6. HandlesHeldSlot'
    BY <1>1 DEF IInv, HandlesHeldSlot, Held, cur
<1>7. QueuesApart'
  <2>1. pc' = "serve" => chunk' # <<>>
    BY <1>1 DEF IInv, QueuesApart
  <2> QED
    BY <1>1, <1>3, <2>1, QueuesKept DEF clients
<1> QED
    BY <1>4, <1>5, <1>6, <1>7 DEF IInv

(* Steps after which nothing more is done.                                   *)
LEMMA HaltInv ==
    ASSUME IInv, LoopEnds \/ PollInterrupted \/ ServeStaleIp \/ ServeBrokenPipe \/ CloseStaleIp
                 \/ \E e \in i .. client_count + 1 : AcceptOverflows(e)
    PROVE  IInv'
<1>1. /\ UNCHANGED <<pollfds, clients, client_count, i, chunk, live, metrics, net, peak, swapped>>
      /\ pc' \in Halted /\ done' \in {done, TRUE}
    BY DEF LoopEnds, PollInterrupted, Signal, ServeStaleIp, ServeBrokenPipe, CloseStaleIp,
           AcceptOverflows, Halted
<1>2. TypeOK'
    BY <1>1 DEF IInv, TypeOK, pollfds, clients, metrics, net, PCs
<1>3. Aligned' /\ IpIsOwn' /\ MetricsLag'
    BY <1>1, TableKept DEF pollfds, clients
<1>4. HandlesHeldSlot' /\ pc' # "serve"
    BY <1>1 DEF HandlesHeldSlot, Halted
<1>5. QueuesApart'
    BY <1>1, <1>4, QueuesKept DEF clients, net
<1> QED
    BY <1>2, <1>3, <1>4, <1>5 DEF IInv

(* The steps of the loop itself; the one that turns to a client turns to one *)
(* held.                                                                     *)
LEMMA ScanInv ==
    ASSUME IInv, LoopStarts \/ Poll \/ ScanEnds \/ \E e \in i .. client_count + 1 : ScanClient(e)
    PROVE  IInv'
<1> USE TableAssumption
<1>1. UNCHANGED <<fd, clients, client_count, chunk, done, live, metrics, net, peak, swapped>>
    BY DEF LoopStarts, Poll, ScanEnds, ScanClient, pollfds
<1>2. TypeOK'
  <2>1. revents' \in [Entries -> BOOLEAN]
    <3>1. revents \in [Entries -> BOOLEAN]
      BY DEF IInv, TypeOK
    <3>2. CASE LoopStarts \/ ScanEnds
      BY <3>1, <3>2 DEF LoopStarts, ScanEnds, pollfds
    <3>3. CASE Poll
      <4>1. \A e \in Entries :
              (IF e <= client_count + 1 THEN Ready(fd[e]) ELSE revents[e]) \in BOOLEAN
        BY <3>1 DEF Ready, Readable
      <4> QED
        BY <3>3, <4>1 DEF Poll
    <3>4. CASE \E e \in i .. client_count + 1 : ScanClient(e)
      BY <3>1, <3>4 DEF ScanClient
    <3> QED
      BY <3>2, <3>3, <3>4
  <2>2. pc' \in PCs /\ i' \in 0 .. MAX_CLIENTS + 2
    BY DEF IInv, TypeOK, LoopStarts, Poll, ScanEnds, ScanClient, PCs
  <2> QED
    BY <1>1, <2>1, <2>2 DEF IInv, TypeOK, clients, metrics, net
<1>3. Aligned' /\ IpIsOwn' /\ MetricsLag'
    BY <1>1, TableKept DEF clients
<1>4. HandlesHeldSlot'
  <2>1. ASSUME NEW e \in i .. client_count + 1, ScanClient(e) PROVE e - 2 \in Held
    <3>1. e # 0 /\ e # 1 /\ e \in Int /\ e <= client_count + 1
      BY <2>1 DEF IInv, TypeOK, Aligned, ScanClient, NextEvent, Listeners
    <3>2. e >= 0 /\ client_count \in Nat
      BY DEF IInv, TypeOK
    <3> QED
      BY <3>1, <3>2 DEF Held
  <2>2. CASE \E e \in i .. client_count + 1 : ScanClient(e)
    BY <1>1, <2>1, <2>2 DEF HandlesHeldSlot, ScanClient, cur, Held
  <2>3. CASE LoopStarts \/ Poll \/ ScanEnds
    BY <2>3 DEF HandlesHeldSlot, LoopStarts, Poll, ScanEnds
  <2> QED
    BY <2>2, <2>3
<1>5. QueuesApart'
  <2>1. pc' # "serve"
    BY DEF LoopStarts, Poll, ScanEnds, ScanClient
  <2> QED
    BY <1>1, <2>1, QueuesKept DEF clients, net
<1> QED
    BY <1>2, <1>3, <1>4, <1>5 DEF IInv

(* handle_client runs on the record of a client held.                        *)
LEMMA HandledPeer ==
    ASSUME IInv, pc \in {"recv", "serve", "close"}
    PROVE  cur \in Held /\ cur \in Slots /\ Peer \in Conns /\ i + 1 \in 0 .. MAX_CLIENTS + 2
BY TableAssumption DEF IInv, TypeOK, Aligned, HandlesHeldSlot, Held, Slots, cur, Peer

(* A send leaves a connection in a known state, never back to idle.          *)
LEMMA AfterSendState ==
    ASSUME NEW s \in SockStates, s # "idle", NEW t \in AfterSend(s)
    PROVE  t \in SockStates /\ t # "idle"
BY DEF AfterSend, SockStates

(* handle_client changes the state and the residue of its own slot only.      *)
LEMMA HandleInv ==
    ASSUME IInv, \/ RecvData \/ RecvEnd \/ RecvError \/ RecvInterrupted
                 \/ ServePart \/ ServeLine \/ ServeQuit
    PROVE  IInv'
<1>1. /\ UNCHANGED <<fd, revents, cli_socket, ip, client_count, live, metrics, queue, peak, swapped>>
      /\ pc \in {"recv", "serve"} /\ done' \in {done, TRUE}
    BY DEF RecvData, RecvEnd, RecvError, RecvInterrupted, Signal, Blocked,
           ServePart, ServeLine, ServeQuit, pollfds, clients, net
<1>2. /\ cur \in Held /\ cur \in Slots /\ Peer \in Conns
      /\ i + 1 \in 0 .. MAX_CLIENTS + 2
    BY <1>1, HandledPeer
<1>3. /\ sock' \in [Conns -> SockStates]
      /\ \A c \in Conns : sock[c] # "idle" => sock'[c] # "idle"
  <2>1. CASE UNCHANGED sock
    BY <2>1 DEF IInv, TypeOK
  <2>2. CASE \E t \in {"broken", "closed"} : sock' = [sock EXCEPT ![Peer] = t]
    BY <1>2, <2>2 DEF IInv, TypeOK, SockStates
  <2>3. CASE \E t \in AfterSend(sock[Peer]) : sock' = [sock EXCEPT ![Peer] = t]
    <3>1. sock[Peer] \in SockStates /\ sock[Peer] # "idle"
      BY <1>2 DEF IInv, TypeOK, QueuesApart, Peer
    <3>2. PICK t \in SockStates : t # "idle" /\ sock' = [sock EXCEPT ![Peer] = t]
      BY <2>3, <3>1, AfterSendState
    <3> QED
      BY <1>2, <3>2 DEF IInv, TypeOK
  <2> QED
    BY <2>1, <2>2, <2>3 DEF RecvData, RecvEnd, RecvError, RecvInterrupted, Signal, Blocked,
                            ServePart, ServeLine, ServeQuit, net
<1>4. chunk' \in Seq(Items) /\ inbox' \in [Conns -> Seq(Items)] /\ (pc' = "serve" => chunk' # <<>>)
  <2>1. CASE RecvData
    <3>1. inbox[Peer] \in Seq(Items)
      BY <1>2 DEF IInv, TypeOK
    <3>2. PICK n \in 1 .. Len(inbox[Peer]) :
             /\ chunk' = SubSeq(inbox[Peer], 1, n)
             /\ inbox' = [inbox EXCEPT ![Peer] = SubSeq(@, n + 1, Len(@))]
      BY <2>1 DEF RecvData
    <3>3. /\ SubSeq(inbox[Peer], 1, n) \in Seq(Items) /\ Len(SubSeq(inbox[Peer], 1, n)) = n
          /\ SubSeq(inbox[Peer], n + 1, Len(inbox[Peer])) \in Seq(Items)
      BY <3>1, <3>2
    <3>4. chunk' # <<>>
      BY <3>2, <3>3
    <3> QED
      BY <1>2, <3>2, <3>3, <3>4 DEF IInv, TypeOK
  <2>2. CASE RecvEnd \/ RecvError \/ RecvInterrupted
    BY <2>2 DEF IInv, TypeOK, RecvEnd, RecvError, RecvInterrupted, Signal, Blocked, net
  <2>3. CASE ServePart \/ ServeLine
    <3>1. chunk \in Seq(Items) /\ chunk # <<>>
      BY <2>3 DEF IInv, TypeOK, QueuesApart, ServePart, ServeLine
    <3>2. Tail(chunk) \in Seq(Items)
      BY <3>1
    <3>3. /\ inbox' = inbox
          /\ \/ chunk' = Tail(chunk) /\ (pc' = "serve" => Tail(chunk) # <<>>)
             \/ chunk' = chunk
      BY <2>3 DEF ServePart, ServeLine, NextItem, net
    <3> QED
      BY <3>1, <3>2, <3>3 DEF IInv, TypeOK
  <2>4. CASE ServeQuit
    BY <1>2, <2>4 DEF IInv, TypeOK, ServeQuit
  <2> QED
    BY <2>1, <2>2, <2>3, <2>4
<1>5. pc' \in PCs /\ i' \in 0 .. MAX_CLIENTS + 2
    BY <1>2 DEF IInv, TypeOK, PCs, RecvData, RecvEnd, RecvError, RecvInterrupted, Signal, Blocked,
                ServePart, ServeLine, ServeQuit, NextItem
<1>6. client_state' \in [Slots -> {"POP3", "MANAGER", "CLOSING", "ERROR_CLIENT"}]
    BY <1>2 DEF IInv, TypeOK, RecvData, RecvEnd, RecvError, RecvInterrupted, Signal, Blocked,
                ServePart, ServeLine, ServeQuit, clients
<1>7. recv_buffer' \in [Slots -> Conns \cup {None, Garbage}]
    BY <1>2 DEF IInv, TypeOK, RecvData, RecvEnd, RecvError, RecvInterrupted, Signal, Blocked,
                ServePart, ServeLine, ServeQuit, clients, StackBytes
<1>8. TypeOK'
    BY <1>1, <1>3, <1>4, <1>5, <1>6, <1>7 DEF IInv, TypeOK, metrics
<1>9. Aligned' /\ IpIsOwn' /\ MetricsLag'
    BY <1>1, TableKept
<1>10. HandlesHeldSlot'
  <2>1. pc' \in {"recv", "serve", "close"} => i' = i
    BY DEF RecvData, RecvEnd, RecvError, RecvInterrupted, Signal, Blocked,
           ServePart, ServeLine, ServeQuit, NextItem
  <2> QED
    BY <1>1, <1>2, <2>1 DEF HandlesHeldSlot, Held, cur
<1>11. QueuesApart'
    BY <1>1, <1>3, <1>4, QueuesKept
<1> QED
    BY <1>8, <1>9, <1>10, <1>11 DEF IInv

(* The newcomer takes the first free slot; it was waiting, so it is in no    *)
(* other.                                                                    *)
LEMMA AcceptInv ==
    ASSUME IInv, NEW e \in i .. client_count + 1, Accept(e)
    PROVE  IInv'
<1> DEFINE l == fd[e]
           c == Head(queue[l])
<1> USE TableAssumption
<1>1. /\ l \in Listeners /\ queue[l] \in Seq(Conns) /\ queue[l] # <<>>
      /\ client_count \in 0 .. MAX_CLIENTS - 1 /\ client_count \in Slots
      /\ client_count + 2 \in Entries
      /\ e \in 0 .. MAX_CLIENTS + 1
    BY DEF IInv, TypeOK, Accept, NextEvent, Slots, Entries
<1>2. c \in Conns /\ c = queue[l][1] /\ 1 \in 1 .. Len(queue[l])
    BY <1>1
<1>3. /\ sock[c] \in SockStates /\ sock[c] # "idle"
      /\ \A k \in Held : c # cli_socket[k]
    BY <1>1, <1>2 DEF IInv, TypeOK, QueuesApart
<1>4. Held' = Held \cup {client_count} /\ client_count \notin Held
  <2>1. client_count' = client_count + 1 /\ client_count \in Nat
    BY <1>1 DEF Accept
  <2> QED
    BY <2>1 DEF Held
<1>5. PICK s \in SockStates : s # "idle" /\ sock' = [sock EXCEPT ![c] = s]
    BY <1>3, AfterSendState DEF Accept
<1>6. /\ fd' = [fd EXCEPT ![client_count + 2] = c]
      /\ cli_socket' = [cli_socket EXCEPT ![client_count] = c]
      /\ ip' = [ip EXCEPT ![client_count] = c]
      /\ queue' = [queue EXCEPT ![l] = Tail(@)]
      /\ client_count' = client_count + 1 /\ i' = e + 1
    BY DEF Accept, add_client
<1>7. TypeOK'
  <2>1. /\ fd' \in [Entries -> Conns \cup Listeners \cup {None}]
        /\ cli_socket' \in [Slots -> Conns \cup {None}] /\ ip' \in [Slots -> Conns \cup {None}]
    BY <1>1, <1>2, <1>6 DEF IInv, TypeOK
  <2>2. revents' \in [Entries -> BOOLEAN]
    BY DEF IInv, TypeOK, Accept
  <2>3. client_state' \in [Slots -> {"POP3", "MANAGER", "CLOSING", "ERROR_CLIENT"}]
    BY DEF IInv, TypeOK, Accept, add_client
  <2>4. /\ client_count' \in 0 .. MAX_CLIENTS /\ pc' \in PCs /\ i' \in 0 .. MAX_CLIENTS + 2
        /\ live' \subseteq Conns
    BY <1>1, <1>2, <1>6 DEF IInv, TypeOK, PCs, Halted, Accept, add_client
  <2>5. queue' \in [Listeners -> Seq(Conns)] /\ sock' \in [Conns -> SockStates]
    BY <1>1, <1>2, <1>5, <1>6 DEF IInv, TypeOK
  <2>6. /\ total_historic_connections' \in Nat /\ max_consecutive_connections' \in Nat
        /\ peak' \in Nat
    BY DEF IInv, TypeOK, Accept, add_client
  <2> QED
    BY <2>1, <2>2, <2>3, <2>4, <2>5, <2>6 DEF IInv, TypeOK, Accept
<1>8. Aligned'
  <2>1. fd'[0] = ServerSocket /\ fd'[1] = ManagerSocket
    BY <1>1, <1>6 DEF IInv, Aligned, TypeOK
  <2>2. \A k \in Held' : fd'[k + 2] = cli_socket'[k] /\ cli_socket'[k] \in Conns
    <3>1. fd'[client_count + 2] = c /\ cli_socket'[client_count] = c
      BY <1>1, <1>6 DEF IInv, TypeOK
    <3>2. ASSUME NEW k \in Held
          PROVE  fd'[k + 2] = fd[k + 2] /\ cli_socket'[k] = cli_socket[k]
      BY <1>1, <1>6 DEF IInv, TypeOK, Held
    <3> QED
      BY <1>2, <1>4, <3>1, <3>2 DEF IInv, Aligned
  <2>3. ASSUME NEW k \in Slots \ Held'
        PROVE  fd'[k + 2] = None /\ cli_socket'[k] = None
    <3>1. k \in Slots \ Held /\ k # client_count
      BY <1>4
    <3>2. fd'[k + 2] = fd[k + 2] /\ cli_socket'[k] = cli_socket[k]
      BY <1>1, <1>6, <3>1 DEF IInv, TypeOK, Slots, Entries
    <3> QED
      BY <3>1, <3>2 DEF IInv, Aligned
  <2>4. \A j, k \in Held' : cli_socket'[j] = cli_socket'[k] => j = k
    <3>1. cli_socket'[client_count] = c /\ \A k \in Held : cli_socket'[k] = cli_socket[k]
      BY <1>1, <1>6 DEF IInv, TypeOK, Held
    <3> QED
      BY <1>3, <1>4, <3>1 DEF IInv, Aligned
  <2> QED
    BY <2>1, <2>2, <2>3, <2>4 DEF Aligned
<1>9. HandlesHeldSlot' /\ pc' # "serve"
    BY DEF Accept, HandlesHeldSlot
<1>10. IpIsOwn'
    BY <1>1, <1>4, <1>6 DEF IInv, IpIsOwn, TypeOK, Held
<1>11. MetricsLag'
    BY DEF IInv, TypeOK, MetricsLag, Accept, add_client
<1>12. QueuesApart'
  <2> DEFINE was(h, n) == IF h = l THEN n + 1 ELSE n
  <2>1. ASSUME NEW h \in Listeners, NEW n \in 1 .. Len(queue'[h])
        PROVE  was(h, n) \in 1 .. Len(queue[h]) /\ queue'[h][n] = queue[h][was(h, n)]
    BY <1>1, <1>6 DEF IInv, TypeOK
  <2>2. \A h, g \in Listeners : \A n \in 1 .. Len(queue[h]), j \in 1 .. Len(queue[g]) :
           queue[h][n] = queue[g][j] => h = g /\ n = j
    BY DEF IInv, QueuesApart
  <2>3. ASSUME NEW h \in Listeners, NEW n \in 1 .. Len(queue'[h]) PROVE queue'[h][n] # c
    <3>1. h # l \/ was(h, n) # 1
      OBVIOUS
    <3> HIDE DEF was, l
    <3>2. queue[h][was(h, n)] # queue[l][1]
      BY <1>1, <1>2, <2>1, <2>2, <3>1
    <3> QED
      BY <1>2, <2>1, <3>2
  <2>4. \A d \in Conns : sock[d] # "idle" => sock'[d] # "idle"
    BY <1>2, <1>5 DEF IInv, TypeOK
  <2>5. \A h \in Listeners : \A n \in 1 .. Len(queue[h]) :
           queue[h][n] \in Conns /\ sock[queue[h][n]] # "idle" /\ \A k \in Held : queue[h][n] # cli_socket[k]
    BY DEF IInv, TypeOK, QueuesApart
  <2>6. cli_socket'[client_count] = c /\ \A k \in Held : cli_socket'[k] = cli_socket[k]
    BY <1>1, <1>6 DEF IInv, TypeOK, Held
  <2>7. ASSUME NEW h \in Listeners, NEW n \in 1 .. Len(queue'[h])
        PROVE  sock'[queue'[h][n]] # "idle" /\ \A k \in Held' : queue'[h][n] # cli_socket'[k]
    <3> HIDE DEF was, l, c
    <3>1. was(h, n) \in 1 .. Len(queue[h]) /\ queue'[h][n] = queue[h][was(h, n)]
      BY <2>1
    <3>2. queue'[h][n] \in Conns /\ sock[queue'[h][n]] # "idle"
      BY <2>5, <3>1
    <3>3. \A k \in Held : queue'[h][n] # cli_socket'[k]
      BY <2>5, <2>6, <3>1
    <3>4. queue'[h][n] # cli_socket'[client_count]
      BY <2>3, <2>6
    <3> QED
      BY <1>4, <2>4, <3>2, <3>3, <3>4
  <2>8. ASSUME NEW h \in Listeners, NEW g \in Listeners,
               NEW n \in 1 .. Len(queue'[h]), NEW j \in 1 .. Len(queue'[g]),
               queue'[h][n] = queue'[g][j]
        PROVE  h = g /\ n = j
    <3>1. h = g /\ was(h, n) = was(g, j)
      <4> HIDE DEF was
      <4>1. queue[h][was(h, n)] = queue[g][was(g, j)]
        BY <2>1, <2>8
      <4> QED
        BY <2>1, <2>2, <4>1
    <3> QED
      BY <3>1
  <2>9. \A k \in Held' : sock'[cli_socket'[k]] # "idle"
    BY <1>2, <1>3, <1>4, <2>4, <2>6 DEF IInv, QueuesApart, Aligned
  <2> QED
    BY <1>9, <2>7, <2>8, <2>9 DEF QueuesApart
<1> QED
    BY <1>7, <1>8, <1>9, <1>10, <1>11, <1>12 DEF IInv


(* The last client takes the slot of the closed one, in both arrays.         *)
LEMMA CloseInv == ASSUME IInv, Close PROVE IInv'
<1> USE TableAssumption
<1>1. cur \in Held /\ cur \in Slots /\ Peer \in Conns /\ i = cur + 2
    BY HandledPeer DEF Close, IInv, TypeOK, cur
<1>2. /\ lastSlot \in Held /\ lastSlot \in Slots /\ i \in Entries /\ lastSlot + 2 \in Entries
      /\ client_count' = lastSlot /\ client_count = lastSlot + 1
    BY <1>1 DEF IInv, TypeOK, Held, Slots, Entries, lastSlot, Close
<1>3. Held' = Held \ {lastSlot}
    BY <1>2 DEF IInv, TypeOK, Held, lastSlot
<1>4. /\ fd' = [fd EXCEPT ![i] = fd[lastSlot + 2], ![lastSlot + 2] = None]
      /\ cli_socket' = [cli_socket EXCEPT ![cur] = cli_socket[lastSlot], ![lastSlot] = None]
      /\ ip' = [ip EXCEPT ![cur] = ip[lastSlot]]
    BY DEF Close, MoveLast
<1> HIDE DEF lastSlot, cur
<1>5. \A k \in Held' : /\ k \in Held /\ k # lastSlot
                       /\ fd'[k + 2] = fd[(IF k = cur THEN lastSlot ELSE k) + 2]
                       /\ cli_socket'[k] = cli_socket[IF k = cur THEN lastSlot ELSE k]
                       /\ ip'[k] = ip[IF k = cur THEN lastSlot ELSE k]
  <2>1. ASSUME NEW k \in Held'
        PROVE  /\ k \in Held /\ k # lastSlot /\ k \in Slots /\ k + 2 \in Entries
               /\ k + 2 # lastSlot + 2 /\ (k + 2 = i <=> k = cur)
    BY <1>1, <1>2, <1>3 DEF IInv, TypeOK, Held, Slots, Entries
  <2> QED
    BY <1>1, <1>2, <1>4, <2>1 DEF IInv, TypeOK
<1>6. fd[i] = Peer /\ sock' = [sock EXCEPT ![Peer] = "closed"]
    BY <1>1 DEF Close, IInv, Aligned, Peer
<1>7. TypeOK'
  <2>1. /\ fd' \in [Entries -> Conns \cup Listeners \cup {None}]
        /\ cli_socket' \in [Slots -> Conns \cup {None}] /\ ip' \in [Slots -> Conns \cup {None}]
    BY <1>1, <1>2, <1>4 DEF IInv, TypeOK
  <2>2. client_state' \in [Slots -> {"POP3", "MANAGER", "CLOSING", "ERROR_CLIENT"}]
    BY <1>1, <1>2 DEF IInv, TypeOK, Close, MoveLast
  <2>3. recv_buffer' \in [Slots -> Conns \cup {None, Garbage}]
    BY <1>1, <1>2 DEF IInv, TypeOK, Close, MoveLast
  <2>4. client_count' \in 0 .. MAX_CLIENTS /\ pc' \in PCs /\ live' \subseteq Conns
    BY <1>2 DEF IInv, TypeOK, PCs, Close, Slots
  <2>5. sock' \in [Conns -> SockStates]
    BY <1>1, <1>6 DEF IInv, TypeOK, SockStates
  <2>6. swapped' \subseteq Conns \X Conns
    <3>1. cli_socket[lastSlot] \in Conns
      BY <1>2 DEF IInv, Aligned
    <3>2. Swap \subseteq Conns \X Conns
      BY <1>1, <3>1 DEF Swap
    <3> QED
      BY <3>2 DEF IInv, TypeOK, Close
  <2> QED
    BY <2>1, <2>2, <2>3, <2>4, <2>5, <2>6 DEF IInv, TypeOK, Close, metrics
<1>8. Aligned'
  <2>1. fd'[0] = ServerSocket /\ fd'[1] = ManagerSocket
    BY <1>1, <1>2, <1>4 DEF IInv, Aligned, TypeOK, Slots, Entries
  <2>2. \A k \in Held' : fd'[k + 2] = cli_socket'[k] /\ cli_socket'[k] \in Conns
    BY <1>2, <1>5 DEF IInv, Aligned
  <2>3. ASSUME NEW k \in Slots \ Held'
        PROVE  fd'[k + 2] = None /\ cli_socket'[k] = None
    <3>1. CASE k = lastSlot
      BY <1>2, <1>4, <3>1 DEF IInv, TypeOK
    <3>2. CASE k # lastSlot
      <4>1. k \in Slots \ Held /\ k # cur
        BY <1>1, <1>3, <3>2
      <4>2. k + 2 # i /\ k + 2 # lastSlot + 2 /\ k + 2 \in Entries
        BY <1>1, <1>2, <3>2, <4>1 DEF Slots, Entries
      <4> QED
        BY <1>4, <3>2, <4>1, <4>2 DEF IInv, Aligned, TypeOK
    <3> QED
      BY <3>1, <3>2
  <2>4. \A j, k \in Held' : cli_socket'[j] = cli_socket'[k] => j = k
    BY <1>2, <1>5 DEF IInv, Aligned
  <2> QED
    BY <2>1, <2>2, <2>3, <2>4 DEF Aligned
<1>9. HandlesHeldSlot' /\ pc' # "serve"
    BY DEF Close, HandlesHeldSlot
<1>10. IpIsOwn'
    BY <1>2, <1>5 DEF IInv, IpIsOwn
<1>11. MetricsLag'
    BY DEF IInv, TypeOK, MetricsLag, Close, metrics
<1>12. QueuesApart'
  <2>1. \A d \in Conns : sock[d] # "idle" => sock'[d] # "idle"
    BY <1>1, <1>6 DEF IInv, TypeOK
  <2>2. \A k \in Held' : \E j \in Held : cli_socket'[k] = cli_socket[j] /\ cli_socket[j] \in Conns
    BY <1>2, <1>5 DEF IInv, Aligned
  <2>3. \A l \in Listeners : \A n \in 1 .. Len(queue[l]) : queue[l][n] \in Conns
    BY DEF IInv, TypeOK
  <2>4. queue' = queue
    BY DEF Close
  <2> QED
    BY <1>9, <2>1, <2>2, <2>3, <2>4 DEF IInv, QueuesApart
<1> QED
    BY <1>7, <1>8, <1>9, <1>10, <1>11, <1>12 DEF IInv

(* Every step keeps the invariant.                                           *)
LEMMA NextInv == IInv /\ [Next]_vars => IInv'
<1> SUFFICES ASSUME IInv, [Next]_vars PROVE IInv'
    OBVIOUS
<1>1. CASE \E e \in i .. client_count + 1 : Accept(e)
    BY <1>1, AcceptInv
<1>2. CASE Close
    BY <1>2, CloseInv
<1>3. CASE \/ RecvData \/ RecvEnd \/ RecvError \/ RecvInterrupted
           \/ ServePart \/ ServeLine \/ ServeQuit
    BY <1>3, HandleInv
<1>4. CASE \/ LoopEnds \/ PollInterrupted \/ ServeStaleIp \/ ServeBrokenPipe \/ CloseStaleIp
           \/ \E e \in i .. client_count + 1 : AcceptOverflows(e)
    BY <1>4, HaltInv
<1>5. CASE LoopStarts \/ Poll \/ ScanEnds \/ \E e \in i .. client_count + 1 : ScanClient(e)
    BY <1>5, ScanInv
<1>6. CASE \E c \in Conns : Connect(c)
    BY <1>6, ConnectInv
<1>7. CASE \/ \E c \in Conns, item \in Items : ClientSend(c, item)
           \/ \E c \in Conns, how \in {"fin", "rst"} : ClientLeave(c, how)
           \/ Interrupt
    BY <1>7, ClientInv
<1>8. CASE UNCHANGED vars
  <2>1. /\ UNCHANGED <<fd, revents, cli_socket, client_state, ip, recv_buffer, client_count>>
        /\ UNCHANGED <<pc, i, chunk, done, live, metrics, queue, sock, inbox, peak, swapped>>
    BY <1>8 DEF vars, pollfds, clients, net
  <2>2. TypeOK'
    BY <2>1 DEF IInv, TypeOK, metrics
  <2>3. Aligned' /\ IpIsOwn' /\ MetricsLag'
    BY <2>1, TableKept
  <2>4. HandlesHeldSlot' /\ (pc' = "serve" => chunk' # <<>>)
    BY <2>1 DEF IInv, HandlesHeldSlot, QueuesApart, Held, cur
  <2>5. QueuesApart'
    BY <2>1, <2>4, QueuesKept
  <2> QED
    BY <2>2, <2>3, <2>4, <2>5 DEF IInv
<1> QED
    BY <1>1, <1>2, <1>3, <1>4, <1>5, <1>6, <1>7, <1>8
    DEF Next, Server, Handle, Environment

(* The invariant holds in every reachable state.                             *)
LEMMA Invariance == Spec => []IInv
<1>1. Init => IInv
    BY InitInv
<1>2. IInv /\ [Next]_vars => IInv'
    BY NextInv
<1> QED
    BY <1>1, <1>2, PTL DEF Spec

(* Every variable keeps its type; in particular client_count never passes    *)
(* MAX_CLIENTS, because the store past the end of pollfds[] comes first.     *)
THEOREM TypeCorrect == Spec => []TypeOK
BY Invariance, PTL DEF IInv

(* pollfds[] and clients[] describe the same connections in the same order   *)
(* through every accept and every close (add_client, handle_close_client).   *)
THEOREM TableAligned == Spec => []Aligned
BY Invariance, PTL DEF IInv

(* handle_client and handle_close_client never run on a free slot: i - 2 is  *)
(* the index of a client held, also after the i-- of main.                   *)
THEOREM HandlesOnlyHeld == Spec => []HandlesHeldSlot
BY Invariance, PTL DEF IInv

(* The address pointer of every client held is the block allocated for it,   *)
(* so the only stale pointers are those freed under their owner by a move.   *)
THEOREM IpFollowsClient == Spec => []IpIsOwn
BY Invariance, PTL DEF IInv

(* What METR reports as the maximum of connections is always one less than   *)
(* the true one, whatever clients come and go.                               *)
THEOREM MetricsAlwaysLag == Spec => []MetricsLag
BY Invariance, PTL DEF IInv

-----------------------------------------------------------------------------
(* Connections: none is forgotten, none keeps or gains a privilege it did not *)
(* come with, none is closed before its time.                                *)

Serving == RecvData \/ RecvEnd \/ RecvError \/ RecvInterrupted \/ ServePart \/ ServeLine \/ ServeQuit
Halting == \/ LoopEnds \/ PollInterrupted \/ ServeStaleIp \/ ServeBrokenPipe \/ CloseStaleIp
           \/ \E e \in i .. client_count + 1 : AcceptOverflows(e)
Looping == LoopStarts \/ Poll \/ ScanEnds \/ \E e \in i .. client_count + 1 : ScanClient(e)
Outside == \/ \E c \in Conns, item \in Items : ClientSend(c, item)
           \/ \E c \in Conns, how \in {"fin", "rst"} : ClientLeave(c, how)
           \/ Interrupt

(* The steps that leave the table as it is, and those that do not.            *)
Quiet == Serving \/ Halting \/ Looping \/ Outside \/ UNCHANGED vars

(* Every step accepts, closes, connects, or is a quiet one.                 *)
LEMMA NextCases ==
    ASSUME [Next]_vars
    PROVE  \/ \E e \in i .. client_count + 1 : Accept(e)
           \/ Close \/ (\E c \in Conns : Connect(c)) \/ Quiet
BY DEF Next, Server, Handle, Environment, Quiet, Serving, Halting, Looping, Outside

(* Such a step leaves the table and the queues alone.                        *)
LEMMA QuietTable ==
    ASSUME Quiet
    PROVE  UNCHANGED <<fd, cli_socket, ip, client_count, queue, live, metrics, peak, swapped>>
<1>1. CASE Serving
    BY <1>1 DEF Serving, RecvData, RecvEnd, RecvError, RecvInterrupted, Signal, Blocked,
                ServePart, ServeLine, ServeQuit, pollfds, clients, net
<1>2. CASE Halting
    BY <1>2 DEF Halting, LoopEnds, PollInterrupted, Signal, ServeStaleIp, ServeBrokenPipe,
                CloseStaleIp, AcceptOverflows, pollfds, clients, net
<1>3. CASE Looping
    BY <1>3 DEF Looping, LoopStarts, Poll, ScanEnds, ScanClient, pollfds, clients, net
<1>4. CASE Outside
    BY <1>4 DEF Outside, ClientSend, ClientLeave, Interrupt, Signal, pollfds, clients, net
<1>5. CASE UNCHANGED vars
    BY <1>5 DEF vars, pollfds, clients, net
<1> QED
    BY <1>1, <1>2, <1>3, <1>4, <1>5 DEF Quiet

(* Once the process has ended nothing happens any more.                      *)
LEMMA HaltedStops == ASSUME [Next]_vars, pc \in Halted PROVE UNCHANGED vars
<1>1. ~Running
    BY DEF Running
<1>2. ~Close /\ ~(\E e \in i .. client_count + 1 : Accept(e)) /\ ~(\E c \in Conns : Connect(c))
    BY <1>1 DEF Close, Accept, NextEvent, Connect, Halted
<1>3. ~Serving
    BY <1>1 DEF Serving, RecvData, RecvEnd, RecvError, RecvInterrupted, Blocked,
                ServePart, ServeLine, ServeQuit, Halted
<1>4. ~Halting
    BY <1>1 DEF Halting, LoopEnds, PollInterrupted, ServeStaleIp, ServeBrokenPipe,
                CloseStaleIp, AcceptOverflows, NextEvent, Halted
<1>5. ~Looping
    BY <1>1 DEF Looping, LoopStarts, Poll, ScanEnds, ScanClient, NextEvent, Halted
<1>6. ~Outside
    BY <1>1 DEF Outside, ClientSend, ClientLeave, Interrupt, Signal
<1> QED
    BY <1>2, <1>3, <1>4, <1>5, <1>6, NextCases DEF Quiet

(* It closes no socket but that of a QUIT, and opens none.                    *)
LEMMA QuietSockets ==
    ASSUME IInv, Quiet
    PROVE  \A c \in Conns :
             /\ sock[c] \in {"idle", "closed"} => sock'[c] = sock[c]
             /\ sock'[c] = "closed" => sock[c] = "closed" \/ (ServeQuit /\ c = Peer)
<1>1. CASE UNCHANGED sock
    BY <1>1
<1>2. CASE Serving
  <2>1. pc \in {"recv", "serve"}
    BY <1>2 DEF Serving, RecvData, RecvEnd, RecvError, RecvInterrupted, Blocked,
                ServePart, ServeLine, ServeQuit
  <2>2. /\ Peer \in Conns /\ sock \in [Conns -> SockStates]
        /\ sock[Peer] # "idle"
    BY <2>1, HandledPeer DEF IInv, TypeOK, QueuesApart, Peer
  <2>3. CASE RecvError
    BY <2>2, <2>3 DEF RecvError
  <2>4. CASE ServeLine
    <3>1. CASE UNCHANGED sock
      BY <1>1, <3>1
    <3>2. CASE \E s \in AfterSend(sock[Peer]) : sock' = [sock EXCEPT ![Peer] = s]
      <4>1. PICK s \in AfterSend(sock[Peer]) : sock' = [sock EXCEPT ![Peer] = s]
        BY <3>2
      <4>2. (sock[Peer] = "closed" => s = "closed") /\ (s = "closed" => sock[Peer] = "closed")
        BY <4>1 DEF AfterSend
      <4> QED
        BY <2>2, <4>1, <4>2
    <3> QED
      BY <2>4, <3>1, <3>2 DEF ServeLine
  <2>5. CASE ServeQuit
    BY <2>2, <2>5 DEF ServeQuit
  <2>6. CASE RecvData \/ RecvEnd \/ RecvInterrupted \/ ServePart
    BY <1>1, <2>6 DEF RecvData, RecvEnd, RecvInterrupted, ServePart, net
  <2> QED
    BY <1>2, <2>3, <2>4, <2>5, <2>6 DEF Serving
<1>3. CASE Outside
    BY <1>3 DEF IInv, TypeOK, Outside, ClientSend, ClientLeave, Interrupt, net
<1>4. CASE Halting
    BY <1>1, <1>4 DEF Halting, LoopEnds, PollInterrupted, ServeStaleIp, ServeBrokenPipe,
                CloseStaleIp, AcceptOverflows, net
<1>5. CASE Looping
    BY <1>1, <1>5 DEF Looping, LoopStarts, Poll, ScanEnds, ScanClient, net
<1> QED
    BY <1>1, <1>2, <1>3, <1>4, <1>5 DEF Quiet, vars, net

(* The head of a queue leaves it; what is left was there before.              *)
LEMMA AcceptQueue ==
    ASSUME IInv, NEW e \in i .. client_count + 1, Accept(e)
    PROVE  /\ fd[e] \in Listeners /\ 1 \in 1 .. Len(queue[fd[e]])
           /\ queue[fd[e]][1] \in Conns /\ Head(queue[fd[e]]) = queue[fd[e]][1]
           /\ \A l \in Listeners : \A n \in 1 .. Len(queue'[l]) :
                \E m \in 1 .. Len(queue[l]) : /\ queue'[l][n] = queue[l][m]
                                              /\ queue[l][m] # queue[fd[e]][1]
           /\ \A l \in Listeners : \A m \in 1 .. Len(queue[l]) :
                \/ queue[l][m] = queue[fd[e]][1]
                \/ \E n \in 1 .. Len(queue'[l]) : queue'[l][n] = queue[l][m]
<1> DEFINE h == fd[e]
<1>1. /\ h \in Listeners /\ queue \in [Listeners -> Seq(Conns)] /\ queue[h] # <<>>
      /\ queue' = [queue EXCEPT ![h] = Tail(@)]
    BY DEF IInv, TypeOK, Accept
<1>2. 1 \in 1 .. Len(queue[h]) /\ queue[h][1] \in Conns /\ Head(queue[h]) = queue[h][1]
    BY <1>1
<1>3. \A l, g \in Listeners : \A n \in 1 .. Len(queue[l]), j \in 1 .. Len(queue[g]) :
         queue[l][n] = queue[g][j] => l = g /\ n = j
    BY DEF IInv, QueuesApart
<1> HIDE DEF h
<1>4. \A l \in Listeners : \A n \in 1 .. Len(queue'[l]) :
        LET m == IF l = h THEN n + 1 ELSE n
        IN  m \in 1 .. Len(queue[l]) /\ queue'[l][n] = queue[l][m] /\ (l # h \/ m # 1)
    BY <1>1
<1>5. \A l \in Listeners : \A n \in 1 .. Len(queue'[l]) :
        \E m \in 1 .. Len(queue[l]) : queue'[l][n] = queue[l][m] /\ queue[l][m] # queue[h][1]
    BY <1>1, <1>2, <1>3, <1>4
<1>6. \A l \in Listeners : \A m \in 1 .. Len(queue[l]) :
        LET n == IF l = h THEN m - 1 ELSE m
        IN  (l = h /\ m = 1) \/ (n \in 1 .. Len(queue'[l]) /\ queue'[l][n] = queue[l][m])
    BY <1>1
<1>7. \A l \in Listeners : \A m \in 1 .. Len(queue[l]) :
        queue[l][m] = queue[h][1] \/ \E n \in 1 .. Len(queue'[l]) : queue'[l][n] = queue[l][m]
    BY <1>6
<1> QED
    BY <1>1, <1>2, <1>5, <1>7 DEF h

(* What add_client and accept leave of the newcomer's socket.                *)
LEMMA AcceptSocket ==
    ASSUME IInv, NEW e \in i .. client_count + 1, Accept(e)
    PROVE  LET c == queue[fd[e]][1]
           IN  /\ \A d \in Conns : d # c => sock'[d] = sock[d]
               /\ sock[c] # "closed" => sock'[c] # "closed"
<1> DEFINE c == queue[fd[e]][1]
<1>1. c \in Conns /\ Head(queue[fd[e]]) = c
    BY AcceptQueue
<1> HIDE DEF c
<1>2. PICK s \in AfterSend(sock[c]) : sock' = [sock EXCEPT ![c] = s]
    BY <1>1 DEF Accept
<1>3. s = "closed" => sock[c] = "closed"
    BY <1>2 DEF AfterSend
<1> QED
    BY <1>1, <1>2, <1>3 DEF IInv, TypeOK, c

(* A close closes the socket of the client at hand.                          *)
LEMMA CloseSocket ==
    ASSUME IInv, Close
    PROVE  /\ cur \in Held /\ Peer \in Conns /\ Peer = cli_socket[cur]
           /\ sock' = [sock EXCEPT ![Peer] = "closed"] /\ sock \in [Conns -> SockStates]
           /\ queue' = queue
<1>1. cur \in Held /\ Peer \in Conns /\ i = cur + 2
    BY HandledPeer DEF Close, IInv, TypeOK, cur
<1>2. fd[i] = Peer
    BY <1>1 DEF IInv, Aligned, Peer
<1> QED
    BY <1>1, <1>2 DEF Close, IInv, TypeOK, Peer

(* A waiting connection waits at its own port, and is not closed: only those  *)
(* of the table are.                                                         *)
LEMMA PortsKeep == ASSUME IInv, PortsApart, [Next]_vars PROVE PortsApart'
<1> USE TableAssumption
<1>1. \A l \in Listeners : \A n \in 1 .. Len(queue[l]) :
        /\ queue[l][n] \in Conns /\ PortOf(queue[l][n]) = l
        /\ sock[queue[l][n]] \notin {"idle", "closed"}
        /\ \A k \in Held : queue[l][n] # cli_socket[k]
    BY DEF IInv, TypeOK, QueuesApart, PortsApart
<1>2. CASE \E e \in i .. client_count + 1 : Accept(e)
  <2>1. PICK e \in i .. client_count + 1 : Accept(e)
    BY <1>2
  <2>2. \A l \in Listeners : \A n \in 1 .. Len(queue'[l]) :
          \E m \in 1 .. Len(queue[l]) :
            queue'[l][n] = queue[l][m] /\ queue[l][m] # queue[fd[e]][1]
    BY <2>1, AcceptQueue
  <2>3. \A d \in Conns : d # queue[fd[e]][1] => sock'[d] = sock[d]
    BY <2>1, AcceptSocket
  <2> QED
    BY <1>1, <2>2, <2>3 DEF PortsApart, PortOf
<1>3. CASE Close
    BY <1>1, <1>3, CloseSocket DEF PortsApart, PortOf
<1>4. CASE \E c \in Conns : Connect(c)
  <2>1. PICK c \in Conns : Connect(c)
    BY <1>4
  <2> DEFINE h == PortOf(c)
  <2>2. /\ h \in Listeners /\ queue \in [Listeners -> Seq(Conns)] /\ sock \in [Conns -> SockStates]
        /\ queue' = [queue EXCEPT ![h] = Append(@, c)] /\ sock' = [sock EXCEPT ![c] = "est"]
    BY <2>1 DEF Connect, IInv, TypeOK, PortOf, Listeners
  <2> HIDE DEF h
  <2>3. \A l \in Listeners : \A n \in 1 .. Len(queue'[l]) :
          \/ n \in 1 .. Len(queue[l]) /\ queue'[l][n] = queue[l][n]
          \/ l = h /\ queue'[l][n] = c
    BY <2>2
  <2>4. ASSUME NEW l \in Listeners, NEW n \in 1 .. Len(queue'[l])
        PROVE  PortOf(queue'[l][n]) = l /\ sock'[queue'[l][n]] # "closed"
    <3>1. CASE n \in 1 .. Len(queue[l]) /\ queue'[l][n] = queue[l][n]
      BY <1>1, <2>2, <3>1
    <3>2. CASE l = h /\ queue'[l][n] = c
      BY <2>2, <3>2 DEF h
    <3> QED
      BY <2>3, <2>4, <3>1, <3>2
  <2> QED
    BY <2>4 DEF PortsApart, PortOf
<1>5. CASE Quiet
  <2>1. ServeQuit => Peer = cli_socket[cur] /\ cur \in Held
    BY HandledPeer DEF ServeQuit, Peer
  <2>2. \A c \in Conns : sock'[c] = "closed" => sock[c] = "closed" \/ \E k \in Held : c = cli_socket[k]
    BY <1>5, <2>1, QuietSockets
  <2> QED
    BY <1>1, <1>5, <2>2, QuietTable DEF PortsApart, PortOf
<1> QED
    BY <1>2, <1>3, <1>4, <1>5, NextCases

(* The loop is left when the last descriptor is taken.                       *)
LEMMA RoomKeeps == ASSUME IInv, RoomForLog, [Next]_vars PROVE RoomForLog'
<1>1. client_count \in Nat /\ MAX_SOCKETS \in Nat
    BY TableAssumption DEF IInv, TypeOK
<1>2. CASE pc = "failed"
    BY <1>2, HaltedStops DEF RoomForLog, Halted, vars
<1>3. CASE pc # "failed"
  <2>1. CASE \E e \in i .. client_count + 1 : Accept(e)
    BY <1>1, <2>1 DEF RoomForLog, Accept
  <2>2. CASE Close
    BY <1>1, <1>3, <2>2 DEF RoomForLog, Close
  <2>3. CASE \E c \in Conns : Connect(c)
    BY <1>3, <2>3 DEF RoomForLog, Connect
  <2>4. CASE Quiet
    BY <1>3, <2>4, QuietTable DEF RoomForLog
  <2> QED
    BY <2>1, <2>2, <2>3, <2>4, NextCases
<1> QED
    BY <1>2, <1>3

(* After a close slot k holds the client that was in slot From(k): the last   *)
(* one in the slot of the closed one, every other where it was.              *)
From(k) == IF k = cur THEN lastSlot ELSE k

(* Where every record is after a close.                                     *)
LEMMA CloseTable ==
    ASSUME IInv, Close
    PROVE  /\ Held' = Held \ {lastSlot}
           /\ \A k \in Held' : /\ From(k) \in Held /\ From(k) # cur
                               /\ cli_socket'[k] = cli_socket[From(k)]
                               /\ fd'[k + 2] = fd[From(k) + 2]
                               /\ client_state'[k] = client_state[From(k)]
                               /\ ip'[k] = ip[From(k)]
                               /\ recv_buffer'[k] = recv_buffer[From(k)]
           /\ \A j \in Held \ {cur} : \E k \in Held' : From(k) = j
<1> USE TableAssumption
<1>1. cur \in Held /\ cur \in Slots /\ i = cur + 2
    BY HandledPeer DEF Close, IInv, TypeOK, cur
<1>2. /\ lastSlot \in Held /\ lastSlot \in Slots /\ i \in Entries /\ lastSlot + 2 \in Entries
      /\ client_count' = lastSlot /\ client_count = lastSlot + 1
    BY <1>1 DEF IInv, TypeOK, Held, Slots, Entries, lastSlot, Close
<1>3. Held' = Held \ {lastSlot}
    BY <1>2 DEF IInv, TypeOK, Held, lastSlot
<1>4. /\ fd' = [fd EXCEPT ![i] = fd[lastSlot + 2], ![lastSlot + 2] = None]
      /\ cli_socket' = [cli_socket EXCEPT ![cur] = cli_socket[lastSlot], ![lastSlot] = None]
      /\ client_state' = [client_state EXCEPT ![cur] = client_state[lastSlot],
                                              ![lastSlot] = "ERROR_CLIENT"]
      /\ ip' = [ip EXCEPT ![cur] = ip[lastSlot]]
      /\ recv_buffer' = [recv_buffer EXCEPT ![cur] = recv_buffer[lastSlot]]
    BY DEF Close, MoveLast
<1> HIDE DEF lastSlot, cur
<1>5. ASSUME NEW k \in Held'
      PROVE  /\ k \in Held /\ k # lastSlot /\ k \in Slots /\ k + 2 \in Entries
             /\ k + 2 # lastSlot + 2 /\ (k + 2 = i <=> k = cur)
    BY <1>1, <1>2, <1>3 DEF IInv, TypeOK, Held, Slots, Entries
<1>6. ASSUME NEW k \in Held'
      PROVE  /\ From(k) \in Held /\ From(k) # cur
             /\ cli_socket'[k] = cli_socket[From(k)] /\ fd'[k + 2] = fd[From(k) + 2]
             /\ client_state'[k] = client_state[From(k)] /\ ip'[k] = ip[From(k)]
             /\ recv_buffer'[k] = recv_buffer[From(k)]
    BY <1>1, <1>2, <1>4, <1>5 DEF IInv, TypeOK, From
<1>7. ASSUME NEW j \in Held \ {cur} PROVE \E k \in Held' : From(k) = j
  <2>1. CASE j = lastSlot
    BY <1>1, <1>3, <2>1 DEF From
  <2>2. CASE j # lastSlot
    BY <1>3, <2>2 DEF From
  <2> QED
    BY <2>1, <2>2
<1> QED
    BY <1>3, <1>6, <1>7

(* The newcomer is alone in the first free slot.                              *)
LEMMA AcceptTable ==
    ASSUME IInv, NEW e \in i .. client_count + 1, Accept(e)
    PROVE  /\ Held' = Held \cup {client_count} /\ client_count \notin Held
           /\ \A k \in Held : /\ cli_socket'[k] = cli_socket[k] /\ fd'[k + 2] = fd[k + 2]
                              /\ client_state'[k] = client_state[k] /\ ip'[k] = ip[k]
                              /\ recv_buffer'[k] = recv_buffer[k]
           /\ cli_socket'[client_count] = queue[fd[e]][1]
           /\ client_state'[client_count] = IF fd[e] = ManagerSocket THEN "MANAGER" ELSE "POP3"
<1> USE TableAssumption
<1>1. client_count \in Slots /\ client_count + 2 \in Entries /\ client_count \in Nat
    BY DEF IInv, TypeOK, Accept, Slots, Entries
<1>2. Held' = Held \cup {client_count} /\ client_count \notin Held
    BY <1>1 DEF Held, Accept
<1>3. Head(queue[fd[e]]) = queue[fd[e]][1]
    BY AcceptQueue
<1>4. /\ fd' = [fd EXCEPT ![client_count + 2] = queue[fd[e]][1]]
      /\ cli_socket' = [cli_socket EXCEPT ![client_count] = queue[fd[e]][1]]
      /\ client_state' = [client_state EXCEPT ![client_count] =
                            IF fd[e] = ManagerSocket THEN "MANAGER" ELSE "POP3"]
      /\ ip' = [ip EXCEPT ![client_count] = queue[fd[e]][1]]
      /\ recv_buffer' = recv_buffer
    BY <1>3 DEF Accept, add_client
<1>5. \A k \in Held : k \in Slots /\ k # client_count /\ k + 2 # client_count + 2 /\ k + 2 \in Entries
    BY <1>1, <1>2 DEF IInv, TypeOK, Held, Slots, Entries
<1> QED
    BY <1>1, <1>2, <1>4, <1>5 DEF IInv, TypeOK

(* handle_client closes a client after its QUIT or at the end of what it      *)
(* sent, and while it does nobody adds to that.                              *)
LEMMA CloseIsDueKeeps == ASSUME IInv, CloseIsDue, [Next]_vars PROVE CloseIsDue'
<1>1. pc \in {"recv", "serve", "close"} => /\ cur \in Held /\ Peer \in Conns /\ Peer = cli_socket[cur]
                                           /\ sock[Peer] # "idle"
    BY HandledPeer DEF IInv, QueuesApart, Peer
<1>2. sock \in [Conns -> SockStates] /\ inbox \in [Conns -> Seq(Items)]
    BY DEF IInv, TypeOK
<1>3. CASE (\E e \in i .. client_count + 1 : Accept(e)) \/ Close
    BY <1>3 DEF CloseIsDue, Accept, Close
<1>4. CASE \E c \in Conns : Connect(c)
  <2>1. UNCHANGED <<pc, inbox, cli_socket, i>>
    BY <1>4 DEF Connect, clients
  <2>2. Peer' = Peer
    BY <2>1 DEF Peer, cur
  <2> QED
    BY <1>1, <1>2, <1>4, <2>1, <2>2 DEF CloseIsDue, Connect
<1>5. CASE Serving
  <2>1. CASE RecvEnd \/ ServeQuit
    <3>1. Peer' = Peer /\ pc \in {"recv", "serve"}
      BY <2>1 DEF RecvEnd, ServeQuit, Peer, cur
    <3> QED
      BY <1>1, <1>2, <2>1, <3>1 DEF CloseIsDue, RecvEnd, ServeQuit, net
  <2>2. CASE RecvData \/ RecvError \/ RecvInterrupted \/ ServePart \/ ServeLine
    BY <2>2 DEF CloseIsDue, RecvData, RecvError, RecvInterrupted, ServePart, ServeLine, NextItem
  <2> QED
    BY <1>5, <2>1, <2>2 DEF Serving
<1>6. CASE Halting
    BY <1>6 DEF CloseIsDue, Halting, LoopEnds, PollInterrupted, ServeStaleIp, ServeBrokenPipe,
                CloseStaleIp, AcceptOverflows
<1>7. CASE Looping
    BY <1>7 DEF CloseIsDue, Looping, LoopStarts, Poll, ScanEnds, ScanClient
<1>8. CASE Outside
  <2>1. UNCHANGED <<pc, cli_socket, i>>
    BY <1>8 DEF Outside, ClientSend, ClientLeave, Interrupt, clients
  <2>2. Peer' = Peer
    BY <2>1 DEF Peer, cur
  <2>3. \A c \in Conns : sock[c] # "est" => sock'[c] = sock[c] /\ inbox'[c] = inbox[c]
    BY <1>2, <1>8 DEF Outside, ClientSend, ClientLeave, Interrupt, net
  <2> QED
    BY <1>1, <2>1, <2>2, <2>3 DEF CloseIsDue
<1>9. CASE UNCHANGED vars
    BY <1>9 DEF CloseIsDue, Peer, cur, vars, clients, net
<1> QED
    BY <1>3, <1>4, <1>5, <1>6, <1>7, <1>8, <1>9, NextCases DEF Quiet

(* Every open connection stays in the table or in a queue, and only the one   *)
(* being closed is in the table closed.                                      *)
LEMMA SocketsKeep == ASSUME IInv, PortsApart, SocketsKept, [Next]_vars PROVE SocketsKept'
<1> DEFINE Open(c) == sock[c] \notin {"idle", "closed"}
           Kept(c) == \/ \E k \in Held : cli_socket[k] = c
                      \/ \E l \in Listeners : \E n \in 1 .. Len(queue[l]) : queue[l][n] = c
<1> USE DEF Open, Kept
<1>1. \A c \in Conns : Open(c) => Kept(c)
    BY DEF SocketsKept, Waiting
<1>2. \A k \in Held : cli_socket[k] \in Conns
    BY DEF IInv, Aligned
<1>3. CASE \E e \in i .. client_count + 1 : Accept(e)
  <2>1. PICK e \in i .. client_count + 1 : Accept(e)
    BY <1>3
  <2> DEFINE c == queue[fd[e]][1]
  <2>2. /\ c \in Conns /\ sock[c] # "closed"
        /\ \A l \in Listeners : \A m \in 1 .. Len(queue[l]) :
             queue[l][m] = c \/ \E n \in 1 .. Len(queue'[l]) : queue'[l][n] = queue[l][m]
    BY <2>1, AcceptQueue DEF PortsApart
  <2>3. sock'[c] # "closed" /\ \A d \in Conns : d # c => sock'[d] = sock[d]
    BY <2>1, <2>2, AcceptSocket
  <2>4. /\ Held' = Held \cup {client_count} /\ cli_socket'[client_count] = c
        /\ \A k \in Held : cli_socket'[k] = cli_socket[k]
    BY <2>1, AcceptTable
  <2> HIDE DEF c
  <2>5. ASSUME NEW d \in Conns, Open(d)' PROVE Kept(d)'
    <3>1. CASE d = c
      BY <2>4, <3>1
    <3>2. CASE d # c
      <4>1. Kept(d)
        BY <1>1, <2>3, <2>5, <3>2
      <4> QED
        BY <2>2, <2>4, <3>2, <4>1
    <3> QED
      BY <3>1, <3>2
  <2>6. ASSUME NEW k \in Held' PROVE sock'[cli_socket'[k]] # "closed"
    <3>1. pc = "scan"
      BY <2>1 DEF Accept, NextEvent
    <3>2. \A j \in Held : sock[cli_socket[j]] # "closed"
      BY <3>1 DEF SocketsKept
    <3> QED
      BY <1>2, <2>3, <2>4, <3>2
  <2> QED
    BY <2>5, <2>6 DEF SocketsKept, Waiting
<1>4. CASE Close
  <2>1. /\ Peer = cli_socket[cur] /\ sock' = [sock EXCEPT ![Peer] = "closed"]
        /\ sock \in [Conns -> SockStates] /\ queue' = queue /\ cur \in Held
    BY <1>4, CloseSocket
  <2>2. /\ \A k \in Held' : From(k) \in Held /\ From(k) # cur /\ cli_socket'[k] = cli_socket[From(k)]
        /\ \A j \in Held \ {cur} : \E k \in Held' : From(k) = j
    BY <1>4, CloseTable
  <2>3. \A c \in Conns : Open(c)' => Kept(c)'
    BY <1>1, <1>2, <2>1, <2>2
  <2>4. \A k \in Held' : sock'[cli_socket'[k]] # "closed"
    <3>1. \A j \in Held \ {cur} : sock[cli_socket[j]] # "closed"
      BY <1>4 DEF SocketsKept, Close
    <3>2. \A j \in Held \ {cur} : cli_socket[j] # Peer
      BY <2>1 DEF IInv, Aligned
    <3> QED
      BY <1>2, <2>1, <2>2, <3>1, <3>2
  <2> QED
    BY <2>3, <2>4 DEF SocketsKept, Waiting
<1>5. CASE \E c \in Conns : Connect(c)
  <2>1. PICK c \in Conns : Connect(c)
    BY <1>5
  <2>2. /\ PortOf(c) \in Listeners /\ queue \in [Listeners -> Seq(Conns)]
        /\ queue' = [queue EXCEPT ![PortOf(c)] = Append(@, c)]
        /\ sock' = [sock EXCEPT ![c] = "est"] /\ sock \in [Conns -> SockStates]
        /\ UNCHANGED <<cli_socket, client_count, pc, i>>
    BY <2>1 DEF Connect, IInv, TypeOK, PortOf, Listeners, clients
  <2>3. Held' = Held /\ cur' = cur
    BY <2>2 DEF Held, cur
  <2>4. \E l \in Listeners : \E n \in 1 .. Len(queue'[l]) : queue'[l][n] = c
    BY <2>2
  <2>5. \A l \in Listeners : \A n \in 1 .. Len(queue[l]) :
          n \in 1 .. Len(queue'[l]) /\ queue'[l][n] = queue[l][n]
    BY <2>2
  <2>6. \A d \in Conns : Open(d)' => Kept(d)'
    BY <1>1, <2>2, <2>3, <2>4, <2>5
  <2> QED
    BY <1>2, <2>2, <2>3, <2>6 DEF SocketsKept, Waiting
<1>6. CASE Quiet
  <2>1. UNCHANGED <<cli_socket, queue, client_count>> /\ Held' = Held
    BY <1>6, QuietTable DEF Held
  <2>2. \A c \in Conns : /\ sock[c] \in {"idle", "closed"} => sock'[c] = sock[c]
                         /\ sock'[c] = "closed" => sock[c] = "closed" \/ (ServeQuit /\ c = Peer)
    BY <1>6, QuietSockets
  <2>3. \A c \in Conns : Open(c)' => Kept(c)'
    BY <1>1, <2>1, <2>2
  <2>4. ASSUME NEW k \in Held, pc' # "aborted", sock'[cli_socket[k]] = "closed"
        PROVE  pc' = "close" /\ k = cur'
    <3>1. CASE ServeQuit
      <4>1. cur \in Held /\ Peer = cli_socket[cur] /\ cur' = cur
        BY <3>1, HandledPeer DEF ServeQuit, Peer, cur
      <4>2. cli_socket[k] = Peer
        BY <1>2, <2>2, <2>4, <3>1 DEF SocketsKept, ServeQuit
      <4> QED
        BY <3>1, <4>1, <4>2 DEF ServeQuit, IInv, Aligned
    <3>2. CASE ~ServeQuit
      <4>1. sock[cli_socket[k]] = "closed"
        BY <1>2, <2>2, <2>4, <3>2
      <4>2. pc # "aborted"
        BY <2>4, HaltedStops DEF Halted, vars
      <4>3. pc = "close" /\ k = cur
        BY <4>1, <4>2 DEF SocketsKept
      <4>4. pc' = pc /\ i' = i
        BY <1>6, <2>4, <3>2, <4>3
        DEF Quiet, Serving, RecvData, RecvEnd, RecvError, RecvInterrupted, Blocked, ServePart,
            ServeLine, Halting, LoopEnds, PollInterrupted, ServeStaleIp, ServeBrokenPipe,
            CloseStaleIp, AcceptOverflows, NextEvent, Looping, LoopStarts, Poll, ScanEnds,
            ScanClient, Outside, ClientSend, ClientLeave, Interrupt, vars
      <4> QED
        BY <4>3, <4>4 DEF cur
    <3> QED
      BY <3>1, <3>2
  <2> QED
    BY <2>1, <2>3, <2>4 DEF SocketsKept, Waiting
<1> QED
    BY <1>3, <1>4, <1>5, <1>6, NextCases

(* A quiet step changes the record of the client it serves and no other, and  *)
(* its state only to CLOSING.                                                *)
LEMMA QuietRecords ==
    ASSUME IInv, Quiet, NEW k \in Held
    PROVE  /\ client_state'[k] = client_state[k] \/ client_state'[k] = "CLOSING"
           /\ (pc \in {"recv", "serve"} => k # cur) =>
                client_state'[k] = client_state[k] /\ recv_buffer'[k] = recv_buffer[k]
<1>1. k \in Slots
    BY TableAssumption DEF IInv, TypeOK, Held, Slots
<1>2. CASE Serving
  <2>1. pc \in {"recv", "serve"}
    BY <1>2 DEF Serving, RecvData, RecvEnd, RecvError, RecvInterrupted, Blocked,
                ServePart, ServeLine, ServeQuit
  <2>2. cur \in Slots
    BY <2>1, HandledPeer
  <2>3. client_state' \in {client_state, [client_state EXCEPT ![cur] = "CLOSING"]}
    BY <1>2 DEF Serving, RecvData, RecvEnd, RecvError, RecvInterrupted,
                ServePart, ServeLine, ServeQuit, clients
  <2>4. \E v : recv_buffer' \in {recv_buffer, [recv_buffer EXCEPT ![cur] = v]}
    BY <1>2 DEF Serving, RecvData, RecvEnd, RecvError, RecvInterrupted,
                ServePart, ServeLine, ServeQuit, clients
  <2> QED
    BY <1>1, <2>1, <2>2, <2>3, <2>4 DEF IInv, TypeOK
<1>3. CASE Halting \/ Looping
    BY <1>3 DEF Halting, LoopEnds, PollInterrupted, ServeStaleIp, ServeBrokenPipe, CloseStaleIp,
                AcceptOverflows, Looping, LoopStarts, Poll, ScanEnds, ScanClient, clients
<1>4. CASE Outside \/ UNCHANGED vars
    BY <1>4 DEF Outside, ClientSend, ClientLeave, Interrupt, clients, vars
<1> QED
    BY <1>2, <1>3, <1>4 DEF Quiet

(* A newcomer is marked by the listener it came through, and a mark moves     *)
(* with its client.                                                          *)
LEMMA PrivilegeKeeps ==
    ASSUME IInv, PortsApart, ManagerPrivilege, [Next]_vars
    PROVE  ManagerPrivilege'
<1>1. CASE \E e \in i .. client_count + 1 : Accept(e)
  <2>1. PICK e \in i .. client_count + 1 : Accept(e)
    BY <1>1
  <2>2. /\ fd[e] \in Listeners /\ 1 \in 1 .. Len(queue[fd[e]])
        /\ PortOf(queue[fd[e]][1]) = fd[e]
    BY <2>1, AcceptQueue DEF PortsApart
  <2>3. fd[e] = ManagerSocket <=> queue[fd[e]][1] \in Managers
    BY <2>2, TableAssumption DEF PortOf, Listeners
  <2> QED
    BY <2>1, <2>3, AcceptTable DEF ManagerPrivilege
<1>2. CASE Close
    BY <1>2, CloseTable DEF ManagerPrivilege
<1>3. CASE \E c \in Conns : Connect(c)
    BY <1>3 DEF ManagerPrivilege, Held, Connect, clients
<1>4. CASE Quiet
  <2>1. Held' = Held /\ cli_socket' = cli_socket
    BY <1>4, QuietTable DEF Held
  <2> QED
    BY <1>4, <2>1, QuietRecords DEF ManagerPrivilege
<1> QED
    BY <1>1, <1>2, <1>3, <1>4, NextCases

(* The connections held after an accept and after a close.                   *)
Holders == {cli_socket[k] : k \in Held}

(* The newcomer is one more.                                                 *)
LEMMA AcceptHolders ==
    ASSUME IInv, NEW e \in i .. client_count + 1, Accept(e)
    PROVE  Holders' = Holders \cup {queue[fd[e]][1]}
<1>1. /\ Held' = Held \cup {client_count}
      /\ \A k \in Held : cli_socket'[k] = cli_socket[k]
      /\ cli_socket'[client_count] = queue[fd[e]][1]
    BY AcceptTable
<1> QED
    BY <1>1 DEF Holders

(* The client closed is one less.                                            *)
LEMMA CloseHolders ==
    ASSUME IInv, Close
    PROVE  Holders' = Holders \ {Peer}
<1>1. cur \in Held /\ Peer = cli_socket[cur]
    BY CloseSocket
<1>2. /\ \A k \in Held' : /\ From(k) \in Held /\ From(k) # cur
                          /\ cli_socket'[k] = cli_socket[From(k)]
      /\ \A j \in Held \ {cur} : \E k \in Held' : From(k) = j
    BY CloseTable
<1>3. \A k \in Held \ {cur} : cli_socket[k] # Peer
    BY <1>1 DEF IInv, Aligned
<1> HIDE DEF From, Peer, cur
<1> QED
    BY <1>1, <1>2, <1>3 DEF Holders

(* Every close frees the address of the client in the last slot, so that of   *)
(* the client closed stays when the two are not the same.                    *)
LEMMA AddressesKeep ==
    ASSUME IInv, PortsApart, AddressesSwapped, SwappedApart, [Next]_vars
    PROVE  AddressesSwapped' /\ SwappedApart'
<1> DEFINE Closed == {x[1] : x \in swapped}
           Moved  == {x[2] : x \in swapped}
<1>1. live = (Holders \ Moved) \cup Closed
    BY DEF AddressesSwapped, Holders
<1>2. \A x \in swapped : sock[x[1]] = "closed" /\ x[1] \notin Holders /\ x[2] \in Holders
    BY DEF SwappedApart, Holders
<1>3. /\ swapped \subseteq Conns \X Conns /\ sock \in [Conns -> SockStates]
      /\ \A x \in swapped : x[1] \in Conns /\ x[2] \in Conns
    BY DEF IInv, TypeOK
<1>4. SUFFICES
        /\ live' = (Holders' \ {x[2] : x \in swapped'}) \cup {x[1] : x \in swapped'}
        /\ \A x \in swapped' :
             sock'[x[1]] = "closed" /\ x[1] \notin Holders' /\ x[2] \in Holders'
    BY DEF AddressesSwapped, SwappedApart, Holders
<1>5. CASE \E e \in i .. client_count + 1 : Accept(e)
  <2>1. PICK e \in i .. client_count + 1 : Accept(e)
    BY <1>5
  <2> DEFINE c == queue[fd[e]][1]
  <2>2. /\ c \in Conns /\ sock[c] # "closed" /\ Head(queue[fd[e]]) = c
    BY <2>1, AcceptQueue DEF PortsApart
  <2>3. \A d \in Conns : d # c => sock'[d] = sock[d]
    BY <2>1, AcceptSocket
  <2>4. Holders' = Holders \cup {c}
    BY <2>1, AcceptHolders
  <2>5. live' = live \cup {c} /\ swapped' = swapped
    BY <2>1, <2>2 DEF Accept, add_client
  <2>6. c \notin Holders
    BY <2>1, AcceptQueue DEF IInv, QueuesApart, Holders
  <2> HIDE DEF c
  <2>7. c \notin Closed /\ c \notin Moved
    BY <1>2, <2>2, <2>6
  <2>8. live' = (Holders' \ Moved) \cup Closed
    BY <1>1, <2>4, <2>5, <2>7
  <2>9. \A x \in swapped : sock'[x[1]] = "closed" /\ x[1] \notin Holders' /\ x[2] \in Holders'
    BY <1>2, <1>3, <2>2, <2>3, <2>4
  <2> QED
    BY <2>5, <2>8, <2>9
<1>6. CASE Close
  <2> DEFINE L == cli_socket[lastSlot]
  <2>1. /\ cur \in Held /\ Peer \in Conns /\ Peer = cli_socket[cur]
        /\ sock' = [sock EXCEPT ![Peer] = "closed"]
    BY <1>6, CloseSocket
  <2>2. lastSlot \in Held
    BY <2>1, TableAssumption DEF IInv, TypeOK, Held, lastSlot
  <2>3. /\ ip[cur] = Peer /\ ip[lastSlot] = L /\ L \in Conns
        /\ Peer \in Holders /\ L \in Holders /\ (L = Peer <=> cur = lastSlot)
    BY <2>1, <2>2 DEF IInv, IpIsOwn, Aligned, Holders
  <2>4. /\ Peer \in live /\ L \in live /\ live' = live \ {L}
        /\ swapped' = swapped \cup Swap
    BY <1>6, <2>3 DEF Close
  <2>5. Swap = IF L = Peer THEN {} ELSE {<<Peer, L>>}
    BY <2>3 DEF Swap
  <2>6. Holders' = Holders \ {Peer}
    BY <1>6, CloseHolders
  <2> DEFINE P == Peer
  <2> HIDE DEF L, P
  <2>7. P \notin Closed /\ P \notin Moved /\ L \notin Closed /\ L \notin Moved
    BY <1>1, <1>2, <2>3, <2>4 DEF P
  <2>8. CASE L = P
    <3>1. swapped' = swapped /\ live' = live \ {P} /\ Holders' = Holders \ {P}
      BY <2>4, <2>5, <2>6, <2>8 DEF P
    <3>2. live' = (Holders' \ Moved) \cup Closed
      BY <1>1, <2>7, <3>1
    <3>3. \A x \in swapped : sock'[x[1]] = "closed" /\ x[1] \notin Holders' /\ x[2] \in Holders'
      BY <1>2, <1>3, <2>1, <2>7, <3>1 DEF P
    <3> QED
      BY <3>1, <3>2, <3>3
  <2>9. CASE L # P
    <3>1. swapped' = swapped \cup {<<P, L>>} /\ live' = live \ {L} /\ Holders' = Holders \ {P}
      BY <2>4, <2>5, <2>6, <2>9 DEF P
    <3>2. /\ {x[1] : x \in swapped'} = Closed \cup {P}
          /\ {x[2] : x \in swapped'} = Moved \cup {L}
      <4>1. <<P, L>>[1] = P /\ <<P, L>>[2] = L
        OBVIOUS
      <4>2. /\ {x[1] : x \in swapped \cup {<<P, L>>}} = Closed \cup {<<P, L>>[1]}
            /\ {x[2] : x \in swapped \cup {<<P, L>>}} = Moved \cup {<<P, L>>[2]}
        BY Zenon
      <4> QED
        BY <3>1, <4>1, <4>2
    <3>3. live' = (Holders' \ (Moved \cup {L})) \cup Closed \cup {P}
      BY <1>1, <2>4, <2>7, <2>9, <3>1 DEF P
    <3>4. \A x \in swapped : sock'[x[1]] = "closed" /\ x[1] \notin Holders' /\ x[2] \in Holders'
      BY <1>2, <1>3, <2>1, <2>7, <3>1 DEF P
    <3>5. sock'[P] = "closed" /\ P \notin Holders' /\ L \in Holders'
      BY <1>3, <2>1, <2>3, <2>9, <3>1 DEF P
    <3> QED
      BY <3>1, <3>2, <3>3, <3>4, <3>5
  <2> QED
    BY <2>8, <2>9
<1>7. CASE \E c \in Conns : Connect(c)
  <2>1. PICK c \in Conns : Connect(c)
    BY <1>7
  <2>2. /\ UNCHANGED <<cli_socket, client_count, live, swapped>>
        /\ sock[c] = "idle" /\ sock' = [sock EXCEPT ![c] = "est"]
    BY <2>1 DEF Connect, clients
  <2>3. Holders' = Holders
    BY <2>2 DEF Holders, Held
  <2> QED
    BY <1>1, <1>2, <1>3, <2>2, <2>3
<1>8. CASE Quiet
  <2>1. UNCHANGED <<cli_socket, client_count, live, swapped>>
    BY <1>8, QuietTable
  <2>2. Holders' = Holders
    BY <2>1 DEF Holders, Held
  <2>3. \A c \in Conns : sock[c] = "closed" => sock'[c] = "closed"
    BY <1>8, QuietSockets
  <2> QED
    BY <1>1, <1>2, <1>3, <2>1, <2>2, <2>3
<1> QED
    BY <1>5, <1>6, <1>7, <1>8, NextCases

(* The stronger invariant.                                                   *)
LEMMA SocketInvInit == Init => SocketInv
<1> SUFFICES ASSUME Init PROVE SocketInv
    OBVIOUS
<1>1. Held = {}
    BY DEF Init, Held
<1>2. PortsApart /\ SocketsKept /\ RoomForLog /\ CloseIsDue
    BY <1>1, TableAssumption DEF Init, PortsApart, SocketsKept, RoomForLog, CloseIsDue
<1>3. ManagerPrivilege /\ AddressesSwapped /\ SwappedApart
    BY <1>1 DEF Init, ManagerPrivilege, AddressesSwapped, SwappedApart
<1> QED
    BY <1>2, <1>3, InitInv DEF SocketInv

(* It holds in every behaviour.                                             *)
LEMMA SocketInvariance == Spec => []SocketInv
<1>1. Init => SocketInv
    BY SocketInvInit
<1>2. SocketInv /\ [Next]_vars => SocketInv'
    BY NextInv, PortsKeep, SocketsKeep, RoomKeeps, CloseIsDueKeeps, PrivilegeKeeps,
       AddressesKeep
    DEF SocketInv
<1> QED
    BY <1>1, <1>2, PTL DEF Spec

(* The table holds exactly the connections accepted and not closed, through   *)
(* every move of handle_close_client.                                        *)
THEOREM NoConnectionLost == Spec => []NoSocketLost
<1>1. ASSUME SocketInv PROVE NoSocketLost
  <2> DEFINE open == {c \in Conns : sock[c] \notin {"idle", "closed"}} \ Waiting
  <2>1. ASSUME NEW c \in open PROVE \E k \in Held : cli_socket[k] = c
    BY <1>1 DEF SocketInv, SocketsKept, Waiting
  <2>2. ASSUME pc # "aborted", NEW k \in Held, ~(pc = "close" /\ k = cur)
        PROVE  cli_socket[k] \in open
    <3>1. cli_socket[k] \in Conns /\ sock[cli_socket[k]] \notin {"idle", "closed"}
      BY <1>1, <2>2 DEF SocketInv, SocketsKept, IInv, Aligned, QueuesApart
    <3>2. cli_socket[k] \notin Waiting
      BY <1>1 DEF SocketInv, IInv, QueuesApart, Waiting
    <3> QED
      BY <3>1, <3>2
  <2> QED
    BY <2>1, <2>2 DEF NoSocketLost, Peer
<1> QED
    BY <1>1, SocketInvariance, PTL

(* A client has the manager commands exactly when its connection was accepted *)
(* from the manager port, whatever slots it moved through.                   *)
THEOREM PrivilegeStays == Spec => []ManagerPrivilege
BY SocketInvariance, PTL DEF SocketInv

(* The addresses allocated are those of the clients never moved and those     *)
(* leaked by the closes that moved another (main.c:60-75), after any sequence *)
(* of connections and closes.                                                *)
THEOREM MovesSwapAddresses == Spec => []AddressesSwapped
BY SocketInvariance, PTL DEF SocketInv

(* Serving, closing or accepting one client leaves the record of every other  *)
(* as it was, whichever slot it is in afterwards.                            *)
THEOREM OthersAreUntouched == Spec => OthersUntouched
<1>1. ASSUME IInv, [Next]_vars PROVE [OthersKept]_vars
  <2>1. CASE \E e \in i .. client_count + 1 : Accept(e)
    BY <1>1, <2>1, AcceptTable DEF OthersKept
  <2>2. CASE Close
    <3>1. pc = "close"
      BY <2>2 DEF Close
    <3> QED
      BY <1>1, <2>2, <3>1, CloseTable DEF OthersKept
  <2>3. CASE \E c \in Conns : Connect(c)
    BY <2>3 DEF OthersKept, Held, Connect, pollfds, clients
  <2>4. CASE Quiet
    <3>1. Held' = Held /\ UNCHANGED <<cli_socket, fd, ip>>
      BY <2>4, QuietTable DEF Held
    <3> QED
      BY <1>1, <2>4, <3>1, QuietRecords DEF OthersKept
  <2> QED
    BY <1>1, <2>1, <2>2, <2>3, <2>4, NextCases
<1> QED
    BY <1>1, Invariance, PTL DEF Spec, OthersUntouched

(* A connection is closed after its own QUIT, or after all it sent was read   *)
(* and its end was reported: no client loses what it sent to the leaving of  *)
(* another.                                                                  *)
THEOREM OnlyFinishedAreClosed == Spec => ClosesOnlyFinished
<1>1. ASSUME SocketInv, [Next]_vars PROVE [FinishedClosed]_vars
  <2>1. CASE \E e \in i .. client_count + 1 : Accept(e)
    BY <1>1, <2>1, AcceptSocket, AcceptQueue DEF SocketInv, FinishedClosed
  <2>2. CASE Close
    BY <1>1, <2>2, CloseSocket DEF SocketInv, CloseIsDue, FinishedClosed, Close
  <2>3. CASE \E c \in Conns : Connect(c)
    BY <1>1, <2>3 DEF SocketInv, IInv, TypeOK, FinishedClosed, Connect
  <2>4. CASE Quiet
    BY <1>1, <2>4, QuietSockets DEF SocketInv, FinishedClosed, ServeQuit
  <2> QED
    BY <1>1, <2>1, <2>2, <2>3, <2>4, NextCases
<1> QED
    BY <1>1, SocketInvariance, PTL DEF Spec, ClosesOnlyFinished

=============================================================================
