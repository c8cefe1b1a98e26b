------------------------------- MODULE Listener -------------------------------
(***************************************************************************)
(* The POP3 listener and the commands PORT and IPV6 that replace it while    *)
(* the server runs: update_server_address (src/server/pop3.c), called from   *)
(* the middle of the scan of main.c, with descriptors as the numbers they    *)
(* are, so that a number closed is given again.  Transfers are forked        *)
(* children, which hold every descriptor the server held when they started.  *)
(*                                                                           *)
(* What the scan does with the table of clients is ClientTable; here a       *)
(* client is its connection, and a manager is always connected.  There are   *)
(* descriptors enough (the last one is ClientTable's subject).               *)
(***************************************************************************)
EXTENDS Integers, Sequences

CONSTANTS Fds,                   \* numbers a descriptor may have
          Conns,                 \* connections to the POP3 port that may ever be made
          Children,              \* bound: transfers at one time
          MaxUpdates,            \* bound: listeners made by PORT and IPV6
          Ips, AnyIp, NotLocal,  \* addresses, in6addr_any, those the host has not
          Numbers,               \* what atoi may make of PORT's argument
          Texts,                 \* arguments of IPV6: addresses, or None for any other text
          PopPort, ManagerPort,
          Manager,               \* the manager's listening socket, and the manager
          None                   \* a free number, -1, no client, not an address

Listeners == 0 .. MaxUpdates     \* the POP3 listening sockets, in the order made
Sockets   == Listeners \cup Conns \cup {Manager}

ASSUME ListenerAssumption ==
    /\ Fds \subseteq Nat /\ 0 \in Fds /\ 1 \in Fds
    /\ MaxUpdates \in Nat
    /\ Conns \cap Nat = {}
    /\ Manager \notin Conns /\ Manager \notin Nat
    /\ None \notin Conns /\ None \notin Nat /\ None # Manager /\ None \notin Ips
    /\ AnyIp \in Ips /\ NotLocal \subseteq Ips /\ AnyIp \notin NotLocal
    /\ Numbers \subseteq Int /\ Texts \subseteq Ips \cup {None}
    /\ PopPort \in Nat /\ 0 < PopPort /\ PopPort < 65536
    /\ ManagerPort \in Nat /\ ManagerPort # PopPort

VARIABLES
    open,           \* the process's descriptors: number -> socket
    cli_socket,     \* of each client in the table, its descriptor
    server_socket,  \* main's variable
    server_fd,      \* pollfds[0].fd, which handle_client is given a pointer to
    server_addr,    \* the address bind is called with
    made,           \* the last POP3 listener made
    bound,          \* the address each was bound to
    held,           \* what each child inherited
    scan,           \* entries poll reported and the scan has not come to; 0 is the listener's
    closing,        \* the client the loop is about to close
    queue,          \* per listener, the connections not yet accepted
    fresh           \* connections not made yet

addrs == <<server_socket, server_fd, server_addr, made, bound>>
vars  == <<open, cli_socket, addrs, held, scan, closing, queue, fresh>>

Init ==
    /\ open = [d \in Fds |-> IF d = 0 THEN 0 ELSE IF d = 1 THEN Manager ELSE None]
    /\ cli_socket = [c \in Conns |-> None]
    /\ server_socket = 0 /\ server_fd = 0
    /\ server_addr = [ip |-> AnyIp, port |-> PopPort]
    /\ made = 0
    /\ bound = [l \in Listeners |-> [ip |-> AnyIp, port |-> PopPort]]
    /\ held = [k \in Children |-> {}]
    /\ scan = {} /\ closing = None
    /\ queue = [l \in Listeners |-> <<>>]
    /\ fresh = Conns

-----------------------------------------------------------------------------
(* The kernel.                                                              *)

(* Sockets some process has open.                                            *)
Alive(files, children) ==
    {s \in Sockets : (\E d \in Fds : files[d] = s) \/ \E k \in Children : s \in children[k]}

(* A listener nobody has open any more resets what waits at it.              *)
ResetQueues(files, children) ==
    [l \in Listeners |-> IF l \in Alive(files, children) THEN queue[l] ELSE <<>>]

(* A new descriptor gets the lowest number that is free.                     *)
IsNext(d) == d \in Fds /\ open[d] = None /\ \A e \in Fds : open[e] = None => d <= e

(* SO_REUSEADDR or not, two sockets cannot listen on one port at the same     *)
(* address, nor one of them at in6addr_any.                                  *)
Overlap(a, b) == a.port = b.port /\ (a.ip = b.ip \/ AnyIp \in {a.ip, b.ip})

BindFails(a) ==
    \/ a.ip \in NotLocal
    \/ Overlap(a, [ip |-> AnyIp, port |-> ManagerPort])
    \/ \E l \in 0 .. made : l \in Alive(open, held) /\ Overlap(a, bound[l])

(* Port 0 asks for any port that is free: one no command can name.           *)
Given(a, l) == IF a.port = 0 THEN [a EXCEPT !.port = 65536 + l] ELSE a

(* A client connects where something listens.                                *)
Connect(c, l) ==
    /\ c \in fresh /\ l \in Alive(open, held)
    /\ fresh' = fresh \ {c}
    /\ queue' = [queue EXCEPT ![l] = Append(@, c)]
    /\ UNCHANGED <<open, cli_socket, addrs, held, scan, closing>>

(* A transfer ends, and its process with it.                                 *)
ChildEnds(k) ==
    /\ held[k] # {}
    /\ held' = [held EXCEPT ![k] = {}]
    /\ queue' = ResetQueues(open, held')
    /\ UNCHANGED <<open, cli_socket, addrs, scan, closing, fresh>>

-----------------------------------------------------------------------------
(* The loop.                                                                *)

Clients == {c \in Conns : cli_socket[c] # None}

(* Faulty variant: new clients only when the others have nothing to say.     *)
PollListenerLast ==
    /\ scan = {} /\ closing = None
    /\ \E talking \in SUBSET (Clients \cup {Manager}) :
         scan' = IF talking # {} THEN talking
                 ELSE IF server_fd # None /\ queue[open[server_fd]] # <<>> THEN {0} ELSE {}
    /\ scan' # {}
    /\ UNCHANGED <<open, cli_socket, addrs, held, closing, queue, fresh>>

(* An entry of -1 is skipped; clients and managers send what and when they   *)
(* like.                                                                     *)
Poll ==
    /\ scan = {} /\ closing = None
    /\ \E talking \in SUBSET (Clients \cup {Manager}) :
         scan' = talking \cup (IF server_fd # None /\ queue[open[server_fd]] # <<>> THEN {0} ELSE {})
    /\ scan' # {}
    /\ UNCHANGED <<open, cli_socket, addrs, held, closing, queue, fresh>>

(* The scan is at an entry: the listener's is the first.                     *)
At(e) == closing = None /\ e \in scan /\ (0 \in scan => e = 0) /\ scan' = scan \ {e}

Accept ==
    /\ At(0)
    /\ server_fd = server_socket
    /\ LET l == open[server_fd] IN
         \E d \in Fds :
           /\ IsNext(d)
           /\ open' = [open EXCEPT ![d] = Head(queue[l])]
           /\ cli_socket' = [cli_socket EXCEPT ![Head(queue[l])] = d]
           /\ queue' = [queue EXCEPT ![l] = Tail(@)]
    /\ UNCHANGED <<addrs, held, closing, fresh>>

(* QUIT: handle_client closes the socket, and the loop will do so again.     *)
Quit(c) ==
    /\ c \in Clients /\ At(c)
    /\ open' = [open EXCEPT ![cli_socket[c]] = None]
    /\ closing' = c
    /\ UNCHANGED <<cli_socket, addrs, held, queue, fresh>>

(* recv returned 0.                                                          *)
Leave(c) ==
    /\ c \in Clients /\ At(c)
    /\ closing' = c
    /\ UNCHANGED <<open, cli_socket, addrs, held, queue, fresh>>

(* Faulty variant: the descriptor is left open.                              *)
handle_close_client_leaks ==
    /\ closing # None
    /\ cli_socket' = [cli_socket EXCEPT ![closing] = None]
    /\ closing' = None
    /\ UNCHANGED <<open, addrs, held, scan, queue, fresh>>

(* The close of handle_close_client: of that number, whatever it is by now.  *)
handle_close_client ==
    /\ closing # None
    /\ open' = [open EXCEPT ![cli_socket[closing]] = None]
    /\ cli_socket' = [cli_socket EXCEPT ![closing] = None]
    /\ closing' = None
    /\ UNCHANGED <<addrs, held, scan, queue, fresh>>

(* RETR of a client, LOGG of the manager: a child with all that is open.     *)
Fork(e, k) ==
    /\ e \in Clients \cup {Manager} /\ At(e)
    /\ held[k] = {}
    /\ held' = [held EXCEPT ![k] = {open[d] : d \in Fds} \ {None}]
    /\ UNCHANGED <<open, cli_socket, addrs, closing, queue, fresh>>

(* Any other command.                                                        *)
Other(e) ==
    /\ e \in Clients \cup {Manager} /\ At(e)
    /\ UNCHANGED <<open, cli_socket, addrs, held, closing, queue, fresh>>

-----------------------------------------------------------------------------
(* update_server_address, after the +OK.                                     *)

(* return -1 before the address is touched.                                  *)
Refuse ==
    /\ server_fd' = None
    /\ UNCHANGED <<open, cli_socket, server_socket, server_addr, made, bound, queue>>

(* Faulty variant: the old listener is closed before the new one is bound.   *)
RebindClosesFirst(a) ==
    /\ server_addr' = a
    /\ LET shut == [open EXCEPT ![server_socket] = None] IN
         IF a.ip \in NotLocal
            \/ Overlap(a, [ip |-> AnyIp, port |-> ManagerPort])
            \/ \E l \in 0 .. made : l \in Alive(shut, held) /\ Overlap(a, bound[l])
         THEN server_fd' = None /\ UNCHANGED <<open, server_socket, made, bound, queue>>
         ELSE /\ made' = made + 1
              /\ bound' = [bound EXCEPT ![made + 1] = Given(a, made + 1)]
              /\ open' = [open EXCEPT ![server_socket] = made + 1]
              /\ UNCHANGED server_socket /\ server_fd' = server_socket
              /\ queue' = ResetQueues(open', held)
    /\ UNCHANGED cli_socket

(* Faulty variant: pollfds[0] keeps the listener there was.                  *)
RebindKeepsPolling(a) ==
    /\ server_addr' = a
    /\ IF BindFails(a)
       THEN UNCHANGED <<open, server_socket, server_fd, made, bound, queue>>
       ELSE \E d \in Fds :
              /\ IsNext(d)
              /\ made' = made + 1
              /\ bound' = [bound EXCEPT ![made + 1] = Given(a, made + 1)]
              /\ open' = [open EXCEPT ![d] = made + 1, ![server_socket] = None]
              /\ server_socket' = d /\ server_fd' = d
              /\ queue' = ResetQueues(open', held)
    /\ UNCHANGED cli_socket

(* The address was changed; a new socket is bound to it while the old one     *)
(* still listens.  If bind fails, the new one is closed, the old one stays    *)
(* as it is, and -1 goes to pollfds[0].                                      *)
Rebind(a) ==
    /\ server_addr' = a
    /\ IF BindFails(a)
       THEN server_fd' = None /\ UNCHANGED <<open, server_socket, made, bound, queue>>
       ELSE \E d \in Fds :
              /\ IsNext(d)
              /\ made' = made + 1
              /\ bound' = [bound EXCEPT ![made + 1] = Given(a, made + 1)]
              /\ open' = [open EXCEPT ![d] = made + 1, ![server_socket] = None]
              /\ server_socket' = d /\ server_fd' = d
              /\ queue' = ResetQueues(open', held)
    /\ UNCHANGED cli_socket

(* htons keeps sixteen bits.                                                 *)
Port(n) ==
    /\ At(Manager) /\ made < MaxUpdates
    /\ IF n > 0 THEN Rebind([server_addr EXCEPT !.port = n % 65536]) ELSE Refuse
    /\ UNCHANGED <<held, closing, fresh>>

Ipv6(text) ==
    /\ At(Manager) /\ made < MaxUpdates
    /\ IF text # None THEN Rebind([server_addr EXCEPT !.ip = text]) ELSE Refuse
    /\ UNCHANGED <<held, closing, fresh>>

-----------------------------------------------------------------------------
Server ==
    \/ Poll \/ Accept \/ handle_close_client
    \/ \E c \in Conns : Quit(c) \/ Leave(c)
    \/ \E e \in Conns \cup {Manager} : Other(e) \/ \E k \in Children : Fork(e, k)
    \/ \E n \in Numbers : Port(n)
    \/ \E t \in Texts : Ipv6(t)

Next ==
    \/ Server
    \/ \E c \in Conns, l \in Listeners : Connect(c, l)
    \/ \E k \in Children : ChildEnds(k)

Spec == Init /\ [][Next]_vars

(* The one process of the server keeps running.                              *)
FairSpec == Spec /\ WF_vars(Server)

-----------------------------------------------------------------------------
(* Properties.                                                              *)

Address == [ip : Ips, port : Nat]

(* Every variable has its type.                                              *)
TypeOK ==
    /\ open \in [Fds -> Sockets \cup {None}]
    /\ cli_socket \in [Conns -> Fds \cup {None}]
    /\ server_socket \in Fds /\ server_fd \in Fds \cup {None}
    /\ server_addr \in Address
    /\ made \in Listeners
    /\ bound \in [Listeners -> Address]
    /\ held \in [Children -> SUBSET Sockets]
    /\ scan \subseteq {0, Manager} \cup Conns
    /\ closing \in Conns \cup {None}
    /\ queue \in [Listeners -> Seq(Conns)]
    /\ fresh \subseteq Conns

(* Whatever PORT, IPV6, QUIT and accept do in one scan with numbers that are  *)
(* given again: every client in the table has its own connection, the server *)
(* the newest listener, and nothing else is open (update_server_address      *)
(* closes what it gives up, and the second close of a QUIT hits nobody).     *)
NoDescriptorLost ==
    /\ open[server_socket] = made /\ open[1] = Manager
    /\ \A c \in Clients : open[cli_socket[c]] = c \/ (closing = c /\ open[cli_socket[c]] = None)
    /\ \A d \in Fds : \/ open[d] = None \/ d \in {1, server_socket}
                      \/ \E c \in Clients : cli_socket[c] = d

(* While the port is polled, the socket polled is the server's listener, and  *)
(* it is bound to server_addr, the address the next PORT or IPV6 starts from *)
(* (update_server_address writes it before bind can fail).                   *)
PollsItsAddress ==
    server_fd # None => server_fd = server_socket /\ bound[made] = Given(server_addr, made)

(* A listener never takes over any part of the address of the one before:     *)
(* PORT to the same port, or IPV6 from in6addr_any, as every server starts,  *)
(* to any address, fails, for the old socket still listens when the new one  *)
(* is bound (update_server_address closes it last).                          *)
NeverTakesOver == \A l \in 1 .. made : ~Overlap(bound[l], bound[l - 1])

(* A connection that waits at the server's listener is accepted, unless a     *)
(* manager's PORT or IPV6 closes that listener or leaves pollfds[0] at -1.   *)
Waits(c) == \E l \in Listeners : open[server_socket] = l /\ \E k \in DOMAIN queue[l] : queue[l][k] = c
WaitingIsHeard(c) == Waits(c) ~> ~Waits(c) \/ server_fd = None

(* "se puede modificar la configuracion en tiempo de ejecucion" (the report,  *)
(* p. 4), with +OK as the answer; refuted: a PORT or IPV6 that fails leaves  *)
(* no port at all.                                                           *)
AlwaysHears == server_fd # None

(* INFO gives "ip actual" (client/main.c:67); refuted: pop3->ip is never      *)
(* changed, whatever IPV6 does.                                              *)
InfoIsCurrent == bound[made].ip = AnyIp

=============================================================================
