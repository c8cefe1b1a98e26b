--------------------------- MODULE Listener_proofs ---------------------------
(***************************************************************************)
(* Proofs about Listener, for any descriptors, connections and addresses.    *)
(***************************************************************************)
EXTENDS Listener, TLAPS

(* A listener on a port the kernel chose has one no other has.               *)
PortsOK ==
    /\ server_addr.port <= 65535
    /\ \A l \in 0 .. made : bound[l].port <= 65536 + l

(* A connection waits in one place, and not while it is a client.            *)
QueuesApart ==
    /\ \A l \in Listeners : \A k \in 1 .. Len(queue[l]) :
          queue[l][k] \notin fresh /\ cli_socket[queue[l][k]] = None
    /\ \A l, m \in Listeners : \A j \in 1 .. Len(queue[l]), k \in 1 .. Len(queue[m]) :
          queue[l][j] = queue[m][k] => l = m /\ j = k
    /\ \A c \in fresh : cli_socket[c] = None

(* What poll reported of the listener holds until the scan is there; the     *)
(* loop closes a client only after that.                                     *)
ScanOK == 0 \in scan => closing = None /\ server_fd # None /\ queue[made] # <<>>

ClosingOK == closing # None => closing \in Clients

(* The inductive invariant.  Without QueuesApart a connection could be        *)
(* accepted twice, and its first descriptor be lost.                         *)
IInv ==
    /\ TypeOK /\ NoDescriptorLost /\ PollsItsAddress /\ NeverTakesOver
    /\ PortsOK /\ QueuesApart /\ ScanOK /\ ClosingOK

-----------------------------------------------------------------------------

(* The kinds of sockets, and nothing, are different values.                  *)
LEMMA Kinds ==
    /\ None \notin Sockets /\ None \notin Fds /\ None \notin Conns /\ None \notin Listeners
    /\ Manager \notin Conns /\ Manager \notin Listeners /\ Manager # None /\ Manager # 0
    /\ \A c \in Conns : c \notin Listeners /\ c # 0
    /\ Listeners \subseteq Nat /\ 0 \in Listeners /\ Fds \subseteq Nat /\ 0 \in Fds /\ 1 \in Fds
<1>1. MaxUpdates \in Nat
  BY ListenerAssumption
<1>2. Listeners \subseteq Nat /\ 0 \in Listeners
  BY <1>1 DEF Listeners
<1>3. /\ Conns \cap Nat = {} /\ Fds \subseteq Nat /\ 0 \in Fds /\ 1 \in Fds
      /\ Manager \notin Conns /\ Manager \notin Nat
      /\ None \notin Conns /\ None \notin Nat /\ None # Manager
  BY ListenerAssumption
<1>4. \A c \in Conns : c \notin Nat
  BY <1>3
<1> QED
  BY <1>2, <1>3, <1>4 DEF Sockets

(* A listener somebody has open keeps its queue, any other loses it.         *)
LEMMA ResetFacts ==
    ASSUME TypeOK, NEW files, NEW children
    PROVE  /\ ResetQueues(files, children) \in [Listeners -> Seq(Conns)]
           /\ \A l \in Listeners : \/ ResetQueues(files, children)[l] = queue[l]
                                   \/ ResetQueues(files, children)[l] = <<>>
           /\ \A l \in Listeners : l \in Alive(files, children) =>
                 ResetQueues(files, children)[l] = queue[l]
<1>1. \A l \in Listeners : queue[l] \in Seq(Conns) /\ <<>> \in Seq(Conns)
  BY DEF TypeOK
<1> QED
  BY <1>1 DEF ResetQueues

(* QueuesApart survives queues that are emptied and clients that go.         *)
LEMMA QueuesShrink ==
    ASSUME QueuesApart, fresh' = fresh,
           \A l \in Listeners : queue'[l] = queue[l] \/ queue'[l] = <<>>,
           \A c : cli_socket'[c] = cli_socket[c] \/ cli_socket'[c] = None
    PROVE  QueuesApart'
<1>1. \A l \in Listeners : \A k \in 1 .. Len(queue'[l]) :
         k \in 1 .. Len(queue[l]) /\ queue'[l][k] = queue[l][k]
  <2> SUFFICES ASSUME NEW l \in Listeners, NEW k \in 1 .. Len(queue'[l])
               PROVE  k \in 1 .. Len(queue[l]) /\ queue'[l][k] = queue[l][k]
    OBVIOUS
  <2>1. CASE queue'[l] = queue[l]
    BY <2>1
  <2>2. CASE queue'[l] = <<>>
    BY <2>2
  <2> QED
    BY <2>1, <2>2
<1>2. \A l \in Listeners : \A k \in 1 .. Len(queue'[l]) :
         queue'[l][k] \notin fresh /\ cli_socket'[queue'[l][k]] = None
  BY <1>1 DEF QueuesApart
<1>3. \A l, m \in Listeners : \A j \in 1 .. Len(queue'[l]), k \in 1 .. Len(queue'[m]) :
         queue'[l][j] = queue'[m][k] => l = m /\ j = k
  BY <1>1 DEF QueuesApart
<1>4. \A c \in fresh : cli_socket'[c] = None
  BY DEF QueuesApart
<1> QED
  BY <1>2, <1>3, <1>4 DEF QueuesApart

(* The server's listener is alive.                                           *)
LEMMA ServerListenerAlive ==
    ASSUME TypeOK, NoDescriptorLost, NEW children
    PROVE  made \in Alive(open, children)
<1>1. made \in Sockets /\ server_socket \in Fds /\ open[server_socket] = made
  BY DEF TypeOK, NoDescriptorLost, Sockets
<1> QED
  BY <1>1 DEF Alive

-----------------------------------------------------------------------------

(* The server as main sets it up.                                           *)
LEMMA InitIInv == Init => IInv
<1> SUFFICES ASSUME Init PROVE IInv
  OBVIOUS
<1> DEFINE home == [ip |-> AnyIp, port |-> PopPort]
<1>1. 0 \in Fds /\ 1 \in Fds /\ 0 \in Listeners /\ Manager # None
  BY Kinds
<1>2. AnyIp \in Ips /\ PopPort \in Nat /\ 0 < PopPort /\ PopPort < 65536
  BY ListenerAssumption
<1>3. Manager \in Sockets /\ 0 \in Sockets
  BY <1>1 DEF Sockets
<1>4. home \in Address /\ home.port = PopPort
  BY <1>2 DEF Address
<1> HIDE DEF home
<1>5. /\ server_addr = home
      /\ made = 0 /\ server_socket = 0 /\ server_fd = 0 /\ scan = {} /\ closing = None
      /\ fresh = Conns
  BY DEF Init, home
<1>6. open = [d \in Fds |-> IF d = 0 THEN 0 ELSE IF d = 1 THEN Manager ELSE None]
  BY DEF Init
<1>7. /\ cli_socket = [c \in Conns |-> None]
      /\ bound = [l \in Listeners |-> home]
      /\ held = [k \in Children |-> {}] /\ queue = [l \in Listeners |-> <<>>]
  BY DEF Init, home
<1>8. open[0] = 0 /\ open[1] = Manager
  BY <1>1, <1>6
<1>9. \A d \in Fds : d # 0 /\ d # 1 => open[d] = None
  BY <1>6
<1>10. bound[0] = home
  BY <1>1, <1>7
<1>11. TypeOK
  <2>1. \A d \in Fds : open[d] \in Sockets \cup {None}
    BY <1>3, <1>8, <1>9
  <2>2. open \in [Fds -> Sockets \cup {None}]
    BY <1>6, <2>1
  <2>3. held \in [Children -> SUBSET Sockets] /\ bound \in [Listeners -> Address]
    BY <1>4, <1>7
  <2>4. queue \in [Listeners -> Seq(Conns)] /\ cli_socket \in [Conns -> Fds \cup {None}]
    BY <1>7
  <2> QED
    BY <1>1, <1>4, <1>5, <2>2, <2>3, <2>4 DEF TypeOK
<1>12. Clients = {}
  BY <1>7 DEF Clients
<1>13. NoDescriptorLost
  BY <1>5, <1>8, <1>9, <1>12 DEF NoDescriptorLost
<1>14. PollsItsAddress
  <2>1. Given(home, 0) = home
    BY <1>2, <1>4 DEF Given
  <2> QED
    BY <1>5, <1>10, <2>1 DEF PollsItsAddress
<1>15. NeverTakesOver
  BY <1>5 DEF NeverTakesOver
<1>16. PortsOK
  <2>1. \A l \in 0 .. made : l = 0
    BY <1>5
  <2>2. bound[0].port <= 65536 + 0
    BY <1>2, <1>4, <1>10
  <2> QED
    BY <1>2, <1>4, <1>5, <2>1, <2>2 DEF PortsOK
<1>17. QueuesApart
  <2>1. \A l \in Listeners : queue[l] = <<>>
    BY <1>7
  <2>2. \A l \in Listeners : 1 .. Len(queue[l]) = {}
    BY <2>1
  <2>3. \A c \in fresh : cli_socket[c] = None
    BY <1>5, <1>7
  <2> QED
    BY <2>2, <2>3 DEF QueuesApart
<1>18. ScanOK /\ ClosingOK
  BY <1>5 DEF ScanOK, ClosingOK
<1> QED
  BY <1>11, <1>13, <1>14, <1>15, <1>16, <1>17, <1>18 DEF IInv

(* Steps that leave the descriptors, the table and the addresses alone.      *)
LEMMA QuietKeeps ==
    ASSUME IInv, UNCHANGED <<open, cli_socket, addrs>>, closing' = closing
    PROVE  /\ NoDescriptorLost' /\ PollsItsAddress' /\ NeverTakesOver' /\ PortsOK' /\ ClosingOK'
           /\ Clients' = Clients
<1>1. Clients' = Clients
  BY DEF Clients
<1>2. NoDescriptorLost' /\ ClosingOK'
  BY <1>1 DEF IInv, NoDescriptorLost, ClosingOK, addrs
<1>3. PollsItsAddress' /\ NeverTakesOver' /\ PortsOK'
  BY DEF IInv, PollsItsAddress, NeverTakesOver, PortsOK, addrs
<1> QED
  BY <1>1, <1>2, <1>3

(* A client connects to a listener that is open.                            *)
LEMMA ConnectKeeps ==
    ASSUME IInv, NEW c \in Conns, NEW l \in Listeners, Connect(c, l)
    PROVE  IInv'
<1>1. /\ c \in fresh /\ fresh' = fresh \ {c} /\ queue' = [queue EXCEPT ![l] = Append(queue[l], c)]
      /\ UNCHANGED <<open, cli_socket, addrs>> /\ UNCHANGED <<held, scan, closing>>
  BY DEF Connect
<1>2. queue \in [Listeners -> Seq(Conns)] /\ queue[l] \in Seq(Conns)
  BY DEF IInv, TypeOK
<1>3. /\ queue'[l] = Append(queue[l], c) /\ \A m \in Listeners : m # l => queue'[m] = queue[m]
      /\ queue' \in [Listeners -> Seq(Conns)]
  BY <1>1, <1>2
<1>4. TypeOK'
  <2>1. fresh' \subseteq Conns
    BY <1>1 DEF IInv, TypeOK
  <2> QED
    BY <1>1, <1>3, <2>1 DEF IInv, TypeOK, addrs
<1>5. /\ Len(queue'[l]) = Len(queue[l]) + 1 /\ Len(queue[l]) \in Nat
      /\ queue'[l][Len(queue[l]) + 1] = c
      /\ \A k \in 1 .. Len(queue[l]) : queue'[l][k] = queue[l][k]
  BY <1>2, <1>3
<1>6. QueuesApart'
  <2> DEFINE Old(m, k) == k \in 1 .. Len(queue[m]) /\ queue'[m][k] = queue[m][k]
             New(m, k) == m = l /\ k = Len(queue[l]) + 1 /\ queue'[m][k] = c
  <2>1. \A m \in Listeners : \A k \in 1 .. Len(queue'[m]) : Old(m, k) \/ New(m, k)
    <3> SUFFICES ASSUME NEW m \in Listeners, NEW k \in 1 .. Len(queue'[m])
                 PROVE  Old(m, k) \/ New(m, k)
      OBVIOUS
    <3>1. CASE m = l
      <4>1. k \in 1 .. Len(queue[l]) \/ k = Len(queue[l]) + 1
        BY <3>1, <1>5
      <4> QED
        BY <3>1, <4>1, <1>5
    <3>2. CASE m # l
      BY <3>2, <1>3
    <3> QED
      BY <3>1, <3>2
  <2>2. \A m \in Listeners : \A k : Old(m, k) => queue[m][k] # c
    BY <1>1 DEF IInv, QueuesApart
  <2>3. cli_socket[c] = None
    BY <1>1 DEF IInv, QueuesApart
  <2> HIDE DEF Old, New
  <2>4. \A m \in Listeners : \A k \in 1 .. Len(queue'[m]) :
           queue'[m][k] \notin fresh' /\ cli_socket'[queue'[m][k]] = None
    BY <1>1, <2>1, <2>3 DEF IInv, QueuesApart, Old, New
  <2>5. ASSUME NEW m \in Listeners, NEW n \in Listeners, NEW j \in 1 .. Len(queue'[m]),
               NEW k \in 1 .. Len(queue'[n]), queue'[m][j] = queue'[n][k]
        PROVE  m = n /\ j = k
    <3>1. CASE Old(m, j) /\ Old(n, k)
      <4>1. j \in 1 .. Len(queue[m]) /\ k \in 1 .. Len(queue[n]) /\ queue[m][j] = queue[n][k]
        BY <3>1, <2>5 DEF Old
      <4> QED
        BY <4>1 DEF IInv, QueuesApart
    <3>2. CASE New(m, j) /\ New(n, k)
      BY <3>2 DEF New
    <3>3. CASE Old(m, j) /\ New(n, k)
      BY <3>3, <2>2, <2>5 DEF Old, New
    <3>4. CASE New(m, j) /\ Old(n, k)
      BY <3>4, <2>2, <2>5 DEF Old, New
    <3> QED
      BY <2>1, <3>1, <3>2, <3>3, <3>4
  <2>6. \A d \in fresh' : cli_socket'[d] = None
    BY <1>1 DEF IInv, QueuesApart
  <2> QED
    BY <2>4, <2>5, <2>6 DEF QueuesApart
<1>7. ScanOK'
  <2>1. made \in Listeners /\ made' = made /\ server_fd' = server_fd
    BY <1>1 DEF IInv, TypeOK, addrs
  <2>2. queue[made] # <<>> => queue'[made] # <<>>
    BY <1>3, <1>5, <2>1
  <2> QED
    BY <1>1, <2>1, <2>2 DEF IInv, ScanOK
<1> QED
  BY <1>1, <1>4, <1>6, <1>7, QuietKeeps DEF IInv

(* A transfer ends: a listener only its child held goes.                    *)
LEMMA ChildEndsKeeps ==
    ASSUME IInv, NEW k \in Children, ChildEnds(k)
    PROVE  IInv'
<1>1. /\ held' = [held EXCEPT ![k] = {}] /\ queue' = ResetQueues(open, held') /\ fresh' = fresh
      /\ UNCHANGED <<open, cli_socket, addrs>> /\ UNCHANGED <<scan, closing>>
  BY DEF ChildEnds
<1>2. /\ queue' \in [Listeners -> Seq(Conns)]
      /\ \A l \in Listeners : queue'[l] = queue[l] \/ queue'[l] = <<>>
      /\ \A l \in Listeners : l \in Alive(open, held') => queue'[l] = queue[l]
  BY <1>1, ResetFacts DEF IInv
<1>3. held' \in [Children -> SUBSET Sockets]
  BY <1>1 DEF IInv, TypeOK
<1>4. TypeOK'
  BY <1>1, <1>2, <1>3 DEF IInv, TypeOK, addrs
<1>5. QueuesApart'
  BY <1>1, <1>2, QueuesShrink DEF IInv
<1>6. ScanOK'
  <2>1. made \in Listeners /\ made \in Alive(open, held') /\ made' = made /\ server_fd' = server_fd
    BY <1>1, ServerListenerAlive DEF IInv, TypeOK, addrs
  <2> QED
    BY <1>1, <1>2, <2>1 DEF IInv, ScanOK
<1> QED
  BY <1>1, <1>4, <1>5, <1>6, QuietKeeps DEF IInv

(* poll reports who waits.                                                  *)
LEMMA PollKeeps == ASSUME IInv, Poll PROVE IInv'
<1>1. /\ UNCHANGED <<open, cli_socket, addrs>> /\ UNCHANGED <<held, closing, queue, fresh>>
      /\ closing = None
  BY DEF Poll
<1>2. PICK talking \in SUBSET (Clients \cup {Manager}) :
        scan' = talking \cup (IF server_fd # None /\ queue[open[server_fd]] # <<>> THEN {0} ELSE {})
  BY DEF Poll
<1>3. Clients \subseteq Conns
  BY DEF Clients
<1>4. scan' \subseteq {0, Manager} \cup Conns
  BY <1>2, <1>3
<1>5. TypeOK'
  BY <1>1, <1>4 DEF IInv, TypeOK, addrs
<1>6. 0 \in scan' => server_fd # None /\ queue[open[server_fd]] # <<>>
  BY <1>2, <1>3, Kinds
<1>7. server_fd # None => open[server_fd] = made
  BY DEF IInv, PollsItsAddress, NoDescriptorLost
<1>8. ScanOK'
  BY <1>1, <1>6, <1>7 DEF ScanOK, addrs
<1>9. QueuesApart'
  BY <1>1, QueuesShrink DEF IInv
<1> QED
  BY <1>1, <1>5, <1>8, <1>9, QuietKeeps DEF IInv

(* What a step at an entry that is not the listener's starts from.           *)
LEMMA AtClient ==
    ASSUME IInv, NEW e, e # 0, At(e)
    PROVE  /\ closing = None /\ 0 \notin scan /\ 0 \notin scan' /\ scan' \subseteq {0, Manager} \cup Conns
  BY DEF At, IInv, TypeOK

(* A command that changes no descriptor.                                    *)
LEMMA QuietCommandKeeps ==
    ASSUME IInv, NEW e \in Clients \cup {Manager}, At(e), held' \in [Children -> SUBSET Sockets],
           UNCHANGED <<open, cli_socket, addrs>>, UNCHANGED <<closing, queue, fresh>>
    PROVE  IInv'
<1>1. e # 0
  BY Kinds DEF Clients
<1>2. TypeOK'
  BY <1>1, AtClient DEF IInv, TypeOK, addrs
<1>3. ScanOK'
  BY <1>1, AtClient DEF ScanOK
<1>4. QueuesApart'
  BY QueuesShrink DEF IInv
<1> QED
  BY <1>2, <1>3, <1>4, QuietKeeps DEF IInv

(* Any other command.                                                       *)
LEMMA OtherKeeps == ASSUME IInv, NEW e, Other(e) PROVE IInv'
<1>1. /\ e \in Clients \cup {Manager} /\ At(e)
      /\ UNCHANGED <<open, cli_socket, addrs>> /\ UNCHANGED <<closing, queue, fresh>>
      /\ held' = held
  BY DEF Other
<1>2. held' \in [Children -> SUBSET Sockets]
  BY <1>1 DEF IInv, TypeOK
<1> QED
  BY <1>1, <1>2, QuietCommandKeeps

(* A RETR or LOGG: the child holds what is open now.                        *)
LEMMA ForkKeeps == ASSUME IInv, NEW e, NEW k \in Children, Fork(e, k) PROVE IInv'
<1>1. /\ e \in Clients \cup {Manager} /\ At(e)
      /\ UNCHANGED <<open, cli_socket, addrs>> /\ UNCHANGED <<closing, queue, fresh>>
      /\ held' = [held EXCEPT ![k] = {open[d] : d \in Fds} \ {None}]
  BY DEF Fork
<1>2. {open[d] : d \in Fds} \ {None} \subseteq Sockets
  BY DEF IInv, TypeOK
<1>3. held' \in [Children -> SUBSET Sockets]
  BY <1>1, <1>2 DEF IInv, TypeOK
<1> QED
  BY <1>1, <1>3, QuietCommandKeeps

(* Where the next descriptor goes nothing was.                               *)
LEMMA NextIsFree ==
    ASSUME IInv, closing = None, NEW d \in Fds, open[d] = None
    PROVE  /\ d # server_socket /\ d # 1
           /\ \A c \in Clients : cli_socket[c] # d /\ open[cli_socket[c]] = c
<1>1. made \in Listeners /\ made # None /\ Manager # None
  BY Kinds DEF IInv, TypeOK
<1>2. d # server_socket /\ d # 1
  BY <1>1 DEF IInv, NoDescriptorLost
<1>3. \A c \in Clients : open[cli_socket[c]] = c /\ c # None
  BY Kinds DEF IInv, NoDescriptorLost, Clients
<1> QED
  BY <1>2, <1>3

(* The first of the queue gets the lowest free number.                      *)
LEMMA AcceptKeeps == ASSUME IInv, Accept PROVE IInv'
<1> DEFINE l == open[server_fd]
           c == Head(queue[l])
<1>1. /\ At(0) /\ server_fd = server_socket
      /\ UNCHANGED addrs /\ UNCHANGED <<held, closing, fresh>>
  BY DEF Accept
<1>2. PICK d \in Fds :
         /\ IsNext(d)
         /\ open' = [open EXCEPT ![d] = c]
         /\ cli_socket' = [cli_socket EXCEPT ![c] = d]
         /\ queue' = [queue EXCEPT ![l] = Tail(queue[l])]
  BY DEF Accept
<1>3. closing = None /\ queue[made] # <<>> /\ l = made /\ l \in Listeners
  BY <1>1 DEF At, IInv, ScanOK, NoDescriptorLost, TypeOK
<1>4. queue[l] \in Seq(Conns) /\ queue \in [Listeners -> Seq(Conns)]
  BY <1>3 DEF IInv, TypeOK
<1> HIDE DEF l
<1>5. /\ c \in Conns /\ c = queue[l][1] /\ 1 \in 1 .. Len(queue[l])
      /\ Tail(queue[l]) \in Seq(Conns) /\ Len(Tail(queue[l])) = Len(queue[l]) - 1
      /\ Len(queue[l]) \in Nat
      /\ \A k \in 1 .. Len(Tail(queue[l])) : Tail(queue[l])[k] = queue[l][k + 1]
  BY <1>3, <1>4
<1>6. cli_socket[c] = None /\ c \notin fresh /\ c \notin Clients
  BY <1>3, <1>5 DEF IInv, QueuesApart, Clients
<1> HIDE DEF c
<1>7. open[d] = None
  BY <1>2 DEF IsNext
<1>8. /\ d # server_socket /\ d # 1
      /\ \A e \in Clients : cli_socket[e] # d /\ open[cli_socket[e]] = e
  BY <1>3, <1>7, NextIsFree
<1>9. /\ open \in [Fds -> Sockets \cup {None}] /\ cli_socket \in [Conns -> Fds \cup {None}]
      /\ server_socket \in Fds /\ 1 \in Fds /\ d # None /\ c # None
  BY <1>5, Kinds DEF IInv, TypeOK
<1>10. /\ open'[d] = c /\ \A e \in Fds : e # d => open'[e] = open[e]
       /\ open' \in [Fds -> Sockets \cup {None}]
  <2>1. c \in Sockets
    BY <1>5 DEF Sockets
  <2> QED
    BY <1>2, <1>9, <2>1
<1>11. /\ cli_socket'[c] = d /\ \A e \in Conns : e # c => cli_socket'[e] = cli_socket[e]
       /\ cli_socket' \in [Conns -> Fds \cup {None}]
  BY <1>2, <1>5, <1>9
<1>12. /\ queue'[l] = Tail(queue[l]) /\ \A m \in Listeners : m # l => queue'[m] = queue[m]
       /\ queue' \in [Listeners -> Seq(Conns)]
  BY <1>2, <1>3, <1>4, <1>5
<1>13. Clients' = Clients \cup {c}
  BY <1>5, <1>9, <1>11 DEF Clients
<1>14. scan' \subseteq scan /\ 0 \notin scan'
  BY <1>1 DEF At
<1>15. TypeOK'
  BY <1>1, <1>10, <1>11, <1>12, <1>14 DEF IInv, TypeOK, addrs
<1>16. NoDescriptorLost'
  <2>1. server_socket' = server_socket /\ made' = made /\ closing' = closing
    BY <1>1 DEF addrs
  <2>2. open'[server_socket] = made /\ open'[1] = Manager
    BY <1>8, <1>9, <1>10 DEF IInv, NoDescriptorLost
  <2>3. \A e \in Clients : e \in Conns /\ e # c /\ cli_socket[e] \in Fds
    BY <1>6, <1>9 DEF Clients
  <2>4. \A e \in Clients : cli_socket'[e] = cli_socket[e] /\ open'[cli_socket[e]] = e
    BY <1>8, <1>10, <1>11, <2>3
  <2>5. \A e \in Clients' : open'[cli_socket'[e]] = e
    BY <1>10, <1>11, <1>13, <2>4
  <2>6. ASSUME NEW f \in Fds
        PROVE  open'[f] = None \/ f \in {1, server_socket} \/ \E e \in Clients' : cli_socket'[e] = f
    <3>1. CASE f = d
      BY <3>1, <1>11, <1>13
    <3>2. CASE f # d
      <4>1. open'[f] = open[f]
        BY <3>2, <1>10
      <4>2. open[f] = None \/ f \in {1, server_socket} \/ \E e \in Clients : cli_socket[e] = f
        BY DEF IInv, NoDescriptorLost
      <4> QED
        BY <4>1, <4>2, <1>13, <2>4
    <3> QED
      BY <3>1, <3>2
  <2> QED
    BY <2>1, <2>2, <2>5, <2>6 DEF NoDescriptorLost
<1>17. PollsItsAddress' /\ NeverTakesOver' /\ PortsOK'
  BY <1>1 DEF IInv, PollsItsAddress, NeverTakesOver, PortsOK, addrs
<1>18. QueuesApart'
  <2> DEFINE at(m, k) == IF m = l THEN k + 1 ELSE k
  <2>1. \A m \in Listeners : \A k \in 1 .. Len(queue'[m]) :
           at(m, k) \in 1 .. Len(queue[m]) /\ queue'[m][k] = queue[m][at(m, k)] /\ k \in Int
    <3> SUFFICES ASSUME NEW m \in Listeners, NEW k \in 1 .. Len(queue'[m])
                 PROVE  at(m, k) \in 1 .. Len(queue[m]) /\ queue'[m][k] = queue[m][at(m, k)] /\ k \in Int
      OBVIOUS
    <3>1. CASE m = l
      BY <3>1, <1>5, <1>12
    <3>2. CASE m # l
      BY <3>2, <1>12
    <3> QED
      BY <3>1, <3>2
  <2>2. \A m \in Listeners : \A k \in 1 .. Len(queue'[m]) : m = l => at(m, k) # 1
    <3>1. Len(queue'[l]) \in Nat
      BY <1>3, <1>12
    <3> QED
      BY <3>1
  <2>3. \A m \in Listeners : \A k \in 1 .. Len(queue'[m]) : queue'[m][k] # c
    <3> SUFFICES ASSUME NEW m \in Listeners, NEW k \in 1 .. Len(queue'[m]), queue'[m][k] = c
                 PROVE  FALSE
      OBVIOUS
    <3>1. at(m, k) \in 1 .. Len(queue[m]) /\ queue[m][at(m, k)] = queue[l][1]
      BY <2>1, <1>5
    <3> HIDE DEF at
    <3>2. m = l /\ at(m, k) = 1
      BY <3>1, <1>3, <1>5 DEF IInv, QueuesApart
    <3> QED
      BY <3>2, <2>2
  <2>4. \A m, n \in Listeners : \A j \in 1 .. Len(queue'[m]), k \in 1 .. Len(queue'[n]) :
           queue'[m][j] = queue'[n][k] => m = n /\ j = k
    <3> SUFFICES ASSUME NEW m \in Listeners, NEW n \in Listeners, NEW j \in 1 .. Len(queue'[m]),
                        NEW k \in 1 .. Len(queue'[n]), queue'[m][j] = queue'[n][k]
                 PROVE  m = n /\ j = k
      OBVIOUS
    <3>1. /\ at(m, j) \in 1 .. Len(queue[m]) /\ at(n, k) \in 1 .. Len(queue[n])
          /\ queue[m][at(m, j)] = queue[n][at(n, k)] /\ j \in Int /\ k \in Int
      BY <2>1
    <3>2. m = n /\ at(m, j) = at(n, k)
      <4> HIDE DEF at
      <4> QED
        BY <3>1 DEF IInv, QueuesApart
    <3> QED
      BY <3>1, <3>2
  <2> HIDE DEF at
  <2>5. \A m \in Listeners : \A k \in 1 .. Len(queue'[m]) :
           queue'[m][k] \notin fresh /\ cli_socket[queue'[m][k]] = None /\ queue'[m][k] \in Conns
    <3>1. \A m \in Listeners : \A k \in 1 .. Len(queue[m]) :
             queue[m][k] \notin fresh /\ cli_socket[queue[m][k]] = None
      BY DEF IInv, QueuesApart
    <3>2. \A m \in Listeners : \A k \in 1 .. Len(queue[m]) : queue[m][k] \in Conns
      BY <1>4
    <3> QED
      BY <2>1, <3>1, <3>2
  <2>6. \A m \in Listeners : \A k \in 1 .. Len(queue'[m]) :
           queue'[m][k] \notin fresh' /\ cli_socket'[queue'[m][k]] = None
    BY <1>1, <1>11, <2>3, <2>5
  <2>7. \A e \in fresh : e \in Conns /\ cli_socket'[e] = None
    BY <1>6, <1>11 DEF IInv, QueuesApart, TypeOK
  <2> QED
    BY <1>1, <2>4, <2>6, <2>7 DEF QueuesApart
<1>19. ScanOK' /\ ClosingOK'
  BY <1>1, <1>3, <1>14 DEF ScanOK, ClosingOK
<1> QED
  BY <1>15, <1>16, <1>17, <1>18, <1>19 DEF IInv

(* The descriptor of a client the loop comes to is its own, and no other's.  *)
LEMMA OwnDescriptor ==
    ASSUME IInv, NEW c \in Clients, closing = None \/ closing = c
    PROVE  /\ c \in Conns /\ cli_socket[c] \in Fds /\ cli_socket[c] # None
           /\ cli_socket[c] # server_socket /\ cli_socket[c] # 1
           /\ \A e \in Clients : e # c => cli_socket[e] # cli_socket[c] /\ open[cli_socket[e]] = e
<1>1. c \in Conns /\ cli_socket[c] \in Fds /\ cli_socket[c] # None
  BY DEF Clients, IInv, TypeOK
<1>2. open[cli_socket[c]] = c \/ open[cli_socket[c]] = None
  BY DEF IInv, NoDescriptorLost
<1>3. open[server_socket] = made /\ open[1] = Manager /\ made \in Listeners
  BY DEF IInv, NoDescriptorLost, TypeOK
<1>4. c # None /\ c # made /\ c # Manager /\ made # None /\ Manager # None
  BY <1>1, <1>3, Kinds
<1>5. \A e \in Clients : e # c => open[cli_socket[e]] = e /\ e # None
  <2>1. \A e \in Clients : e \in Conns
    BY DEF Clients
  <2> QED
    BY <2>1, Kinds DEF IInv, NoDescriptorLost
<1> QED
  BY <1>1, <1>2, <1>3, <1>4, <1>5

(* A client leaves without QUIT.                                            *)
LEMMA LeaveKeeps == ASSUME IInv, NEW c \in Conns, Leave(c) PROVE IInv'
<1>1. /\ c \in Clients /\ At(c) /\ closing' = c
      /\ UNCHANGED <<open, cli_socket, addrs>> /\ UNCHANGED <<held, queue, fresh>>
  BY DEF Leave
<1>2. c # 0
  BY Kinds
<1>3. closing = None /\ 0 \notin scan' /\ scan' \subseteq {0, Manager} \cup Conns
  BY <1>1, <1>2, AtClient
<1>4. TypeOK'
  BY <1>1, <1>3 DEF IInv, TypeOK, addrs
<1>5. Clients' = Clients
  BY <1>1 DEF Clients
<1>6. NoDescriptorLost' /\ ClosingOK'
  BY <1>1, <1>3, <1>5, Kinds DEF IInv, NoDescriptorLost, ClosingOK, addrs
<1>7. PollsItsAddress' /\ NeverTakesOver' /\ PortsOK'
  BY <1>1 DEF IInv, PollsItsAddress, NeverTakesOver, PortsOK, addrs
<1>8. QueuesApart' /\ ScanOK'
  BY <1>1, <1>3, QueuesShrink DEF IInv, ScanOK
<1> QED
  BY <1>4, <1>6, <1>7, <1>8 DEF IInv

(* QUIT closes the client's socket.                                         *)
LEMMA QuitKeeps == ASSUME IInv, NEW c \in Conns, Quit(c) PROVE IInv'
<1>1. /\ c \in Clients /\ At(c) /\ closing' = c
      /\ open' = [open EXCEPT ![cli_socket[c]] = None]
      /\ UNCHANGED <<cli_socket, addrs>> /\ UNCHANGED <<held, queue, fresh>>
  BY DEF Quit
<1>2. c # 0
  BY Kinds
<1>3. closing = None /\ 0 \notin scan' /\ scan' \subseteq {0, Manager} \cup Conns
  BY <1>1, <1>2, AtClient
<1>4. /\ cli_socket[c] \in Fds /\ cli_socket[c] # server_socket /\ cli_socket[c] # 1
      /\ \A e \in Clients : e # c => cli_socket[e] # cli_socket[c] /\ open[cli_socket[e]] = e
  BY <1>1, <1>3, OwnDescriptor
<1>5. /\ open'[cli_socket[c]] = None /\ \A d \in Fds : d # cli_socket[c] => open'[d] = open[d]
      /\ open' \in [Fds -> Sockets \cup {None}]
  BY <1>1, <1>4 DEF IInv, TypeOK
<1>6. TypeOK'
  BY <1>1, <1>3, <1>5 DEF IInv, TypeOK, addrs
<1>7. Clients' = Clients
  BY <1>1 DEF Clients
<1>8. NoDescriptorLost'
  <2>1. server_socket' = server_socket /\ made' = made /\ cli_socket' = cli_socket /\ closing' = c
    BY <1>1 DEF addrs
  <2>2. server_socket \in Fds /\ 1 \in Fds
    BY Kinds DEF IInv, TypeOK
  <2>3. open'[server_socket] = made /\ open'[1] = Manager
    BY <1>4, <1>5, <2>2 DEF IInv, NoDescriptorLost
  <2>4. \A e \in Clients : cli_socket[e] \in Fds
    BY DEF Clients, IInv, TypeOK
  <2>5. \A e \in Clients : open'[cli_socket[e]] = e \/ (e = c /\ open'[cli_socket[e]] = None)
    BY <1>4, <1>5, <2>4
  <2>6. \A d \in Fds : \/ open'[d] = None \/ d \in {1, server_socket}
                       \/ \E e \in Clients : cli_socket[e] = d
    BY <1>5 DEF IInv, NoDescriptorLost
  <2> QED
    BY <1>7, <2>1, <2>3, <2>5, <2>6 DEF NoDescriptorLost
<1>9. PollsItsAddress' /\ NeverTakesOver' /\ PortsOK'
  BY <1>1 DEF IInv, PollsItsAddress, NeverTakesOver, PortsOK, addrs
<1>10. QueuesApart' /\ ScanOK' /\ ClosingOK'
  BY <1>1, <1>3, <1>7, QueuesShrink DEF IInv, ScanOK, ClosingOK
<1> QED
  BY <1>6, <1>8, <1>9, <1>10 DEF IInv

(* handle_close_client closes the same number again.                        *)
LEMMA CloseKeeps == ASSUME IInv, handle_close_client PROVE IInv'
<1> DEFINE c == closing
<1>1. /\ c # None /\ closing' = None
      /\ open' = [open EXCEPT ![cli_socket[c]] = None]
      /\ cli_socket' = [cli_socket EXCEPT ![c] = None]
      /\ UNCHANGED addrs /\ UNCHANGED <<held, scan, queue, fresh>>
  BY DEF handle_close_client
<1>2. c \in Clients
  BY <1>1 DEF IInv, ClosingOK
<1>3. /\ c \in Conns /\ cli_socket[c] \in Fds /\ cli_socket[c] # server_socket /\ cli_socket[c] # 1
      /\ \A e \in Clients : e # c => cli_socket[e] # cli_socket[c] /\ open[cli_socket[e]] = e
  BY <1>2, OwnDescriptor
<1> DEFINE d == cli_socket[c]
<1>4. /\ open'[d] = None /\ \A f \in Fds : f # d => open'[f] = open[f]
      /\ open' \in [Fds -> Sockets \cup {None}]
  BY <1>1, <1>3 DEF IInv, TypeOK
<1>5. /\ cli_socket'[c] = None /\ \A e \in Conns : e # c => cli_socket'[e] = cli_socket[e]
      /\ cli_socket' \in [Conns -> Fds \cup {None}]
  BY <1>1, <1>3 DEF IInv, TypeOK
<1> HIDE DEF c, d
<1>6. Clients' = Clients \ {c}
  BY <1>5 DEF Clients
<1>7. TypeOK'
  BY <1>1, <1>4, <1>5 DEF IInv, TypeOK, addrs
<1>8. NoDescriptorLost'
  <2>1. server_socket' = server_socket /\ made' = made
    BY <1>1 DEF addrs
  <2>2. server_socket \in Fds /\ 1 \in Fds
    BY Kinds DEF IInv, TypeOK
  <2>3. open'[server_socket] = made /\ open'[1] = Manager
    BY <1>3, <1>4, <2>2 DEF IInv, NoDescriptorLost, d
  <2>4. \A e \in Clients : e \in Conns /\ cli_socket[e] \in Fds
    BY DEF Clients, IInv, TypeOK
  <2>5. \A e \in Clients' : open'[cli_socket'[e]] = e
    BY <1>3, <1>4, <1>5, <1>6, <2>4 DEF d
  <2>6. ASSUME NEW f \in Fds
        PROVE  open'[f] = None \/ f \in {1, server_socket} \/ \E e \in Clients' : cli_socket'[e] = f
    <3>1. CASE f = d
      BY <3>1, <1>4
    <3>2. CASE f # d
      <4>1. open'[f] = open[f]
        BY <3>2, <1>4
      <4>2. open[f] = None \/ f \in {1, server_socket} \/ \E e \in Clients : cli_socket[e] = f
        BY DEF IInv, NoDescriptorLost
      <4>3. \A e \in Clients : cli_socket[e] = f => e # c
        BY <3>2 DEF d
      <4> QED
        BY <4>1, <4>2, <4>3, <1>5, <1>6, <2>4
    <3> QED
      BY <3>1, <3>2
  <2> QED
    BY <2>1, <2>3, <2>5, <2>6 DEF NoDescriptorLost
<1>9. PollsItsAddress' /\ NeverTakesOver' /\ PortsOK'
  BY <1>1 DEF IInv, PollsItsAddress, NeverTakesOver, PortsOK, addrs
<1>10. QueuesApart'
  <2>1. \A e : cli_socket'[e] = cli_socket[e] \/ cli_socket'[e] = None
    BY <1>1 DEF IInv, TypeOK, c
  <2> QED
    BY <1>1, <2>1, QueuesShrink DEF IInv
<1>11. ScanOK'
  BY <1>1 DEF IInv, ScanOK, addrs, c
<1>12. ClosingOK'
  BY <1>1 DEF ClosingOK
<1> QED
  BY <1>7, <1>8, <1>9, <1>10, <1>11, <1>12 DEF IInv

-----------------------------------------------------------------------------

(* An update that fails: poll skips the entry, the rest stays.              *)
LEMMA RefuseKeeps ==
    ASSUME IInv, At(Manager), Refuse, UNCHANGED <<held, closing, fresh>>
    PROVE  IInv'
<1>1. /\ server_fd' = None
      /\ UNCHANGED <<open, cli_socket, server_socket, server_addr, made, bound, queue>>
  BY DEF Refuse
<1>2. closing = None /\ 0 \notin scan' /\ scan' \subseteq {0, Manager} \cup Conns
  BY AtClient, Kinds
<1>3. TypeOK'
  BY <1>1, <1>2 DEF IInv, TypeOK
<1>4. Clients' = Clients
  BY <1>1 DEF Clients
<1>5. NoDescriptorLost'
  BY <1>1, <1>4 DEF IInv, NoDescriptorLost
<1>6. PollsItsAddress' /\ NeverTakesOver' /\ PortsOK'
  BY <1>1 DEF IInv, PollsItsAddress, NeverTakesOver, PortsOK
<1>7. QueuesApart' /\ ScanOK' /\ ClosingOK'
  BY <1>1, <1>2, <1>4, QueuesShrink DEF IInv, ScanOK, ClosingOK
<1> QED
  BY <1>3, <1>5, <1>6, <1>7 DEF IInv

(* An update that binds the new address.                                    *)
LEMMA RebindKeeps ==
    ASSUME IInv, NEW a \in Address, a.port <= 65535, At(Manager), made < MaxUpdates, Rebind(a),
           UNCHANGED <<held, closing, fresh>>
    PROVE  IInv'
<1>1. closing = None /\ 0 \notin scan' /\ scan' \subseteq {0, Manager} \cup Conns
  BY AtClient, Kinds
<1>2. server_addr' = a /\ UNCHANGED cli_socket
  BY DEF Rebind
<1>3. Clients' = Clients
  BY <1>2 DEF Clients
<1>4. CASE BindFails(a)
  <2>1. server_fd' = None /\ UNCHANGED <<open, server_socket, made, bound, queue>>
    BY <1>4 DEF Rebind
  <2>2. TypeOK'
    BY <1>1, <1>2, <2>1 DEF IInv, TypeOK
  <2>3. NoDescriptorLost'
    BY <1>2, <1>3, <2>1 DEF IInv, NoDescriptorLost
  <2>4. PollsItsAddress' /\ NeverTakesOver' /\ PortsOK'
    BY <1>2, <2>1 DEF IInv, PollsItsAddress, NeverTakesOver, PortsOK
  <2>5. QueuesApart' /\ ScanOK' /\ ClosingOK'
    BY <1>1, <1>2, <1>3, <2>1, QueuesShrink DEF IInv, ScanOK, ClosingOK
  <2> QED
    BY <2>2, <2>3, <2>4, <2>5 DEF IInv
<1>5. CASE ~BindFails(a)
  <2> DEFINE g == Given(a, made + 1)
  <2>1. PICK d \in Fds :
           /\ IsNext(d)
           /\ made' = made + 1
           /\ bound' = [bound EXCEPT ![made + 1] = g]
           /\ open' = [open EXCEPT ![d] = made + 1, ![server_socket] = None]
           /\ server_socket' = d /\ server_fd' = d
           /\ queue' = ResetQueues(open', held)
    BY <1>5 DEF Rebind
  <2>2. /\ made \in Listeners /\ made \in Nat /\ made + 1 \in Listeners /\ made + 1 # made
        /\ MaxUpdates \in Nat
    BY ListenerAssumption DEF IInv, TypeOK, Listeners
  <2>3. open[d] = None
    BY <2>1 DEF IsNext
  <2>4. /\ d # server_socket /\ d # 1
        /\ \A c \in Clients : cli_socket[c] # d /\ open[cli_socket[c]] = c
    BY <1>1, <2>3, NextIsFree
  <2>5. /\ server_socket \in Fds /\ 1 \in Fds /\ d # None
        /\ server_socket # 1 /\ \A c \in Clients : cli_socket[c] # server_socket
    <3>1. open[server_socket] = made /\ open[1] = Manager /\ server_socket \in Fds /\ made # Manager
      BY <2>2, Kinds DEF IInv, NoDescriptorLost, TypeOK
    <3>2. \A c \in Clients : c # made
      BY <2>2, Kinds DEF Clients
    <3> QED
      BY <3>1, <3>2, <2>4, Kinds
  <2>6. /\ open'[d] = made + 1 /\ open'[server_socket] = None
        /\ \A f \in Fds : f # d /\ f # server_socket => open'[f] = open[f]
    BY <2>1, <2>4, <2>5 DEF IInv, TypeOK
  <2>7. open' \in [Fds -> Sockets \cup {None}]
    <3>1. made + 1 \in Sockets
      BY <2>2 DEF Sockets
    <3> QED
      BY <2>1, <3>1 DEF IInv, TypeOK
  <2>8. g \in Address
    BY <2>2 DEF Given, Address
  <2> HIDE DEF g
  <2>9. /\ bound'[made + 1] = g /\ \A l \in Listeners : l # made + 1 => bound'[l] = bound[l]
        /\ bound' \in [Listeners -> Address]
    BY <2>1, <2>2, <2>8 DEF IInv, TypeOK
  <2>10. /\ queue' \in [Listeners -> Seq(Conns)]
         /\ \A l \in Listeners : queue'[l] = queue[l] \/ queue'[l] = <<>>
    BY <2>1, ResetFacts DEF IInv
  <2>11. TypeOK'
    <3>1. cli_socket' \in [Conns -> Fds \cup {None}]
      BY <1>2 DEF IInv, TypeOK
    <3>2. server_socket' \in Fds /\ server_fd' \in Fds \cup {None}
      BY <2>1, <2>5
    <3>3. made' \in Listeners
      BY <2>1, <2>2 DEF Listeners
    <3>4. server_addr' \in Address
      BY <1>2 DEF IInv, TypeOK
    <3>5. /\ held' \in [Children -> SUBSET Sockets] /\ fresh' \subseteq Conns
          /\ closing' \in Conns \cup {None}
      BY <1>1, <1>3 DEF IInv, TypeOK
    <3>6. scan' \subseteq {0, Manager} \cup Conns
      BY <1>1, <1>2, <1>3 DEF IInv, TypeOK
    <3> QED
      BY <2>7, <2>9, <2>10, <3>1, <3>2, <3>3, <3>4, <3>5, <3>6 DEF TypeOK
  <2>12. NoDescriptorLost'
    <3>1. \A c \in Clients : cli_socket[c] \in Fds
      BY DEF Clients, IInv, TypeOK
    <3>2. \A c \in Clients : open'[cli_socket[c]] = c
      BY <2>4, <2>5, <2>6, <3>1
    <3>3. open'[d] = made + 1 /\ open'[1] = Manager
      BY <2>4, <2>5, <2>6 DEF IInv, NoDescriptorLost
    <3>4. \A f \in Fds : \/ open'[f] = None \/ f \in {1, d} \/ \E c \in Clients : cli_socket[c] = f
      BY <2>6 DEF IInv, NoDescriptorLost
    <3>5. Clients' = Clients
      BY <1>2 DEF Clients
    <3>6. server_socket' = d /\ made' = made + 1 /\ cli_socket' = cli_socket
      BY <1>2, <2>1
    <3> QED
      BY <3>2, <3>3, <3>4, <3>5, <3>6 DEF NoDescriptorLost
  <2>13. PollsItsAddress'
    BY <1>2, <2>1, <2>9 DEF PollsItsAddress, g, Given
  <2>14. bound[made].port \in Nat /\ bound[made].port <= 65536 + made /\ a.port \in Nat
    BY <2>2 DEF IInv, TypeOK, PortsOK, Address
  <2>15. ~Overlap(g, bound[made])
    <3>1. ~Overlap(a, bound[made])
      <4>1. made \in 0 .. made /\ made \in Alive(open, held)
        BY <2>2, ServerListenerAlive DEF IInv
      <4> QED
        BY <1>5, <4>1 DEF BindFails
    <3>2. CASE a.port = 0
      <4>1. g.port = 65536 + (made + 1)
        BY <3>2, <2>14 DEF g, Given, Address
      <4> QED
        BY <4>1, <2>2, <2>14 DEF Overlap
    <3>3. CASE a.port # 0
      BY <3>1, <3>3 DEF g, Given
    <3> QED
      BY <3>2, <3>3
  <2>16. \A l \in 0 .. made : l \in Listeners /\ l # made + 1 /\ bound'[l] = bound[l]
    <3>1. \A l \in 0 .. made : l \in Listeners /\ l # made + 1
      BY <2>2 DEF Listeners
    <3> QED
      BY <3>1, <2>9
  <2>17. NeverTakesOver'
    <3> SUFFICES ASSUME NEW l \in 1 .. made + 1 PROVE ~Overlap(bound'[l], bound'[l - 1])
      BY <2>1 DEF NeverTakesOver, Overlap
    <3>1. CASE l = made + 1
      <4>1. l - 1 = made /\ made \in 0 .. made
        BY <3>1, <2>2
      <4> QED
        BY <3>1, <4>1, <2>9, <2>15, <2>16
    <3>2. CASE l # made + 1
      <4>1. l \in 1 .. made /\ l \in 0 .. made /\ l - 1 \in 0 .. made
        BY <3>2, <2>2
      <4> QED
        BY <4>1, <2>16 DEF IInv, NeverTakesOver
    <3> QED
      BY <3>1, <3>2
  <2>18. PortsOK'
    <3>1. g.port <= 65536 + (made + 1)
      <4>1. CASE a.port = 0
        BY <4>1, <2>2, <2>14 DEF g, Given, Address
      <4>2. CASE a.port # 0
        BY <4>2, <2>2, <2>14 DEF g, Given
      <4> QED
        BY <4>1, <4>2
    <3>2. \A l \in 0 .. made + 1 : l \in 0 .. made \/ l = made + 1
      BY <2>2
    <3>3. \A l \in 0 .. made + 1 : bound'[l].port <= 65536 + l
      BY <3>1, <3>2, <2>9, <2>16 DEF IInv, PortsOK
    <3> QED
      BY <1>2, <2>1, <3>3 DEF PortsOK
  <2>19. QueuesApart' /\ ScanOK' /\ ClosingOK'
    BY <1>1, <1>2, <1>3, <2>10, QueuesShrink DEF IInv, ScanOK, ClosingOK
  <2> QED
    BY <2>11, <2>12, <2>13, <2>17, <2>18, <2>19 DEF IInv
<1> QED
  BY <1>4, <1>5

(* PORT, whatever number is given.                                          *)
LEMMA PortKeeps == ASSUME IInv, NEW n \in Numbers, Port(n) PROVE IInv'
<1>1. At(Manager) /\ made < MaxUpdates /\ UNCHANGED <<held, closing, fresh>>
  BY DEF Port
<1>2. CASE n > 0
  <2> DEFINE a == [server_addr EXCEPT !.port = n % 65536]
  <2>1. n \in Int
    BY ListenerAssumption
  <2>2. n % 65536 \in Nat /\ n % 65536 <= 65535
    BY <2>1
  <2>3. a \in Address /\ a.port <= 65535
    <3> DEFINE m == n % 65536
    <3>1. m \in Nat /\ m <= 65535
      BY <2>2
    <3>2. a = [server_addr EXCEPT !.port = m]
      OBVIOUS
    <3> HIDE DEF m, a
    <3>3. server_addr \in Address
      BY DEF IInv, TypeOK
    <3>4. a = [ip |-> server_addr.ip, port |-> m]
      BY <3>2, <3>3 DEF Address
    <3>5. a.port = m
      BY <3>4
    <3>6. a \in Address
      BY <3>1, <3>3, <3>4 DEF Address
    <3> QED
      BY <3>1, <3>5, <3>6
  <2>4. Rebind(a)
    BY <1>2 DEF Port
  <2> HIDE DEF a
  <2> QED
    BY <1>1, <2>3, <2>4, RebindKeeps
<1>3. CASE ~(n > 0)
  BY <1>1, <1>3, RefuseKeeps DEF Port
<1> QED
  BY <1>2, <1>3

(* IPV6, whatever text is given.                                            *)
LEMMA Ipv6Keeps == ASSUME IInv, NEW t \in Texts, Ipv6(t) PROVE IInv'
<1>1. At(Manager) /\ made < MaxUpdates /\ UNCHANGED <<held, closing, fresh>>
  BY DEF Ipv6
<1>2. CASE t # None
  <2> DEFINE a == [server_addr EXCEPT !.ip = t]
  <2>1. t \in Ips
    BY <1>2, ListenerAssumption
  <2>2. a \in Address /\ a.port = server_addr.port
    BY <2>1 DEF IInv, TypeOK, Address
  <2>3. a.port <= 65535
    BY <2>2 DEF IInv, PortsOK
  <2>4. Rebind(a)
    BY <1>2 DEF Ipv6
  <2> HIDE DEF a
  <2> QED
    BY <1>1, <2>2, <2>3, <2>4, RebindKeeps
<1>3. CASE t = None
  BY <1>1, <1>3, RefuseKeeps DEF Ipv6
<1> QED
  BY <1>2, <1>3

(* Every step keeps the invariant.                                          *)
LEMMA NextIInv == IInv /\ [Next]_vars => IInv'
<1> SUFFICES ASSUME IInv, [Next]_vars PROVE IInv'
  OBVIOUS
<1>1. CASE \E c \in Conns, l \in Listeners : Connect(c, l)
  BY <1>1, ConnectKeeps
<1>2. CASE \E k \in Children : ChildEnds(k)
  BY <1>2, ChildEndsKeeps
<1>3. CASE Server
  <2>1. CASE Poll
    BY <2>1, PollKeeps
  <2>2. CASE Accept
    BY <2>2, AcceptKeeps
  <2>3. CASE handle_close_client
    BY <2>3, CloseKeeps
  <2>4. CASE \E c \in Conns : Quit(c) \/ Leave(c)
    BY <2>4, QuitKeeps, LeaveKeeps
  <2>5. CASE \E e \in Conns \cup {Manager} : Other(e) \/ \E k \in Children : Fork(e, k)
    BY <2>5, OtherKeeps, ForkKeeps
  <2>6. CASE \E n \in Numbers : Port(n)
    BY <2>6, PortKeeps
  <2>7. CASE \E t \in Texts : Ipv6(t)
    BY <2>7, Ipv6Keeps
  <2> QED
    BY <1>3, <2>1, <2>2, <2>3, <2>4, <2>5, <2>6, <2>7 DEF Server
<1>4. CASE UNCHANGED vars
  <2>1. /\ UNCHANGED <<open, cli_socket, addrs>> /\ UNCHANGED <<held, scan, closing, queue, fresh>>
    BY <1>4 DEF vars
  <2>2. TypeOK' /\ ScanOK'
    BY <2>1 DEF IInv, TypeOK, ScanOK, addrs
  <2>3. QueuesApart'
    BY <2>1, QueuesShrink DEF IInv
  <2> QED
    BY <2>1, <2>2, <2>3, QuietKeeps DEF IInv
<1> QED
  BY <1>1, <1>2, <1>3, <1>4 DEF Next

(* It holds in every behaviour.                                             *)
LEMMA SpecIInv == Spec => []IInv
<1> QED
  BY InitIInv, NextIInv, PTL DEF Spec

(* Type correctness: descriptors, queues and addresses of the listeners.     *)
THEOREM TypeCorrect == Spec => []TypeOK
<1>1. IInv => TypeOK
  BY DEF IInv
<1> QED
  BY SpecIInv, <1>1, PTL

(* With any number of clients, transfers and updates, the table, the server   *)
(* and the kernel agree on every descriptor (main.c, update_server_address). *)
THEOREM DescriptorsAgree == Spec => []NoDescriptorLost
<1>1. IInv => NoDescriptorLost
  BY DEF IInv
<1> QED
  BY SpecIInv, <1>1, PTL

(* What is polled is the server's listener, at the address PORT and IPV6      *)
(* start from (update_server_address).                                       *)
THEOREM PolledAddress == Spec => []PollsItsAddress
<1>1. IInv => PollsItsAddress
  BY DEF IInv
<1> QED
  BY SpecIInv, <1>1, PTL

(* No PORT or IPV6 that succeeds keeps a port at an overlapping address       *)
(* (update_server_address binds before it closes).                           *)
THEOREM OldAddressIsLeft == Spec => []NeverTakesOver
<1>1. IInv => NeverTakesOver
  BY DEF IInv
<1> QED
  BY SpecIInv, <1>1, PTL

=============================================================================
