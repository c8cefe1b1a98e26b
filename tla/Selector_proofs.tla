--------------------------- MODULE Selector_proofs ---------------------------
(***************************************************************************)
(* Proofs about Selector, for any table, numbers, interests and workers: the *)
(* sets and the limit for pselect are those of the table, and the thread     *)
(* never sleeps over a job.                                                  *)
(***************************************************************************)
EXTENDS Selector, FiniteSetTheorems, TLAPS

-----------------------------------------------------------------------------
(* Greatest and least numbers.                                              *)

(* Every set of numbers that is not empty has a least one.                   *)
LEMMA LeastNumber ==
    ASSUME NEW X \in SUBSET Nat, X # {}
    PROVE  \E m \in X : \A k \in X : m <= k
<1> DEFINE Below(n) == 0 .. n - 1
           T == {Below(n) : n \in X}
<1>1. IsWellFoundedOn(StrictSubsetOrdering(Nat), FiniteSubsetsOf(Nat))
  BY FS_StrictSubsetOrderingWellFounded
<1>2. \A n \in X : IsFiniteSet(Below(n)) /\ Below(n) \subseteq Nat
  BY FS_Interval
<1>3. T \subseteq FiniteSubsetsOf(Nat) /\ T # {}
  BY <1>2 DEF FiniteSubsetsOf
<1>4. PICK U \in T : \A V \in T : ~(<<V, U>> \in StrictSubsetOrdering(Nat))
  <2> HIDE DEF T
  <2> QED
    BY <1>1, <1>3, WFMin
<1>5. PICK m \in X : U = Below(m)
  BY <1>4
<1>6. ASSUME NEW k \in X, k < m PROVE FALSE
  <2>1. Below(k) \subseteq Below(m) /\ Below(k) # Below(m)
    BY <1>6
  <2>2. <<Below(k), Below(m)>> \in StrictSubsetOrdering(Nat)
    BY <1>2, <2>1 DEF StrictSubsetOrdering
  <2> QED
    BY <1>4, <1>5, <2>2
<1> QED
  BY <1>6

(* And a greatest one, if it has a bound.                                    *)
LEMMA GreatestNumber ==
    ASSUME NEW X \in SUBSET Nat, X # {}, NEW b \in Nat, \A k \in X : k <= b
    PROVE  \E m \in X : \A k \in X : m >= k
<1> DEFINE Y == {b - k : k \in X}
<1>0. \A k \in X : k \in Nat /\ b - k \in Nat
  OBVIOUS
<1>1. Y \subseteq Nat /\ Y # {}
  BY <1>0
<1>2. PICK n \in Y : \A k \in Y : n <= k
  BY <1>1, LeastNumber
<1>3. PICK m \in X : n = b - m
  BY <1>2
<1>4. ASSUME NEW k \in X PROVE m >= k
  <2>1. b - m <= b - k
    BY <1>2, <1>3
  <2>2. b \in Nat /\ m \in Nat /\ k \in Nat
    BY <1>0
  <2> HIDE DEF Y
  <2> QED
    BY <2>1, <2>2
<1> QED
  BY <1>4

(* The greatest of a set is the one that is in it and not below another.      *)
LEMMA MaxIs ==
    ASSUME NEW S \in SUBSET Nat, NEW m \in S, \A k \in S : k <= m
    PROVE  Max(S) = m
<1>1. \A k \in S : m >= k
  OBVIOUS
<1>2. Max(S) \in S /\ \A k \in S : Max(S) >= k
  BY <1>1 DEF Max
<1>3. Max(S) <= m /\ Max(S) >= m /\ Max(S) \in Nat /\ m \in Nat
  BY <1>2
<1> QED
  BY <1>3

(* Every bounded set that is not empty has its Max.                         *)
LEMMA MaxHas ==
    ASSUME NEW S \in SUBSET Nat, S # {}, NEW b \in Nat, \A k \in S : k <= b
    PROVE  Max(S) \in S /\ \A k \in S : k <= Max(S)
<1>1. PICK m \in S : \A k \in S : m >= k
  BY GreatestNumber
<1>2. Max(S) \in S /\ \A k \in S : Max(S) >= k
  BY <1>1 DEF Max
<1> QED
  BY <1>2

(* The capacity for a number is above it, and one above the most at most.     *)
LEMMA CapacityHolds ==
    ASSUME NEW n \in Nat, n < ITEMS_MAX_SIZE \/ n \in 0 .. ITEMS_MAX_SIZE
    PROVE  /\ next_capacity(n) \in 1 .. ITEMS_MAX_SIZE + 1
           /\ n < next_capacity(n)
<1> DEFINE S == {ITEMS_MAX_SIZE} \cup {2 ^ b : b \in {c \in 0 .. ITEMS_MAX_SIZE : 2 ^ c > n}}
<1>1. ITEMS_MAX_SIZE \in Nat /\ n <= ITEMS_MAX_SIZE
  BY SelectorAssumption
<1>2. \A c \in Nat : 2 ^ c \in Int
  OBVIOUS
<1>3. S \subseteq Nat /\ \A k \in S : n <= k
  <2>1. SUFFICES ASSUME NEW k \in S PROVE k \in Nat /\ n <= k
    OBVIOUS
  <2>2. CASE k = ITEMS_MAX_SIZE
    BY <1>1, <2>2
  <2>3. CASE k # ITEMS_MAX_SIZE
    <3>1. PICK c \in 0 .. ITEMS_MAX_SIZE : k = 2 ^ c /\ 2 ^ c > n
      BY <2>3
    <3>2. c \in Nat
      BY <1>1
    <3>3. k \in Int /\ k > n
      BY <1>2, <3>1, <3>2
    <3> QED
      BY <3>3
  <2> QED
    BY <2>2, <2>3
<1>4. ITEMS_MAX_SIZE \in S
  OBVIOUS
<1>5. next_capacity(n) = 1 + Min(S)
  BY DEF next_capacity
<1> HIDE DEF S
<1>6. PICK m \in S : \A k \in S : m <= k
  BY <1>3, <1>4, LeastNumber
<1>7. Min(S) \in S /\ \A k \in S : Min(S) <= k
  BY <1>6 DEF Min
<1>8. Min(S) \in Nat /\ n <= Min(S) /\ Min(S) <= ITEMS_MAX_SIZE
  BY <1>3, <1>4, <1>7
<1> QED
  BY <1>1, <1>5, <1>8

-----------------------------------------------------------------------------
(* What the operations do to the table.                                      *)

Table == /\ item \in [Numbers -> {None} \cup SUBSET Events]
         /\ fd_size \in 0 .. ITEMS_MAX_SIZE + 1 /\ max_fd \in Numbers
         /\ master \in [Events -> SUBSET Numbers]

TableInv == Table /\ MaxOK /\ Fits /\ SetsOK

(* The types of the table, as the provers need them.                        *)
LEMMA TableTypes ==
    ASSUME Table
    PROVE  /\ max_fd \in Nat /\ fd_size \in Nat /\ Numbers \subseteq Nat /\ 0 \in Numbers
           /\ ITEMS_MAX_SIZE \in Nat
           /\ Registered \subseteq Numbers
BY SelectorAssumption DEF Table, Registered

(* The sets after those of fd are brought up to date.                        *)
LEMMA WatchedSets ==
    ASSUME TableInv, NEW fd \in Numbers, NEW i \in SUBSET Events,
           master' = Watched(fd, i), NEW v \in {None, i}, v = None => i = {},
           item' = [item EXCEPT ![fd] = v]
    PROVE  SetsOK' /\ master' \in [Events -> SUBSET Numbers]
<1>1. master \in [Events -> SUBSET Numbers] /\ item \in [Numbers -> {None} \cup SUBSET Events]
  BY DEF TableInv, Table
<1>2. ASSUME NEW e \in Events
      PROVE  master'[e] = {g \in Registered' : e \in item'[g]} /\ master'[e] \subseteq Numbers
  <2>1. master'[e] = IF e \in i THEN master[e] \cup {fd} ELSE master[e] \ {fd}
    BY DEF Watched
  <2>2. master[e] = {g \in Numbers : item[g] # None /\ e \in item[g]}
    BY DEF TableInv, SetsOK, Registered, Used
  <2>3. Registered' = {g \in Numbers : item'[g] # None}
    BY DEF Registered, Used
  <2>4. \A g \in Numbers : item'[g] = IF g = fd THEN v ELSE item[g]
    BY <1>1
  <2>5. e \in i => v = i /\ v # None
    BY SelectorAssumption DEF Events
  <2>6. e \notin i => v = None \/ e \notin v
    OBVIOUS
  <2>7. ASSUME NEW g PROVE g \in master'[e] <=> g \in Numbers /\ item'[g] # None /\ e \in item'[g]
    <3>1. CASE g = fd
      BY <2>1, <2>4, <2>5, <2>6, <3>1
    <3>2. CASE g # fd
      BY <2>1, <2>2, <2>4, <3>2
    <3> QED
      BY <3>1, <3>2
  <2> QED
    BY <2>3, <2>7
<1>3. SetsOK'
  BY <1>2 DEF SetsOK
<1>4. master' \in [Events -> SUBSET Numbers]
  BY <1>2 DEF Watched
<1> QED
  BY <1>3, <1>4

(* selector_set_interest.                                                   *)
LEMMA SetInterestKeeps ==
    ASSUME TableInv, NEW fd \in Numbers, Used(fd), NEW i \in Interests, SetInterest(fd, i)
    PROVE  TableInv'
<1>1. i \in SUBSET Events /\ i # None
  BY SelectorAssumption DEF Events
<1>2. item \in [Numbers -> {None} \cup SUBSET Events]
  BY DEF TableInv, Table
<1>3. item' = [item EXCEPT ![fd] = i] /\ master' = Watched(fd, i) /\ UNCHANGED <<fd_size, max_fd>>
  BY DEF SetInterest
<1>4. item' \in [Numbers -> {None} \cup SUBSET Events]
  BY <1>1, <1>2, <1>3
<1>5. Registered' = Registered
  BY <1>1, <1>2, <1>3 DEF Registered, Used
<1>6. SetsOK' /\ master' \in [Events -> SUBSET Numbers]
  BY <1>1, <1>3, WatchedSets
<1> QED
  BY <1>3, <1>4, <1>5, <1>6 DEF TableInv, Table, MaxOK, Fits

(* selector_unregister_fd.                                                  *)
LEMMA UnregisterKeeps ==
    ASSUME TableInv, NEW g \in Numbers, Used(g), Unregister(g)
    PROVE  TableInv'
<1>1. item \in [Numbers -> {None} \cup SUBSET Events]
  BY DEF TableInv, Table
<1>2. item' = [item EXCEPT ![g] = None] /\ master' = Watched(g, {}) /\ fd_size' = fd_size
  BY DEF Unregister
<1>3. item' \in [Numbers -> {None} \cup SUBSET Events]
  BY <1>1, <1>2
<1>4. Registered' = Registered \ {g}
  BY <1>1, <1>2 DEF Registered, Used
<1>5. SetsOK' /\ master' \in [Events -> SUBSET Numbers]
  BY <1>2, WatchedSets
<1>6. /\ max_fd \in Nat /\ Numbers \subseteq Nat /\ 0 \in Numbers /\ Registered \subseteq Numbers
  BY TableTypes DEF TableInv
<1>7. \A k \in Registered : k <= max_fd
  BY DEF TableInv, MaxOK
<1> DEFINE S == {0} \cup Registered'
<1>8. max_fd' = Max(S)
  <2>1. max_fd' = Max({0} \cup {h \in Numbers : h <= max_fd /\ item'[h] # None})
    BY DEF Unregister
  <2>2. {h \in Numbers : h <= max_fd /\ item'[h] # None} = Registered'
    BY <1>4, <1>6, <1>7 DEF Registered, Used
  <2> QED
    BY <2>1, <2>2
<1>9. S \subseteq Nat /\ S # {} /\ \A k \in S : k <= max_fd
  BY <1>4, <1>6, <1>7
<1>10. Max(S) \in S /\ \A k \in S : k <= Max(S)
  <2> HIDE DEF S
  <2> QED
    BY <1>6, <1>9, MaxHas
<1>11. MaxOK' /\ max_fd' \in Numbers
  BY <1>4, <1>6, <1>8, <1>10 DEF MaxOK
<1>12. Fits'
  BY <1>2, <1>4 DEF TableInv, Fits
<1> QED
  BY <1>2, <1>3, <1>5, <1>11, <1>12 DEF TableInv, Table

(* selector_register, with the growth of the array.                         *)
LEMMA RegisterKeeps ==
    ASSUME TableInv, NEW g \in Numbers, NEW i \in Interests, selector_register(g, i)
    PROVE  TableInv'
<1>1. i \in SUBSET Events /\ i # None
  BY SelectorAssumption DEF Events
<1>2. item \in [Numbers -> {None} \cup SUBSET Events]
  BY DEF TableInv, Table
<1>3. /\ max_fd \in Nat /\ fd_size \in Nat /\ Numbers \subseteq Nat /\ 0 \in Numbers
      /\ ITEMS_MAX_SIZE \in Nat /\ Registered \subseteq Numbers
  BY TableTypes DEF TableInv
<1>4. CASE UNCHANGED table
  BY <1>4 DEF table, TableInv, Table, MaxOK, Fits, SetsOK, Registered, Used
<1>5. ASSUME item' = [item EXCEPT ![g] = i], max_fd' = Max({max_fd, g}), master' = Watched(g, i),
             g < ITEMS_MAX_SIZE, fd_size' \in 0 .. ITEMS_MAX_SIZE + 1, g < fd_size',
             fd_size <= fd_size'
      PROVE  TableInv'
  <2>1. item' \in [Numbers -> {None} \cup SUBSET Events]
    BY <1>1, <1>2, <1>5
  <2>2. Registered' = Registered \cup {g}
    BY <1>1, <1>2, <1>5 DEF Registered, Used
  <2>3. SetsOK' /\ master' \in [Events -> SUBSET Numbers]
    BY <1>1, <1>5, WatchedSets
  <2>4. g \in Nat
    BY <1>3
  <2>5. max_fd' = IF g > max_fd THEN g ELSE max_fd
    <3> DEFINE m == IF g > max_fd THEN g ELSE max_fd
    <3>1. {max_fd, g} \subseteq Nat /\ m \in {max_fd, g} /\ \A k \in {max_fd, g} : k <= m
      BY <1>3, <2>4
    <3> HIDE DEF m
    <3>2. Max({max_fd, g}) = m
      BY <3>1, MaxIs
    <3> QED
      BY <1>5, <3>2 DEF m
  <2>6. max_fd \in {0} \cup Registered /\ \A k \in Registered : k \in Nat /\ k <= max_fd
    BY <1>3 DEF TableInv, MaxOK
  <2>7. max_fd' \in {0} \cup Registered' /\ \A k \in Registered' : k <= max_fd'
    <3>1. CASE g > max_fd
      BY <1>3, <2>2, <2>4, <2>5, <2>6, <3>1
    <3>2. CASE ~(g > max_fd)
      BY <1>3, <2>2, <2>4, <2>5, <2>6, <3>2
    <3> QED
      BY <3>1, <3>2
  <2>8. max_fd' \in Numbers
    BY <1>3, <2>2, <2>7
  <2>9. Fits'
    <3>1. \A k \in Registered : k \in Nat /\ k < fd_size /\ k < ITEMS_MAX_SIZE
      BY <1>3 DEF TableInv, Fits
    <3>2. fd_size' \in Nat
      BY <1>3, <1>5
    <3>3. ASSUME NEW k \in Registered' PROVE k < fd_size' /\ k < ITEMS_MAX_SIZE
      BY <1>3, <1>5, <2>2, <3>1, <3>2
    <3> QED
      BY <3>3 DEF Fits
  <2> QED
    BY <1>5, <2>1, <2>3, <2>7, <2>8, <2>9 DEF TableInv, Table, MaxOK
<1>6. CASE ~UNCHANGED table
  <2>1. /\ item' = [item EXCEPT ![g] = i] /\ max_fd' = Max({max_fd, g}) /\ master' = Watched(g, i)
        /\ ~INVALID_FD(g)
        /\ \/ g < fd_size /\ fd_size' = fd_size
           \/ g > fd_size /\ fd_size' = next_capacity(g)
    BY <1>6 DEF selector_register
  <2>2. g \in Nat /\ g < ITEMS_MAX_SIZE
    BY <1>3, <2>1 DEF INVALID_FD
  <2>3. /\ fd_size' \in 0 .. ITEMS_MAX_SIZE + 1 /\ g < fd_size' /\ fd_size <= fd_size'
    <3>1. CASE fd_size' = fd_size
      <4>1. fd_size \in 0 .. ITEMS_MAX_SIZE + 1
        BY DEF TableInv, Table
      <4>2. g < fd_size
        BY <1>3, <2>1, <2>2, <3>1, CapacityHolds
      <4>3. fd_size <= fd_size
        BY <1>3
      <4> QED
        BY <3>1, <4>1, <4>2, <4>3
    <3>2. CASE fd_size' # fd_size
      <4>1. g > fd_size /\ fd_size' = next_capacity(g)
        BY <2>1, <3>2
      <4>2. next_capacity(g) \in 1 .. ITEMS_MAX_SIZE + 1 /\ g < next_capacity(g)
        BY <2>2, CapacityHolds
      <4> QED
        BY <1>3, <2>2, <4>1, <4>2
    <3> QED
      BY <3>1, <3>2
  <2> QED
    BY <1>5, <2>1, <2>2, <2>3
<1> QED
  BY <1>4, <1>6

(* Whatever a handler does.                                                  *)
LEMMA HandlesKeeps ==
    ASSUME TableInv, open \subseteq Numbers, NEW fd \in Numbers, Used(fd), Handles(fd),
           worker \in [Workers -> [at : {"idle", "working", "pushed"}, fd : Numbers]]
    PROVE  /\ TableInv' /\ open' \subseteq Numbers
           /\ worker' \in [Workers -> [at : {"idle", "working", "pushed"}, fd : Numbers]]
<1>1. CASE UNCHANGED <<table, worker>> /\ open' \subseteq Numbers
  BY <1>1 DEF table, TableInv, Table, MaxOK, Fits, SetsOK, Registered, Used
<1>2. CASE \E i \in Interests : SetInterest(fd, i) /\ UNCHANGED <<open, worker>>
  BY <1>2, SetInterestKeeps
<1>3. CASE \E g \in Numbers : /\ Used(g) /\ Unregister(g)
                              /\ open' = open \ {g}
                              /\ UNCHANGED worker
  BY <1>3, UnregisterKeeps
<1>4. CASE \E g \in Numbers \ open, i \in Interests : /\ g = fd_size => INVALID_FD(g)
                                                      /\ selector_register(g, i)
                                                      /\ UNCHANGED worker
  <2>1. PICK g \in Numbers \ open, i \in Interests : selector_register(g, i) /\ UNCHANGED worker
    BY <1>4
  <2>2. TableInv'
    BY <2>1, RegisterKeeps
  <2>3. open' \subseteq Numbers
    BY <2>1 DEF selector_register
  <2> QED
    BY <2>1, <2>2, <2>3
<1>5. CASE \E w \in Workers :
             /\ worker[w].at = "idle" /\ w \notin due
             /\ worker' = [worker EXCEPT ![w] = [at |-> "working", fd |-> fd]]
             /\ UNCHANGED <<table, open>>
  <2>1. worker' \in [Workers -> [at : {"idle", "working", "pushed"}, fd : Numbers]]
    BY <1>5
  <2>2. UNCHANGED <<table, open>>
    BY <1>5
  <2> QED
    BY <2>1, <2>2 DEF table, TableInv, Table, MaxOK, Fits, SetsOK, Registered, Used
<1> QED
  BY <1>1, <1>2, <1>3, <1>4, <1>5 DEF Handles

-----------------------------------------------------------------------------
(* Every step keeps the invariant.                                          *)

WorkerTypes == worker \in [Workers -> [at : {"idle", "working", "pushed"}, fd : Numbers]]

Others ==
    /\ slave \in [Events -> SUBSET Numbers]
    /\ pc \in {"out", "copied", "asleep", "failed", "iterate", "notify", "walk",
               "destroyed", "beyond", "moved", "freed"}
    /\ moved \in Numbers \cup {None}
    /\ jobs \in Seq(Job) /\ walk \in Seq(Job) /\ pending \in BOOLEAN
    /\ WorkerTypes
    /\ due \subseteq Workers
    /\ open \subseteq Numbers

(* The invariant by who changes what.                                       *)
LEMMA IInvParts == IInv <=> TableInv /\ Others /\ WillWake
BY DEF IInv, TypeOK, TableInv, Table, Others, WorkerTypes

(* A step that leaves the table alone.                                      *)
LEMMA TableSame ==
    ASSUME TableInv, UNCHANGED table
    PROVE  TableInv'
BY DEF table, TableInv, Table, MaxOK, Fits, SetsOK, Registered, Used

(* The thread of the selector, but for the handlers.                         *)
LEMMA LoopKeeps ==
    ASSUME TableInv, Others, WillWake,
           \/ selector_select \/ pselect \/ BadDescriptor \/ Interrupted \/ Returned
           \/ IterationEnds \/ NotifyStarts \/ NotifyEnds
    PROVE  TableInv' /\ Others' /\ WillWake'
<1>1. TableInv'
  BY TableSame DEF selector_select, pselect, BadDescriptor, Interrupted, Returned, IterationEnds,
                   NotifyStarts, NotifyEnds
<1>2. slave' \in [Events -> SUBSET Numbers]
  <2>1. master \in [Events -> SUBSET Numbers] /\ slave \in [Events -> SUBSET Numbers]
    BY DEF TableInv, Table, Others
  <2>2. [e \in Events |-> {}] \in [Events -> SUBSET Numbers]
    OBVIOUS
  <2>3. CASE Returned
    <3>1. PICK r \in SUBSET slave["r"], w \in SUBSET slave["w"] :
            slave' = [e \in Events |-> IF e = "r" THEN r ELSE w]
      BY <2>3 DEF Returned
    <3>2. r \subseteq Numbers /\ w \subseteq Numbers
      BY <2>1 DEF Events
    <3> QED
      BY <3>1, <3>2
  <2>4. CASE ~Returned
    BY <2>1, <2>2, <2>4 DEF selector_select, pselect, BadDescriptor, Interrupted, IterationEnds,
                            NotifyStarts, NotifyEnds, scan
  <2> QED
    BY <2>3, <2>4
<1>3. moved' \in Numbers \cup {None}
  BY DEF Others, selector_select, pselect, BadDescriptor, Interrupted, Returned, IterationEnds,
         NotifyStarts, NotifyEnds, scan
<1>4. jobs' \in Seq(Job) /\ walk' \in Seq(Job)
  <2>1. <<>> \in Seq(Job)
    OBVIOUS
  <2> QED
    BY <2>1 DEF Others, selector_select, pselect, BadDescriptor, Interrupted, Returned,
                IterationEnds, NotifyStarts, NotifyEnds, threads
<1>5. /\ pending' \in BOOLEAN /\ WorkerTypes' /\ due' \subseteq Workers /\ open' \subseteq Numbers
      /\ worker' = worker
  BY DEF Others, WorkerTypes, selector_select, pselect, BadDescriptor, Interrupted, Returned,
         IterationEnds, NotifyStarts, NotifyEnds, threads
<1>6. pc' \in {"copied", "asleep", "failed", "notify", "iterate", "moved", "walk", "out"}
  BY DEF selector_select, pselect, BadDescriptor, Interrupted, Returned, IterationEnds,
         NotifyStarts, NotifyEnds
<1>7. WillWake'
  <2>1. CASE selector_select \/ pselect
    BY <2>1 DEF selector_select, pselect, threads, WillWake
  <2>2. CASE NotifyEnds
    BY <2>2 DEF NotifyEnds, WillWake
  <2>3. CASE BadDescriptor \/ Interrupted \/ Returned \/ IterationEnds \/ NotifyStarts
    BY <2>3 DEF BadDescriptor, Interrupted, Returned, IterationEnds, NotifyStarts, WillWake
  <2> QED
    BY <2>1, <2>2, <2>3
<1> QED
  BY <1>1, <1>2, <1>3, <1>4, <1>5, <1>6, <1>7 DEF Others

(* The handler of the next descriptor of the scan.                           *)
LEMMA IterationKeeps ==
    ASSUME TableInv, Others, handle_iteration
    PROVE  TableInv' /\ Others' /\ WillWake'
<1>1. PICK x \in Left :
        /\ slave' = [d \in Events |-> {g \in slave[d] : Place(g, d) > Place(x[1], x[2])}]
        /\ \/ /\ Handles(x[1]) /\ UNCHANGED pc
              /\ moved' = IF fd_size' # fd_size /\ x[2] = "r" THEN x[1] ELSE None
           \/ RegistersBeyond /\ pc' = "beyond" /\ UNCHANGED <<table, moved, open, worker>>
  BY DEF handle_iteration
<1>2. x[1] \in Numbers /\ Used(x[1])
  BY DEF Left, Due
<1>3. pc = "iterate" /\ UNCHANGED <<jobs, walk, pending, due>>
  BY DEF handle_iteration
<1>4. slave' \in [Events -> SUBSET Numbers]
  <2>1. \A d \in Events : {g \in slave[d] : Place(g, d) > Place(x[1], x[2])} \subseteq Numbers
    BY DEF Others
  <2> QED
    BY <1>1, <2>1
<1>5. TableInv' /\ open' \subseteq Numbers /\ WorkerTypes' /\ moved' \in Numbers \cup {None}
      /\ pc' \in {"iterate", "beyond"}
  <2>1. CASE /\ Handles(x[1]) /\ UNCHANGED pc
             /\ moved' = IF fd_size' # fd_size /\ x[2] = "r" THEN x[1] ELSE None
    BY <1>2, <1>3, <2>1, HandlesKeeps DEF Others, WorkerTypes
  <2>2. CASE pc' = "beyond" /\ UNCHANGED <<table, moved, open, worker>>
    BY <2>2, TableSame DEF Others, WorkerTypes
  <2> QED
    BY <1>1, <2>1, <2>2
<1> QED
  BY <1>3, <1>4, <1>5 DEF Others, WillWake

(* The handler that is told of a job.                                        *)
LEMMA BlockKeeps ==
    ASSUME TableInv, Others, handle_block
    PROVE  TableInv' /\ Others' /\ WillWake'
<1>1. walk \in Seq(Job) /\ walk # <<>> /\ pc = "walk" /\ UNCHANGED <<scan, jobs, pending>>
  BY DEF Others, handle_block
<1>2. Head(walk) \in Job /\ Tail(walk) \in Seq(Job)
  BY <1>1
<1>3. Head(walk).fd \in Numbers
  BY <1>2 DEF Job
<1>4. due' \subseteq Workers /\ walk' \in Seq(Job)
  BY <1>2 DEF handle_block, Others
<1>5. TableInv' /\ open' \subseteq Numbers /\ WorkerTypes' /\ pc' \in {"walk", "beyond"}
  <2>1. CASE Used(Head(walk).fd) /\ Handles(Head(walk).fd) /\ UNCHANGED pc
    BY <1>1, <1>3, <2>1, HandlesKeeps DEF Others, WorkerTypes
  <2>2. CASE pc' \in {"walk", "beyond"} /\ UNCHANGED <<table, open, worker>>
    BY <2>2, TableSame DEF Others, WorkerTypes
  <2> QED
    BY <1>1, <2>1, <2>2 DEF handle_block
<1> QED
  BY <1>1, <1>4, <1>5 DEF Others, WillWake, scan

(* selector_destroy.                                                        *)
LEMMA DestroyKeeps ==
    ASSUME TableInv, Others, selector_destroy
    PROVE  TableInv' /\ Others' /\ WillWake'
<1>1. /\ item' = [fd \in Numbers |-> None] /\ fd_size' = 0 /\ max_fd' = 0
      /\ master' = [e \in Events |-> {}] /\ jobs' = <<>> /\ pc' = "destroyed"
      /\ UNCHANGED <<scan, walk, pending, worker, due, open>>
  BY DEF selector_destroy
<1>2. ITEMS_MAX_SIZE \in Nat /\ 0 \in Numbers
  BY SelectorAssumption
<1>3. 0 \in 0 .. ITEMS_MAX_SIZE + 1
  BY <1>2
<1>4. Registered' = {}
  BY <1>1 DEF Registered, Used
<1>5. Table'
  BY <1>1, <1>2, <1>3 DEF Table
<1>6. TableInv'
  BY <1>1, <1>4, <1>5 DEF TableInv, MaxOK, Fits, SetsOK
<1>7. jobs' \in Seq(Job)
  BY <1>1
<1> QED
  BY <1>1, <1>6, <1>7 DEF Others, WorkerTypes, WillWake, scan

(* A worker, at any moment of the selector.                                  *)
LEMMA WorkerKeeps ==
    ASSUME TableInv, Others, WillWake, NEW w \in Workers,
           Push(w) \/ PushFails(w) \/ PushFreed(w) \/ pthread_kill(w)
    PROVE  TableInv' /\ Others' /\ WillWake'
<1>1. 0 \in Numbers /\ Idle \in [at : {"idle", "working", "pushed"}, fd : Numbers]
  BY SelectorAssumption DEF Idle
<1>2. worker \in [Workers -> [at : {"idle", "working", "pushed"}, fd : Numbers]]
  BY DEF Others, WorkerTypes
<1>3. TableInv'
  BY TableSame DEF Push, PushFails, PushFreed, pthread_kill
<1>4. CASE Push(w)
  <2> DEFINE job == [worker |-> w, fd |-> worker[w].fd]
  <2>1. job \in Job
    BY <1>2 DEF Job
  <2>2. jobs \in Seq(Job) /\ jobs' = <<job>> \o jobs
    BY <1>4 DEF Push, Others
  <2> HIDE DEF job
  <2>3. jobs' \in Seq(Job)
    BY <2>1, <2>2
  <2>4. /\ worker' = [worker EXCEPT ![w] = [Idle EXCEPT !.at = "pushed"]]
        /\ due' = due \cup {w} /\ UNCHANGED <<scan, walk, pending, open, pc>>
    BY <1>4 DEF Push
  <2>5. /\ [Idle EXCEPT !.at = "pushed"] \in [at : {"idle", "working", "pushed"}, fd : Numbers]
        /\ [Idle EXCEPT !.at = "pushed"].at = "pushed"
    BY <1>1 DEF Idle
  <2>6. WorkerTypes' /\ worker'[w].at = "pushed"
    BY <1>2, <2>4, <2>5 DEF WorkerTypes
  <2>7. WillWake'
    BY <2>6 DEF WillWake
  <2> QED
    BY <1>3, <2>3, <2>4, <2>6, <2>7 DEF Others, scan
<1>5. CASE PushFails(w)
  <2>1. /\ worker[w].at = "working" /\ worker' = [worker EXCEPT ![w] = Idle]
        /\ UNCHANGED <<scan, jobs, walk, pending, due, open, pc>>
    BY <1>5 DEF PushFails
  <2>2. WorkerTypes'
    BY <1>1, <1>2, <2>1 DEF WorkerTypes
  <2>3. \A v \in Workers : worker[v].at = "pushed" => worker'[v].at = "pushed"
    BY <1>2, <2>1
  <2>4. WillWake'
    BY <2>1, <2>3 DEF WillWake
  <2> QED
    BY <1>3, <2>1, <2>2, <2>4 DEF Others, scan
<1>6. CASE PushFreed(w)
  BY <1>3, <1>6 DEF PushFreed, Others, WorkerTypes, WillWake, scan, threads
<1>7. CASE pthread_kill(w)
  <2>1. /\ pending' = TRUE /\ worker' = [worker EXCEPT ![w] = Idle]
        /\ UNCHANGED <<scan, jobs, walk, due, open, pc>>
    BY <1>7 DEF pthread_kill
  <2>2. WorkerTypes'
    BY <1>1, <1>2, <2>1 DEF WorkerTypes
  <2> QED
    BY <1>3, <2>1, <2>2 DEF Others, WillWake, scan
<1> QED
  BY <1>4, <1>5, <1>6, <1>7

(* Every step keeps the invariant.                                          *)
LEMMA NextIInv == IInv /\ [Next]_vars => IInv'
<1> SUFFICES ASSUME TableInv, Others, WillWake, [Next]_vars PROVE TableInv' /\ Others' /\ WillWake'
  BY IInvParts, PTL
<1>1. CASE UNCHANGED vars
  <2>1. UNCHANGED <<table, scan, threads, open, pc>>
    BY <1>1 DEF vars
  <2> QED
    BY <2>1, TableSame DEF scan, threads, Others, WorkerTypes, WillWake
<1>2. CASE Loop
  BY <1>2, LoopKeeps, IterationKeeps, BlockKeeps DEF Loop
<1>3. CASE selector_destroy
  BY <1>3, DestroyKeeps
<1>4. ASSUME NEW w \in Workers, Push(w) \/ PushFails(w) \/ PushFreed(w) \/ pthread_kill(w)
      PROVE  TableInv' /\ Others' /\ WillWake'
  BY <1>4, WorkerKeeps
<1> QED
  BY <1>1, <1>2, <1>3, <1>4 DEF Next

-----------------------------------------------------------------------------
(* The invariant, and what follows.                                         *)

(* The selector after selector_new.                                         *)
LEMMA InitIInv == Init => IInv
<1> SUFFICES ASSUME Init PROVE TableInv /\ Others /\ WillWake
  BY IInvParts
<1>1. ITEMS_MAX_SIZE \in Nat /\ ITEMS_MAX_SIZE > 0 /\ Initial \in 0 .. ITEMS_MAX_SIZE /\ Initial \in Nat
      /\ Numbers \subseteq Nat /\ 0 \in Numbers
  BY SelectorAssumption
<1>2. /\ item = [fd \in Numbers |-> IF fd = 0 THEN {"r"} ELSE None] /\ max_fd = 0
      /\ fd_size = next_capacity(Initial)
      /\ master = [e \in Events |-> IF e = "r" THEN {0} ELSE {}]
  BY DEF Init
<1>3. {"r"} # None /\ {"r"} \in SUBSET Events
  BY SelectorAssumption DEF Events
<1>4. Registered = {0}
  BY <1>1, <1>2, <1>3 DEF Registered, Used
<1>5. fd_size \in 1 .. ITEMS_MAX_SIZE + 1
  BY <1>1, <1>2, CapacityHolds
<1>6. fd_size \in 0 .. ITEMS_MAX_SIZE + 1 /\ 0 < fd_size
  BY <1>1, <1>5
<1>7. Table
  <2>1. item \in [Numbers -> {None} \cup SUBSET Events]
    BY <1>2, <1>3
  <2>2. master \in [Events -> SUBSET Numbers]
    BY <1>1, <1>2
  <2> QED
    BY <1>1, <1>2, <1>6, <2>1, <2>2 DEF Table
<1>8. MaxOK
  BY <1>2, <1>4 DEF MaxOK
<1>9. Fits
  BY <1>1, <1>4, <1>6 DEF Fits
<1>10. SetsOK
  <2>1. item[0] = {"r"}
    BY <1>1, <1>2
  <2>2. ASSUME NEW e \in Events PROVE master[e] = {fd \in Registered : e \in item[fd]}
    <3>1. CASE e = "r"
      BY <1>2, <1>4, <2>1, <3>1
    <3>2. CASE e # "r"
      BY <1>2, <1>4, <2>1, <3>2
    <3> QED
      BY <3>1, <3>2
  <2> QED
    BY <2>2 DEF SetsOK
<1>11. jobs \in Seq(Job) /\ walk \in Seq(Job)
  <2>1. <<>> \in Seq(Job)
    OBVIOUS
  <2> QED
    BY <2>1 DEF Init
<1>12. WorkerTypes
  BY <1>1 DEF Init, WorkerTypes, Idle
<1>13. slave \in [Events -> SUBSET Numbers]
  BY DEF Init
<1> QED
  BY <1>1, <1>7, <1>8, <1>9, <1>10, <1>11, <1>12, <1>13 DEF Init, TableInv, Others, WillWake

(* The invariant, for every behaviour.                                       *)
THEOREM Invariance == Spec => []IInv
<1> QED
  BY InitIInv, NextIInv, PTL DEF Spec

(* Type correctness: the array never has more entries than the capacity for   *)
(* the greatest number.                                                      *)
THEOREM TypeCorrect == Spec => []TypeOK
<1>1. IInv => TypeOK
  BY DEF IInv
<1> QED
  BY <1>1, Invariance, PTL

(* What pselect is given is what the table says, after any order of           *)
(* operations by handlers in the middle of a scan, however the table grew.   *)
THEOREM SetsAlwaysAgree == Spec => []SetsAgree
<1>1. IInv => SetsAgree
  <2> SUFFICES ASSUME IInv PROVE SetsAgree
    OBVIOUS
  <2>1. TableInv
    BY IInvParts
  <2>2. \A e \in Events : master[e] = {fd \in Numbers : Used(fd) /\ e \in item[fd]}
    BY <2>1 DEF TableInv, SetsOK, Registered
  <2>3. Registered \subseteq Nat
    BY <2>1, TableTypes DEF TableInv
  <2>4. max_fd = Max({0} \cup Registered)
    <3> DEFINE S == {0} \cup Registered
    <3>1. S \in SUBSET Nat /\ max_fd \in S
      BY <2>1, <2>3 DEF TableInv, MaxOK
    <3>2. \A k \in S : k <= max_fd
      BY <2>1, <3>1 DEF TableInv, MaxOK
    <3> HIDE DEF S
    <3> QED
      BY <3>1, <3>2, MaxIs DEF S
  <2>5. \A fd \in Numbers : Used(fd) => fd < fd_size /\ ~INVALID_FD(fd)
    <3>1. SUFFICES ASSUME NEW fd \in Numbers, Used(fd) PROVE fd < fd_size /\ ~INVALID_FD(fd)
      OBVIOUS
    <3>2. fd \in Nat /\ fd < fd_size /\ fd < ITEMS_MAX_SIZE
      BY <2>1, <2>3, <3>1 DEF TableInv, Fits, Registered
    <3> QED
      BY <3>2, SelectorAssumption DEF INVALID_FD
  <2> QED
    BY <2>2, <2>4, <2>5 DEF SetsAgree, Registered
<1> QED
  BY <1>1, Invariance, PTL

(* No order of the loop's thread and the workers leaves a job in the list     *)
(* over which the thread sleeps without a signal on its way.                 *)
THEOREM WakeupNeverLost == Spec => []NoLostWakeup
<1>1. IInv => NoLostWakeup
  BY DEF IInv, WillWake, NoLostWakeup
<1> QED
  BY <1>1, Invariance, PTL

=============================================================================
