------------------------------- MODULE Selector -------------------------------
(***************************************************************************)
(* The multiplexer of src/ignore/selector.c, kept in the repository with its *)
(* test and the proxy that used it (src/stash).  One thread calls            *)
(* selector_select in a loop, whose handlers call the other operations;      *)
(* worker threads call selector_notify_block when what they did is done.     *)
(*                                                                           *)
(* The handlers are the caller's: each call of one does one thing the header *)
(* lets it do.  The signal, pselect, the mutex and the descriptors are the    *)
(* system's.  Where the code reads memory that is not its own, pc says how    *)
(* it came to it and nothing more happens: anything may.                     *)
(***************************************************************************)
EXTENDS Integers, Sequences, FiniteSetsExt

CONSTANTS ITEMS_MAX_SIZE,   \* FD_SETSIZE
          Initial,          \* the argument of selector_new
          Numbers,          \* numbers a descriptor may have
          Interests,        \* what a handler may ask for, of "r" and "w"
          Workers, None

ASSUME SelectorAssumption ==
    /\ ITEMS_MAX_SIZE \in Nat \ {0} /\ Initial \in 0 .. ITEMS_MAX_SIZE
    /\ Numbers \subseteq Nat /\ 0 \in Numbers
    /\ Interests \subseteq SUBSET {"r", "w"}
    /\ \A i \in SUBSET {"r", "w"} : i # None

VARIABLES
    item,           \* the table: number -> the interest registered for it
    fd_size,        \* entries the array has
    max_fd,
    master, slave,  \* the sets of descriptors, for reading and for writing
    pc,             \* what the thread of the selector is at
    moved,          \* the entry the scan was at, and points to, when the array was moved
    jobs, walk,     \* resolution_jobs, and those handle_block_notifications has left
    pending,        \* the signal is pending
    worker,         \* what each worker is at, and for which descriptor
    due,            \* ghost: the workers whose job no handler was told of
    open            \* numbers that have a file behind them

table   == <<item, fd_size, max_fd, master>>
scan    == <<slave, moved>>
threads == <<jobs, walk, pending, worker, due>>
vars    == <<table, scan, threads, open, pc>>

Events == {"r", "w"}
Used(fd) == item[fd] # None
Idle     == [at |-> "idle", fd |-> 0]

-----------------------------------------------------------------------------
(* The table.                                                               *)

(* The least power of two above the number, no more than the most, and one.   *)
next_capacity(size) ==
    1 + Min({ITEMS_MAX_SIZE} \cup {2 ^ b : b \in {c \in 0 .. ITEMS_MAX_SIZE : 2 ^ c > size}})

INVALID_FD(fd) == fd >= ITEMS_MAX_SIZE

(* items_update_fdset_for_fd                                                 *)
Watched(fd, interest) ==
    [e \in Events |-> IF e \in interest THEN master[e] \cup {fd} ELSE master[e] \ {fd}]

(* main_ejemplo.c: the listener is registered before the loop.               *)
Init ==
    /\ item = [fd \in Numbers |-> IF fd = 0 THEN {"r"} ELSE None]
    /\ fd_size = next_capacity(Initial) /\ max_fd = 0
    /\ master = [e \in Events |-> IF e = "r" THEN {0} ELSE {}]
    /\ slave = [e \in Events |-> {}]
    /\ pc = "out" /\ moved = None
    /\ jobs = <<>> /\ walk = <<>> /\ pending = FALSE
    /\ worker = [w \in Workers |-> Idle] /\ due = {}
    /\ open = {0}

(* selector_set_interest                                                     *)
SetInterest(fd, i) ==
    /\ item' = [item EXCEPT ![fd] = i]
    /\ master' = Watched(fd, i)
    /\ UNCHANGED <<fd_size, max_fd>>

(* Faulty variant: the sets are brought up to date when fd is -1 already.     *)
UnregisterLate(fd) ==
    /\ item' = [item EXCEPT ![fd] = None]
    /\ max_fd' = Max({0} \cup {g \in Numbers : g <= max_fd /\ item'[g] # None})
    /\ UNCHANGED <<fd_size, master>>

(* selector_unregister_fd                                                    *)
Unregister(fd) ==
    /\ item' = [item EXCEPT ![fd] = None]
    /\ master' = Watched(fd, {})
    /\ max_fd' = Max({0} \cup {g \in Numbers : g <= max_fd /\ item'[g] # None})
    /\ UNCHANGED fd_size

(* The array grows only for a number beyond its size: the number that is its  *)
(* size finds no place, and the entry behind the array is taken for one.     *)
(* A register that is refused leaves all as it was: SELECTOR_IARGS,          *)
(* SELECTOR_FDINUSE, or SELECTOR_ENOMEM.                                     *)
selector_register(fd, interest) ==
    LET Entered == /\ item' = [item EXCEPT ![fd] = interest]
                   /\ max_fd' = Max({max_fd, fd})
                   /\ master' = Watched(fd, interest)
                   /\ open' = open \cup {fd}
        Refused == UNCHANGED <<table, open>>
    IN  \/ (INVALID_FD(fd) \/ Used(fd) \/ fd > fd_size) /\ Refused
        \/ ~INVALID_FD(fd) /\ fd < fd_size /\ ~Used(fd) /\ Entered /\ UNCHANGED fd_size
        \/ ~INVALID_FD(fd) /\ fd > fd_size /\ Entered /\ fd_size' = next_capacity(fd)

-----------------------------------------------------------------------------
(* What a handler called for fd does: nothing, or change its interest, be done *)
(* with some descriptor, close it only, accept or open another, or give      *)
(* work to a thread.                                                         *)
Handles(fd) ==
    \/ UNCHANGED <<table, open, worker>>
    \/ \E i \in Interests : SetInterest(fd, i) /\ UNCHANGED <<open, worker>>
    \/ \E g \in Numbers :
         /\ Used(g) /\ Unregister(g)
         /\ open' = open \ {g}
         /\ UNCHANGED worker
    \/ open' = open \ {fd} /\ UNCHANGED <<table, worker>>
    \/ \E g \in Numbers \ open, i \in Interests :
         /\ g = fd_size => INVALID_FD(g)
         /\ selector_register(g, i)
         /\ UNCHANGED worker
    \/ \E w \in Workers :
         /\ worker[w].at = "idle" /\ w \notin due
         /\ worker' = [worker EXCEPT ![w] = [at |-> "working", fd |-> fd]]
         /\ UNCHANGED <<table, open>>

(* A register of the number that is the size of the array.                   *)
RegistersBeyond == \E g \in Numbers \ open : g = fd_size /\ ~INVALID_FD(g)

-----------------------------------------------------------------------------
(* selector_select.                                                         *)

(* The sets are copied; the signal stays blocked.                            *)
selector_select ==
    /\ pc = "out" /\ pc' = "copied"
    /\ slave' = master
    /\ UNCHANGED <<table, moved, threads, open>>

(* Faulty variant: the signal is unblocked first, and select called then.     *)
SleepsUnblocked ==
    /\ pc = "copied" /\ pc' = "asleep"
    /\ pending' = FALSE
    /\ UNCHANGED <<table, scan, jobs, walk, worker, due, open>>

(* pselect unblocks the signal and sleeps, in one.                           *)
pselect ==
    /\ pc = "copied" /\ pc' = "asleep"
    /\ UNCHANGED <<table, scan, threads, open>>

Watching == slave["r"] \cup slave["w"]

(* EBADF: a descriptor closed and not unregistered.                          *)
BadDescriptor ==
    /\ pc = "asleep" /\ ~(Watching \subseteq open)
    /\ pc' = "failed"
    /\ UNCHANGED <<table, scan, threads, open>>

(* EINTR: no descriptor is looked at.                                        *)
Interrupted ==
    /\ pc = "asleep" /\ pending /\ Watching \subseteq open
    /\ pending' = FALSE /\ pc' = "notify"
    /\ slave' = [e \in Events |-> {}]
    /\ UNCHANGED <<table, moved, jobs, walk, worker, due, open>>

(* Some are ready, or none when the time is over.                            *)
Returned ==
    /\ pc = "asleep" /\ Watching \subseteq open
    /\ \E r \in SUBSET slave["r"], w \in SUBSET slave["w"] :
         slave' = [e \in Events |-> IF e = "r" THEN r ELSE w]
    /\ pc' = "iterate"
    /\ UNCHANGED <<table, moved, threads, open>>

(* handle_iteration comes to each descriptor for reading, then for writing;   *)
(* slave here is what it has not come to.                                    *)
Place(fd, e) == 2 * fd + (IF e = "r" THEN 0 ELSE 1)
Due(fd, e)   == fd \in slave[e] /\ Used(fd) /\ e \in item[fd]
Left         == {x \in Numbers \X Events : Due(x[1], x[2])}

(* The scan's pointer to the entry of a descriptor whose handle_read made the *)
(* array grow points to where the array was.                                 *)
Dangling == moved \in slave["w"]

handle_iteration ==
    /\ pc = "iterate" /\ ~Dangling
    /\ \E x \in Left :
         LET fd == x[1]
             e  == x[2]
         IN  /\ \A y \in Left : Place(fd, e) <= Place(y[1], y[2])
             /\ slave' = [d \in Events |-> {g \in slave[d] : Place(g, d) > Place(fd, e)}]
             /\ \/ /\ Handles(fd) /\ UNCHANGED pc
                   /\ moved' = IF fd_size' # fd_size /\ e = "r" THEN fd ELSE None
                \/ RegistersBeyond /\ pc' = "beyond" /\ UNCHANGED <<table, moved, open, worker>>
    /\ UNCHANGED <<jobs, walk, pending, due>>

IterationEnds ==
    /\ pc = "iterate" /\ (Dangling \/ Left = {})
    /\ pc' = IF Dangling THEN "moved" ELSE "notify"
    /\ slave' = [e \in Events |-> {}] /\ moved' = None
    /\ UNCHANGED <<table, threads, open>>

(* handle_block_notifications takes the lock ...                             *)
NotifyStarts ==
    /\ pc = "notify" /\ pc' = "walk"
    /\ walk' = jobs
    /\ UNCHANGED <<table, scan, jobs, pending, worker, due, open>>

(* ... tells whoever is registered at the job's number ...                   *)
handle_block ==
    /\ pc = "walk" /\ walk # <<>>
    /\ LET job == Head(walk) IN
         /\ due' = due \ {job.worker}
         /\ walk' = Tail(walk)
         /\ IF Used(job.fd)
            THEN \/ Handles(job.fd) /\ UNCHANGED pc
                 \/ RegistersBeyond /\ pc' = "beyond" /\ UNCHANGED <<table, open, worker>>
            ELSE UNCHANGED <<table, open, worker, pc>>
    /\ UNCHANGED <<scan, jobs, pending>>

(* ... and drops the list.                                                   *)
NotifyEnds ==
    /\ pc = "walk" /\ walk = <<>>
    /\ jobs' = <<>> /\ pc' = "out"
    /\ UNCHANGED <<table, scan, walk, pending, worker, due, open>>

(* The loop of main_ejemplo.c ends when select fails, or on SIGTERM.         *)
selector_destroy ==
    /\ pc \in {"failed", "out"} /\ pc' = "destroyed"
    /\ item' = [fd \in Numbers |-> None] /\ fd_size' = 0 /\ max_fd' = 0
    /\ master' = [e \in Events |-> {}]
    /\ jobs' = <<>>
    /\ UNCHANGED <<scan, walk, pending, worker, due, open>>

-----------------------------------------------------------------------------
(* selector_notify_block, in a worker.                                      *)

Running == pc \in {"out", "copied", "asleep", "failed", "iterate", "notify", "walk"}

(* Faulty variant: without the lock.                                         *)
PushUnlocked(w) ==
    /\ worker[w].at = "working" /\ Running
    /\ jobs' = <<[worker |-> w, fd |-> worker[w].fd]>> \o jobs
    /\ due' = due \cup {w}
    /\ worker' = [worker EXCEPT ![w] = [Idle EXCEPT !.at = "pushed"]]
    /\ UNCHANGED <<table, scan, walk, pending, open, pc>>

(* The job goes to the front of the list, under the lock, ...                *)
Push(w) ==
    /\ worker[w].at = "working" /\ Running
    /\ pc # "walk"
    /\ jobs' = <<[worker |-> w, fd |-> worker[w].fd]>> \o jobs
    /\ due' = due \cup {w}
    /\ worker' = [worker EXCEPT ![w] = [Idle EXCEPT !.at = "pushed"]]
    /\ UNCHANGED <<table, scan, walk, pending, open, pc>>

(* ... unless there is no memory for it: then nobody is told.                *)
PushFails(w) ==
    /\ worker[w].at = "working" /\ Running
    /\ worker' = [worker EXCEPT ![w] = Idle]
    /\ UNCHANGED <<table, scan, jobs, walk, pending, due, open, pc>>

(* The selector's memory was freed while the worker worked, or between the    *)
(* lock and the signal.                                                      *)
PushFreed(w) ==
    /\ worker[w].at \in {"working", "pushed"} /\ pc = "destroyed"
    /\ pc' = "freed"
    /\ UNCHANGED <<table, scan, threads, open>>

pthread_kill(w) ==
    /\ worker[w].at = "pushed" /\ Running
    /\ pending' = TRUE
    /\ worker' = [worker EXCEPT ![w] = Idle]
    /\ UNCHANGED <<table, scan, jobs, walk, due, open, pc>>

-----------------------------------------------------------------------------
Loop ==
    \/ selector_select \/ pselect \/ BadDescriptor \/ Interrupted \/ Returned
    \/ handle_iteration \/ IterationEnds \/ NotifyStarts \/ handle_block \/ NotifyEnds

Next ==
    \/ Loop \/ selector_destroy
    \/ \E w \in Workers : Push(w) \/ PushFails(w) \/ PushFreed(w) \/ pthread_kill(w)

(* The thread of the selector goes on; pselect has a time limit.             *)
Spec == Init /\ [][Next]_vars /\ WF_vars(Loop)

-----------------------------------------------------------------------------
(* Properties.                                                              *)

Job == [worker : Workers, fd : Numbers]

(* Every variable has its type.                                              *)
TypeOK ==
    /\ item \in [Numbers -> {None} \cup SUBSET Events]
    /\ fd_size \in 0 .. ITEMS_MAX_SIZE + 1 /\ max_fd \in Numbers
    /\ master \in [Events -> SUBSET Numbers] /\ slave \in [Events -> SUBSET Numbers]
    /\ pc \in {"out", "copied", "asleep", "failed", "iterate", "notify", "walk",
               "destroyed", "beyond", "moved", "freed"}
    /\ moved \in Numbers \cup {None}
    /\ jobs \in Seq(Job) /\ walk \in Seq(Job) /\ pending \in BOOLEAN
    /\ worker \in [Workers -> [at : {"idle", "working", "pushed"}, fd : Numbers]]
    /\ due \subseteq Workers
    /\ open \subseteq Numbers

(* The sets and the limit given to pselect are those of the descriptors that  *)
(* are registered and of what they are registered for, after any order of     *)
(* register, set_interest and unregister by handlers in the middle of a scan *)
(* (items_update_fdset_for_fd and items_max_fd keep them up to date).        *)
SetsAgree ==
    /\ \A e \in Events : master[e] = {fd \in Numbers : Used(fd) /\ e \in item[fd]}
    /\ max_fd = Max({0} \cup {fd \in Numbers : Used(fd)})
    /\ \A fd \in Numbers : Used(fd) => fd < fd_size /\ ~INVALID_FD(fd)

(* The thread never sleeps over a job: one is in the list only if the signal  *)
(* that will wake it is pending or about to be sent (selector_init blocks    *)
(* it, and only pselect lets it in).                                         *)
NoLostWakeup ==
    pc = "asleep" /\ jobs # <<>> => pending \/ \E w \in Workers : worker[w].at = "pushed"

(* A job put in the list is told to whoever is registered then, whatever      *)
(* worker pushes while the list is walked, or the selector ends.             *)
Told(w) == w \in due ~> w \notin due \/ pc \in {"failed", "destroyed", "beyond", "moved", "freed"}

(* "garantizar cierta cantidad de elemenos en `fds'" (selector.c:240);         *)
(* refuted when fd equals fd_size: register asks for it with >, not >=.      *)
NeverBeyond == pc # "beyond"

(* "Los handlers no se tienen que preocupar por la concurrencia"               *)
(* (selector.h:27); refuted: a handle_read that registers may move the array *)
(* under the scan, and a worker may outlive the selector.                    *)
NeverMoved == pc # "moved"
NeverFreed == pc # "freed"

(* "se bloquea hasta que hay eventos disponible y los despacha"               *)
(* (selector.h:174); refuted: a number closed and given again during the scan *)
(* gets the event of the file it was before.                                 *)
OwnEvents ==
    [][\A g \in Numbers : pc = "iterate" /\ ~Used(g) /\ item'[g] # None
          => \A e \in Events : <<g, e>> \notin Left']_vars

(* "notifica que un trabajo bloqueante termino" (selector.h:188); refuted: the *)
(* job of one is told to another, registered at its number since.            *)
JobsOf(g) == {w \in Workers : worker[w].at = "working" /\ worker[w].fd = g}
             \cup {w \in due : \E k \in DOMAIN jobs : jobs[k] = [worker |-> w, fd |-> g]}
OwnJobs == [][\A g \in Numbers : ~Used(g) /\ item'[g] # None => JobsOf(g) = {}]_vars

-----------------------------------------------------------------------------
(* The inductive invariant.                                                 *)

Registered == {fd \in Numbers : Used(fd)}

(* max_fd is the greatest of those registered, or 0 ...                      *)
MaxOK == max_fd \in {0} \cup Registered /\ \A fd \in Registered : fd <= max_fd

(* ... each of which has an entry of the array.                              *)
Fits == \A fd \in Registered : fd < fd_size /\ fd < ITEMS_MAX_SIZE

SetsOK == \A e \in Events : master[e] = {fd \in Registered : e \in item[fd]}

(* Whoever put a job in the list wakes the thread, from before it copies the *)
(* sets until it sleeps.                                                     *)
WillWake ==
    pc \in {"out", "copied", "asleep"} /\ jobs # <<>> =>
        pending \/ \E w \in Workers : worker[w].at = "pushed"

IInv == TypeOK /\ MaxOK /\ Fits /\ SetsOK /\ WillWake

=============================================================================
