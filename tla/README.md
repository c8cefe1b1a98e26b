# The POP3 server: specifications, model checking and proofs

The repository is a POP3 server (`src/src/server`), a monitoring client for its
manager port (`src/src/client`), a byte buffer and a parser shared with other
course projects (`src/src/shared`), and parts that are not built
(`src/src/ignore`, `src/src/stash`). The server is one process with one poll
loop; every RETR and LOGG forks a child that sends a file. It is built with
`-std=c11 -fsanitize=address` (`Makefile.inc`), so an access out of bounds, to
freed memory, or a second free ends the process. The specifications treat it so.

Sections: 1 the system; 2 the modules; 3 what the runs check; 4 bounds and
fairness; 5 what is proved; 6 where the code and its documents differ; 7 what is
not modelled; 8 the plan.

## 1. The system

| Component | State | Operations | Hard part |
|---|---|---|---|
| Poll loop and client table (`server/main.c`) | `pollfds[]`, `clients[]`, `client_count`, metrics | poll, scan, accept/`add_client`, `handle_client`, `handle_close_client`, SIGINT | two parallel arrays kept by hand; a close moves the last client in the middle of a scan; clients act between any two steps |
| Line framing (`handle_client`, `pop3.c:765-801, 1058-1067`) | `buff`, `command`, `recv_buffer` | receive a chunk, cut it in lines, keep the rest | TCP cuts anywhere; unchecked `strcpy`/`strcat` |
| Sessions and commands (`pop3.c`) | state, user, mailbox of each session; configuration; metrics | USER PASS STAT LIST RETR DELE RSET NOOP QUIT; TRAN DIRR HOST METR INFO LOGG PORT IPV6 | sessions share the directories; the user may change in mid session; a manager changes the configuration in mid session |
| Mailbox (`struct maildir`) | three lists of files with a deleted flag | load, number, search, mark, unmark | one numbering over three lists |
| Update state at QUIT (`delete_marked`, `destroy_maildir`) | the lists, as linked nodes | remove files, unlink, free | pointers to freed nodes |
| File transfer (`send_file_process`) | forked children, their transformations, the pipe between the two, the clients' sockets | fork, open, send, transform, end marker | children run beside the server and the clients and hold copies of every descriptor; they fail without telling anybody |
| Byte buffer (`shared/buffer.c`) | array, read and write pointers | write, read, advance, compact, reset | where the pointers meet |
| Listener reconfiguration (`update_server_address`) | `pollfds[0]`, the bound address | PORT, IPV6 | a bind that fails; descriptors used again in the same scan |
| Monitoring client (`client/`) | connection status, last answer | send command, receive answer, verify status | one recv taken for one answer |
| Parser engine (`shared/parser.c`, `ignore/parser_utils.c`) | state, event | feed, reset | signed letters, the table's last entry; linked in but called by nobody |
| Command line (`shared/args.c`) | users, ports, directories | parse | runs once, before the server starts |
| Selector (`ignore/selector.c`, run by `stash/main_ejemplo.c`) | table of descriptors, sets for `pselect`, list of jobs | register, unregister, set interest, select, notify | handlers change the table under the scan; worker threads notify at any moment; not built |
| State machine, SOCKS request, netutils (`ignore/`) | | | not built |

How they interact. The loop polls the listeners and the clients' sockets;
an event of a listener adds a client, an event of a client calls
`handle_client` for the record of that client. `handle_client` receives once,
cuts lines, executes each, and the loop closes the client if its state became
CLOSING. Commands read and change the session's mailbox, the shared
configuration, the metrics, and (QUIT) the directories. RETR and LOGG fork; the
child reads the configuration it was forked with and the directories as they
are when it opens its file. The monitor is a client of the manager port.

What makes each part correct: the arrays describe the same clients and no
descriptor is lost or closed early; whatever is sent is read and executed, one
command a line, as it was sent; a session only ever works on the mail of the user whose
password it gave; a number means one mail for every command; QUIT removes
the marked mails and no others, once, and frees every node; a mail that is sent arrives whole
and by itself, whoever else is served or leaves; nothing but
a commit removes a mail; the counters agree with what happened; bytes leave a
buffer in the order they came. The list of what is hard to test, line by line,
is "hazards" in `PROJECT.json`.

## 2. The modules

Each specification module names in its comments the functions it is taken from,
and "map" in `PROJECT.json` gives the lines of every definition. Definitions
headed "Faulty variant" are plausible bugs, used to show that each property can
fail; no specification uses them.

**ClientTable** is `main.c`'s loop. `fd`, `revents` are `pollfds[]`; `cli_socket`,
`client_state`, `ip`, `recv_buffer` are the fields of `clients[]` that outlive a
call; `pc` and `i` say where the loop is (`loop` the test of `done`, `poll`,
`scan` at entry `i`, `recv` and `serve` inside `handle_client`, `close`). One
action per step another party can observe, so that clients connect, send and
leave, and SIGINT comes, between any two. A connection is its own descriptor:
closing twice is harmless in this process as no step between
the two closes opens one (see section 7). `queue`, `sock` and `inbox` are the kernel: the
backlogs, the state of each connection, the bytes sent and not received, here
items (`line`, `quit`, `part`); a line is answered by no send, one or several. `live` is the set of allocated address blocks;
`AfterSend` is what TCP does when the server writes to a peer that is gone.
`peak` is a ghost, and so is `swapped`: for each close that moved a client, the connection closed and the one moved. The move copies
the record before the address is freed, so it is the moved client's address that is freed and the closed one's that is lost.
The process ends in one of `aborted` (memory error), `killed`
(SIGPIPE), `failed` (`exit` when the log file cannot be opened), `exit`.

**LineFraming** is the same `handle_client` byte by byte, for one connection: `Receive`
(one `recv`), `Character`, `Line`, `EndOfChunk`. `stream` is what the peer sent,
`executed` a ghost of the lines executed, `cuts` and `tidy` ghosts that
remember which of them came in at most two parts. `command` is a local variable of the
C function and is reset at every call, `recv_buffer` is what outlives it.

**Maildrop** holds the operators of the mailbox: numbering (`DirOf`, `PlaceOf`,
`Listed`), marking (`Mark`, `UnmarkAll`), RETR's search (`Found`, `Searched`),
and which lists leave a dangling pointer (`Dangles`).

**UpdateState** is QUIT's walk at the level of pointers, one action per turn of a
loop, over any mailbox with any marks. `i` counts the entries kept, exactly as in
the code: the head is moved only while it is 0. An entry is two blocks of memory, the node (`freed`) and the name `strdup` made for it
(`unnamed`, the entries whose name is freed): `delete_marked` frees the first, `destroy_user_list` both. That it goes wrong exactly for
`DanglingAfterDelete` is what Pop3Session takes from it (`up'` in `Quit`).

**Pop3Session** has one action per command over all sessions, the disk, the
configuration, the metrics and the children. The children are here for whose mail they are told to open; how they send it is
Transfer's, a fork that fails is in both. A command is atomic: the server
has one thread, and nobody but the children and the delivery of mail changes what
it reads meanwhile. Passwords are named by the user they belong to; `authed` is a ghost
with the user whose password was accepted. `user` and `mailbox` change
separately, as in the code, so that USER in mid session is a
real hazard here. `Orders` is `readdir`'s freedom.

**Transfer** is what happens between the "+OK n octets" of a RETR and the end marker. The server (`up`, `at` the client it is executing a
command of, `cli_socket` the connections it has open), the clients (`here`, `todo` the commands sent, `typed` how many) and a
process table `child` run at their own pace. A child is in `open`, `copy` or `pump`, `mark`, as it goes through `send_file`; `left`
is what is left of its file or of the output of its transformation, which is a process of its own (`filter`) behind a pipe; `holds` is
the connections of which both have copies, everything the server had open at the fork. `stream` is what has arrived at a client and is unread; a
send waits while that is full, or is the sender's end, or is lost, if the client has left. The failures are actions or disjuncts: fork in `Retr`,
`open`, `pipe` and the second fork in `OpenFails`, `read` in `ReadFails`, `send` in `Killed`, the end of the server in `Down`. A child whose send
fails leaves its transformation behind (`killed`), which holds the reading end of its own pipe and so never gets SIGPIPE. Ghosts: `expect` is what
a client that waits for each answer is waiting for, `lost` the clients a transfer could not be started for, and `whole` in
an end marker says if all of the file, unchanged, came before it. Mails are counted in blocks.

**MailStore** is the abstract specification: sessions open the mailbox of a user, mark mails,
unmark, and end with a goodbye or without one; only a goodbye removes mails, exactly
those marked. Pop3Session refines it through `Holds` and `Marks`, which are
computed from session state (`StoreSpec`), and the ghost `bye`, the sessions whose last
command was a QUIT that was answered: without it a peer that leaves could not be told from one that quits.

**Buffer** is `buffer.c` as it is used, **ByteQueue** what it promises (bytes leave in order, once).

**Listener** is `update_server_address` called from the middle of the scan, with descriptors as numbers: `open`
says which socket each number is, and a new socket gets the lowest free one, so that a number closed may be the next
client's or the next listener's. `server_socket` is `main`'s variable, `server_fd` is `pollfds[0].fd`, `server_addr`
the address `bind` is called with: three places that should tell the same and are written at different moments of a call that may
fail. A transfer is a child that holds every socket open when it was forked, so a listener the server closed may go on
existing and exclude its address. `scan` is the set of entries poll reported and the loop has not come to.
The table of clients is `cli_socket` only; its moves are ClientTable's.

**Monitor** is the monitoring client and the manager's end of the server. `stream` is what was sent to the client, in
pieces: an answer is a head and a tail, a log is its text and the two parts of `.\r\n`; a `recv` takes any beginning of it.
`handle_client` answers one command; LOGG also forks `send_file`. `gone` is a server that closed the
connection or ended. Two ghosts: `slipped` (an answer was cut, or not waited for, since a log was last seen to end) and
`stuck` (the end of a log was cut, or no child could be forked to send it).

**ParserEngine** is `parser.c` running the table built by `parser_utils_strcmpi`: `States` is the table, `Taken` the first
transition of a row that takes the byte. `fed` is a ghost of the bytes since the last reset.

**Selector** is `ignore/selector.c`: the table `item`, the sets `master` and their copy `slave`, the size of the array. The
loop's thread goes through `selector_select`, `pselect`, `handle_iteration`, `handle_block_notifications`; a handler does any
one of the things the header allows (`Handles`), in the middle of the scan. `slave` holds what the scan has not come to.
Workers are inside `selector_notify_block`, between the lock and the signal. Where the code touches memory that is not its
own (`beyond`, `moved`, `freed`) the behaviour stops.

`MCShared` runs Buffer or ParserEngine, one of them in each behaviour. `MC*.tla` give the constants their values, `MC*.cfg` the bounds and the
properties; `*_proofs.tla` hold the theorems, `Shared_proofs` those of Buffer and of ParserEngine, the shared code, `Pop3Session_proofs` also the lemmas on
Maildrop's operators.

## 3. What the runs check

| Run | Properties | What it shows |
|---|---|---|
| ClientTable | `Aligned` `NoSocketLost` `IpIsOwn` `ManagerPrivilege` `MetricsLag` `OthersUntouched` | three POP3 connections and one manager in three slots, 1.58 million states: the arrays never part, no connection is lost, the manager privilege follows its connection through every move, a close or a command leaves the other records as they were |
| ClientTableChunks | `HandlesHeldSlot` `AddressesSwapped` | three connections that send several items at once, whole lines or parts of one, and a process limit of three descriptors, 2.4 million states: `handle_client` only runs for a slot in use; the addresses freed while their client is in the table are exactly those of the clients moved, the ones never freed exactly those of the clients closed by those moves |
| ClientTableLive | `ClosesOnlyFinished` `OneIsAccepted` `OneIsReceived` | three connections in two slots, QUIT and SIGINT at any moment: what waits is accepted, what is sent is read, unless the server is down or asleep in `recv`; no connection is closed early |
| UpdateState | `RemovesMarked` `AbortsIffDangling` `LeaksDeletedNames` | every mailbox of three lists of at most three entries with any marks: which files go, when the walk reads freed memory, and that when it is over every node is freed once and the names never freed are those of the deleted entries |
| Pop3Session | `OnlyOwnMail` `TransfersOwnMail` `StoreSpec` | two sessions, two users one of whose names begins the other's, mails of the same name |
| Pop3SessionManager | `NumbersAgree` `RetrAgreesIff` | a session and a manager, mail in two directories, two mails in one of them, mail that arrives, a user without directories: LIST and DELE number alike, and when exactly RETR's number is theirs |
| Transfer | `AnswersIntact` `OneAnswerComes` `OneQuitIsSeen` | two clients, two children, with and without transformation, 420 thousand states: a client that waits for each answer gets its mail from one child, the octets announced and then the marker, whatever its former children, other clients or the server do; the answer comes to its end unless the transfer could not be started; a connection the server closes is closed for the client, unless an orphaned transformation holds it |
| LineFraming | `InBounds` `LinesCounted` `TailKept` `LinesExact` `LinesServed` | any cut of up to sixteen bytes into receives of one to four: one command a line, its end always, the whole line if it came in at most two parts with CR LF in one |
| Shared | `EmptyHasRoom` `QueueSpec` `Verdict` | a buffer of four bytes, every operation; and, as the two share nothing, the parser apart from it: words of up to three letters, any bytes, resets |
| Listener | `NoDescriptorLost` `PollsItsAddress` `NeverTakesOver` `OneIsHeard` | two clients, a manager, a transfer, up to two new listeners, 145 thousand states: numbers that are given again never make one socket pass for another; what is polled is the newest listener, at the address kept; a client that waits there is accepted unless PORT or IPV6 takes the listener away |
| Monitor | `InStep` `LogUnmixed` `ComesBack` | up to five commands typed, two forks, answers cut anywhere, a server that may end at any moment: the client is in step with the server unless an answer was cut or not waited for, and always gets back to its operator but for a log |
| Selector | `SetsAgree` `NoLostWakeup` `OneIsTold` | handlers that change the table under the scan, a table that grows, two workers, 640 thousand states |

The properties that hold although the code around them does not do what it should:
`MetricsLag` says by exactly how much METR's maximum is wrong;
`AbortsIffDangling` says exactly which marks end the server at QUIT; `RetrAgreesIff` says exactly when RETR sends the
mail LIST names; `NeverTakesOver` says which PORT and IPV6 can never succeed; `ComesBack` names the one command the monitor
may wait for without end;
`TailKept` says what is left of a command cut in three;
`AddressesSwapped` says exactly which addresses are freed under their client and which are leaked, `LeaksDeletedNames` which names are leaked;
`OneAnswerComes` and `OneQuitIsSeen` name the transfers and connections that are lost. They are what a change to this code must not make worse.

Every module but the abstract two has a type invariant, `TypeOK` (in ParserEngine `ParserTypeOK`: its names differ from Buffer's so that `Shared_proofs` can extend both), which is a theorem; the runs leave it out. Transfer, about which nothing is proved, has a `TypeOK` too, which TLC checked on its run's configuration. The inductive invariants of section 5 that
state something about the system (ClientTable's `SocketInv`, Monitor's and Selector's `IInv`) were checked by TLC on these same
configurations before they were proved.

Each property of a passing run fails for at least one of the faulty variants
("mutants" in `PROJECT.json`).

No run checks for deadlock. A server nobody talks to waits in `poll`, the clients
of the bounded instances have nothing more to do, a QUIT that is over is over, and a process that has ended takes no
step: all of these are proper states. That the server does not stop when it
should go on is what the liveness properties say.

## 4. Bounds and fairness

* ClientTable: `MAX_CLIENTS` 3, four connections. Three slots are the least in which the closed, the
  moved and an uninvolved client are different ones; the fourth connection meets the full table. QUIT is the only item
  here: the others do not change the table. `MAX_SOCKETS` 4 is above the table's size, so that the overflow of the
  table is what happens. Connections to one port are interchangeable; that symmetry is used for safety only.
* ClientTableChunks: chunks of two items, none of them QUIT, so that a second answer may meet a peer that is gone;
  `MAX_SOCKETS` 3 leaves no descriptor for the log once three clients are held, the `failed` case.
* ClientTableLive: the third connection takes a slot whose `revents` is stale, which two cannot do, so that the
  loop really may sleep in `recv`. The two properties about a connection are checked for one, `a`: the specification does not tell
  connections to one port apart. One SIGINT: a second one kills the
  process (`signal()` in this build resets the handler) and is not modelled.
* UpdateState: a list of three entries has every pattern of kept before deleted before kept; the
  proofs cover any length.
* Pop3Session: `MaxArg` 3 in Pop3SessionManager is the longest listing there, and out of range until the
  last mail has arrived. Two mails in one directory, so that RETR can send another mail than the one listed. `MaxMessages` and
  `MaxTransfers` 1 there: what a child does after the fork is Transfer's; `MaxLen` 1: an argument of length 0 and one that is not. Only users who have
  their directories can log in; `Homeless` is the other case.
* Transfer: mails of two blocks, so that one can be cut; a transformation's output of two, and `PipeSize` 1, so that it may
  have to wait for a child that is gone; `Window` 1, so that every sender waits for the client. Two children
  at a time, for two clients or for one: `c1` types two commands, so it may quit or ask for another mail before or after the first has come,
  while `c2` is sent one. The liveness properties are about `c1`, the one that can do all of it.
* LineFraming: `BUFFER_SIZE` 5 and command names of two bytes (1024 and 4 in the code): a line
  may take several receives and a receive several lines. `MaxSent` 16 is three or four lines.
* Shared: `N` four bytes, of three values.
  The parser's words are over a digit, an upper-case and a lower-case letter and a byte above 127; `MaxFed` one more than the longest word.
* Listener: `Fds` five numbers: two listeners, two clients, and one free for the new socket while the old one is open.
  `MaxUpdates` 2, so that a listener is replaced, and the one that replaced it too, with a number used before. The numbers
  PORT gets are the port there is, a free one, the manager's, 0, and two that do not fit sixteen bits; the addresses
  `in6addr_any`, one of the host, one that is not, and a text that is none. One transfer at a time.
* Monitor: `MaxTyped` 5: a LOGG after two commands that put the client out of step, and two after it. `MaxForks` 2: the
  third LOGG finds no process left.
* Selector: `ITEMS_MAX_SIZE` 4 and an array that begins with two entries; the numbers 2 (the array's size) and 3 (beyond it) show
  both ways of growing. Interests are none or both. Two workers, so that one pushes while the job of the other is told;
  `OneIsTold` is for one of them, they are interchangeable.

Fairness. ClientTable: weak fairness of the server's steps together, that is of one process the system keeps
running; a step of a call that sleeps is not enabled, so nothing is assumed of
`recv`. Nothing is assumed of clients, nor of SIGINT; that SIGINT ends the loop is not promised (`SignalEnds`, refuted). Liveness is therefore always "or
the server is down, or it sleeps in `recv`", which the code does not exclude
(`NeverBlocksInRecv`). LineFraming: weak fairness of receiving what is there (poll is level
triggered and always finds it) and of parsing (a loop without waits).
Listener: the server's steps together; a manager, a client or a child need never act, but poll
reports a waiting connection each time, and the scan comes to the listener first. Monitor: the client's steps that wait for no operator, the server's
answers, and the children; nothing is assumed of the operator. Selector: the loop's thread, whose `pselect` has a time limit
(`master_t`), so `Returned` is possible without events; nothing is assumed of workers. Transfer: the server, each child and each transformation
is scheduled, and a client that stays goes on reading; nothing is assumed of what clients type or when they leave.

Two of these are about a server that is not asleep in `recv` for another client, which ClientTable shows it may be
(`NeverBlocksInRecv`): the server's answers in Monitor, and `Serve` in Transfer. `ComesBack`, `OneAnswerComes` and `OneQuitIsSeen` are liveness of
the protocol between server and client, given a loop that comes round.

## 5. What is proved

TLAPS checks, for every value of the constants the assumptions allow (any number of slots, connections, users, sessions,
mails, commands, workers, any sizes, any messages), every safety invariant the runs check but Transfer's, the two action properties and
the two refinements. A theorem is about its module's `Spec`, hypotheses other than the module's own assumptions are named
below. The assumptions are the least the code needs: sizes and limits are positive (`MAX_CLIENTS`, `MAX_SOCKETS`,
`ITEMS_MAX_SIZE`; `BUFFER_SIZE` at least 2), values that stand for different things differ.

Most invariants are not inductive as they stand. What each proof adds, and why:

* **ClientTable** (`TableAssumption`). First `TypeOK`, `Aligned`, `HandlesHeldSlot`, `IpIsOwn`, `MetricsLag`, by `IInv`: it adds
  `QueuesApart`, a connection waits in one queue once, and not while it is in the table; without it `Accept` could put a socket
  in the table that is there already. `HandlesHeldSlot` needs `Aligned`: only an entry in use has a descriptor that can be
  ready, so a stale `revents` past the end is what has to be excluded. Then `NoSocketLost`, `ManagerPrivilege`,
  `AddressesSwapped`, by `SocketInv`, which adds what ties the arrays to the kernel: a queue holds connections to its own port,
  none closed (`PortsApart`, from which the newcomer's mark is right); a connection open and not waiting is in the table, and
  one in the table is open unless it is at hand to be closed (`SocketsKept`; the close between QUIT and `handle_close_client` is its
  exception); a client is closed only when it is due (`CloseIsDue`); the loop goes on only with a descriptor left (`RoomForLog`); and of each swap the
  closed one is gone for good and the moved one still in the table, as its own close would be a second free (`SwappedApart`).
  The action properties `OthersUntouched` and `ClosesOnlyFinished` follow step by step from these invariants: every step is either
  quiet (`QuietTable`, `QuietRecords`, `QuietSockets`), or it accepts or closes, and of these two `AcceptTable` and `CloseTable` say where each
  record went.
* **UpdateState** (`ListsAssumption`): `TypeOK`, `RemovesMarked`, `AbortsIffDangling`, `LeaksDeletedNames` for lists of any
  length. `IInv` says how far each list was walked (`Walked`), that the head is the first kept entry or
  the first not walked (`HeadOK`), that `i` is 0 exactly while all entries walked were deleted (`CountOK`), that what
  is removed is what was walked and marked (`RemovedOK`), and what `destroy_maildir` has freed
  (`FreedOK`, `NamesOK`, `AbortOK`).
* **Pop3Session** (`SessionAssumption`): `TypeOK`, `OnlyOwnMail`, `TransfersOwnMail`, `NoDuplicates`, `NumbersAgree`,
  `RetrAgreesIff`, from lemmas on numbering and marking; `StoreSpec`: the sessions implement MailStore, one lemma per command
  showing that it is a step of MailStore or leaves its variables alone.
* **LineFraming** (`FramingAssumption`): `TypeOK`, `InBounds` (the unchecked copies fit, for any peer and
  any cut), `LinesCounted` (one command a line), and with `LinesInv` `TailKept` and `LinesExact`. `LinesInv` says where the parser stands in the
  stream (`Framed`): what is in hand is the part of the stream from a place in the current line to the character read last, and
  that place is the line's beginning while fewer than two receives ended inside it (`cuts`); and that every line executed ended at its LF (`Ended`).
* **Buffer** (`BufferAssumption`): `TypeOK`, `EmptyHasRoom`, and `QueueSpec`: Buffer implements ByteQueue under the hypothesis
  `~OnDemand`, that nobody compacts a buffer that holds bytes and reads on. That is how `buffer.c` is used: it compacts itself when it is
  empty, and where `pop3.c:1056` compacts with bytes unread the buffer is freed next. With `OnDemand` the refinement is false, `CompactKeeps` shows the bytes cleared. Both pointers at the same place
  reset each other, so the lemma about reading (`ReadTakes`) has to show that nothing was left behind them.
* **ParserEngine** (`ParserAssumption`): `ParserTypeOK` and `Verdict`, for words and inputs of any length. The invariant ties the state
  to what was fed: state k, k below the word's length, exactly while the k bytes fed agree with the word.
* **Listener** (`ListenerAssumption`): `TypeOK`, `NoDescriptorLost`, `PollsItsAddress`, `NeverTakesOver` for any number of clients, children
  and updates. `IInv` adds `QueuesApart` (a connection waits in one place once, and not while it is a client: otherwise it could be accepted
  twice and its first descriptor be lost), `PortsOK` (a port the kernel chose is no other's), `ScanOK` (what poll reported of the
  listener holds until the scan is there, as it comes first) and `ClosingOK`.
* **Monitor** (`MonitorAssumption`): `TypeOK`, `InStep`, `LogUnmixed`, for any number of commands and of forks. `InStep` is about the prompt only; what makes it
  true is what is under way everywhere else, while the server is there (`UnderWay`): a LOGG is the last thing asked and its child the only one,
  the client in `log` meanwhile (`LogAsked`, `InLog`); the end of a log is the last piece there is (`LogEnding`), so
  that a client that has seen it has taken all, however far it was behind; and a client that has not slipped has just
  one command out or just its answer coming (`OneAnswer`).
* **Selector** (`SelectorAssumption`): `TypeOK`, `SetsAgree`, `NoLostWakeup`, for any table and any number of workers. The incremental
  updates are shown right one by one: `max_fd` is in use and no number in use is above it (`MaxOK`), what is registered fits the array
  (`Fits`), the sets are those of the registered (`SetsOK`). `NoLostWakeup` is about sleep, `WillWake` about all the way
  there, from before the sets are copied: a worker that pushed has still to signal, or its signal is pending, blocked until `pselect`.

Model-checked only: Transfer, and the eight liveness properties `OneIsAccepted`, `OneIsReceived`, `LinesServed`,
`OneIsHeard`, `ComesBack`, `OneIsTold`, `OneAnswerComes`, `OneQuitIsSeen`. They rest on fairness and ENABLED, out of reach of the installed provers. So is induction over data by
the library's theorems, whose operator parameter no installed prover can take: nothing is proved that needs what a
recursive definition computes for every input. Where a greatest or least number is needed (Selector) the lemma `LeastNumber` takes it from the set itself. No module declares a RECURSIVE operator.

## 6. Where the code and its documents differ

Pinned down by a property that holds: METR's maximum (`MetricsLag`), the addresses freed under their client and those never freed
(`AddressesSwapped`), the names never freed (`LeaksDeletedNames`), the transfers and the connections that are lost (`OneAnswerComes`, `OneQuitIsSeen`), the
QUITs that read a freed entry (`AbortsIffDangling`), RETR's numbering (`RetrAgreesIff`), what becomes of a CR in a chunk of its own (`LinesExact`), a PORT or IPV6 that
fails (`PollsItsAddress`, `NeverTakesOver`).

The modules state the claims of the documents themselves, each with its source in the comment, and TLC refutes them when the
property is put in a configuration as follows; no configuration is kept for them:

| Configuration | Refuted |
|---|---|
| MCClientTable.cfg | `NoMemoryError`, `MaxIsPeak`, `SurvivesCrowd` |
| MCClientTableChunks.cfg | `ResidueIsOwn`, `SurvivesLeavers` |
| MCClientTableLive.cfg | `NeverBlocksInRecv`, `SignalEnds` |
| MCUpdateState.cfg | `QuitCompletes`, `FreesWhole` |
| MCPop3Session.cfg, the users listed the other way round | `NameSelectsUser` |
| MCPop3SessionManager.cfg | `RetrIsListed`, `AlwaysAnswers`, `QuitApplies`, `SettingsTake`, and for the user without directories `LoginSurvives` |
| MCTransfer.cfg | `EndIsWhole`, `CountedIsSent`, `AlwaysClosed`, `EndAlwaysComes` |
| MCLineFraming.cfg | `SplitAccepted`, `NothingLost`, `ReadBehindWrite` |
| MCShared.cfg, `OnDemand = TRUE` | `CompactKeeps` |
| MCListener.cfg | `AlwaysHears`, `InfoIsCurrent` |
| MCMonitor.cfg | `LogEnds`, `OnlineAnswered` |
| MCShared.cfg | `TakesEveryByte`, `OwnTextMatches` |
| MCSelector.cfg | `NeverBeyond`, `NeverMoved`, `NeverFreed`, `OwnEvents`, `OwnJobs` |

"findings" in `PROJECT.json` quotes what the documents say.

## 7. What is not modelled

* PORT and IPV6 only answer in Pop3Session, and `fd[0]` never changes in ClientTable; Listener has what they do. So `Aligned`'s
  first conjunct is about a server whose listener stays, and Listener's `NoDescriptorLost` about one whose listener does not. In Listener
  `socket`, `setsockopt` and `listen` do not fail, `bind` does.
* `accept` failing, and `add_client` returning -1: the first changes nothing, the second cannot happen (the overflow ends the
  process before `client_count` passes `MAX_CLIENTS`).
* Reuse of descriptor numbers in ClientTable, where a connection is its own descriptor; Listener has the numbers.
* Overflow of the metrics (`int`s that count to 2^31).
* The bytes of answers, except as pieces in Monitor and blocks in Transfer. In Transfer a client that sends a command before the last answer
  has come is out of what the properties promise: its children and the server may then write between one another's blocks.
* What a `recv` that fails or tells of the end leaves in `buff`, which `handle_client` walks all the same (`pop3.c:785`): what the frames of other
  functions left there is not modelled. What an earlier chunk left holds no line before its first NUL, so nothing of it is executed.
* The library inside a transformation: that its output is flushed, and its lengths in bytes.
* NUL bytes from a peer. LineFraming's streams have none. A four-letter command's missing argument
  reads as empty, because the buffer was compacted and cleared when its four bytes were read; Pop3Session has it as an absent
  argument.
* The command line (`args.c` runs once, before anything concurrent), `stm.c`, the SOCKS request parser and `netutils`, and the samples of
  `stash/` but for the loop of `main_ejemplo.c`: none of them is built into the server but `args.c`.
* In Selector, `selector_fd_set_nio`, allocation failures at `selector_new`, and handlers that call `selector_notify_block` themselves.

## 8. Plan

Done since the first version: Listener, Monitor, ParserEngine, Selector, Transfer, with their runs in place of those that only showed a known
difference. What is left, in this order:

1. *NUL bytes* in LineFraming: a third kind of byte that ends the walk of a chunk, and which whole commands are dropped with it.
2. *Pop3Server*: ClientTable's close composed with Pop3Session's slots, so that a moved record keeps its mailbox.
3. Proofs: `AnswersIntact`, for any number of clients and children. The inductive invariant has to say which one process owes each client
   the rest of its answer. About item 2: the composition would carry `OnlyOwnMail` over to the slots.
4. The user list built by `args.c`; Stm.
