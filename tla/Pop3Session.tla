----------------------------- MODULE Pop3Session -----------------------------
(***************************************************************************)
(* The sessions of src/server/pop3.c over the mail directories they share:  *)
(* one action per command of handle_client, with everything it calls.        *)
(* Commands are atomic, the server being one thread; the child processes     *)
(* that RETR and LOGG fork open their file later, on their own.  A session   *)
(* is a slot of clients[]: a new connection finds in it what the previous    *)
(* one left.  What the poll loop does around a command is ClientTable; how   *)
(* QUIT walks its lists is UpdateState; what a child puts on the socket is    *)
(* Transfer; PORT and IPV6 only answer here.                                 *)
(*                                                                           *)
(* A password is named by the user it belongs to.                            *)
(***************************************************************************)
EXTENDS Integers, Sequences, FiniteSets, Maildrop

CONSTANTS Sessions,      \* slots of clients[]
          Managers,      \* those only manager connections use
          user_list,     \* the user names, in the order of the command line
          Typed,         \* what may be typed after USER
          Begins,        \* for each of those, the users whose name begins so
          Exact,         \* the user whose whole name it is, or None
          Mails,         \* mails that ever exist: <<user, directory, name>>
          Late,          \* those that arrive while the server runs
          Size,          \* the octets of each
          Homeless,      \* users one of whose directories does not exist
          TransBinary,   \* whether the server was started with -T
          MaxArg,        \* bound: the highest message number asked for
          MaxMessages,   \* bound: mails RETR counts in all
          MaxTransfers,  \* bound: child processes at one time
          MaxLen,        \* bound: characters of the argument of DIRR and HOST
          LogFile,       \* connections.log
          None           \* a NULL user

Users == {user_list[k] : k \in DOMAIN user_list}

ASSUME SessionAssumption ==
    /\ IsFiniteSet(Names)
    /\ Managers \subseteq Sessions
    /\ user_list \in Seq(Users)
    /\ Begins \in [Typed -> SUBSET Users]
    /\ Exact \in [Typed -> Users \cup {None}]
    /\ Mails \subseteq Users \X Dirs \X Names
    /\ Late \subseteq Mails
    /\ Size \in [Mails -> Nat]
    /\ Homeless \subseteq Users
    /\ TransBinary \in BOOLEAN
    /\ MaxArg \in Nat /\ MaxMessages \in Nat /\ MaxTransfers \in Nat /\ MaxLen \in Nat
    /\ LogFile \notin Mails /\ None \notin Users

Numbers == -1 .. MaxArg

VARIABLES
    client_state, user,          \* clients[]: "free" is a slot not in use
    mailbox,                     \* clients[]: the lists PASS loaded
    base_dir,                    \* "root", or "" once DIRR emptied it
    trans_enabled,
    total_messages, total_bytes, \* metrics
    disk, due,                   \* mails stored, mails still to arrive
    transfers,                   \* child processes that have not opened their file
    up,                          \* the server process runs
    answered,                    \* the last command got an answer
    bye,                         \* ghost: sessions whose QUIT was answered
    authed                       \* ghost: the user whose password was last accepted

session == <<client_state, user, mailbox, authed, bye>>
config  == <<base_dir, trans_enabled>>
metrics == <<total_messages, total_bytes>>
store   == <<disk, due>>
vars == <<session, config, metrics, store, transfers, up, answered>>

Job == [path : Mails \cup {LogFile}, base : {"root", ""}, as : Users \cup {None}]

TypeOK ==
    /\ client_state \in [Sessions -> {"free", "AUTHORIZATION", "TRANSACTION", "MANAGER"}]
    /\ user \in [Sessions -> Users \cup {None}]
    /\ mailbox \in [Sessions -> maildir]
    /\ base_dir \in {"root", ""}
    /\ trans_enabled \in BOOLEAN
    /\ total_messages \in Nat /\ total_bytes \in Nat
    /\ disk \subseteq Mails /\ due \subseteq Mails
    /\ transfers \in Seq(Job)
    /\ up \in BOOLEAN
    /\ answered \in BOOLEAN
    /\ bye \subseteq Sessions
    /\ authed \in [Sessions -> Users \cup {None}]

NoBox == [d \in Dirs |-> <<>>]

Init ==
    /\ client_state = [s \in Sessions |-> "free"]
    /\ user = [s \in Sessions |-> None]
    /\ mailbox = [s \in Sessions |-> NoBox]
    /\ base_dir = "root" /\ trans_enabled = TransBinary
    /\ total_messages = 0 /\ total_bytes = 0
    /\ disk = Mails \ Late /\ due = Late
    /\ transfers = <<>>
    /\ up = TRUE /\ answered = TRUE
    /\ authed = [s \in Sessions |-> None] /\ bye = {}

-----------------------------------------------------------------------------
(* Connections come and go (main.c); a peer that leaves without QUIT leaves  *)
(* its mailbox behind in the slot.                                           *)

Connected(s) == up /\ client_state[s] # "free"
Trans(s)     == up /\ client_state[s] = "TRANSACTION"

Connect(s) ==
    /\ up /\ client_state[s] = "free"
    /\ client_state' = [client_state EXCEPT ![s] =
                          IF s \in Managers THEN "MANAGER" ELSE "AUTHORIZATION"]
    /\ user' = [user EXCEPT ![s] = None]
    /\ authed' = [authed EXCEPT ![s] = None]
    /\ bye' = bye \ {s}
    /\ answered' = TRUE
    /\ UNCHANGED <<mailbox, config, metrics, store, transfers, up>>

(* Faulty variant: a mailbox left without QUIT is applied.                   *)
PeerClosesCommits(s) ==
    /\ Connected(s)
    /\ disk' = disk \ (IF Trans(s)
                       THEN {<<user[s], x[1], mailbox[s][x[1]][x[2]].name>> :
                               x \in Marked(mailbox[s])}
                       ELSE {})
    /\ client_state' = [client_state EXCEPT ![s] = "free"]
    /\ user' = [user EXCEPT ![s] = None]
    /\ UNCHANGED <<mailbox, authed, bye, config, metrics, due, transfers, up, answered>>

PeerCloses(s) ==
    /\ Connected(s)
    /\ client_state' = [client_state EXCEPT ![s] = "free"]
    /\ user' = [user EXCEPT ![s] = None]
    /\ UNCHANGED <<mailbox, authed, bye, config, metrics, store, transfers, up, answered>>

-----------------------------------------------------------------------------
(* Authorization.                                                           *)

(* client_validation: the first user whose name begins with what was typed.  *)
FirstMatch(t, k) ==
    /\ user_list[k] \in Begins[t]
    /\ \A j \in 1 .. k - 1 : user_list[j] \notin Begins[t]

(* Faulty variant: the state kept.                                           *)
DeauthorizedNever(s)   == client_state

(* A USER without a name, or with an unknown one, still ends TRANSACTION and *)
(* leaves the user as it was.                                                *)
Deauthorized(s) == [client_state EXCEPT ![s] = IF @ = "MANAGER" THEN @ ELSE "AUTHORIZATION"]

(* Faulty variant: only an unknown name ends TRANSACTION.                    *)
UserStays(s, t) ==
    /\ Connected(s)
    /\ \E k \in DOMAIN user_list : FirstMatch(t, k) /\ user' = [user EXCEPT ![s] = user_list[k]]
    /\ answered' = TRUE
    /\ UNCHANGED <<client_state, mailbox, authed, bye, config, metrics, store, transfers, up>>

User(s, t) ==
    /\ Connected(s)
    /\ \E k \in DOMAIN user_list : FirstMatch(t, k) /\ user' = [user EXCEPT ![s] = user_list[k]]
    /\ client_state' = Deauthorized(s)
    /\ answered' = TRUE
    /\ UNCHANGED <<mailbox, authed, bye, config, metrics, store, transfers, up>>

UserRefused(s) ==
    /\ Connected(s)
    /\ client_state' = Deauthorized(s)
    /\ answered' = TRUE
    /\ UNCHANGED <<user, mailbox, authed, bye, config, metrics, store, transfers, up>>

PasswordValid(s, p) == user[s] # None /\ p = user[s]

(* create_file_list: the files of a directory, in any order readdir gives.   *)
InDir(u, d) == {n \in Names : <<u, d, n>> \in disk}

Orders(S) == {o \in [1 .. Cardinality(S) -> S] : \A j, k \in DOMAIN o : o[j] = o[k] => j = k}

Loaded(u, order) ==
    [d \in Dirs |-> [k \in 1 .. Len(order[d]) |->
        [name |-> order[d][k], size |-> Size[<<u, d, order[d][k]>>], deleted |-> FALSE]]]

DirsExist(u) == base_dir = "root" /\ u \notin Homeless

Pass(s, p) ==
    /\ up /\ client_state[s] = "AUTHORIZATION" /\ PasswordValid(s, p)
    /\ DirsExist(user[s])
    /\ client_state' = [client_state EXCEPT ![s] = "TRANSACTION"]
    /\ \E new \in Orders(InDir(user[s], "new")), cur \in Orders(InDir(user[s], "cur")),
          tmp \in Orders(InDir(user[s], "tmp")) :
         mailbox' = [mailbox EXCEPT ![s] =
                       Loaded(user[s], [d \in Dirs |-> CASE d = "new" -> new
                                                         [] d = "cur" -> cur
                                                         [] OTHER     -> tmp])]
    /\ authed' = [authed EXCEPT ![s] = p]
    /\ answered' = TRUE
    /\ UNCHANGED <<user, bye, config, metrics, store, transfers, up>>

(* A directory that cannot be opened gives a NULL list, whose size is then   *)
(* written.                                                                  *)
PassAborts(s, p) ==
    /\ up /\ client_state[s] = "AUTHORIZATION" /\ PasswordValid(s, p)
    /\ ~DirsExist(user[s])
    /\ up' = FALSE /\ answered' = TRUE
    /\ UNCHANGED <<session, config, metrics, store, transfers>>

-----------------------------------------------------------------------------
(* The mailbox.                                                             *)

(* Commands that answer and change nothing: NOOP; STAT, LIST and LIST -1 in  *)
(* TRANSACTION; for a manager INFO, METR, PORT and IPV6; and                  *)
(* whatever is refused, a command unknown or of another state, an argument    *)
(* absent, zero or out of range.                                             *)
AnswerOnly(s) ==
    /\ Connected(s)
    /\ answered' = TRUE
    /\ UNCHANGED <<session, config, metrics, store, transfers, up>>

(* LIST n: one line, or, out of range, no answer at all.                     *)
ListOne(s, n) ==
    /\ Trans(s) /\ n \notin {0, -1}
    /\ answered' = InRange(mailbox[s], n)
    /\ UNCHANGED <<session, config, metrics, store, transfers, up>>

PathOf(s, d, e) == <<user[s], d, e.name>>

(* fork(2) may fail: nothing is started, and nobody is told.                 *)
Fork(path, as) ==
    transfers' \in {transfers, Append(transfers, [path |-> path, base |-> base_dir, as |-> as])}

Retr(s, n) ==
    /\ Trans(s) /\ Found(mailbox[s], n)
    /\ total_messages < MaxMessages /\ Len(transfers) < MaxTransfers
    /\ LET e == Searched(mailbox[s], n)
       IN  /\ total_messages' = total_messages + 1
           /\ total_bytes' = total_bytes + e.size
           /\ Fork(PathOf(s, SearchDir(mailbox[s], n), e), authed[s])
    /\ answered' = TRUE
    /\ UNCHANGED <<session, config, store, up>>

Dele(s, n) ==
    /\ Trans(s) /\ InRange(mailbox[s], n)
    /\ mailbox' = [mailbox EXCEPT ![s] = Mark(@, n)]
    /\ answered' = TRUE
    /\ UNCHANGED <<client_state, user, authed, bye, config, metrics, store, transfers, up>>

Rset(s) ==
    /\ Trans(s)
    /\ mailbox' = [mailbox EXCEPT ![s] = UnmarkAll(@)]
    /\ answered' = TRUE
    /\ UNCHANGED <<client_state, user, authed, bye, config, metrics, store, transfers, up>>

MarkedPaths(s) == {PathOf(s, x[1], mailbox[s][x[1]][x[2]]) : x \in Marked(mailbox[s])}

(* QUIT answers first.  In TRANSACTION it then removes the marked files and  *)
(* frees the lists, which may be the end of the process (UpdateState).       *)
Quit(s) ==
    /\ Trans(s)
    /\ disk' = IF base_dir = "root" THEN disk \ MarkedPaths(s) ELSE disk
    /\ up' = ~DanglingAfterDelete(mailbox[s])
    /\ client_state' = [client_state EXCEPT ![s] = "free"]
    /\ user' = [user EXCEPT ![s] = None]
    /\ mailbox' = [mailbox EXCEPT ![s] = NoBox]
    /\ answered' = TRUE
    /\ bye' = bye \cup {s}
    /\ UNCHANGED <<authed, config, metrics, due, transfers>>

QuitElsewhere(s) ==
    /\ Connected(s) /\ ~Trans(s)
    /\ client_state' = [client_state EXCEPT ![s] = "free"]
    /\ user' = [user EXCEPT ![s] = None]
    /\ bye' = bye \cup {s}
    /\ answered' = TRUE
    /\ UNCHANGED <<mailbox, authed, config, metrics, store, transfers, up>>

-----------------------------------------------------------------------------
(* Manager commands.                                                        *)

Manager(s) == up /\ client_state[s] = "MANAGER"

Tran(s, on) ==
    /\ Manager(s)
    /\ trans_enabled' = on
    /\ answered' = TRUE
    /\ UNCHANGED <<session, base_dir, metrics, store, transfers, up>>

(* DIRR and HOST copy an argument of len characters and its terminator into  *)
(* calloc(1, len), which the allocator rounds up to one byte when len is 0.  *)
Fits(len) == len + 1 <= (IF len = 0 THEN 1 ELSE len)

(* The directory that takes is the empty one: paths become relative to the   *)
(* working directory of the server.                                          *)
Dirr(s, len) ==
    /\ Manager(s)
    /\ up' = Fits(len) /\ answered' = Fits(len)
    /\ base_dir' = IF Fits(len) THEN "" ELSE base_dir
    /\ UNCHANGED <<session, trans_enabled, metrics, store, transfers>>

Host(s, len) ==
    /\ Manager(s)
    /\ up' = Fits(len) /\ answered' = Fits(len)
    /\ UNCHANGED <<session, config, metrics, store, transfers>>

Logg(s) ==
    /\ Manager(s) /\ Len(transfers) < MaxTransfers
    /\ Fork(LogFile, None)
    /\ answered' = TRUE
    /\ UNCHANGED <<session, config, metrics, store, up>>

-----------------------------------------------------------------------------
(* A child process opens its file or does not find it, sends it as far as it  *)
(* can, and ends (Transfer).  It outlives the session and the server, and     *)
(* changes nothing of theirs.                                                *)

Without(k) == SubSeq(transfers, 1, k - 1) \o SubSeq(transfers, k + 1, Len(transfers))

Transfer(k) ==
    /\ transfers' = Without(k)
    /\ UNCHANGED <<session, config, metrics, store, up, answered>>

(* Mail is delivered into the directories by others.                         *)
Arrive(p) ==
    /\ disk' = disk \cup {p} /\ due' = due \ {p}
    /\ UNCHANGED <<session, config, metrics, transfers, up, answered>>

Command(s) ==
    \/ \E t \in Typed : User(s, t)
    \/ UserRefused(s)
    \/ \E p \in Users : Pass(s, p) \/ PassAborts(s, p)
    \/ AnswerOnly(s) \/ Rset(s) \/ Quit(s) \/ QuitElsewhere(s)
    \/ \E n \in Numbers : ListOne(s, n) \/ Retr(s, n) \/ Dele(s, n)
    \/ \E on \in BOOLEAN : Tran(s, on)
    \/ \E len \in 0 .. MaxLen : Dirr(s, len) \/ Host(s, len)
    \/ Logg(s)

Next == \/ \E s \in Sessions : Connect(s) \/ PeerCloses(s) \/ Command(s)
        \/ \E k \in DOMAIN transfers : Transfer(k)
        \/ \E p \in due : Arrive(p)

Spec == Init /\ [][Next]_vars

-----------------------------------------------------------------------------
(* Properties.                                                              *)

(* A session in TRANSACTION works on the mailbox of the user whose password  *)
(* it gave: USER in the middle of a session changes user but not maildir,    *)
(* and paths are made of both.                                               *)
OnlyOwnMail ==
    \A s \in Sessions : client_state[s] = "TRANSACTION" =>
        /\ user[s] = authed[s] /\ user[s] # None
        /\ \A d \in Dirs : \A k \in 1 .. Len(mailbox[s][d]) :
             /\ PathOf(s, d, mailbox[s][d][k]) \in Mails
             /\ mailbox[s][d][k].size = Size[PathOf(s, d, mailbox[s][d][k])]

(* A child process sends a mail only to who gave its owner's password.       *)
TransfersOwnMail ==
    \A k \in DOMAIN transfers :
        transfers[k].path # LogFile => transfers[k].path[1] = transfers[k].as

(* No entry of the mailbox of a session appears twice, so a number names one *)
(* mail and marking it marks one file.                                       *)
NoDuplicates ==
    \A s \in Sessions : client_state[s] = "TRANSACTION" =>
        \A d \in Dirs : \A j, k \in 1 .. Len(mailbox[s][d]) :
            mailbox[s][d][j].name = mailbox[s][d][k].name => j = k

(* What the sessions do to the mails is what MailStore promises: a session   *)
(* in TRANSACTION holds its user's mailbox and the marks in it.              *)
Holds == [s \in Sessions |-> IF client_state[s] = "TRANSACTION" THEN user[s] ELSE None]

Marks == [s \in Sessions |-> IF client_state[s] = "TRANSACTION" THEN MarkedPaths(s) ELSE {}]

Store == INSTANCE MailStore WITH Owner <- LAMBDA p : p[1], reachable <- base_dir = "root",
                                 holds <- Holds, marks <- Marks

StoreSpec == Store!Spec

(* LIST, DELE and the listing agree on which mail a number names, through    *)
(* two subtractions and three lists; and DELE marks that mail and no other.  *)
NumbersAgree ==
    \A s \in Sessions : client_state[s] = "TRANSACTION" =>
        LET m == mailbox[s]
        IN  /\ Len(Listing(m)) = Amount(m)
            /\ \A n \in 1 .. Amount(m) :
                 /\ Listed(m, n) = Listing(m)[n]
                 /\ Listing(Mark(m, n)) = [Listing(m) EXCEPT ![n].deleted = TRUE]

(* RETR n sends the message LIST calls n exactly when that one is in the      *)
(* first list that is not empty: search_file counts from one in every list,  *)
(* LIST and DELE subtract the sizes of the lists before.                     *)
Before(d) == IF d = "new" THEN {} ELSE IF d = "cur" THEN {"new"} ELSE {"new", "cur"}

RetrAgreesIff ==
    \A s \in Sessions : client_state[s] = "TRANSACTION" =>
        LET m == mailbox[s]
        IN  \A n \in 1 .. Amount(m) :
              LET d == DirOf(m, n)
              IN  (Found(m, n) /\ SearchDir(m, n) = d /\ PlaceOf(m, n) = n)
                    <=> (\A e \in Before(d) : m[e] = <<>>)

(* The report (p. 3): LIST lists the messages, RETR downloads one, DELE      *)
(* marks one; the number of a message is the same for all of them.           *)
RetrIsListed ==
    \A s \in Sessions : client_state[s] = "TRANSACTION" =>
        LET m == mailbox[s]
        IN  \A n \in 1 .. Amount(m) : Found(m, n) /\ Searched(m, n) = Listing(m)[n]

(* A command is answered (list_messages returns -1 "out of range", which     *)
(* nobody looks at).                                                         *)
AlwaysAnswers == up => answered

(* The report (p. 3): QUIT applies the pending deletions.                    *)
QuitApplies == [][\A s \in Sessions : Quit(s) => disk' \cap MarkedPaths(s) = {}]_vars

(* The comment at pop3.c:709: a directory missing, go on all the same.       *)
LoginSurvives ==
    [][up /\ (\A s \in Sessions : client_state[s] \in {"free", "AUTHORIZATION"}) => up']_vars

(* The usage text (args.c): every user given with -u can use the server; the *)
(* full name of a user selects that user.                                    *)
NameSelectsUser ==
    [][\A s \in Sessions, t \in Typed :
         User(s, t) /\ Exact[t] # None => user'[s] = Exact[t]]_vars

(* The report (p. 4): host and base directory can be changed at run time.    *)
SettingsTake ==
    [][\A s \in Sessions, len \in 0 .. MaxLen : Dirr(s, len) \/ Host(s, len) => up']_vars

=============================================================================
