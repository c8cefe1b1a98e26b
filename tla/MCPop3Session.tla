---------------------------- MODULE MCPop3Session ----------------------------
(***************************************************************************)
(* Pop3Session with two users, one of whose names begins the other's, and   *)
(* mails of the same name in both mailboxes.                                 *)
(***************************************************************************)
EXTENDS Pop3Session, TLC

CONSTANTS u1, u10,       \* the users: the name of u10 begins with that of u1
          a, b           \* file names

MCUsers  == <<u1, u10>>
MCTyped  == {"1", "10", "2"}
MCBegins == [t \in MCTyped |-> CASE t = "1" -> {u1, u10} [] t = "10" -> {u10} [] OTHER -> {}]
MCExact  == [t \in MCTyped |-> CASE t = "1" -> u1 [] t = "10" -> u10 [] OTHER -> None]

MCMails == {<<u1, "new", a>>, <<u1, "new", b>>, <<u10, "new", a>>}
MCSize  == [p \in Mails |-> IF p[3] = a THEN 1 ELSE 2]

(* One user, with mail in every directory.                                   *)
MCOne       == <<u1>>
MCOneTyped  == {"1"}
MCOneBegins == [t \in MCOneTyped |-> {u1}]
MCOneExact  == [t \in MCOneTyped |-> u1]
MCSpread    == {<<u1, "new", a>>, <<u1, "new", b>>, <<u1, "cur", a>>, <<u1, "tmp", b>>}
MCTwo       == {<<u1, "new", a>>, <<u1, "cur", a>>, <<u1, "cur", b>>}
MCLate      == {<<u1, "new", a>>}

SlotSymmetry == Permutations(Sessions)

=============================================================================
