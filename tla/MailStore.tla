------------------------------ MODULE MailStore ------------------------------
(***************************************************************************)
(* What the server promises about the mails it keeps, whatever its sessions *)
(* do: a session opens the mailbox of one user, marks mails of that user,   *)
(* may take the marks back, and ends either by a goodbye, which removes      *)
(* exactly the mails it marked, or without one, which removes nothing.       *)
(* Nothing else removes a mail, and only a goodbye is told.                  *)
(***************************************************************************)
CONSTANTS Sessions, Users, Mails, Owner(_), None

VARIABLES disk,        \* the mails stored
          due,         \* mails that have not arrived yet
          reachable,   \* whether the store is where the server looks for it
          holds,       \* the user whose mailbox a session has open, or None
          marks,       \* the mails a session has marked
          bye          \* the sessions that ended with a goodbye

vars == <<disk, due, reachable, holds, marks, bye>>

Init ==
    /\ due \in SUBSET Mails /\ disk = Mails \ due
    /\ reachable = TRUE
    /\ holds = [s \in Sessions |-> None]
    /\ marks = [s \in Sessions |-> {}]
    /\ bye = {}

Arrive ==
    /\ \E p \in due : disk' = disk \cup {p} /\ due' = due \ {p}
    /\ UNCHANGED <<reachable, holds, marks, bye>>

Begin(s) ==
    /\ holds[s] = None /\ bye' = bye \ {s}
    /\ UNCHANGED <<disk, due, reachable, holds, marks>>

Open(s) ==
    /\ holds[s] = None /\ reachable
    /\ \E u \in Users : holds' = [holds EXCEPT ![s] = u]
    /\ UNCHANGED <<disk, due, reachable, marks, bye>>

Mark(s) ==
    /\ \E p \in Mails : /\ holds[s] = Owner(p)
                        /\ marks' = [marks EXCEPT ![s] = @ \cup {p}]
    /\ UNCHANGED <<disk, due, reachable, holds, bye>>

Unmark(s) ==
    /\ marks' = [marks EXCEPT ![s] = {}]
    /\ UNCHANGED <<disk, due, reachable, holds, bye>>

Abandon(s) ==
    /\ holds' = [holds EXCEPT ![s] = None]
    /\ marks' = [marks EXCEPT ![s] = {}]
    /\ UNCHANGED <<disk, due, reachable, bye>>

Leave(s) ==
    /\ holds[s] = None /\ bye' = bye \cup {s}
    /\ UNCHANGED <<disk, due, reachable, holds, marks>>

Commit(s) ==
    /\ holds[s] # None
    /\ disk' = IF reachable THEN disk \ marks[s] ELSE disk
    /\ holds' = [holds EXCEPT ![s] = None]
    /\ marks' = [marks EXCEPT ![s] = {}]
    /\ bye' = bye \cup {s}
    /\ UNCHANGED <<due, reachable>>

Move ==
    /\ reachable' = FALSE
    /\ UNCHANGED <<disk, due, holds, marks, bye>>

Next == \/ Arrive \/ Move
        \/ \E s \in Sessions : \/ Begin(s) \/ Open(s) \/ Mark(s) \/ Unmark(s)
                               \/ Abandon(s) \/ Leave(s) \/ Commit(s)

Spec == Init /\ [][Next]_vars

=============================================================================
