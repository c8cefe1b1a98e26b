------------------------------ MODULE Maildrop ------------------------------
(***************************************************************************)
(* The mailbox a session holds in memory (struct maildir of                 *)
(* src/server/pop3.h): one list of files per directory, each entry with its *)
(* name, its size and a deleted flag.  The operators are the functions of    *)
(* pop3.c that number, mark and sum the entries; a linked list is a          *)
(* sequence.                                                                 *)
(***************************************************************************)
EXTENDS Integers, Sequences

CONSTANT Names    \* file names

Dirs      == {"new", "cur", "tmp"}
file_list == [name : Names, size : Nat, deleted : BOOLEAN]
maildir   == [Dirs -> Seq(file_list)]

Amount(m)  == Len(m["new"]) + Len(m["cur"]) + Len(m["tmp"])

(* The order of the full listing (list_directory on new, cur, tmp): message  *)
(* n is the n-th entry of it.                                                *)
Listing(m) == m["new"] \o m["cur"] \o m["tmp"]

-----------------------------------------------------------------------------
(* LIST n and DELE n: which list message n is in, and its place there.  The  *)
(* sizes of the lists before are subtracted.                                 *)

DirOf(m, n) == IF n <= Len(m["new"]) THEN "new"
               ELSE IF n <= Len(m["new"]) + Len(m["cur"]) THEN "cur" ELSE "tmp"

PlaceOf(m, n) == IF n <= Len(m["new"]) THEN n
                 ELSE IF n <= Len(m["new"]) + Len(m["cur"]) THEN n - Len(m["new"])
                 ELSE n - (Len(m["new"]) + Len(m["cur"]))

InRange(m, n) == n >= 1 /\ n <= Amount(m)

Listed(m, n) == m[DirOf(m, n)][PlaceOf(m, n)]

(* Faulty variant: the sizes of the lists before are not subtracted.         *)
MarkUnshifted(m, n) == [m EXCEPT ![DirOf(m, n)] =
    [k \in 1 .. Len(@) |-> [@[k] EXCEPT !.deleted = @ \/ k = n]]]

Mark(m, n) == [m EXCEPT ![DirOf(m, n)][PlaceOf(m, n)].deleted = TRUE]

(* RETR n (view_message): search_file looks for the n-th file of each list   *)
(* in turn, always counting from 1.                                          *)
Found(m, n) == \E d \in Dirs : n \in 1 .. Len(m[d])

(* Faulty variant: cur is searched before new.                               *)
SearchDirCurFirst(m, n) == IF n \in 1 .. Len(m["cur"]) THEN "cur"
                           ELSE IF n \in 1 .. Len(m["new"]) THEN "new" ELSE "tmp"

SearchDir(m, n) == IF n \in 1 .. Len(m["new"]) THEN "new"
                   ELSE IF n \in 1 .. Len(m["cur"]) THEN "cur" ELSE "tmp"

Searched(m, n) == m[SearchDir(m, n)][n]

-----------------------------------------------------------------------------
UnmarkAll(m) == [d \in Dirs |-> [k \in 1 .. Len(m[d]) |-> [m[d][k] EXCEPT !.deleted = FALSE]]]

Marked(m) == {e \in UNION {{<<d, k>> : k \in 1 .. Len(m[d])} : d \in Dirs} :
                m[e[1]][e[2]].deleted}

(* delete_marked frees a deleted entry and moves the head of the list past   *)
(* it as long as nothing was kept before; a kept entry goes on pointing at    *)
(* the deleted one behind it.  destroy_maildir then follows that pointer.    *)
Dangles(list) == \E j, k \in 1 .. Len(list) : j < k /\ ~list[j].deleted /\ list[k].deleted

DanglingAfterDelete(m) == \E d \in Dirs : Dangles(m[d])

=============================================================================
