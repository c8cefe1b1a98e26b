----------------------------- MODULE UpdateState -----------------------------
(***************************************************************************)
(* What QUIT does to the mailbox of a session in TRANSACTION: delete_marked *)
(* walks the lists new, cur, tmp, removes the files of the deleted entries  *)
(* and frees the entries, not their names; destroy_maildir then frees what  *)
(* is left, names too, walking cur, new, tmp.  One action per turn of a     *)
(* loop, at the level of the pointers, so that a list of any length is      *)
(* covered.                                                                 *)
(*                                                                         *)
(* A node is its place in the list as it was loaded; delete_marked writes no *)
(* next field, so the next of a node never changes.                          *)
(***************************************************************************)
EXTENDS Integers, Sequences, Maildrop

CONSTANT Lists     \* the lists a directory may have been loaded as

ASSUME ListsAssumption == Lists \subseteq Seq(file_list)

Null == 0

VARIABLES
    box,       \* the mailbox as loaded and marked
    pc,        \* "delete", "destroy", then "done" or "aborted"
    dir,       \* the directory the loop is at
    aux,       \* the node the loop is at
    i,         \* delete_marked: entries of this list kept so far
    head,      \* header->list of each directory
    size,      \* header->size of each directory
    freed,     \* nodes given back to the heap
    unnamed,   \* nodes whose name, a block of its own, was given back
    removed    \* nodes whose file remove() was called on

vars == <<box, pc, dir, aux, i, head, size, freed, unnamed, removed>>

Nodes == UNION {{<<d, k>> : k \in 1 .. Len(box[d])} : d \in Dirs}

next(d, k) == IF k < Len(box[d]) THEN k + 1 ELSE Null

First(d) == IF Len(box[d]) = 0 THEN Null ELSE 1

TypeOK ==
    /\ box \in [Dirs -> Lists]
    /\ pc \in {"delete", "destroy", "done", "aborted"}
    /\ dir \in Dirs
    /\ aux \in 0 .. Len(box[dir])
    /\ i \in Nat
    /\ head \in [Dirs -> Nat]
    /\ size \in [Dirs -> Int]
    /\ freed \subseteq Nodes
    /\ unnamed \subseteq Nodes
    /\ removed \subseteq Nodes

Init ==
    /\ box \in [Dirs -> Lists]
    /\ pc = "delete" /\ dir = "new" /\ aux = First("new") /\ i = 0
    /\ head = [d \in Dirs |-> First(d)]
    /\ size = [d \in Dirs |-> Len(box[d])]
    /\ freed = {} /\ unnamed = {} /\ removed = {}

-----------------------------------------------------------------------------
(* delete_marked                                                            *)

(* Faulty variants: the head moved past every deleted entry; the entry after *)
(* a deleted one skipped.                                                    *)
DeleteMovesHead ==
    /\ pc = "delete" /\ aux # Null /\ box[dir][aux].deleted
    /\ removed' = removed \cup {<<dir, aux>>}
    /\ head' = [head EXCEPT ![dir] = next(dir, aux)]
    /\ freed' = freed \cup {<<dir, aux>>}
    /\ aux' = next(dir, aux)
    /\ size' = [size EXCEPT ![dir] = @ - 1]
    /\ UNCHANGED <<box, pc, dir, i, unnamed>>

DeleteSkipsNext ==
    /\ pc = "delete" /\ aux # Null /\ box[dir][aux].deleted
    /\ removed' = removed \cup {<<dir, aux>>}
    /\ head' = IF i = 0 THEN [head EXCEPT ![dir] = next(dir, aux)] ELSE head
    /\ freed' = freed \cup {<<dir, aux>>}
    /\ aux' = IF next(dir, aux) = Null THEN Null ELSE next(dir, next(dir, aux))
    /\ size' = [size EXCEPT ![dir] = @ - 1]
    /\ UNCHANGED <<box, pc, dir, i, unnamed>>

(* The node is freed, the name it points at (strdup in create_file_list) not. *)
Delete ==
    /\ pc = "delete" /\ aux # Null /\ box[dir][aux].deleted
    /\ removed' = removed \cup {<<dir, aux>>}
    /\ head' = IF i = 0 THEN [head EXCEPT ![dir] = next(dir, aux)] ELSE head
    /\ freed' = freed \cup {<<dir, aux>>}
    /\ aux' = next(dir, aux)
    /\ size' = [size EXCEPT ![dir] = @ - 1]
    /\ UNCHANGED <<box, pc, dir, i, unnamed>>

Keep ==
    /\ pc = "delete" /\ aux # Null /\ ~box[dir][aux].deleted
    /\ i' = i + 1
    /\ aux' = next(dir, aux)
    /\ UNCHANGED <<box, pc, dir, head, size, freed, unnamed, removed>>

(* Faulty variant: the count of kept entries carried from one list to the     *)
(* next.                                                                     *)
DeleteNextDirKeepsCount ==
    /\ pc = "delete" /\ aux = Null
    /\ pc'  = IF dir = "tmp" THEN "destroy" ELSE "delete"
    /\ dir' = CASE dir = "new" -> "cur" [] dir = "cur" -> "tmp" [] OTHER -> "cur"
    /\ aux' = head[dir']
    /\ UNCHANGED <<box, i, head, size, freed, unnamed, removed>>

(* The end of a list: the next directory, then destroy_maildir.              *)
DeleteNextDir ==
    /\ pc = "delete" /\ aux = Null
    /\ pc'  = IF dir = "tmp" THEN "destroy" ELSE "delete"
    /\ dir' = CASE dir = "new" -> "cur" [] dir = "cur" -> "tmp" [] OTHER -> "cur"
    /\ aux' = head[dir']
    /\ i' = 0
    /\ UNCHANGED <<box, head, size, freed, unnamed, removed>>

-----------------------------------------------------------------------------
(* destroy_maildir: destroy_user_list of cur, new, tmp.                     *)

Destroy ==
    /\ pc = "destroy" /\ aux # Null /\ <<dir, aux>> \notin freed
    /\ unnamed' = unnamed \cup {<<dir, aux>>}
    /\ freed' = freed \cup {<<dir, aux>>}
    /\ aux' = next(dir, aux)
    /\ UNCHANGED <<box, pc, dir, i, head, size, removed>>

(* The entry was freed by delete_marked: reading its next ends the process.  *)
DestroyFreed ==
    /\ pc = "destroy" /\ aux # Null /\ <<dir, aux>> \in freed
    /\ pc' = "aborted"
    /\ UNCHANGED <<box, dir, aux, i, head, size, freed, unnamed, removed>>

DestroyNextDir ==
    /\ pc = "destroy" /\ aux = Null
    /\ pc'  = IF dir = "tmp" THEN "done" ELSE "destroy"
    /\ dir' = CASE dir = "cur" -> "new" [] OTHER -> "tmp"
    /\ aux' = IF dir = "tmp" THEN Null ELSE head[dir']
    /\ UNCHANGED <<box, i, head, size, freed, unnamed, removed>>

-----------------------------------------------------------------------------
Next == Delete \/ Keep \/ DeleteNextDir \/ Destroy \/ DestroyFreed \/ DestroyNextDir

Spec == Init /\ [][Next]_vars

-----------------------------------------------------------------------------
(* Properties.                                                              *)

(* When delete_marked returns, the files removed are those of the marked     *)
(* entries, each and only those, in every directory.                         *)
RemovesMarked == pc # "delete" => removed = Marked(box)

(* QUIT touches a freed entry only when some list had a marked entry behind  *)
(* a kept one; and in that case it always does.                              *)
AbortsIffDangling ==
    /\ pc = "aborted" => DanglingAfterDelete(box)
    /\ pc = "done"    => ~DanglingAfterDelete(box)

(* When destroy_maildir returns, every node of every list was freed, and what *)
(* is leaked is the name of each mail that was deleted, and of no other.     *)
LeaksDeletedNames == pc = "done" => freed = Nodes /\ Nodes \ unnamed = Marked(box)

(* The report (p. 3): at QUIT the server deletes the marked mails, confirms  *)
(* it and closes the connection; it must not go down doing so.               *)
QuitCompletes == pc # "aborted"

(* pop3.c:508: "libero la memoria de la lista del archivo", the memory of the *)
(* file's entry is freed.                                                    *)
FreesWhole == freed \subseteq unnamed

-----------------------------------------------------------------------------
(* The inductive invariant: how far delete_marked is in each list, what it   *)
(* made of the part it walked, and what destroy_maildir walked since.        *)

deleted(d, k) == box[d][k].deleted

Walked(d) ==
    IF pc # "delete" THEN Len(box[d])
    ELSE IF d = dir THEN (IF aux = Null THEN Len(box[d]) ELSE aux - 1)
    ELSE IF dir = "tmp" \/ (dir = "cur" /\ d = "new") THEN Len(box[d]) ELSE 0

(* The head is the first kept entry, or the first not yet walked.            *)
HeadOK(d) ==
    \/ \E j \in 1 .. Walked(d) :
         /\ ~deleted(d, j) /\ head[d] = j
         /\ \A l \in 1 .. j - 1 : deleted(d, l)
    \/ /\ \A l \in 1 .. Walked(d) : deleted(d, l)
       /\ head[d] = IF Walked(d) < Len(box[d]) THEN Walked(d) + 1 ELSE Null

CountOK == pc = "delete" => (i = 0 <=> \A l \in 1 .. Walked(dir) : deleted(dir, l))

RemovedOK ==
    \A d \in Dirs : \A k \in 1 .. Len(box[d]) :
        <<d, k>> \in removed <=> (k <= Walked(d) /\ deleted(d, k))

(* Lists destroy_maildir is through with.                                    *)
Destroyed(d) == \/ pc = "done"
                \/ pc \in {"destroy", "aborted"} /\ (dir = "tmp" \/ (dir = "new" /\ d = "cur"))
                     /\ d # dir

(* The list destroy_maildir is at: what it passed is freed, and of that      *)
(* delete_marked had freed only what stands before the head.                 *)
Reached == IF aux = Null THEN Len(box[dir]) + 1 ELSE aux

DestroyingOK ==
    /\ \A k \in 1 .. Len(box[dir]) :
         /\ k < Reached  => <<dir, k>> \in freed
         /\ k >= Reached => (<<dir, k>> \in freed <=> deleted(dir, k))
         /\ head[dir] # Null /\ head[dir] <= k /\ k < Reached => ~deleted(dir, k)
         /\ head[dir] = Null => deleted(dir, k)
    /\ head[dir] = Null \/ head[dir] <= Reached
    /\ aux # Null => head[dir] # Null

FreedOK ==
    /\ \A d \in Dirs : Destroyed(d) =>
         ~Dangles(box[d]) /\ \A k \in 1 .. Len(box[d]) : <<d, k>> \in freed
    /\ pc \in {"destroy", "aborted"} => DestroyingOK
    /\ \A d \in Dirs : ~Destroyed(d) /\ (pc = "delete" \/ d # dir) =>
         \A k \in 1 .. Len(box[d]) : <<d, k>> \in freed <=> <<d, k>> \in removed

(* Only destroy_user_list frees names: of what is freed, those not marked.   *)
NamesOK == \A d \in Dirs : \A k \in 1 .. Len(box[d]) :
               <<d, k>> \in unnamed <=> <<d, k>> \in freed /\ ~deleted(d, k)

AbortOK == pc = "aborted" => /\ aux # Null /\ deleted(dir, aux)
                             /\ \E j \in 1 .. aux : ~deleted(dir, j)

IInv == /\ TypeOK
        /\ \A d \in Dirs : HeadOK(d)
        /\ CountOK /\ RemovedOK /\ FreedOK /\ NamesOK /\ AbortOK

=============================================================================
