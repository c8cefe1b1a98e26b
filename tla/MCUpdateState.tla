---------------------------- MODULE MCUpdateState ----------------------------
(* UpdateState on every mailbox whose lists have at most MaxLen entries.     *)
EXTENDS UpdateState

CONSTANT MaxLen    \* bound: entries of one list

MCLists == UNION {[1 .. n -> [name : Names, size : {1}, deleted : BOOLEAN]] : n \in 0 .. MaxLen}

=============================================================================
