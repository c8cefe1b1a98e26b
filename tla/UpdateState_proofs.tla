-------------------------- MODULE UpdateState_proofs --------------------------
(***************************************************************************)
(* What QUIT does to a mailbox, for lists of any length: the files removed  *)
(* are exactly the marked ones; the walk over the freed lists ends the       *)
(* process exactly when a marked entry stands behind a kept one; and what    *)
(* is leaked is the name of each deleted mail.                               *)
(***************************************************************************)
EXTENDS UpdateState, TLAPS

USE DEF Null

(* The lists of a mailbox are sequences of entries, whose lengths are        *)
(* natural numbers (create_file_list).                                       *)
LEMMA BoxFacts ==
    ASSUME TypeOK
    PROVE  /\ \A d \in Dirs : box[d] \in Seq(file_list) /\ Len(box[d]) \in Nat
           /\ dir \in Dirs /\ aux \in Nat /\ aux <= Len(box[dir])
<1>1. \A d \in Dirs : box[d] \in Seq(file_list)
  BY ListsAssumption DEF TypeOK
<1>2. \A d \in Dirs : Len(box[d]) \in Nat
  BY <1>1
<1>. QED  BY <1>1, <1>2 DEF TypeOK

(* The state QUIT starts from satisfies the invariant.                       *)
LEMMA InitInv == Init => IInv
<1>. SUFFICES ASSUME Init PROVE IInv
  OBVIOUS
<1>1. \A d \in Dirs : box[d] \in Seq(file_list)
  BY ListsAssumption DEF Init
<1>2. \A d \in Dirs : Len(box[d]) \in Nat
  BY <1>1
<1>3. TypeOK
  BY <1>2 DEF Init, TypeOK, First, Dirs, Nodes
<1>4. \A d \in Dirs : Walked(d) = 0
  BY <1>2 DEF Init, Walked, First, Dirs
<1>5. \A d \in Dirs : HeadOK(d)
  BY <1>2, <1>4 DEF Init, HeadOK, First
<1>6. CountOK /\ AbortOK
  BY <1>2, <1>4 DEF Init, CountOK, AbortOK, Dirs
<1>7. RemovedOK
  BY <1>2, <1>4 DEF Init, RemovedOK
<1>8. FreedOK
  BY <1>2 DEF Init, FreedOK, Destroyed
<1>9. NamesOK
  BY DEF Init, NamesOK
<1>. QED  BY <1>3, <1>5, <1>6, <1>7, <1>8, <1>9 DEF IInv

(* A turn of delete_marked at a deleted entry.                               *)
LEMMA DeleteInv == IInv /\ Delete => IInv'
<1>. SUFFICES ASSUME IInv, Delete PROVE IInv'
  OBVIOUS
<1>0. TypeOK
  BY DEF IInv
<1>1. /\ \A d \in Dirs : box[d] \in Seq(file_list) /\ Len(box[d]) \in Nat
      /\ dir \in Dirs /\ aux \in Nat /\ aux <= Len(box[dir]) /\ aux # 0
  BY <1>0, BoxFacts DEF Delete
<1>2. /\ pc = "delete" /\ pc' = "delete" /\ box' = box /\ dir' = dir /\ i' = i
      /\ aux' = (IF aux < Len(box[dir]) THEN aux + 1 ELSE 0)
      /\ deleted(dir, aux)
  BY DEF Delete, next, deleted
<1>3. TypeOK'
  <2>1. <<dir, aux>> \in Nodes
    BY <1>1 DEF Nodes
  <2>2. aux' \in 0 .. Len(box'[dir'])
    BY <1>1, <1>2
  <2>3. next(dir, aux) \in Nat
    BY <1>1 DEF next
  <2>4. Nodes' = Nodes
    BY <1>2 DEF Nodes
  <2>5. head' \in [Dirs -> Nat]
    <3>1. head \in [Dirs -> Nat]
      BY <1>0 DEF TypeOK
    <3>. QED  BY <1>1, <2>3, <3>1 DEF Delete
  <2>6. size' \in [Dirs -> Int]
    BY <1>0, <1>1 DEF TypeOK, Delete
  <2>7. freed' \subseteq Nodes' /\ unnamed' \subseteq Nodes' /\ removed' \subseteq Nodes'
    BY <1>0, <2>1, <2>4 DEF TypeOK, Delete
  <2>. QED  BY <1>0, <1>2, <2>2, <2>5, <2>6, <2>7 DEF TypeOK
<1>4. /\ \A d \in Dirs : d = dir => Walked(d) = aux - 1 /\ Walked(d)' = aux
      /\ \A d \in Dirs \ {dir} : Walked(d)' = Walked(d)
  BY <1>1, <1>2 DEF Walked
<1>5. ASSUME NEW d \in Dirs PROVE HeadOK(d)'
  <2>1. HeadOK(d)
    BY DEF IInv
  <2>2. CASE d # dir
    <3>1. head'[d] = head[d]
      BY <1>0, <2>2 DEF Delete, TypeOK
    <3>. QED  BY <1>2, <1>4, <2>1, <2>2, <3>1 DEF HeadOK, deleted
  <2>3. CASE d = dir /\ i = 0
    <3>1. \A l \in 1 .. aux - 1 : deleted(dir, l)
      BY <1>2, <1>4, <2>3 DEF IInv, CountOK
    <3>2. \A l \in 1 .. aux : deleted(dir, l)
      BY <1>1, <1>2, <3>1
    <3>3. head'[d] = IF aux < Len(box[d]) THEN aux + 1 ELSE 0
      BY <1>0, <1>1, <2>3 DEF Delete, TypeOK, next
    <3>. QED  BY <1>2, <1>4, <2>3, <3>2, <3>3 DEF HeadOK, deleted
  <2>4. CASE d = dir /\ i # 0
    <3>1. head' = head
      BY <2>4 DEF Delete
    <3>2. ~ \A l \in 1 .. aux - 1 : deleted(dir, l)
      BY <1>2, <1>4, <2>4 DEF IInv, CountOK
    <3>3. PICK j \in 1 .. aux - 1 : /\ ~deleted(d, j) /\ head[d] = j
                                    /\ \A l \in 1 .. j - 1 : deleted(d, l)
      BY <1>4, <2>1, <2>4, <3>2 DEF HeadOK
    <3>4. j \in 1 .. aux
      BY <1>1
    <3>. QED  BY <1>2, <1>4, <2>4, <3>1, <3>3, <3>4 DEF HeadOK, deleted
  <2>. QED  BY <2>2, <2>3, <2>4
<1>6. CountOK'
  <2>0. \A d \in Dirs : d = dir => Walked(d) = aux - 1
    BY <1>4
  <2>1. i = 0 <=> \A l \in 1 .. aux - 1 : deleted(dir, l)
    BY <1>1, <1>2, <2>0 DEF IInv, CountOK
  <2>2. (\A l \in 1 .. aux - 1 : deleted(dir, l)) <=> \A l \in 1 .. aux : deleted(dir, l)
    BY <1>1, <1>2
  <2>3. i = 0 <=> \A l \in 1 .. aux : box[dir][l].deleted
    BY <2>1, <2>2 DEF deleted
  <2>4. Walked(dir)' = aux
    BY <1>1, <1>2 DEF Walked
  <2>. QED  BY <1>2, <2>3, <2>4 DEF CountOK, deleted
<1>7. RemovedOK'
  <2>. SUFFICES ASSUME NEW d \in Dirs, NEW k \in 1 .. Len(box[d])
                PROVE  <<d, k>> \in removed' <=> (k <= Walked(d)' /\ deleted(d, k))
    BY <1>2 DEF RemovedOK, deleted
  <2>1. <<d, k>> \in removed <=> (k <= Walked(d) /\ deleted(d, k))
    BY DEF IInv, RemovedOK
  <2>2. removed' = removed \cup {<<dir, aux>>}
    BY DEF Delete
  <2>3. CASE d # dir
    BY <1>4, <2>1, <2>2, <2>3
  <2>4. CASE d = dir
    BY <1>1, <1>2, <1>4, <2>1, <2>2, <2>4
  <2>. QED  BY <2>3, <2>4
<1>8. FreedOK'
  <2>1. \A d \in Dirs : ~Destroyed(d) /\ ~Destroyed(d)'
    BY <1>2 DEF Destroyed
  <2>. SUFFICES ASSUME NEW d \in Dirs, NEW k \in 1 .. Len(box[d])
                PROVE  <<d, k>> \in freed' <=> <<d, k>> \in removed'
    BY <1>2, <2>1 DEF FreedOK
  <2>2. <<d, k>> \in freed <=> <<d, k>> \in removed
    BY <1>2, <2>1 DEF IInv, FreedOK
  <2>. QED  BY <2>2 DEF Delete
<1>9. AbortOK'
  BY <1>2 DEF AbortOK
<1>10. NamesOK'
  <2>. SUFFICES ASSUME NEW d \in Dirs, NEW k \in 1 .. Len(box[d])
                PROVE  <<d, k>> \in unnamed' <=> <<d, k>> \in freed' /\ ~deleted(d, k)
    BY <1>2 DEF NamesOK, deleted
  <2>1. <<d, k>> \in unnamed <=> <<d, k>> \in freed /\ ~deleted(d, k)
    BY DEF IInv, NamesOK
  <2>2. freed' = freed \cup {<<dir, aux>>} /\ unnamed' = unnamed
    BY DEF Delete
  <2>. QED  BY <1>2, <2>1, <2>2
<1>. QED  BY <1>3, <1>5, <1>6, <1>7, <1>8, <1>9, <1>10 DEF IInv

(* A turn of delete_marked at an entry that is kept.                         *)
LEMMA KeepInv == IInv /\ Keep => IInv'
<1>. SUFFICES ASSUME IInv, Keep PROVE IInv'
  OBVIOUS
<1>0. TypeOK
  BY DEF IInv
<1>1. /\ \A d \in Dirs : box[d] \in Seq(file_list) /\ Len(box[d]) \in Nat
      /\ dir \in Dirs /\ aux \in Nat /\ aux <= Len(box[dir]) /\ aux # 0
  BY <1>0, BoxFacts DEF Keep
<1>2. /\ pc = "delete" /\ pc' = "delete" /\ box' = box /\ dir' = dir
      /\ i' = i + 1 /\ i \in Nat
      /\ aux' = (IF aux < Len(box[dir]) THEN aux + 1 ELSE 0)
      /\ ~deleted(dir, aux)
      /\ head' = head /\ size' = size /\ freed' = freed /\ unnamed' = unnamed /\ removed' = removed
  BY <1>0 DEF Keep, next, deleted, TypeOK
<1>3. TypeOK'
  <2>1. aux' \in 0 .. Len(box'[dir'])
    BY <1>1, <1>2
  <2>2. Nodes' = Nodes
    BY <1>2 DEF Nodes
  <2>. QED  BY <1>0, <1>2, <2>1, <2>2 DEF TypeOK
<1>4. /\ \A d \in Dirs : d = dir => Walked(d) = aux - 1 /\ Walked(d)' = aux
      /\ \A d \in Dirs \ {dir} : Walked(d)' = Walked(d)
  BY <1>1, <1>2 DEF Walked
<1>5. ASSUME NEW d \in Dirs PROVE HeadOK(d)'
  <2>1. HeadOK(d)
    BY DEF IInv
  <2>2. CASE d # dir
    BY <1>2, <1>4, <2>1, <2>2 DEF HeadOK, deleted
  <2>3. CASE d = dir /\ \A l \in 1 .. aux - 1 : deleted(d, l)
    <3>1. head[d] = aux
      BY <1>1, <1>4, <2>1, <2>3 DEF HeadOK
    <3>2. aux \in 1 .. Walked(d)'
      BY <1>1, <1>4, <2>3
    <3>. QED  BY <1>2, <2>3, <3>1, <3>2 DEF HeadOK, deleted
  <2>4. CASE d = dir /\ ~ \A l \in 1 .. aux - 1 : deleted(d, l)
    <3>1. PICK j \in 1 .. aux - 1 : /\ ~deleted(d, j) /\ head[d] = j
                                    /\ \A l \in 1 .. j - 1 : deleted(d, l)
      BY <1>4, <2>1, <2>4 DEF HeadOK
    <3>2. j \in 1 .. Walked(d)'
      BY <1>1, <1>4, <2>4
    <3>. QED  BY <1>2, <3>1, <3>2 DEF HeadOK, deleted
  <2>. QED  BY <2>2, <2>3, <2>4
<1>6. CountOK'
  <2>1. i' # 0
    BY <1>2
  <2>2. ~ \A l \in 1 .. Walked(dir)' : box[dir][l].deleted
    BY <1>1, <1>2 DEF Walked, deleted
  <2>. QED  BY <1>2, <2>1, <2>2 DEF CountOK, deleted
<1>7. RemovedOK'
  <2>. SUFFICES ASSUME NEW d \in Dirs, NEW k \in 1 .. Len(box[d])
                PROVE  <<d, k>> \in removed <=> (k <= Walked(d)' /\ deleted(d, k))
    BY <1>2 DEF RemovedOK, deleted
  <2>1. <<d, k>> \in removed <=> (k <= Walked(d) /\ deleted(d, k))
    BY DEF IInv, RemovedOK
  <2>. QED  BY <1>1, <1>2, <1>4, <2>1
<1>8. FreedOK'
  <2>1. \A d \in Dirs : ~Destroyed(d) /\ ~Destroyed(d)'
    BY <1>2 DEF Destroyed
  <2>. SUFFICES ASSUME NEW d \in Dirs, NEW k \in 1 .. Len(box[d])
                PROVE  <<d, k>> \in freed <=> <<d, k>> \in removed
    BY <1>2, <2>1 DEF FreedOK
  <2>. QED  BY <1>2, <2>1 DEF IInv, FreedOK
<1>9. AbortOK'
  BY <1>2 DEF AbortOK
<1>10. NamesOK'
  BY <1>2 DEF IInv, NamesOK, deleted
<1>. QED  BY <1>3, <1>5, <1>6, <1>7, <1>8, <1>9, <1>10 DEF IInv

(* The end of a list in delete_marked.                                       *)
LEMMA DeleteNextDirInv == IInv /\ DeleteNextDir => IInv'
<1>. SUFFICES ASSUME IInv, DeleteNextDir PROVE IInv'
  OBVIOUS
<1>0. TypeOK
  BY DEF IInv
<1>1. /\ \A d \in Dirs : box[d] \in Seq(file_list) /\ Len(box[d]) \in Nat
      /\ dir \in Dirs /\ aux = 0
  BY <1>0, BoxFacts DEF DeleteNextDir
<1>2. /\ pc = "delete" /\ box' = box /\ i' = 0 /\ dir' \in Dirs
      /\ aux' = head[dir']
      /\ head' = head /\ size' = size /\ freed' = freed /\ unnamed' = unnamed /\ removed' = removed
  BY DEF DeleteNextDir, Dirs
<1>3. \/ dir = "new" /\ dir' = "cur" /\ pc' = "delete"
      \/ dir = "cur" /\ dir' = "tmp" /\ pc' = "delete"
      \/ dir = "tmp" /\ dir' = "cur" /\ pc' = "destroy"
  BY <1>1 DEF DeleteNextDir, Dirs
<1>4. \A d \in Dirs : HeadOK(d) /\ head[d] \in Nat
  BY <1>0 DEF IInv, TypeOK
<1>5. \A d \in Dirs : head[d] <= Len(box[d])
  <2>. SUFFICES ASSUME NEW d \in Dirs PROVE head[d] <= Len(box[d])
    OBVIOUS
  <2>1. Walked(d) \in Nat /\ Walked(d) <= Len(box[d])
    BY <1>1, <1>2 DEF Walked
  <2>. QED  BY <1>1, <1>4, <2>1 DEF HeadOK
<1>6. pc' = "delete" => Walked(dir') = 0 /\ aux' = First(dir')
  <2>. SUFFICES ASSUME pc' = "delete" PROVE Walked(dir') = 0 /\ aux' = First(dir')
    OBVIOUS
  <2>1. Walked(dir') = 0
    BY <1>2, <1>3 DEF Walked
  <2>2. head[dir'] = IF 0 < Len(box[dir']) THEN 1 ELSE 0
    BY <1>2, <1>4, <2>1 DEF HeadOK
  <2>. QED  BY <1>1, <1>2, <2>1, <2>2 DEF First
<1>7. \A d \in Dirs : Walked(d)' = Walked(d)
  <2>1. CASE pc' = "delete"
    BY <1>1, <1>2, <1>3, <1>6, <2>1 DEF Walked, First, Dirs
  <2>2. CASE pc' = "destroy"
    BY <1>1, <1>2, <1>3, <2>2 DEF Walked, Dirs
  <2>. QED  BY <1>3, <2>1, <2>2
<1>8. TypeOK'
  <2>1. aux' \in 0 .. Len(box'[dir'])
    BY <1>1, <1>2, <1>4, <1>5
  <2>2. Nodes' = Nodes
    BY <1>2 DEF Nodes
  <2>. QED  BY <1>0, <1>2, <1>3, <2>1, <2>2 DEF TypeOK
<1>9. ASSUME NEW d \in Dirs PROVE HeadOK(d)'
  BY <1>2, <1>4, <1>7 DEF HeadOK, deleted
<1>10. CountOK'
  BY <1>1, <1>2, <1>6, <1>7 DEF CountOK
<1>11. RemovedOK'
  BY <1>2, <1>7 DEF IInv, RemovedOK, deleted
<1>12. \A d \in Dirs : \A k \in 1 .. Len(box[d]) : <<d, k>> \in freed <=> <<d, k>> \in removed
  <2>1. \A d \in Dirs : ~Destroyed(d)
    BY <1>2 DEF Destroyed
  <2>. QED  BY <1>2, <2>1 DEF IInv, FreedOK
<1>13. FreedOK'
  <2>1. \A d \in Dirs : ~Destroyed(d)'
    BY <1>3 DEF Destroyed
  <2>2. CASE pc' = "delete"
    BY <1>2, <1>12, <2>1, <2>2 DEF FreedOK
  <2>3. CASE pc' = "destroy"
    <3>0. /\ dir' = "cur" /\ "cur" \in Dirs /\ Len(box["cur"]) \in Nat
          /\ Walked("cur") = Len(box["cur"])
      BY <1>1, <1>2, <1>3, <1>7, <2>3 DEF Walked, Dirs
    <3>1. \A k \in 1 .. Len(box["cur"]) : <<"cur", k>> \in freed <=> deleted("cur", k)
      BY <1>12, <3>0 DEF IInv, RemovedOK
    <3>2. HeadOK("cur") /\ head["cur"] \in Nat
      BY <1>4, <3>0
    <3>3. \/ /\ head["cur"] \in 1 .. Len(box["cur"])
             /\ \A l \in 1 .. head["cur"] - 1 : deleted("cur", l)
          \/ head["cur"] = 0 /\ \A l \in 1 .. Len(box["cur"]) : deleted("cur", l)
      BY <3>0, <3>2 DEF HeadOK
    <3>4. aux' = head["cur"]
      BY <1>2, <3>0
    <3>5. Reached' = IF head["cur"] = 0 THEN Len(box["cur"]) + 1 ELSE head["cur"]
      BY <1>2, <3>0, <3>4 DEF Reached
    <3>6. ASSUME NEW k \in 1 .. Len(box["cur"])
          PROVE  /\ k < Reached'  => <<"cur", k>> \in freed
                 /\ k >= Reached' => (<<"cur", k>> \in freed <=> deleted("cur", k))
                 /\ ~(head["cur"] # 0 /\ head["cur"] <= k /\ k < Reached')
                 /\ head["cur"] = 0 => deleted("cur", k)
      BY <3>0, <3>1, <3>3, <3>5
    <3>7. /\ head["cur"] = 0 \/ head["cur"] <= Reached'
          /\ aux' # 0 => head["cur"] # 0
      BY <3>2, <3>4, <3>5
    <3>8. DestroyingOK'
      BY <1>2, <3>0, <3>6, <3>7 DEF DestroyingOK, deleted
    <3>. QED  BY <1>2, <1>12, <2>1, <2>3, <3>8 DEF FreedOK
  <2>. QED  BY <1>3, <2>2, <2>3
<1>14. AbortOK'
  BY <1>3 DEF AbortOK
<1>15. NamesOK'
  BY <1>2 DEF IInv, NamesOK, deleted
<1>. QED  BY <1>8, <1>9, <1>10, <1>11, <1>13, <1>14, <1>15 DEF IInv

(* A turn of destroy_maildir at an entry still allocated.                    *)
LEMMA DestroyInv == IInv /\ Destroy => IInv'
<1>. SUFFICES ASSUME IInv, Destroy PROVE IInv'
  OBVIOUS
<1>0. TypeOK
  BY DEF IInv
<1>1. /\ \A d \in Dirs : box[d] \in Seq(file_list) /\ Len(box[d]) \in Nat
      /\ dir \in Dirs /\ aux \in Nat /\ aux <= Len(box[dir]) /\ aux # 0
  BY <1>0, BoxFacts DEF Destroy
<1>2. /\ pc = "destroy" /\ pc' = "destroy" /\ box' = box /\ dir' = dir
      /\ aux' = (IF aux < Len(box[dir]) THEN aux + 1 ELSE 0)
      /\ head' = head /\ size' = size /\ i' = i /\ removed' = removed
      /\ unnamed' = unnamed \cup {<<dir, aux>>}
      /\ freed' = freed \cup {<<dir, aux>>} /\ <<dir, aux>> \notin freed
  BY DEF Destroy, next
<1>3. TypeOK'
  <2>1. aux' \in 0 .. Len(box'[dir'])
    BY <1>1, <1>2
  <2>2. Nodes' = Nodes
    BY <1>2 DEF Nodes
  <2>3. <<dir, aux>> \in Nodes
    BY <1>1 DEF Nodes
  <2>4. freed' \subseteq Nodes' /\ unnamed' \subseteq Nodes'
    BY <1>0, <1>2, <2>2, <2>3 DEF TypeOK
  <2>. QED  BY <1>0, <1>2, <2>1, <2>2, <2>4 DEF TypeOK
<1>4. \A d \in Dirs : Walked(d)' = Walked(d) /\ (Destroyed(d)' <=> Destroyed(d))
  BY <1>2 DEF Walked, Destroyed
<1>5. \A d \in Dirs : HeadOK(d)'
  BY <1>2, <1>4 DEF IInv, HeadOK, deleted
<1>6. CountOK' /\ AbortOK'
  BY <1>2 DEF CountOK, AbortOK
<1>7. RemovedOK'
  BY <1>2, <1>4 DEF IInv, RemovedOK, deleted
<1>8. DestroyingOK'
  <2>1. DestroyingOK
    BY <1>2 DEF IInv, FreedOK
  <2>2. Reached = aux /\ Reached' = aux + 1
    BY <1>1, <1>2 DEF Reached
  <2>3. ~deleted(dir, aux) /\ head[dir] # 0 /\ head[dir] <= aux /\ head[dir] \in Nat
    BY <1>0, <1>1, <1>2, <2>1, <2>2 DEF DestroyingOK, TypeOK
  <2>4. ASSUME NEW k \in 1 .. Len(box[dir])
        PROVE  /\ k < aux + 1  => <<dir, k>> \in freed'
               /\ k >= aux + 1 => (<<dir, k>> \in freed' <=> deleted(dir, k))
               /\ head[dir] # 0 /\ head[dir] <= k /\ k < aux + 1 => ~deleted(dir, k)
    <3>1. CASE k = aux
      BY <1>1, <1>2, <2>3, <3>1
    <3>2. CASE k # aux
      <4>1. <<dir, k>> \in freed' <=> <<dir, k>> \in freed
        BY <1>2, <3>2
      <4>. QED  BY <1>1, <2>1, <2>2, <3>2, <4>1 DEF DestroyingOK
    <3>. QED  BY <3>1, <3>2
  <2>. QED  BY <1>1, <1>2, <2>2, <2>3, <2>4 DEF DestroyingOK, deleted
<1>9. FreedOK'
  <2>1. ASSUME NEW d \in Dirs, d # dir, NEW k \in 1 .. Len(box[d])
        PROVE  <<d, k>> \in freed' <=> <<d, k>> \in freed
    BY <1>2, <2>1
  <2>2. \A d \in Dirs : Destroyed(d) => d # dir
    BY <1>2 DEF Destroyed
  <2>. QED  BY <1>2, <1>4, <1>8, <2>1, <2>2 DEF IInv, FreedOK
<1>10. NamesOK'
  <2>1. DestroyingOK /\ Reached = aux
    BY <1>1, <1>2 DEF IInv, FreedOK, Reached
  <2>2. ~deleted(dir, aux)
    BY <1>1, <1>2, <2>1 DEF DestroyingOK
  <2>. SUFFICES ASSUME NEW d \in Dirs, NEW k \in 1 .. Len(box[d])
                PROVE  <<d, k>> \in unnamed' <=> <<d, k>> \in freed' /\ ~deleted(d, k)
    BY <1>2 DEF NamesOK, deleted
  <2>3. <<d, k>> \in unnamed <=> <<d, k>> \in freed /\ ~deleted(d, k)
    BY DEF IInv, NamesOK
  <2>. QED  BY <1>2, <2>2, <2>3
<1>. QED  BY <1>3, <1>5, <1>6, <1>7, <1>9, <1>10 DEF IInv

(* The walk of destroy_maildir meets an entry delete_marked freed.           *)
LEMMA DestroyFreedInv == IInv /\ DestroyFreed => IInv'
<1>. SUFFICES ASSUME IInv, DestroyFreed PROVE IInv'
  OBVIOUS
<1>0. TypeOK
  BY DEF IInv
<1>1. /\ \A d \in Dirs : Len(box[d]) \in Nat
      /\ dir \in Dirs /\ aux \in Nat /\ aux <= Len(box[dir]) /\ aux # 0
  BY <1>0, BoxFacts DEF DestroyFreed
<1>2. /\ pc = "destroy" /\ pc' = "aborted" /\ <<dir, aux>> \in freed
      /\ box' = box /\ dir' = dir /\ aux' = aux /\ i' = i /\ head' = head
      /\ size' = size /\ freed' = freed /\ unnamed' = unnamed /\ removed' = removed
  BY DEF DestroyFreed
<1>3. TypeOK'
  BY <1>0, <1>2 DEF TypeOK, Nodes
<1>4. \A d \in Dirs : Walked(d)' = Walked(d) /\ (Destroyed(d)' <=> Destroyed(d))
  BY <1>2 DEF Walked, Destroyed
<1>5. \A d \in Dirs : HeadOK(d)'
  BY <1>2, <1>4 DEF IInv, HeadOK, deleted
<1>6. CountOK' /\ RemovedOK'
  BY <1>2, <1>4 DEF IInv, CountOK, RemovedOK, deleted
<1>7. DestroyingOK
  BY <1>2 DEF IInv, FreedOK
<1>8. DestroyingOK'
  BY <1>2, <1>7 DEF DestroyingOK, Reached, deleted
<1>9. FreedOK'
  BY <1>2, <1>4, <1>8 DEF IInv, FreedOK
<1>10. AbortOK'
  <2>1. deleted(dir, aux) /\ head[dir] # 0 /\ head[dir] <= aux /\ head[dir] \in Nat
    BY <1>0, <1>1, <1>2, <1>7 DEF DestroyingOK, Reached, TypeOK
  <2>2. Walked(dir) = Len(box[dir])
    BY <1>2 DEF Walked
  <2>3. HeadOK(dir)
    BY <1>1 DEF IInv
  <2>4. ~deleted(dir, head[dir])
    BY <1>1, <2>1, <2>2, <2>3 DEF HeadOK
  <2>5. head[dir] \in 1 .. aux
    BY <1>1, <2>1
  <2>. QED  BY <1>1, <1>2, <2>1, <2>4, <2>5 DEF AbortOK, deleted
<1>11. NamesOK'
  BY <1>2 DEF IInv, NamesOK, deleted
<1>. QED  BY <1>3, <1>5, <1>6, <1>9, <1>10, <1>11 DEF IInv

(* The end of a list in destroy_maildir.                                     *)
LEMMA DestroyNextDirInv == IInv /\ DestroyNextDir => IInv'
<1>. SUFFICES ASSUME IInv, DestroyNextDir PROVE IInv'
  OBVIOUS
<1>0. TypeOK
  BY DEF IInv
<1>1. /\ \A d \in Dirs : box[d] \in Seq(file_list) /\ Len(box[d]) \in Nat
      /\ dir \in Dirs /\ aux = 0
  BY <1>0, BoxFacts DEF DestroyNextDir
<1>2. /\ pc = "destroy" /\ box' = box /\ i' = i /\ head' = head /\ size' = size
      /\ freed' = freed /\ unnamed' = unnamed /\ removed' = removed
      /\ aux' = IF dir = "tmp" THEN 0 ELSE head[dir']
  BY DEF DestroyNextDir
<1>3. \/ dir = "cur" /\ dir' = "new" /\ pc' = "destroy"
      \/ dir = "new" /\ dir' = "tmp" /\ pc' = "destroy"
      \/ dir = "tmp" /\ dir' = "tmp" /\ pc' = "done"
  BY <1>1 DEF DestroyNextDir, Dirs
<1>4. \A d \in Dirs : Walked(d) = Len(box[d]) /\ Walked(d)' = Len(box[d])
  BY <1>2, <1>3 DEF Walked
<1>5. \A d \in Dirs :
        /\ head[d] \in Nat
        /\ \/ /\ head[d] \in 1 .. Len(box[d]) /\ ~deleted(d, head[d])
              /\ \A l \in 1 .. head[d] - 1 : deleted(d, l)
           \/ head[d] = 0 /\ \A l \in 1 .. Len(box[d]) : deleted(d, l)
  <2>. SUFFICES ASSUME NEW d \in Dirs
                PROVE  /\ head[d] \in Nat
                       /\ \/ /\ head[d] \in 1 .. Len(box[d]) /\ ~deleted(d, head[d])
                             /\ \A l \in 1 .. head[d] - 1 : deleted(d, l)
                          \/ head[d] = 0 /\ \A l \in 1 .. Len(box[d]) : deleted(d, l)
    OBVIOUS
  <2>1. HeadOK(d) /\ head[d] \in Nat
    BY <1>0 DEF IInv, TypeOK
  <2>2. Walked(d) = Len(box[d]) /\ Len(box[d]) \in Nat
    BY <1>1, <1>4
  <2>. QED  BY <2>1, <2>2 DEF HeadOK
<1>6. DestroyingOK /\ Reached = Len(box[dir]) + 1
  BY <1>1, <1>2 DEF IInv, FreedOK, Reached
<1>7. ~Dangles(box[dir]) /\ \A k \in 1 .. Len(box[dir]) : <<dir, k>> \in freed
  <2>1. \A k \in 1 .. Len(box[dir]) : <<dir, k>> \in freed
    BY <1>1, <1>6 DEF DestroyingOK
  <2>2. ASSUME NEW j \in 1 .. Len(box[dir]), NEW k \in 1 .. Len(box[dir]),
               j < k, ~deleted(dir, j), deleted(dir, k)
        PROVE  FALSE
    <3>1. head[dir] # 0 /\ head[dir] \in 1 .. Len(box[dir])
          /\ \A l \in 1 .. head[dir] - 1 : deleted(dir, l)
      BY <1>1, <1>5, <2>2
    <3>2. ~(head[dir] <= k)
      <4>1. head[dir] # 0 /\ head[dir] <= k /\ k < Reached => ~deleted(dir, k)
        BY <1>6 DEF DestroyingOK
      <4>2. k < Reached
        BY <1>1, <1>6
      <4>. QED  BY <2>2, <3>1, <4>1, <4>2
    <3>3. j \in 1 .. head[dir] - 1
      BY <1>1, <2>2, <3>1, <3>2
    <3>. QED  BY <2>2, <3>1, <3>3
  <2>. QED  BY <2>1, <2>2 DEF Dangles, deleted
<1>8. \A d \in Dirs : Destroyed(d)' => Destroyed(d) \/ d = dir
  BY <1>2, <1>3 DEF Destroyed, Dirs
<1>9. TypeOK'
  <2>1. \A d \in Dirs : head[d] \in 0 .. Len(box[d])
    BY <1>1, <1>5
  <2>2. dir' \in Dirs /\ aux' \in 0 .. Len(box'[dir'])
    BY <1>1, <1>2, <1>3, <2>1 DEF Dirs
  <2>3. Nodes' = Nodes
    BY <1>2 DEF Nodes
  <2>. QED  BY <1>0, <1>2, <1>3, <2>2, <2>3 DEF TypeOK
<1>10. ASSUME NEW d \in Dirs PROVE HeadOK(d)'
  BY <1>2, <1>4 DEF IInv, HeadOK, deleted
<1>11. CountOK' /\ AbortOK'
  BY <1>3 DEF CountOK, AbortOK
<1>12. RemovedOK'
  BY <1>2, <1>4 DEF IInv, RemovedOK, deleted
<1>13. ASSUME NEW d \in Dirs, ~Destroyed(d), d # dir
       PROVE  /\ \A k \in 1 .. Len(box[d]) : <<d, k>> \in freed <=> <<d, k>> \in removed
              /\ \A k \in 1 .. Len(box[d]) : <<d, k>> \in freed <=> deleted(d, k)
  <2>1. \A k \in 1 .. Len(box[d]) : <<d, k>> \in freed <=> <<d, k>> \in removed
    BY <1>13 DEF IInv, FreedOK
  <2>2. ASSUME NEW k \in 1 .. Len(box[d]) PROVE <<d, k>> \in removed <=> deleted(d, k)
    <3>1. <<d, k>> \in removed <=> (k <= Walked(d) /\ deleted(d, k))
      BY DEF IInv, RemovedOK
    <3>2. Walked(d) = Len(box[d]) /\ Len(box[d]) \in Nat
      BY <1>1, <1>4
    <3>. QED  BY <3>1, <3>2
  <2>. QED  BY <2>1, <2>2
<1>14. pc' = "destroy" => DestroyingOK'
  <2>. SUFFICES ASSUME pc' = "destroy" PROVE DestroyingOK'
    OBVIOUS
  <2>1. PICK D \in Dirs : D = dir'
    BY <1>3 DEF Dirs
  <2>2. ~Destroyed(D) /\ D # dir /\ aux' = head[D]
    <3>1. \/ dir = "cur" /\ D = "new"
          \/ dir = "new" /\ D = "tmp"
      BY <1>3, <2>1
    <3>2. ~Destroyed(D) /\ D # dir
      BY <1>2, <3>1 DEF Destroyed
    <3>3. aux' = head[dir']
      BY <1>2, <3>1
    <3>. QED  BY <2>1, <3>2, <3>3
  <2>3. \A k \in 1 .. Len(box[D]) : <<D, k>> \in freed <=> deleted(D, k)
    BY <1>13, <2>2
  <2>4. Reached' = IF head[D] = 0 THEN Len(box[D]) + 1 ELSE head[D]
    BY <1>2, <2>1, <2>2 DEF Reached
  <2>5. Len(box[D]) \in Nat /\ head[D] \in Nat
    BY <1>1, <1>5
  <2>6. \/ head[D] \in 1 .. Len(box[D]) /\ \A l \in 1 .. head[D] - 1 : deleted(D, l)
        \/ head[D] = 0 /\ \A l \in 1 .. Len(box[D]) : deleted(D, l)
    BY <1>5
  <2>7. ASSUME NEW k \in 1 .. Len(box[D])
        PROVE  /\ k < Reached'  => <<D, k>> \in freed
               /\ k >= Reached' => (<<D, k>> \in freed <=> deleted(D, k))
               /\ ~(head[D] # 0 /\ head[D] <= k /\ k < Reached')
               /\ head[D] = 0 => deleted(D, k)
    BY <2>3, <2>4, <2>5, <2>6
  <2>8. /\ head[D] = 0 \/ head[D] <= Reached'
        /\ aux' # 0 => head[D] # 0
    BY <2>2, <2>4, <2>5
  <2>. QED  BY <1>2, <2>1, <2>7, <2>8 DEF DestroyingOK, deleted
<1>15. FreedOK'
  <2>1. ASSUME NEW d \in Dirs, Destroyed(d)'
        PROVE  ~Dangles(box[d]) /\ \A k \in 1 .. Len(box[d]) : <<d, k>> \in freed
    BY <1>7, <1>8, <2>1 DEF IInv, FreedOK
  <2>2. \A d \in Dirs : ~Destroyed(d)' => ~Destroyed(d) /\ d # dir
    BY <1>2, <1>3 DEF Destroyed, Dirs
  <2>3. \A d \in Dirs : Destroyed(d)' =>
          ~Dangles(box'[d]) /\ \A k \in 1 .. Len(box'[d]) : <<d, k>> \in freed'
    BY <1>2, <2>1
  <2>4. ASSUME NEW d \in Dirs, ~Destroyed(d)'
        PROVE  \A k \in 1 .. Len(box'[d]) : <<d, k>> \in freed' <=> <<d, k>> \in removed'
    <3>1. ~Destroyed(d) /\ d # dir
      BY <2>2, <2>4
    <3>2. \A k \in 1 .. Len(box[d]) : <<d, k>> \in freed <=> <<d, k>> \in removed
      BY <1>13, <3>1
    <3>. QED  BY <1>2, <3>2
  <2>5. pc' \in {"destroy", "aborted"} => DestroyingOK'
    BY <1>3, <1>14
  <2>. QED  BY <2>3, <2>4, <2>5 DEF FreedOK
<1>16. NamesOK'
  BY <1>2 DEF IInv, NamesOK, deleted
<1>. QED  BY <1>9, <1>10, <1>11, <1>12, <1>15, <1>16 DEF IInv

(* Every step of the two walks preserves the invariant.                      *)
THEOREM Invariance == Spec => []IInv
<1>1. IInv /\ [Next]_vars => IInv'
  <2>. SUFFICES ASSUME IInv, [Next]_vars PROVE IInv'
    OBVIOUS
  <2>1. CASE UNCHANGED vars
    <3>1. UNCHANGED <<TypeOK, CountOK, RemovedOK, FreedOK, NamesOK, AbortOK>>
      BY <2>1 DEF vars, TypeOK, CountOK, RemovedOK, FreedOK, NamesOK, AbortOK, Nodes, Walked,
                  deleted, Destroyed, DestroyingOK, Reached
    <3>2. ASSUME NEW d \in Dirs PROVE HeadOK(d)'
      BY <2>1 DEF vars, IInv, HeadOK, Walked, deleted
    <3>. QED  BY <3>1, <3>2 DEF IInv
  <2>. QED  BY <2>1, DeleteInv, KeepInv, DeleteNextDirInv, DestroyInv, DestroyFreedInv,
               DestroyNextDirInv DEF Next
<1>. QED  BY <1>1, InitInv, PTL DEF Spec

(* Each variable keeps its type: in particular aux is always an entry of the *)
(* list being walked or NULL, and only entries of the mailbox are freed.     *)
THEOREM TypeCorrect == Spec => []TypeOK
<1>. QED  BY Invariance, PTL DEF IInv

(* For mailboxes of any size, delete_marked removes the file of every marked *)
(* entry and of no other (pop3.c:505-574).                                   *)
THEOREM QuitRemovesMarked == Spec => []RemovesMarked
<1>1. IInv => RemovesMarked
  <2>. SUFFICES ASSUME IInv, pc # "delete" PROVE removed = Marked(box)
    BY DEF RemovesMarked
  <2>1. \A d \in Dirs : Walked(d) = Len(box[d]) /\ Len(box[d]) \in Nat
    BY BoxFacts DEF Walked, IInv
  <2>2. ASSUME NEW d \in Dirs, NEW k \in 1 .. Len(box[d])
        PROVE  <<d, k>> \in removed <=> box[d][k].deleted
    <3>1. <<d, k>> \in removed <=> (k <= Walked(d) /\ deleted(d, k))
      BY DEF IInv, RemovedOK
    <3>. QED  BY <2>1, <3>1 DEF deleted
  <2>3. removed \subseteq Nodes
    BY DEF IInv, TypeOK
  <2>. QED  BY <2>2, <2>3 DEF Marked, Nodes
<1>. QED  BY <1>1, Invariance, PTL

(* The process is lost at QUIT when, and only when, a marked entry stands    *)
(* behind a kept one in some list: delete_marked leaves the kept entry       *)
(* pointing at freed memory (pop3.c:517-520) and destroy_user_list reads it. *)
THEOREM QuitAborts == Spec => []AbortsIffDangling
<1>1. IInv => AbortsIffDangling
  <2>. SUFFICES ASSUME IInv PROVE AbortsIffDangling
    OBVIOUS
  <2>1. ASSUME pc = "aborted" PROVE DanglingAfterDelete(box)
    <3>1. PICK j \in 1 .. aux : ~deleted(dir, j)
      BY <2>1 DEF IInv, AbortOK
    <3>2. deleted(dir, aux) /\ aux # 0
      BY <2>1 DEF IInv, AbortOK
    <3>3. dir \in Dirs /\ aux \in Nat /\ aux <= Len(box[dir]) /\ Len(box[dir]) \in Nat
      BY BoxFacts DEF IInv
    <3>4. j \in 1 .. Len(box[dir]) /\ aux \in 1 .. Len(box[dir]) /\ j < aux
      BY <3>1, <3>2, <3>3
    <3>. QED  BY <3>1, <3>2, <3>3, <3>4 DEF DanglingAfterDelete, Dangles, deleted
  <2>2. ASSUME pc = "done" PROVE ~DanglingAfterDelete(box)
    BY <2>2 DEF IInv, FreedOK, Destroyed, DanglingAfterDelete
  <2>. QED  BY <2>1, <2>2 DEF AbortsIffDangling
<1>. QED  BY <1>1, Invariance, PTL

(* When the walks return, every node of every list has been freed, and of    *)
(* the names exactly those of the deleted mails are left (free(aux) at        *)
(* pop3.c:513 without the free(aux->name) of pop3.c:732): one leak per mail   *)
(* deleted and none besides, for lists of any length.                        *)
THEOREM QuitLeaksNames == Spec => []LeaksDeletedNames
<1>1. IInv => LeaksDeletedNames
  <2>. SUFFICES ASSUME IInv, pc = "done"
                PROVE  freed = Nodes /\ Nodes \ unnamed = Marked(box)
    BY DEF LeaksDeletedNames
  <2>1. \A d \in Dirs : \A k \in 1 .. Len(box[d]) : <<d, k>> \in freed
    BY DEF IInv, FreedOK, Destroyed
  <2>2. freed \subseteq Nodes
    BY DEF IInv, TypeOK
  <2>3. freed = Nodes
    BY <2>1, <2>2 DEF Nodes
  <2>4. ASSUME NEW d \in Dirs, NEW k \in 1 .. Len(box[d])
        PROVE  <<d, k>> \in unnamed <=> ~box[d][k].deleted
    BY <2>1 DEF IInv, NamesOK, deleted
  <2>. QED  BY <2>3, <2>4 DEF Marked, Nodes
<1>. QED  BY <1>1, Invariance, PTL

=============================================================================
