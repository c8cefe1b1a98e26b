-------------------------- MODULE Pop3Session_proofs --------------------------
(***************************************************************************)
(* Proofs about Pop3Session, for any users, mails, sessions and bounds: the  *)
(* type invariant, whose mail a session and its children touch, that the     *)
(* numbers of LIST and DELE agree, and that the sessions implement MailStore. *)
(***************************************************************************)
EXTENDS Pop3Session, FiniteSetTheorems, FunctionTheorems, TLAPS

-----------------------------------------------------------------------------
(* What the operators of Maildrop do to a mailbox of any size.              *)

(* Two mailboxes that list the same files, whatever their marks.             *)
SameFiles(m1, m2) ==
    \A d \in Dirs : /\ Len(m1[d]) = Len(m2[d])
                    /\ \A k \in 1 .. Len(m2[d]) : /\ m1[d][k].name = m2[d][k].name
                                                  /\ m1[d][k].size = m2[d][k].size

(* A mailbox is three sequences, of lengths that are naturals.               *)
LEMMA MaildirLists ==
    ASSUME NEW m \in maildir, NEW d \in Dirs
    PROVE  /\ m[d] \in Seq(file_list) /\ Len(m[d]) \in Nat
           /\ \A k \in 1 .. Len(m[d]) : m[d][k] \in file_list
BY DEF maildir

(* The number of LIST n and DELE n falls into a list, inside its bounds.     *)
LEMMA PlaceInList ==
    ASSUME NEW m \in maildir, NEW n \in Int, InRange(m, n)
    PROVE  /\ DirOf(m, n) \in Dirs
           /\ PlaceOf(m, n) \in 1 .. Len(m[DirOf(m, n)])
<1> DEFINE x == Len(m["new"])
           y == Len(m["cur"])
           z == Len(m["tmp"])
<1>1. /\ "new" \in Dirs /\ "cur" \in Dirs /\ "tmp" \in Dirs
  BY DEF Dirs
<1>2. x \in Nat /\ y \in Nat /\ z \in Nat
  BY <1>1, MaildirLists
<1>3. n >= 1 /\ n <= x + y + z
  BY DEF InRange, Amount
<1>4. /\ DirOf(m, n) = IF n <= x THEN "new" ELSE IF n <= x + y THEN "cur" ELSE "tmp"
      /\ PlaceOf(m, n) = IF n <= x THEN n ELSE IF n <= x + y THEN n - x ELSE n - (x + y)
  BY DEF DirOf, PlaceOf
<1>5. /\ n <= x => n \in 1 .. x
      /\ ~(n <= x) /\ n <= x + y => n - x \in 1 .. y
      /\ ~(n <= x) /\ ~(n <= x + y) => n - (x + y) \in 1 .. z
  <2> HIDE DEF x, y, z
  <2> QED
    BY <1>2, <1>3
<1>6. CASE n <= x
  BY <1>1, <1>4, <1>5, <1>6
<1>7. CASE ~(n <= x) /\ n <= x + y
  BY <1>1, <1>4, <1>5, <1>7
<1>8. CASE ~(n <= x) /\ ~(n <= x + y)
  BY <1>1, <1>4, <1>5, <1>8
<1> QED
  BY <1>6, <1>7, <1>8

(* Marking a message leaves a mailbox of the same files.                     *)
LEMMA MarkSameFiles ==
    ASSUME NEW m \in maildir, NEW n \in Int, InRange(m, n)
    PROVE  Mark(m, n) \in maildir /\ SameFiles(Mark(m, n), m)
<1> DEFINE d0 == DirOf(m, n)
           k0 == PlaceOf(m, n)
           e0 == [m[d0][k0] EXCEPT !.deleted = TRUE]
           l0 == [m[d0] EXCEPT ![k0] = e0]
<1>1. d0 \in Dirs /\ k0 \in 1 .. Len(m[d0])
  BY PlaceInList
<1>2. m[d0] \in Seq(file_list) /\ m[d0][k0] \in file_list
  BY <1>1, MaildirLists
<1>3. /\ e0 \in file_list
      /\ e0.name = m[d0][k0].name /\ e0.size = m[d0][k0].size
  BY <1>2 DEF file_list
<1>4. Mark(m, n) = [m EXCEPT ![d0] = l0]
  BY DEF Mark
<1> HIDE DEF d0, k0, e0
<1>5. /\ l0 \in Seq(file_list) /\ Len(l0) = Len(m[d0])
      /\ \A k \in 1 .. Len(m[d0]) : l0[k] = IF k = k0 THEN e0 ELSE m[d0][k]
  BY <1>1, <1>2, <1>3
<1> HIDE DEF l0
<1>6. Mark(m, n) \in maildir
  BY <1>4, <1>5 DEF maildir
<1>7. ASSUME NEW d \in Dirs
      PROVE  /\ Len(Mark(m, n)[d]) = Len(m[d])
             /\ \A k \in 1 .. Len(m[d]) : /\ Mark(m, n)[d][k].name = m[d][k].name
                                          /\ Mark(m, n)[d][k].size = m[d][k].size
  <2>1. Mark(m, n)[d] = IF d = d0 THEN l0 ELSE m[d]
    BY <1>4 DEF maildir
  <2>2. CASE d = d0
    BY <2>1, <2>2, <1>3, <1>5
  <2>3. CASE d # d0
    BY <2>1, <2>3
  <2> QED
    BY <2>2, <2>3
<1> QED
  BY <1>6, <1>7 DEF SameFiles

(* The marks are those there were and the new one.                           *)
LEMMA MarkAddsOne ==
    ASSUME NEW m \in maildir, NEW n \in Int, InRange(m, n)
    PROVE  Marked(Mark(m, n)) = Marked(m) \cup {<<DirOf(m, n), PlaceOf(m, n)>>}
<1> DEFINE d0 == DirOf(m, n)
           k0 == PlaceOf(m, n)
           q == Mark(m, n)
<1>1. d0 \in Dirs /\ k0 \in 1 .. Len(m[d0])
  BY PlaceInList
<1>2. q = [m EXCEPT ![d0][k0].deleted = TRUE]
  BY DEF Mark
<1>3. q \in maildir /\ \A d \in Dirs : Len(q[d]) = Len(m[d])
  BY MarkSameFiles DEF SameFiles
<1> HIDE DEF d0, k0, q
<1>4. ASSUME NEW d \in Dirs, NEW k \in 1 .. Len(m[d])
      PROVE  q[d][k].deleted <=> m[d][k].deleted \/ (d = d0 /\ k = k0)
  <2>1. m[d] \in Seq(file_list) /\ m[d][k] \in file_list
    BY MaildirLists
  <2>2. q[d] = IF d = d0 THEN [m[d0] EXCEPT ![k0].deleted = TRUE] ELSE m[d]
    BY <1>1, <1>2 DEF maildir
  <2>3. q[d][k] = IF d = d0 /\ k = k0 THEN [m[d][k] EXCEPT !.deleted = TRUE] ELSE m[d][k]
    <3>1. CASE d = d0
      <4> DEFINE e1 == [m[d][k0] EXCEPT !.deleted = TRUE]
      <4>1. q[d] = [m[d] EXCEPT ![k0] = e1]
        BY <2>2, <3>1
      <4> HIDE DEF e1
      <4>2. q[d][k] = IF k = k0 THEN e1 ELSE m[d][k]
        BY <4>1, <2>1
      <4> QED
        BY <4>2, <3>1 DEF e1
    <3>2. CASE d # d0
      BY <2>2, <3>2
    <3> QED
      BY <3>1, <3>2
  <2> QED
    BY <2>1, <2>3 DEF file_list
<1>5. ASSUME NEW x PROVE x \in Marked(q) <=> x \in Marked(m) \/ x = <<d0, k0>>
  <2>1. x \in Marked(q) <=> \E d \in Dirs : \E k \in 1 .. Len(m[d]) : x = <<d, k>> /\ q[d][k].deleted
    BY <1>3 DEF Marked
  <2>2. x \in Marked(m) <=> \E d \in Dirs : \E k \in 1 .. Len(m[d]) : x = <<d, k>> /\ m[d][k].deleted
    BY DEF Marked
  <2> QED
    BY <2>1, <2>2, <1>1, <1>4
<1>6. Marked(q) = Marked(m) \cup {<<d0, k0>>}
  BY <1>5
<1> QED
  BY <1>6 DEF d0, k0, q

(* So does RSET, which clears every mark.                                    *)
LEMMA UnmarkSameFiles ==
    ASSUME NEW m \in maildir
    PROVE  /\ UnmarkAll(m) \in maildir /\ SameFiles(UnmarkAll(m), m)
           /\ Marked(UnmarkAll(m)) = {}
<1>1. ASSUME NEW d \in Dirs
      PROVE  /\ UnmarkAll(m)[d] \in Seq(file_list)
             /\ Len(UnmarkAll(m)[d]) = Len(m[d])
             /\ \A k \in 1 .. Len(m[d]) : /\ UnmarkAll(m)[d][k].name = m[d][k].name
                                          /\ UnmarkAll(m)[d][k].size = m[d][k].size
                                          /\ UnmarkAll(m)[d][k].deleted = FALSE
  <2> DEFINE e(k) == [m[d][k] EXCEPT !.deleted = FALSE]
             l == [k \in 1 .. Len(m[d]) |-> e(k)]
  <2>1. UnmarkAll(m)[d] = l
    BY DEF UnmarkAll
  <2>2. Len(m[d]) \in Nat /\ \A k \in 1 .. Len(m[d]) : m[d][k] \in file_list
    BY MaildirLists
  <2>3. \A k \in 1 .. Len(m[d]) : /\ e(k) \in file_list
                                  /\ e(k).name = m[d][k].name /\ e(k).size = m[d][k].size
                                  /\ e(k).deleted = FALSE
    BY <2>2 DEF file_list
  <2> HIDE DEF e
  <2>4. l \in Seq(file_list) /\ Len(l) = Len(m[d]) /\ \A k \in 1 .. Len(m[d]) : l[k] = e(k)
    BY <2>2, <2>3
  <2> HIDE DEF l
  <2> QED
    BY <2>1, <2>3, <2>4
<1>2. UnmarkAll(m) \in maildir
  BY <1>1 DEF maildir, UnmarkAll
<1>3. SameFiles(UnmarkAll(m), m)
  BY <1>1 DEF SameFiles
<1>4. Marked(UnmarkAll(m)) = {}
  <2>1. SUFFICES ASSUME NEW x \in Marked(UnmarkAll(m)) PROVE FALSE
    OBVIOUS
  <2>2. PICK d \in Dirs : \E k \in 1 .. Len(UnmarkAll(m)[d]) : x = <<d, k>>
    BY DEF Marked
  <2>0. PICK k \in 1 .. Len(UnmarkAll(m)[d]) : x = <<d, k>>
    BY <2>2
  <2>3. UnmarkAll(m)[d][k].deleted
    BY <2>0, <2>1 DEF Marked
  <2> QED
    BY <2>0, <2>3, <1>1
<1> QED
  BY <1>2, <1>3, <1>4

(* The full listing numbers every message once, list after list.             *)
LEMMA ListingPlaces ==
    ASSUME NEW m \in maildir
    PROVE  /\ Listing(m) \in Seq(file_list)
           /\ Len(Listing(m)) = Amount(m)
           /\ \A n \in 1 .. Amount(m) : Listed(m, n) = Listing(m)[n]
<1> DEFINE a == m["new"]
           b == m["cur"]
           c == m["tmp"]
<1>1. /\ a \in Seq(file_list) /\ b \in Seq(file_list) /\ c \in Seq(file_list)
  BY MaildirLists DEF Dirs
<1>2. Listing(m) = a \o b \o c /\ Amount(m) = Len(a) + Len(b) + Len(c)
  BY DEF Listing, Amount
<1>3. ASSUME NEW n \in 1 .. Amount(m)
      PROVE  Listed(m, n) = IF n <= Len(a) THEN a[n]
                            ELSE IF n <= Len(a) + Len(b) THEN b[n - Len(a)]
                            ELSE c[n - (Len(a) + Len(b))]
  BY DEF Listed, DirOf, PlaceOf
<1> HIDE DEF a, b, c
<1>4. /\ a \o b \in Seq(file_list) /\ Len(a \o b) = Len(a) + Len(b)
      /\ \A n \in 1 .. Len(a) + Len(b) :
           (a \o b)[n] = IF n <= Len(a) THEN a[n] ELSE b[n - Len(a)]
  BY <1>1
<1>5. /\ (a \o b) \o c \in Seq(file_list)
      /\ Len((a \o b) \o c) = Len(a) + Len(b) + Len(c)
      /\ \A n \in 1 .. Len(a) + Len(b) + Len(c) :
           ((a \o b) \o c)[n] = IF n <= Len(a) + Len(b) THEN (a \o b)[n]
                                ELSE c[n - (Len(a) + Len(b))]
  BY <1>1, <1>4
<1>6. Len(a) \in Nat /\ Len(b) \in Nat /\ Len(c) \in Nat
  BY <1>1
<1>7. ASSUME NEW n \in 1 .. Amount(m) PROVE Listed(m, n) = Listing(m)[n]
  <2>1. n \in Int /\ n >= 1 /\ n <= Len(a) + Len(b) + Len(c)
    BY <1>2, <1>6
  <2>2. Listing(m)[n] = IF n <= Len(a) + Len(b) THEN (a \o b)[n] ELSE c[n - (Len(a) + Len(b))]
    BY <1>2, <1>5, <1>6, <2>1
  <2>3. CASE n <= Len(a) + Len(b)
    BY <2>1, <2>2, <2>3, <1>3, <1>4, <1>6
  <2>4. CASE ~(n <= Len(a) + Len(b))
    BY <2>1, <2>2, <2>4, <1>3, <1>6
  <2> QED
    BY <2>3, <2>4
<1> QED
  BY <1>2, <1>5, <1>7

(* DELE n marks entry n of the full listing and no other.                    *)
LEMMA MarkInListing ==
    ASSUME NEW m \in maildir, NEW n \in 1 .. Amount(m)
    PROVE  Listing(Mark(m, n)) = [Listing(m) EXCEPT ![n].deleted = TRUE]
<1> DEFINE q == Mark(m, n)
           r == [Listing(m) EXCEPT ![n].deleted = TRUE]
           x == Len(m["new"])
           y == Len(m["cur"])
           z == Len(m["tmp"])
<1>1. /\ "new" \in Dirs /\ "cur" \in Dirs /\ "tmp" \in Dirs
  BY DEF Dirs
<1>2. x \in Nat /\ y \in Nat /\ z \in Nat
  BY <1>1, MaildirLists
<1>0. Amount(m) = x + y + z
  BY DEF Amount
<1>3. Amount(m) = x + y + z /\ n \in Int /\ n >= 1 /\ n <= x + y + z
  <2> HIDE DEF x, y, z
  <2> QED
    BY <1>0, <1>2
<1>4. InRange(m, n)
  BY <1>3 DEF InRange
<1>5. q \in maildir /\ SameFiles(q, m)
  BY <1>3, <1>4, MarkSameFiles
<1>6. Len(q["new"]) = x /\ Len(q["cur"]) = y /\ Len(q["tmp"]) = z
  BY <1>1, <1>5 DEF SameFiles
<1>7. Amount(q) = Amount(m)
  BY <1>6 DEF Amount
<1>8. ASSUME NEW k \in 1 .. Amount(m)
      PROVE  Listed(q, k) = IF k = n THEN [Listed(m, n) EXCEPT !.deleted = TRUE] ELSE Listed(m, k)
  <2> DEFINE d0 == DirOf(m, n)
             k0 == PlaceOf(m, n)
             e0 == [m[d0][k0] EXCEPT !.deleted = TRUE]
             d  == DirOf(m, k)
             i  == PlaceOf(m, k)
  <2>1. k \in Int /\ k >= 1 /\ k <= x + y + z
    <3> HIDE DEF x, y, z
    <3> QED
      BY <1>2, <1>3
  <2>2. d0 \in Dirs /\ k0 \in 1 .. Len(m[d0])
    BY <1>3, <1>4, PlaceInList
  <2>3. InRange(m, k)
    BY <2>1, <1>3 DEF InRange
  <2>4. d \in Dirs /\ i \in 1 .. Len(m[d])
    BY <2>1, <2>3, PlaceInList
  <2>5. DirOf(q, k) = d /\ PlaceOf(q, k) = i
    BY <1>6 DEF DirOf, PlaceOf
  <2>6. d = d0 /\ i = k0 <=> k = n
    <3> DEFINE P(j) == IF j <= x THEN <<"new", j>> ELSE IF j <= x + y THEN <<"cur", j - x>>
                       ELSE <<"tmp", j - (x + y)>>
    <3>1. P(k) = <<d, i>> /\ P(n) = <<d0, k0>>
      BY DEF DirOf, PlaceOf
    <3> HIDE DEF d, i, d0, k0, x, y, z
    <3>2. P(k) = P(n) <=> k = n
      BY <1>2, <1>3, <2>1
    <3> QED
      BY <3>1, <3>2
  <2>7. Listed(q, k) = q[d][i] /\ Listed(m, k) = m[d][i] /\ Listed(m, n) = m[d0][k0]
    BY <2>5 DEF Listed
  <2>8. q = [m EXCEPT ![d0] = [m[d0] EXCEPT ![k0] = e0]]
    BY DEF Mark
  <2>9. m[d] \in Seq(file_list) /\ m[d0] \in Seq(file_list)
    BY <2>2, <2>4, MaildirLists
  <2> HIDE DEF d0, k0, e0, d, i, q
  <2>10. q[d] = IF d = d0 THEN [m[d0] EXCEPT ![k0] = e0] ELSE m[d]
    BY <2>4, <2>8 DEF maildir
  <2>11. q[d][i] = IF d = d0 /\ i = k0 THEN e0 ELSE m[d][i]
    BY <2>2, <2>4, <2>9, <2>10
  <2>12. CASE k = n
    BY <2>6, <2>7, <2>11, <2>12 DEF e0
  <2>13. CASE k # n
    BY <2>6, <2>7, <2>11, <2>13
  <2> QED
    BY <2>12, <2>13
<1> HIDE DEF q
<1>9. /\ Listing(q) \in Seq(file_list) /\ Len(Listing(q)) = Amount(m)
      /\ \A k \in 1 .. Amount(m) : Listed(q, k) = Listing(q)[k]
  BY <1>5, <1>7, ListingPlaces
<1>10. /\ Listing(m) \in Seq(file_list) /\ Len(Listing(m)) = Amount(m)
       /\ \A k \in 1 .. Amount(m) : Listed(m, k) = Listing(m)[k]
  BY ListingPlaces
<1>11. Listing(m)[n] \in file_list
  BY <1>10
<1>12. [Listing(m)[n] EXCEPT !.deleted = TRUE] \in file_list
  BY <1>11 DEF file_list
<1>13. r \in Seq(file_list) /\ Len(r) = Amount(m)
  BY <1>10, <1>12
<1>14. ASSUME NEW k \in 1 .. Amount(m)
       PROVE  r[k] = IF k = n THEN [Listing(m)[n] EXCEPT !.deleted = TRUE] ELSE Listing(m)[k]
  BY <1>10
<1> HIDE DEF r
<1>15. ASSUME NEW k \in 1 .. Amount(m) PROVE Listing(q)[k] = r[k]
  BY <1>8, <1>9, <1>10, <1>14
<1>16. Listing(q) = r
  BY <1>9, <1>13, <1>15
<1> QED
  BY <1>16 DEF q, r

-----------------------------------------------------------------------------
(* The invariant.                                                           *)

(* What a mailbox must be for the session of user u.                         *)
Owns(u, m) ==
    \A d \in Dirs : \A k \in 1 .. Len(m[d]) :
        /\ <<u, d, m[d][k].name>> \in Mails
        /\ m[d][k].size = Size[<<u, d, m[d][k].name>>]

Distinct(m) ==
    \A d \in Dirs : \A j, k \in 1 .. Len(m[d]) : m[d][j].name = m[d][k].name => j = k

SessionOK(s) ==
    client_state[s] = "TRANSACTION" =>
        user[s] = authed[s] /\ user[s] # None /\ Owns(user[s], mailbox[s]) /\ Distinct(mailbox[s])

(* The inductive invariant: marks aside, a mailbox in TRANSACTION is the one *)
(* PASS read for the user it checked, and children are told whose mail they  *)
(* send.                                                                     *)
IInv == TypeOK /\ (\A s \in Sessions : SessionOK(s)) /\ TransfersOwnMail

-----------------------------------------------------------------------------
(* Lemmas on mailboxes.                                                      *)

(* Ownership and distinctness do not depend on the marks.                    *)
LEMMA SameFilesKeep ==
    ASSUME NEW m \in maildir, NEW q \in maildir, SameFiles(q, m), NEW u
    PROVE  (Owns(u, m) => Owns(u, q)) /\ (Distinct(m) => Distinct(q))
<1>1. ASSUME NEW d \in Dirs
      PROVE  /\ Len(q[d]) = Len(m[d])
             /\ \A k \in 1 .. Len(m[d]) : q[d][k].name = m[d][k].name /\ q[d][k].size = m[d][k].size
  BY DEF SameFiles
<1>2. Owns(u, m) => Owns(u, q)
  BY <1>1 DEF Owns
<1>3. Distinct(m) => Distinct(q)
  BY <1>1 DEF Distinct
<1> QED
  BY <1>2, <1>3

(* An order of a set of names is a sequence of names of the set, each once.  *)
LEMMA OrdersAreSequences ==
    ASSUME NEW S \in SUBSET Names, NEW o \in Orders(S)
    PROVE  /\ o \in Seq(Names) /\ Len(o) \in Nat
           /\ \A k \in 1 .. Len(o) : o[k] \in S
           /\ \A j, k \in 1 .. Len(o) : o[j] = o[k] => j = k
<1>1. IsFiniteSet(S)
  BY SessionAssumption, FS_Subset
<1>2. Cardinality(S) \in Nat
  BY <1>1, FS_CardinalityType
<1>3. o \in [1 .. Cardinality(S) -> S] /\ \A j, k \in DOMAIN o : o[j] = o[k] => j = k
  BY DEF Orders
<1> DEFINE c == Cardinality(S)
<1>5. c \in Nat /\ o \in [1 .. c -> Names] /\ DOMAIN o = 1 .. c
  BY <1>2, <1>3
<1> HIDE DEF c
<1>4. o \in Seq(Names) /\ Len(o) = c
  BY <1>5
<1>6. \A k \in 1 .. Len(o) : o[k] \in S
  BY <1>3, <1>4 DEF c
<1> QED
  BY <1>3, <1>4, <1>5, <1>6

(* What PASS loads is a mailbox of its user, without duplicates or marks.    *)
LEMMA LoadedIsOwn ==
    ASSUME NEW u \in Users, NEW order, disk \subseteq Mails,
           \A d \in Dirs : order[d] \in Orders(InDir(u, d))
    PROVE  /\ Loaded(u, order) \in maildir
           /\ Owns(u, Loaded(u, order)) /\ Distinct(Loaded(u, order))
           /\ Marked(Loaded(u, order)) = {}
<1> DEFINE m == Loaded(u, order)
<1>1. ASSUME NEW d \in Dirs
      PROVE  /\ m[d] \in Seq(file_list)
             /\ \A k \in 1 .. Len(m[d]) : /\ <<u, d, m[d][k].name>> \in Mails
                                          /\ m[d][k].size = Size[<<u, d, m[d][k].name>>]
                                          /\ m[d][k].deleted = FALSE
             /\ \A j, k \in 1 .. Len(m[d]) : m[d][j].name = m[d][k].name => j = k
  <2> DEFINE o == order[d]
             e(k) == [name |-> o[k], size |-> Size[<<u, d, o[k]>>], deleted |-> FALSE]
             l == [k \in 1 .. Len(o) |-> e(k)]
  <2>1. InDir(u, d) \in SUBSET Names
    BY DEF InDir
  <2>2. /\ o \in Seq(Names) /\ Len(o) \in Nat
        /\ \A k \in 1 .. Len(o) : o[k] \in InDir(u, d)
        /\ \A j, k \in 1 .. Len(o) : o[j] = o[k] => j = k
    BY <2>1, OrdersAreSequences
  <2>3. ASSUME NEW k \in 1 .. Len(o)
        PROVE  /\ <<u, d, o[k]>> \in Mails
               /\ e(k) \in file_list
               /\ e(k).name = o[k] /\ e(k).size = Size[<<u, d, o[k]>>] /\ e(k).deleted = FALSE
    <3>1. o[k] \in Names /\ <<u, d, o[k]>> \in Mails
      BY <2>2 DEF InDir
    <3>2. Size[<<u, d, o[k]>>] \in Nat
      BY <3>1, SessionAssumption
    <3> QED
      BY <3>1, <3>2 DEF file_list
  <2>4. m[d] = l
    BY DEF Loaded
  <2>5. Len(o) \in Nat /\ \A k \in 1 .. Len(o) : e(k) \in file_list
    BY <2>2, <2>3
  <2> HIDE DEF e, o
  <2>6. l \in Seq(file_list) /\ Len(l) = Len(o) /\ \A k \in 1 .. Len(o) : l[k] = e(k)
    BY <2>5
  <2> HIDE DEF l, m
  <2>7. ASSUME NEW k \in 1 .. Len(m[d])
        PROVE  /\ k \in 1 .. Len(o) /\ m[d][k].name = o[k]
               /\ m[d][k].size = Size[<<u, d, o[k]>>] /\ m[d][k].deleted = FALSE
    BY <2>3, <2>4, <2>6
  <2>8. /\ m[d] \in Seq(file_list)
        /\ \A k \in 1 .. Len(m[d]) : /\ <<u, d, m[d][k].name>> \in Mails
                                     /\ m[d][k].size = Size[<<u, d, m[d][k].name>>]
                                     /\ m[d][k].deleted = FALSE
    BY <2>3, <2>4, <2>6, <2>7
  <2>9. \A j, k \in 1 .. Len(m[d]) : m[d][j].name = m[d][k].name => j = k
    <3> SUFFICES ASSUME NEW j \in 1 .. Len(m[d]), NEW k \in 1 .. Len(m[d]),
                        m[d][j].name = m[d][k].name
                 PROVE  j = k
      OBVIOUS
    <3>1. j \in 1 .. Len(o) /\ k \in 1 .. Len(o) /\ o[j] = o[k]
      BY <2>7
    <3> QED
      BY <3>1, <2>2
  <2> QED
    BY <2>8, <2>9
<1>2. m \in maildir
  BY <1>1 DEF maildir, Loaded
<1>3. Owns(u, m) /\ Distinct(m)
  BY <1>1 DEF Owns, Distinct
<1>4. Marked(m) = {}
  <2>1. SUFFICES ASSUME NEW x \in Marked(m) PROVE FALSE
    OBVIOUS
  <2>2. PICK d \in Dirs : \E k \in 1 .. Len(m[d]) : x = <<d, k>>
    BY DEF Marked
  <2>3. PICK k \in 1 .. Len(m[d]) : x = <<d, k>>
    BY <2>2
  <2>4. m[d][k].deleted
    BY <2>1, <2>3 DEF Marked
  <2> QED
    BY <2>3, <2>4, <1>1
<1> QED
  BY <1>2, <1>3, <1>4

(* An entry RETR finds is one of the mailbox.                                *)
LEMMA SearchedInList ==
    ASSUME NEW m \in maildir, NEW n \in Int, Found(m, n)
    PROVE  /\ SearchDir(m, n) \in Dirs
           /\ n \in 1 .. Len(m[SearchDir(m, n)])
           /\ Searched(m, n) = m[SearchDir(m, n)][n]
           /\ Searched(m, n) \in file_list
<1>1. /\ SearchDir(m, n) \in Dirs
      /\ n \in 1 .. Len(m[SearchDir(m, n)])
  BY DEF Found, SearchDir, Dirs
<1>2. Searched(m, n) = m[SearchDir(m, n)][n]
  BY DEF Searched
<1> QED
  BY <1>1, <1>2, MaildirLists

(* The empty mailbox of a slot that never held one.                          *)
LEMMA NoBoxOK == NoBox \in maildir
BY DEF NoBox, maildir

-----------------------------------------------------------------------------
(* The invariant is inductive: first the steps by kind.                      *)

(* A step that touches no session but s, and leaves s consistent.            *)
LEMMA OneSession ==
    ASSUME NEW s \in Sessions, \A r \in Sessions : SessionOK(r),
           \A r \in Sessions \ {s} : /\ client_state'[r] = client_state[r]
                                     /\ user'[r] = user[r] /\ authed'[r] = authed[r]
                                     /\ mailbox'[r] = mailbox[r],
           SessionOK(s)'
    PROVE  \A r \in Sessions : SessionOK(r)'
<1> SUFFICES ASSUME NEW r \in Sessions PROVE SessionOK(r)'
  OBVIOUS
<1>1. CASE r = s
  BY <1>1
<1>2. CASE r # s
  BY <1>2 DEF SessionOK
<1> QED
  BY <1>1, <1>2

(* A step that touches no session at all.                                    *)
LEMMA NoSession ==
    ASSUME \A r \in Sessions : SessionOK(r), UNCHANGED session
    PROVE  \A r \in Sessions : SessionOK(r)'
BY DEF SessionOK, session

(* A new session, and one that ends.                                         *)
LEMMA ComeAndGo ==
    ASSUME IInv, NEW s \in Sessions, Connect(s) \/ PeerCloses(s) \/ QuitElsewhere(s)
    PROVE  IInv'
<1> USE DEF config, metrics, store
<1>1. TypeOK /\ (\A r \in Sessions : SessionOK(r)) /\ TransfersOwnMail
  BY DEF IInv
<1>2. CASE Connect(s)
  <2> USE <1>2 DEF Connect
  <2>1. TypeOK'
    BY <1>1 DEF TypeOK
  <2>2. client_state'[s] # "TRANSACTION"
    BY <1>1 DEF TypeOK
  <2>3. \A r \in Sessions : SessionOK(r)'
    BY <1>1, <2>2, OneSession DEF TypeOK, SessionOK
  <2>4. TransfersOwnMail'
    BY <1>1 DEF TransfersOwnMail
  <2> QED
    BY <2>1, <2>3, <2>4 DEF IInv
<1>3. CASE PeerCloses(s)
  <2> USE <1>3 DEF PeerCloses
  <2>1. TypeOK'
    BY <1>1 DEF TypeOK
  <2>2. client_state'[s] # "TRANSACTION"
    BY <1>1 DEF TypeOK
  <2>3. \A r \in Sessions : SessionOK(r)'
    BY <1>1, <2>2, OneSession DEF TypeOK, SessionOK
  <2>4. TransfersOwnMail'
    BY <1>1 DEF TransfersOwnMail
  <2> QED
    BY <2>1, <2>3, <2>4 DEF IInv
<1>4. CASE QuitElsewhere(s)
  <2> USE <1>4 DEF QuitElsewhere
  <2>1. TypeOK'
    BY <1>1 DEF TypeOK
  <2>2. client_state'[s] # "TRANSACTION"
    BY <1>1 DEF TypeOK
  <2>3. \A r \in Sessions : SessionOK(r)'
    BY <1>1, <2>2, OneSession DEF TypeOK, SessionOK
  <2>4. TransfersOwnMail'
    BY <1>1 DEF TransfersOwnMail
  <2> QED
    BY <2>1, <2>3, <2>4 DEF IInv
<1> QED
  BY <1>2, <1>3, <1>4

(* USER, whose answer never leaves a session in TRANSACTION.                 *)
LEMMA NameGiven ==
    ASSUME IInv, NEW s \in Sessions,
           (\E t \in Typed : User(s, t)) \/ UserRefused(s)
    PROVE  IInv'
<1> USE DEF config, metrics, store
<1>1. TypeOK /\ (\A r \in Sessions : SessionOK(r)) /\ TransfersOwnMail
  BY DEF IInv
<1>2. /\ client_state' = [client_state EXCEPT ![s] = IF @ = "MANAGER" THEN @ ELSE "AUTHORIZATION"]
      /\ \E u \in Users \cup {None} : user' = [user EXCEPT ![s] = u]
      /\ answered' = TRUE
      /\ UNCHANGED <<mailbox, authed, bye, config, metrics, store, transfers, up>>
  <2>1. CASE UserRefused(s)
    <3>1. user[s] \in Users \cup {None} /\ user = [user EXCEPT ![s] = user[s]]
      BY <1>1 DEF TypeOK
    <3> QED
      BY <2>1, <3>1 DEF UserRefused, Deauthorized
  <2>2. CASE \E t \in Typed : User(s, t)
    <3>1. PICK t \in Typed : User(s, t)
      BY <2>2
    <3>2. PICK k \in DOMAIN user_list : user' = [user EXCEPT ![s] = user_list[k]]
      BY <3>1 DEF User
    <3>3. user_list[k] \in Users
      BY DEF Users
    <3> QED
      BY <3>1, <3>2, <3>3 DEF User, Deauthorized
  <2> QED
    BY <2>1, <2>2
<1>3. TypeOK'
  BY <1>1, <1>2 DEF TypeOK
<1>4. client_state'[s] # "TRANSACTION"
  BY <1>1, <1>2 DEF TypeOK
<1>5. \A r \in Sessions : SessionOK(r)'
  BY <1>1, <1>2, <1>4, OneSession DEF TypeOK, SessionOK
<1>6. TransfersOwnMail'
  BY <1>1, <1>2 DEF TransfersOwnMail
<1> QED
  BY <1>3, <1>5, <1>6 DEF IInv

(* PASS, which reads the mailbox of the user it checked.                     *)
LEMMA PassKeeps ==
    ASSUME IInv, NEW s \in Sessions, NEW p \in Users, Pass(s, p)
    PROVE  IInv' /\ (\E m \in maildir : /\ mailbox' = [mailbox EXCEPT ![s] = m]
                                        /\ Marked(m) = {})
<1>1. TypeOK /\ (\A r \in Sessions : SessionOK(r)) /\ TransfersOwnMail
  BY DEF IInv
<1>2. user[s] = p /\ p \in Users /\ p # None
  BY SessionAssumption DEF Pass, PasswordValid
<1>3. PICK new \in Orders(InDir(user[s], "new")), cur \in Orders(InDir(user[s], "cur")),
           tmp \in Orders(InDir(user[s], "tmp")) :
        mailbox' = [mailbox EXCEPT ![s] =
                      Loaded(user[s], [d \in Dirs |-> CASE d = "new" -> new
                                                        [] d = "cur" -> cur
                                                        [] OTHER     -> tmp])]
  BY DEF Pass
<1> DEFINE order == [d \in Dirs |-> CASE d = "new" -> new [] d = "cur" -> cur [] OTHER -> tmp]
           m == Loaded(user[s], order)
<1>4. /\ order["new"] \in Orders(InDir(user[s], "new"))
      /\ order["cur"] \in Orders(InDir(user[s], "cur"))
      /\ order["tmp"] \in Orders(InDir(user[s], "tmp"))
  BY DEF Dirs
<1>5. mailbox' = [mailbox EXCEPT ![s] = m]
  BY <1>3
<1> HIDE DEF order
<1>6. \A d \in Dirs : order[d] \in Orders(InDir(user[s], d))
  BY <1>4 DEF Dirs
<1>7. disk \subseteq Mails
  BY <1>1 DEF TypeOK
<1>8. m \in maildir /\ Owns(user[s], m) /\ Distinct(m) /\ Marked(m) = {}
  BY <1>2, <1>6, <1>7, LoadedIsOwn
<1> HIDE DEF m
<1>9. /\ client_state' = [client_state EXCEPT ![s] = "TRANSACTION"]
      /\ authed' = [authed EXCEPT ![s] = p]
      /\ answered' = TRUE
      /\ UNCHANGED <<user, bye, base_dir, trans_enabled, total_messages, total_bytes, disk, due,
                     transfers, up>>
  BY DEF Pass, config, metrics, store
<1>10. TypeOK'
  BY <1>1, <1>2, <1>5, <1>8, <1>9 DEF TypeOK
<1>11. /\ user'[s] = user[s] /\ authed'[s] = p /\ mailbox'[s] = m
  BY <1>1, <1>5, <1>9 DEF TypeOK
<1>12. SessionOK(s)'
  BY <1>2, <1>8, <1>11 DEF SessionOK
<1>13. \A r \in Sessions \ {s} : /\ client_state'[r] = client_state[r]
                                 /\ user'[r] = user[r] /\ authed'[r] = authed[r]
                                 /\ mailbox'[r] = mailbox[r]
  BY <1>1, <1>5, <1>9 DEF TypeOK
<1>14. \A r \in Sessions : SessionOK(r)'
  BY <1>1, <1>12, <1>13, OneSession
<1>15. TransfersOwnMail'
  BY <1>1, <1>9 DEF TransfersOwnMail
<1> QED
  BY <1>5, <1>8, <1>10, <1>14, <1>15 DEF IInv

(* Steps that touch neither a session, the mails, nor the children.          *)
LEMMA Elsewhere ==
    ASSUME IInv, UNCHANGED <<session, metrics, store, transfers>>,
           base_dir' \in {"root", ""}, trans_enabled' \in BOOLEAN,
           up' \in BOOLEAN, answered' \in BOOLEAN
    PROVE  IInv'
<1> USE DEF session, metrics, store
<1>1. TypeOK'
  BY DEF IInv, TypeOK
<1>2. \A r \in Sessions : SessionOK(r)'
  BY NoSession DEF IInv
<1>3. TransfersOwnMail'
  BY DEF IInv, TransfersOwnMail
<1> QED
  BY <1>1, <1>2, <1>3 DEF IInv

(* DELE and RSET: the files of the mailbox are the same, the marks are not.  *)
LEMMA MarksChange ==
    ASSUME IInv, NEW s \in Sessions, Trans(s),
           NEW m \in maildir, SameFiles(m, mailbox[s]),
           mailbox' = [mailbox EXCEPT ![s] = m], answered' = TRUE,
           UNCHANGED <<client_state, user, authed, bye, config, metrics, store, transfers, up>>
    PROVE  IInv'
<1> USE DEF config, metrics, store
<1>1. TypeOK /\ (\A r \in Sessions : SessionOK(r)) /\ TransfersOwnMail
  BY DEF IInv
<1>2. TypeOK'
  BY <1>1 DEF TypeOK
<1>3. mailbox'[s] = m /\ mailbox[s] \in maildir
  BY <1>1 DEF TypeOK
<1>4. /\ user[s] = authed[s] /\ user[s] # None /\ Owns(user[s], mailbox[s])
      /\ Distinct(mailbox[s])
  BY <1>1 DEF SessionOK, Trans
<1>5. Owns(user[s], m) /\ Distinct(m)
  BY <1>3, <1>4, SameFilesKeep
<1>6. SessionOK(s)'
  BY <1>3, <1>4, <1>5 DEF SessionOK
<1>7. \A r \in Sessions \ {s} : mailbox'[r] = mailbox[r]
  BY <1>1 DEF TypeOK
<1>8. \A r \in Sessions : SessionOK(r)'
  BY <1>1, <1>6, <1>7, OneSession
<1>9. TransfersOwnMail'
  BY <1>1 DEF TransfersOwnMail
<1> QED
  BY <1>2, <1>8, <1>9 DEF IInv

(* A fork, whether it fails or not.                                          *)
LEMMA ForkKeeps ==
    ASSUME transfers \in Seq(Job), TransfersOwnMail,
           NEW j \in Job, j.path # LogFile => j.path[1] = j.as,
           transfers' \in {transfers, Append(transfers, j)}
    PROVE  transfers' \in Seq(Job) /\ TransfersOwnMail'
<1>1. CASE transfers' = transfers
  BY <1>1 DEF TransfersOwnMail
<1>2. CASE transfers' = Append(transfers, j)
  <2>1. /\ transfers' \in Seq(Job) /\ DOMAIN transfers' = 1 .. Len(transfers) + 1
        /\ \A k \in 1 .. Len(transfers) + 1 :
             transfers'[k] = IF k = Len(transfers) + 1 THEN j ELSE transfers[k]
    BY <1>2
  <2>2. \A k \in 1 .. Len(transfers) + 1 : k # Len(transfers) + 1 => k \in DOMAIN transfers
    OBVIOUS
  <2> QED
    BY <2>1, <2>2 DEF TransfersOwnMail
<1> QED
  BY <1>1, <1>2

(* RETR hands a child the path of a mail of the session's own user.          *)
LEMMA RetrKeeps ==
    ASSUME IInv, NEW s \in Sessions, NEW n \in Numbers, Retr(s, n)
    PROVE  IInv'
<1> DEFINE m == mailbox[s]
           d == SearchDir(m, n)
           e == Searched(m, n)
           j == [path |-> PathOf(s, d, e), base |-> base_dir, as |-> authed[s]]
<1>1. TypeOK /\ (\A r \in Sessions : SessionOK(r)) /\ TransfersOwnMail
  BY DEF IInv
<1>2. m \in maildir /\ n \in Int /\ Found(m, n)
  <2>1. m \in maildir /\ Found(m, n)
    BY <1>1 DEF TypeOK, Retr
  <2>2. n \in Int
    BY SessionAssumption DEF Numbers
  <2> QED
    BY <2>1, <2>2
<1>3. d \in Dirs /\ n \in 1 .. Len(m[d]) /\ e = m[d][n] /\ e \in file_list
  BY <1>2, SearchedInList
<1>4. user[s] = authed[s] /\ user[s] # None /\ Owns(user[s], m)
  BY <1>1 DEF SessionOK, Retr, Trans
<1>5. PathOf(s, d, e) \in Mails /\ PathOf(s, d, e)[1] = user[s]
  BY <1>3, <1>4 DEF Owns, PathOf
<1>6. e.size \in Nat
  BY <1>3 DEF file_list
<1>7. /\ total_messages' = total_messages + 1 /\ total_bytes' = total_bytes + e.size
      /\ transfers' \in {transfers, Append(transfers, j)}
      /\ answered' = TRUE
      /\ UNCHANGED <<session, base_dir, trans_enabled, disk, due, up>>
  BY DEF Retr, Fork, config, store
<1>8. j \in Job
  BY <1>1, <1>5 DEF Job, TypeOK
<1>9. j.path[1] = j.as
  BY <1>4, <1>5
<1> HIDE DEF j, e, d, m
<1>10. transfers \in Seq(Job)
  BY <1>1 DEF TypeOK
<1>11. transfers' \in Seq(Job) /\ TransfersOwnMail'
  BY <1>1, <1>7, <1>8, <1>9, <1>10, ForkKeeps
<1>12. TypeOK'
  <2>1. total_messages' \in Nat /\ total_bytes' \in Nat
    <3>1. total_messages \in Nat /\ total_bytes \in Nat
      BY <1>1 DEF TypeOK
    <3> QED
      BY <3>1, <1>6, <1>7
  <2> QED
    BY <1>1, <1>7, <1>11, <2>1 DEF TypeOK, session
<1>13. \A r \in Sessions : SessionOK(r)'
  BY <1>1, <1>7, NoSession
<1> QED
  BY <1>11, <1>12, <1>13 DEF IInv

(* QUIT and the mail it removes.                                             *)
LEMMA QuitKeeps ==
    ASSUME IInv, NEW s \in Sessions, Quit(s)
    PROVE  IInv'
<1> USE DEF config, metrics
<1>1. TypeOK /\ (\A r \in Sessions : SessionOK(r)) /\ TransfersOwnMail
  BY DEF IInv
<1>2. /\ client_state' = [client_state EXCEPT ![s] = "free"]
      /\ user' = [user EXCEPT ![s] = None]
      /\ mailbox' = [mailbox EXCEPT ![s] = NoBox]
      /\ answered' = TRUE /\ up' \in BOOLEAN
      /\ disk' \subseteq disk /\ bye' = bye \cup {s}
      /\ UNCHANGED <<authed, config, metrics, due, transfers>>
  BY DEF Quit
<1>3. TypeOK'
  BY <1>1, <1>2, NoBoxOK DEF TypeOK
<1>4. client_state'[s] # "TRANSACTION"
  BY <1>1, <1>2 DEF TypeOK
<1>5. \A r \in Sessions : SessionOK(r)'
  BY <1>1, <1>2, <1>4, OneSession DEF TypeOK, SessionOK
<1>6. TransfersOwnMail'
  BY <1>1, <1>2 DEF TransfersOwnMail
<1> QED
  BY <1>3, <1>5, <1>6 DEF IInv

(* LOGG, whose child sends the log and no mail.                              *)
LEMMA LoggKeeps ==
    ASSUME IInv, NEW s \in Sessions, Logg(s)
    PROVE  IInv'
<1> DEFINE j == [path |-> LogFile, base |-> base_dir, as |-> None]
<1>1. TypeOK /\ (\A r \in Sessions : SessionOK(r)) /\ TransfersOwnMail
  BY DEF IInv
<1>2. /\ transfers' \in {transfers, Append(transfers, j)} /\ answered' = TRUE
      /\ UNCHANGED <<session, config, metrics, store, up>>
  BY DEF Logg, Fork
<1>3. j \in Job /\ j.path = LogFile
  BY <1>1 DEF Job, TypeOK
<1> HIDE DEF j
<1>4. transfers \in Seq(Job)
  BY <1>1 DEF TypeOK
<1>5. transfers' \in Seq(Job) /\ TransfersOwnMail'
  BY <1>1, <1>2, <1>3, <1>4, ForkKeeps
<1>6. TypeOK'
  BY <1>1, <1>2, <1>5 DEF TypeOK, session, config, metrics, store
<1>7. \A r \in Sessions : SessionOK(r)'
  BY <1>1, <1>2, NoSession
<1> QED
  BY <1>5, <1>6, <1>7 DEF IInv

(* A child ends; the others keep their order.                                *)
LEMMA WithoutPlaces ==
    ASSUME transfers \in Seq(Job), NEW k \in DOMAIN transfers
    PROVE  /\ Without(k) \in Seq(Job) /\ Len(Without(k)) = Len(transfers) - 1
           /\ DOMAIN Without(k) = 1 .. Len(transfers) - 1
           /\ \A i \in 1 .. Len(transfers) - 1 :
                Without(k)[i] = IF i <= k - 1 THEN transfers[i] ELSE transfers[i + 1]
<1>2. Len(transfers) \in Nat /\ k \in 1 .. Len(transfers)
  OBVIOUS
<1> DEFINE x == SubSeq(transfers, 1, k - 1)
           y == SubSeq(transfers, k + 1, Len(transfers))
<1>4. /\ x \in Seq(Job) /\ Len(x) = k - 1
      /\ \A i \in 1 .. k - 1 : x[i] = transfers[i]
  BY <1>2
<1>5. /\ y \in Seq(Job) /\ Len(y) = Len(transfers) - k
      /\ \A i \in 1 .. Len(transfers) - k : y[i] = transfers[k + i]
  BY <1>2
<1>6. Without(k) = x \o y
  BY DEF Without
<1> HIDE DEF x, y
<1>7. /\ x \o y \in Seq(Job) /\ Len(x \o y) = Len(transfers) - 1
      /\ \A i \in 1 .. Len(x) + Len(y) :
           (x \o y)[i] = IF i <= Len(x) THEN x[i] ELSE y[i - Len(x)]
  <2>1. Len(x) + Len(y) = Len(transfers) - 1
    BY <1>2, <1>4, <1>5
  <2>2. /\ x \o y \in Seq(Job) /\ Len(x \o y) = Len(x) + Len(y)
        /\ \A i \in 1 .. Len(x) + Len(y) :
             (x \o y)[i] = IF i <= Len(x) THEN x[i] ELSE y[i - Len(x)]
    BY <1>4, <1>5
  <2> QED
    BY <2>1, <2>2
<1>8. ASSUME NEW i \in 1 .. Len(transfers) - 1
      PROVE  (x \o y)[i] = IF i <= k - 1 THEN transfers[i] ELSE transfers[i + 1]
  <2>0. /\ Len(x) = k - 1 /\ k \in Nat /\ Len(transfers) \in Nat /\ i \in Nat
        /\ i \in 1 .. Len(x) + Len(y)
    BY <1>2, <1>4, <1>5
  <2>1. CASE i <= k - 1
    BY <1>7, <2>0, <2>1, <1>4
  <2>2. CASE ~(i <= k - 1)
    <3>1. (x \o y)[i] = y[i - Len(x)]
      BY <1>7, <2>0, <2>2
    <3>2. i - (k - 1) \in 1 .. Len(transfers) - k /\ k + (i - (k - 1)) = i + 1
      BY <1>8, <2>2, <2>0
    <3>3. y[i - (k - 1)] = transfers[i + 1]
      BY <3>2, <1>5
    <3> QED
      BY <2>0, <2>2, <3>1, <3>3
  <2> QED
    BY <2>1, <2>2
<1>9. DOMAIN (x \o y) = 1 .. Len(transfers) - 1
  BY <1>7
<1> QED
  BY <1>6, <1>7, <1>8, <1>9

(* A child ends.                                                            *)
LEMMA TransferKeeps ==
    ASSUME IInv, NEW k \in DOMAIN transfers, Transfer(k)
    PROVE  IInv'
<1>1. TypeOK /\ (\A r \in Sessions : SessionOK(r)) /\ TransfersOwnMail
  BY DEF IInv
<1>0. transfers \in Seq(Job)
  BY <1>1 DEF TypeOK
<1>2. Len(transfers) \in Nat /\ k \in 1 .. Len(transfers) /\ transfers[k] \in Job
  BY <1>0
<1>3. /\ transfers' = Without(k)
      /\ UNCHANGED <<session, config, metrics, store, up, answered>>
  BY DEF Transfer
<1>7. /\ transfers' \in Seq(Job) /\ DOMAIN transfers' = 1 .. Len(transfers) - 1
      /\ \A i \in 1 .. Len(transfers) - 1 :
           transfers'[i] = IF i <= k - 1 THEN transfers[i] ELSE transfers[i + 1]
  BY <1>0, <1>3, WithoutPlaces
<1>9. TypeOK'
  BY <1>1, <1>3, <1>7 DEF TypeOK, session, config, metrics, store
<1>10. \A r \in Sessions : SessionOK(r)'
  BY <1>1, <1>3, NoSession
<1>11. TransfersOwnMail'
  <2>1. SUFFICES ASSUME NEW i \in 1 .. Len(transfers) - 1, transfers'[i].path # LogFile
                 PROVE  transfers'[i].path[1] = transfers'[i].as
    BY <1>7 DEF TransfersOwnMail
  <2>2. \E h \in DOMAIN transfers : transfers'[i] = transfers[h]
    <3>1. DOMAIN transfers = 1 .. Len(transfers)
      BY <1>0
    <3>2. i \in 1 .. Len(transfers) /\ i + 1 \in 1 .. Len(transfers)
      BY <1>2
    <3>3. transfers'[i] = transfers[i] \/ transfers'[i] = transfers[i + 1]
      BY <1>7
    <3> QED
      BY <3>1, <3>2, <3>3
  <2> QED
    BY <2>1, <2>2, <1>1 DEF TransfersOwnMail
<1> QED
  BY <1>9, <1>10, <1>11 DEF IInv

-----------------------------------------------------------------------------
(* The invariant, for every behaviour.                                       *)

(* Initially no session is in TRANSACTION and there are no children.         *)
LEMMA InitIInv == Init => IInv
<1> SUFFICES ASSUME Init PROVE IInv
  OBVIOUS
<1>1. TypeOK
  BY SessionAssumption, NoBoxOK DEF Init, TypeOK
<1>2. (\A s \in Sessions : SessionOK(s)) /\ TransfersOwnMail
  BY DEF Init, SessionOK, TransfersOwnMail
<1> QED
  BY <1>1, <1>2 DEF IInv

(* Every step keeps it.                                                      *)
LEMMA NextIInv == IInv /\ [Next]_vars => IInv'
<1> SUFFICES ASSUME IInv, [Next]_vars PROVE IInv'
  OBVIOUS
<1>1. TypeOK
  BY DEF IInv
<1>2. CASE UNCHANGED vars
  BY <1>1, <1>2, Elsewhere DEF vars, config, TypeOK
<1>3. ASSUME NEW s \in Sessions, Connect(s) \/ PeerCloses(s) \/ QuitElsewhere(s) PROVE IInv'
  BY <1>3, ComeAndGo
<1>4. ASSUME NEW s \in Sessions, (\E t \in Typed : User(s, t)) \/ UserRefused(s) PROVE IInv'
  BY <1>4, NameGiven
<1>5. ASSUME NEW s \in Sessions, NEW p \in Users, Pass(s, p) PROVE IInv'
  BY <1>5, PassKeeps
<1>6. ASSUME NEW s \in Sessions, NEW p \in Users, PassAborts(s, p) PROVE IInv'
  BY <1>1, <1>6, Elsewhere DEF PassAborts, config, TypeOK
<1>7. ASSUME NEW s \in Sessions, AnswerOnly(s) PROVE IInv'
  BY <1>1, <1>7, Elsewhere DEF AnswerOnly, config, TypeOK
<1>8. ASSUME NEW s \in Sessions, NEW n \in Numbers, ListOne(s, n) PROVE IInv'
  <2>1. InRange(mailbox[s], n) \in BOOLEAN
    BY DEF InRange
  <2> QED
    BY <1>1, <1>8, <2>1, Elsewhere DEF ListOne, config, TypeOK
<1>9. ASSUME NEW s \in Sessions, NEW n \in Numbers, Retr(s, n) PROVE IInv'
  BY <1>9, RetrKeeps
<1>10. ASSUME NEW s \in Sessions, NEW n \in Numbers, Dele(s, n) PROVE IInv'
  <2>1. mailbox[s] \in maildir
    BY <1>1 DEF TypeOK
  <2>2. n \in Int
    BY SessionAssumption DEF Numbers
  <2>3. Mark(mailbox[s], n) \in maildir /\ SameFiles(Mark(mailbox[s], n), mailbox[s])
    BY <2>1, <2>2, <1>10, MarkSameFiles DEF Dele
  <2>4. mailbox' = [mailbox EXCEPT ![s] = Mark(mailbox[s], n)]
    BY <1>10 DEF Dele
  <2> QED
    BY <1>10, <2>3, <2>4, MarksChange DEF Dele
<1>11. ASSUME NEW s \in Sessions, Rset(s) PROVE IInv'
  <2>1. mailbox[s] \in maildir
    BY <1>1 DEF TypeOK
  <2>2. UnmarkAll(mailbox[s]) \in maildir /\ SameFiles(UnmarkAll(mailbox[s]), mailbox[s])
    BY <2>1, UnmarkSameFiles
  <2>3. mailbox' = [mailbox EXCEPT ![s] = UnmarkAll(mailbox[s])]
    BY <1>11 DEF Rset
  <2> QED
    BY <1>11, <2>2, <2>3, MarksChange DEF Rset
<1>12. ASSUME NEW s \in Sessions, Quit(s) PROVE IInv'
  BY <1>12, QuitKeeps
<1>13. ASSUME NEW s \in Sessions, NEW on \in BOOLEAN, Tran(s, on) PROVE IInv'
  BY <1>1, <1>13, Elsewhere DEF Tran, TypeOK
<1>14. ASSUME NEW s \in Sessions, NEW len \in 0 .. MaxLen, Dirr(s, len) \/ Host(s, len)
       PROVE  IInv'
  <2>1. Fits(len) \in BOOLEAN
    BY DEF Fits
  <2>2. CASE Dirr(s, len)
    BY <1>1, <2>1, <2>2, Elsewhere DEF Dirr, TypeOK
  <2>3. CASE Host(s, len)
    BY <1>1, <2>1, <2>3, Elsewhere DEF Host, config, TypeOK
  <2> QED
    BY <1>14, <2>2, <2>3
<1>15. ASSUME NEW s \in Sessions, Logg(s) PROVE IInv'
  BY <1>15, LoggKeeps
<1>16. ASSUME NEW k \in DOMAIN transfers, Transfer(k) PROVE IInv'
  BY <1>16, TransferKeeps
<1>17. ASSUME NEW p \in due, Arrive(p) PROVE IInv'
  <2>1. /\ disk' \subseteq Mails /\ due' \subseteq Mails
        /\ UNCHANGED <<session, config, metrics, transfers, up, answered>>
    BY <1>1, <1>17 DEF Arrive, TypeOK
  <2>2. TypeOK'
    BY <1>1, <2>1 DEF TypeOK, session, config, metrics
  <2>3. \A r \in Sessions : SessionOK(r)'
    BY <2>1, NoSession DEF IInv
  <2>4. TransfersOwnMail'
    BY <2>1 DEF IInv, TransfersOwnMail
  <2> QED
    BY <2>2, <2>3, <2>4 DEF IInv
<1> QED
  BY <1>2, <1>3, <1>4, <1>5, <1>6, <1>7, <1>8, <1>9, <1>10, <1>11, <1>12, <1>13, <1>14, <1>15,
     <1>16, <1>17 DEF Next, Command

(* The sessions keep IInv for ever.                                          *)
THEOREM Invariance == Spec => []IInv
<1>1. Init => IInv
  BY InitIInv
<1>2. IInv /\ [Next]_vars => IInv'
  BY NextIInv
<1> QED
  BY <1>1, <1>2, PTL DEF Spec

(* Type correctness of the sessions, the mails and the children.             *)
THEOREM TypeCorrect == Spec => []TypeOK
<1>1. IInv => TypeOK
  BY DEF IInv
<1> QED
  BY <1>1, Invariance, PTL

(* A session only ever works on the mail of the user whose password it gave, *)
(* USER in the middle of a session (pop3.c:803) notwithstanding.             *)
THEOREM SessionsOwnTheirMail == Spec => []OnlyOwnMail
<1>1. IInv => OnlyOwnMail
  BY DEF IInv, SessionOK, OnlyOwnMail, Owns, PathOf
<1> QED
  BY <1>1, Invariance, PTL

(* A child process sends a mail to no one but its owner.                     *)
THEOREM ChildrenSendOwnMail == Spec => []TransfersOwnMail
<1>1. IInv => TransfersOwnMail
  BY DEF IInv
<1> QED
  BY <1>1, Invariance, PTL

(* No mailbox lists a file twice.                                            *)
THEOREM MailboxesDistinct == Spec => []NoDuplicates
<1>1. IInv => NoDuplicates
  BY DEF IInv, SessionOK, NoDuplicates, Distinct
<1> QED
  BY <1>1, Invariance, PTL

(* LIST n and DELE n mean message n of the full listing, for mailboxes of    *)
(* any size, and DELE marks that one alone.                                  *)
THEOREM NumbersAlwaysAgree == Spec => []NumbersAgree
<1>1. IInv => NumbersAgree
  <2> SUFFICES ASSUME IInv, NEW s \in Sessions
               PROVE  LET m == mailbox[s]
                      IN  /\ Len(Listing(m)) = Amount(m)
                          /\ \A n \in 1 .. Amount(m) :
                               /\ Listed(m, n) = Listing(m)[n]
                               /\ Listing(Mark(m, n)) = [Listing(m) EXCEPT ![n].deleted = TRUE]
    BY DEF NumbersAgree
  <2>1. mailbox[s] \in maildir
    BY DEF IInv, TypeOK
  <2> QED
    BY <2>1, ListingPlaces, MarkInListing
<1> QED
  BY <1>1, Invariance, PTL

(* RETR's number is LIST's as long as nothing is in the lists before.        *)
LEMMA RetrPlaces ==
    ASSUME NEW m \in maildir, NEW n \in 1 .. Amount(m)
    PROVE  (Found(m, n) /\ SearchDir(m, n) = DirOf(m, n) /\ PlaceOf(m, n) = n)
             <=> (\A e \in Before(DirOf(m, n)) : m[e] = <<>>)
<1> DEFINE x == Len(m["new"])
           y == Len(m["cur"])
           z == Len(m["tmp"])
           A == \A e \in Before(DirOf(m, n)) : m[e] = <<>>
           R == Found(m, n) /\ SearchDir(m, n) = DirOf(m, n) /\ PlaceOf(m, n) = n
<1>1. /\ x \in Nat /\ y \in Nat /\ z \in Nat
      /\ n \in Nat /\ n >= 1 /\ n <= x + y + z
  BY DEF maildir, Dirs, Amount
<1>2. \A d \in Dirs : m[d] = <<>> <=> Len(m[d]) = 0
  <2> SUFFICES ASSUME NEW d \in Dirs PROVE m[d] = <<>> <=> Len(m[d]) = 0
    OBVIOUS
  <2>1. m[d] \in Seq(file_list)
    BY DEF maildir
  <2> QED
    BY <2>1
<1>3. (m["new"] = <<>> <=> x = 0) /\ (m["cur"] = <<>> <=> y = 0)
  BY <1>2 DEF Dirs
<1>4. /\ DirOf(m, n) = IF n <= x THEN "new" ELSE IF n <= x + y THEN "cur" ELSE "tmp"
      /\ PlaceOf(m, n) = IF n <= x THEN n ELSE IF n <= x + y THEN n - x ELSE n - (x + y)
      /\ SearchDir(m, n) = IF n \in 1 .. x THEN "new" ELSE IF n \in 1 .. y THEN "cur" ELSE "tmp"
      /\ Found(m, n) <=> n \in 1 .. x \/ n \in 1 .. y \/ n \in 1 .. z
  BY Zenon DEF DirOf, PlaceOf, SearchDir, Found, Dirs
<1>5. Before("new") = {} /\ Before("cur") = {"new"} /\ Before("tmp") = {"new", "cur"}
  <2>1. "cur" # "new" /\ "tmp" # "new" /\ "tmp" # "cur"
    OBVIOUS
  <2> QED
    BY <2>1, Zenon DEF Before
<1>6. CASE n <= x
  <2>1. DirOf(m, n) = "new" /\ PlaceOf(m, n) = n
    BY <1>4, <1>6, Zenon
  <2>2. n \in 1 .. x
    BY <1>1, <1>6
  <2>3. R
    BY <1>4, <2>1, <2>2, Zenon
  <2>4. A
    BY <1>5, <2>1
  <2> QED
    BY <2>3, <2>4, Zenon
<1>7. CASE ~(n <= x) /\ n <= x + y
  <2>1. DirOf(m, n) = "cur" /\ PlaceOf(m, n) = n - x
    BY <1>4, <1>7, Zenon
  <2>2. A <=> x = 0
    BY <1>3, <1>5, <2>1
  <2>3. ASSUME x = 0 PROVE R
    <3>1. ~(n \in 1 .. x) /\ n \in 1 .. y /\ n - x = n
      BY <1>1, <1>7, <2>3
    <3> QED
      BY <1>4, <2>1, <3>1, Zenon
  <2>4. ASSUME x # 0 PROVE ~R
    <3>1. n - x # n
      BY <1>1, <2>4
    <3> QED
      BY <2>1, <3>1, Zenon
  <2> QED
    BY <2>2, <2>3, <2>4, Zenon
<1>8. CASE ~(n <= x) /\ ~(n <= x + y)
  <2>1. DirOf(m, n) = "tmp" /\ PlaceOf(m, n) = n - (x + y)
    BY <1>4, <1>8, Zenon
  <2>2. A <=> x = 0 /\ y = 0
    BY <1>3, <1>5, <2>1
  <2>3. ASSUME x = 0, y = 0 PROVE R
    <3>1. ~(n \in 1 .. x) /\ ~(n \in 1 .. y) /\ n \in 1 .. z /\ n - (x + y) = n
      BY <1>1, <1>8, <2>3
    <3> QED
      BY <1>4, <2>1, <3>1, Zenon
  <2>4. ASSUME ~(x = 0 /\ y = 0) PROVE ~R
    <3>1. n - (x + y) # n
      BY <1>1, <2>4
    <3> QED
      BY <2>1, <3>1, Zenon
  <2> QED
    BY <2>2, <2>3, <2>4, Zenon
<1> QED
  BY <1>6, <1>7, <1>8, Zenon

(* RETR n and LIST n are one message exactly while no list before its own     *)
(* holds anything, for mailboxes of any size.                                *)
THEOREM RetrSometimesAgrees == Spec => []RetrAgreesIff
<1>1. IInv => RetrAgreesIff
  <2> SUFFICES ASSUME IInv, NEW s \in Sessions, NEW n \in 1 .. Amount(mailbox[s])
               PROVE  (Found(mailbox[s], n) /\ SearchDir(mailbox[s], n) = DirOf(mailbox[s], n)
                         /\ PlaceOf(mailbox[s], n) = n)
                        <=> (\A e \in Before(DirOf(mailbox[s], n)) : mailbox[s][e] = <<>>)
    BY DEF RetrAgreesIff
  <2>1. mailbox[s] \in maildir
    BY DEF IInv, TypeOK
  <2> QED
    BY <2>1, RetrPlaces, Zenon
<1> QED
  BY <1>1, Invariance, PTL

-----------------------------------------------------------------------------
(* The sessions implement MailStore.                                         *)

(* Initially no mailbox is open.                                             *)
LEMMA InitRefines == Init => Store!Init
BY SessionAssumption DEF Init, Store!Init, Holds, Marks

(* A step that leaves the mails alone and the sessions in TRANSACTION as     *)
(* they are is a stutter, or the base directory moves.                       *)
LEMMA Stutters ==
    ASSUME UNCHANGED <<session, store>>, base_dir' \in {base_dir, ""}
    PROVE  [Store!Next]_(Store!vars)
<1>1. UNCHANGED <<disk, due, bye, Holds, Marks>>
  BY DEF session, store, Holds, Marks, MarkedPaths, PathOf
<1>2. CASE base_dir' = base_dir
  BY <1>1, <1>2 DEF Store!vars
<1>3. CASE base_dir' = ""
  BY <1>1, <1>3 DEF Store!Next, Store!Move
<1> QED
  BY <1>2, <1>3

(* The view of a session no step touches.                                    *)
LEMMA OthersSeeNothing ==
    ASSUME NEW s \in Sessions,
           \A r \in Sessions \ {s} : /\ client_state'[r] = client_state[r]
                                     /\ user'[r] = user[r] /\ mailbox'[r] = mailbox[r],
           NEW h, NEW k, Holds'[s] = h, Marks'[s] = k
    PROVE  Holds' = [Holds EXCEPT ![s] = h] /\ Marks' = [Marks EXCEPT ![s] = k]
<1>1. ASSUME NEW r \in Sessions \ {s} PROVE Holds'[r] = Holds[r] /\ Marks'[r] = Marks[r]
  BY <1>1 DEF Holds, Marks, MarkedPaths, PathOf
<1>2. /\ Holds = [r \in Sessions |-> Holds[r]] /\ Holds' = [r \in Sessions |-> Holds'[r]]
      /\ Marks = [r \in Sessions |-> Marks[r]] /\ Marks' = [r \in Sessions |-> Marks'[r]]
  BY DEF Holds, Marks
<1> QED
  BY <1>1, <1>2

(* A session that leaves TRANSACTION otherwise than by QUIT drops what it    *)
(* held.                                                                     *)
LEMMA LeavingAbandons ==
    ASSUME TypeOK, NEW s \in Sessions, NEW st, st # "TRANSACTION",
           client_state' = [client_state EXCEPT ![s] = st],
           \A r \in Sessions \ {s} : user'[r] = user[r],
           UNCHANGED <<mailbox, bye, disk, due, base_dir>>
    PROVE  Store!Next
<1>1. Holds'[s] = None /\ Marks'[s] = {}
  BY DEF TypeOK, Holds, Marks
<1>2. \A r \in Sessions \ {s} : client_state'[r] = client_state[r]
  BY DEF TypeOK
<1>3. Holds' = [Holds EXCEPT ![s] = None] /\ Marks' = [Marks EXCEPT ![s] = {}]
  BY <1>1, <1>2, OthersSeeNothing
<1> QED
  BY <1>3 DEF Store!Next, Store!Abandon

(* A session outside TRANSACTION that stays outside holds nothing before and *)
(* after.                                                                    *)
LEMMA OutsideHoldsNothing ==
    ASSUME TypeOK, NEW s \in Sessions, NEW st, st # "TRANSACTION",
           client_state[s] # "TRANSACTION",
           client_state' = [client_state EXCEPT ![s] = st],
           \A r \in Sessions \ {s} : user'[r] = user[r],
           UNCHANGED mailbox
    PROVE  Holds[s] = None /\ Holds' = Holds /\ Marks' = Marks
<1>1. client_state'[s] # "TRANSACTION"
  BY DEF TypeOK
<1>2. /\ Holds[s] = None /\ Marks[s] = {}
      /\ Holds'[s] = None /\ Marks'[s] = {}
  BY <1>1 DEF Holds, Marks
<1>3. ASSUME NEW r \in Sessions \ {s} PROVE Holds'[r] = Holds[r] /\ Marks'[r] = Marks[r]
  <2>1. client_state'[r] = client_state[r] /\ user'[r] = user[r] /\ mailbox'[r] = mailbox[r]
    BY <1>3 DEF TypeOK
  <2> QED
    BY <2>1, <1>3 DEF Holds, Marks, MarkedPaths, PathOf
<1>4. /\ Holds = [r \in Sessions |-> Holds[r]] /\ Holds' = [r \in Sessions |-> Holds'[r]]
      /\ Marks = [r \in Sessions |-> Marks[r]] /\ Marks' = [r \in Sessions |-> Marks'[r]]
  BY DEF Holds, Marks
<1>5. \A r \in Sessions : Holds'[r] = Holds[r] /\ Marks'[r] = Marks[r]
  BY <1>2, <1>3
<1> QED
  BY <1>2, <1>4, <1>5

(* A connection begins a session, which holds nothing.                       *)
LEMMA ConnectBegins ==
    ASSUME TypeOK, NEW s \in Sessions, Connect(s)
    PROVE  Store!Next
<1>1. \E st \in {"MANAGER", "AUTHORIZATION"} : client_state' = [client_state EXCEPT ![s] = st]
  BY DEF Connect
<1>2. client_state[s] # "TRANSACTION" /\ UNCHANGED <<mailbox, base_dir, disk, due>>
  BY DEF Connect, config, store
<1>3. \A r \in Sessions \ {s} : user'[r] = user[r]
  BY DEF Connect, TypeOK
<1>4. Holds[s] = None /\ Holds' = Holds /\ Marks' = Marks
  BY <1>1, <1>2, <1>3, OutsideHoldsNothing
<1>5. bye' = bye \ {s}
  BY DEF Connect
<1> QED
  BY <1>2, <1>4, <1>5 DEF Store!Next, Store!Begin

(* QUIT outside TRANSACTION removes nothing.                                 *)
LEMMA QuitElsewhereLeaves ==
    ASSUME TypeOK, NEW s \in Sessions, QuitElsewhere(s)
    PROVE  Store!Next
<1>1. client_state' = [client_state EXCEPT ![s] = "free"]
  BY DEF QuitElsewhere
<1>2. client_state[s] # "TRANSACTION" /\ UNCHANGED <<mailbox, base_dir, disk, due>>
  BY DEF QuitElsewhere, Connected, Trans, config, store
<1>3. \A r \in Sessions \ {s} : user'[r] = user[r]
  BY DEF QuitElsewhere, TypeOK
<1>4. Holds[s] = None /\ Holds' = Holds /\ Marks' = Marks
  BY <1>1, <1>2, <1>3, OutsideHoldsNothing
<1>5. bye' = bye \cup {s}
  BY DEF QuitElsewhere
<1> QED
  BY <1>2, <1>4, <1>5 DEF Store!Next, Store!Leave

(* PASS opens the mailbox of the user, with no mark in it.                   *)
LEMMA PassOpens ==
    ASSUME IInv, NEW s \in Sessions, NEW p \in Users, Pass(s, p)
    PROVE  Store!Next
<1>1. TypeOK
  BY DEF IInv
<1>2. PICK m \in maildir : mailbox' = [mailbox EXCEPT ![s] = m] /\ Marked(m) = {}
  BY PassKeeps
<1>3. /\ client_state[s] = "AUTHORIZATION" /\ user[s] = p
      /\ client_state' = [client_state EXCEPT ![s] = "TRANSACTION"]
      /\ UNCHANGED <<user, bye, base_dir, disk, due>> /\ base_dir = "root"
  BY DEF Pass, PasswordValid, DirsExist, config, store
<1>4. client_state'[s] = "TRANSACTION" /\ mailbox'[s] = m /\ user'[s] = p
  BY <1>1, <1>2, <1>3 DEF TypeOK
<1>5. Holds'[s] = p
  BY <1>4 DEF Holds
<1>6. Marks'[s] = {}
  BY <1>2, <1>4 DEF Marks, MarkedPaths
<1>7. \A r \in Sessions \ {s} : /\ client_state'[r] = client_state[r]
                                /\ user'[r] = user[r] /\ mailbox'[r] = mailbox[r]
  BY <1>1, <1>2, <1>3 DEF TypeOK
<1>8. Holds' = [Holds EXCEPT ![s] = p] /\ Marks' = [Marks EXCEPT ![s] = {}]
  BY <1>5, <1>6, <1>7, OthersSeeNothing
<1>9. Holds[s] = None /\ Marks[s] = {} /\ Marks \in [Sessions -> {Marks[r] : r \in Sessions}]
  BY <1>3 DEF Holds, Marks
<1>10. Marks' = Marks
  BY <1>8, <1>9
<1> QED
  BY <1>3, <1>8, <1>9, <1>10 DEF Store!Next, Store!Open

(* DELE marks one mail of the session's own user.                            *)
LEMMA DeleMarks ==
    ASSUME IInv, NEW s \in Sessions, NEW n \in Numbers, Dele(s, n)
    PROVE  Store!Next
<1> DEFINE m == mailbox[s]
           q == Mark(m, n)
           d0 == DirOf(m, n)
           k0 == PlaceOf(m, n)
           p0 == <<user[s], d0, m[d0][k0].name>>
<1>1. TypeOK /\ SessionOK(s)
  BY DEF IInv
<1>2. m \in maildir /\ InRange(m, n) /\ client_state[s] = "TRANSACTION"
  BY <1>1 DEF TypeOK, Dele, Trans
<1>3. n \in Int
  BY SessionAssumption DEF Numbers
<1>4. d0 \in Dirs /\ k0 \in 1 .. Len(m[d0])
  BY <1>2, <1>3, PlaceInList
<1>5. p0 \in Mails /\ p0[1] = user[s]
  BY <1>1, <1>2, <1>4 DEF SessionOK, Owns
<1>6. mailbox' = [mailbox EXCEPT ![s] = q] /\ UNCHANGED <<client_state, user, bye, base_dir, disk, due>>
  BY DEF Dele, config, store
<1>7. Marked(q) = Marked(m) \cup {<<d0, k0>>}
  BY <1>2, <1>3, MarkAddsOne
<1>8. SameFiles(q, m)
  BY <1>2, <1>3, MarkSameFiles
<1>9. mailbox'[s] = q
  BY <1>1, <1>6 DEF TypeOK
<1> HIDE DEF q, d0, k0
<1>10. Marks[s] = {<<user[s], x[1], m[x[1]][x[2]].name>> : x \in Marked(m)}
  BY <1>2 DEF Marks, MarkedPaths, PathOf
<1>11. Marks'[s] = {<<user[s], x[1], q[x[1]][x[2]].name>> : x \in Marked(q)}
  BY <1>2, <1>6, <1>9 DEF Marks, MarkedPaths, PathOf
<1>12. ASSUME NEW x \in Marked(q) PROVE q[x[1]][x[2]].name = m[x[1]][x[2]].name
  <2>1. PICK d \in Dirs : \E k \in 1 .. Len(m[d]) : x = <<d, k>>
    BY <1>4, <1>7 DEF Marked
  <2>2. PICK k \in 1 .. Len(m[d]) : x = <<d, k>>
    BY <2>1
  <2> QED
    BY <2>2, <1>8 DEF SameFiles
<1>13. Marks'[s] = Marks[s] \cup {p0}
  <2> DEFINE F(x) == <<user[s], x[1], m[x[1]][x[2]].name>>
             G(x) == <<user[s], x[1], q[x[1]][x[2]].name>>
  <2>1. F(<<d0, k0>>) = p0
    OBVIOUS
  <2>2. \A x \in Marked(q) : G(x) = F(x)
    BY <1>12
  <2>3. Marks[s] = {F(x) : x \in Marked(m)} /\ Marks'[s] = {G(x) : x \in Marked(q)}
    BY <1>10, <1>11
  <2> HIDE DEF F, G, p0
  <2> QED
    BY <2>1, <2>2, <2>3, <1>7
<1>14. Holds'[s] = Holds[s] /\ Holds[s] = user[s]
  BY <1>2, <1>6 DEF Holds
<1>15. \A r \in Sessions \ {s} : mailbox'[r] = mailbox[r]
  BY <1>1, <1>6 DEF TypeOK
<1>16. Holds' = [Holds EXCEPT ![s] = Holds[s]] /\ Marks' = [Marks EXCEPT ![s] = Marks[s] \cup {p0}]
  BY <1>6, <1>13, <1>14, <1>15, OthersSeeNothing
<1>17. Holds' = Holds
  BY <1>6 DEF Holds
<1> HIDE DEF p0
<1> QED
  BY <1>5, <1>6, <1>14, <1>16, <1>17 DEF Store!Next, Store!Mark

(* RSET takes every mark back.                                               *)
LEMMA RsetUnmarks ==
    ASSUME IInv, NEW s \in Sessions, Rset(s)
    PROVE  Store!Next
<1>1. TypeOK
  BY DEF IInv
<1>2. /\ mailbox' = [mailbox EXCEPT ![s] = UnmarkAll(mailbox[s])]
      /\ UNCHANGED <<client_state, user, bye, base_dir, disk, due>>
  BY DEF Rset, config, store
<1>3. mailbox[s] \in maildir /\ mailbox'[s] = UnmarkAll(mailbox[s])
  BY <1>1, <1>2 DEF TypeOK
<1>4. Marked(mailbox'[s]) = {}
  BY <1>3, UnmarkSameFiles
<1>5. Marks'[s] = {}
  BY <1>2, <1>4 DEF Marks, MarkedPaths
<1>6. Holds'[s] = Holds[s] /\ Holds' = Holds
  BY <1>2 DEF Holds
<1>7. \A r \in Sessions \ {s} : mailbox'[r] = mailbox[r]
  BY <1>1, <1>2 DEF TypeOK
<1>8. Marks' = [Marks EXCEPT ![s] = {}]
  BY <1>2, <1>5, <1>6, <1>7, OthersSeeNothing
<1> QED
  BY <1>2, <1>6, <1>8 DEF Store!Next, Store!Unmark

(* QUIT removes exactly what was marked, where the store still is.           *)
LEMMA QuitCommits ==
    ASSUME IInv, NEW s \in Sessions, Quit(s)
    PROVE  Store!Next
<1>1. TypeOK /\ SessionOK(s)
  BY DEF IInv
<1>2. /\ client_state[s] = "TRANSACTION"
      /\ client_state' = [client_state EXCEPT ![s] = "free"]
      /\ user' = [user EXCEPT ![s] = None]
      /\ mailbox' = [mailbox EXCEPT ![s] = NoBox]
      /\ disk' = IF base_dir = "root" THEN disk \ MarkedPaths(s) ELSE disk
      /\ bye' = bye \cup {s}
      /\ UNCHANGED <<base_dir, due>>
  BY DEF Quit, Trans, config
<1>3. client_state'[s] = "free"
  BY <1>1, <1>2 DEF TypeOK
<1>4. Holds[s] = user[s] /\ Marks[s] = MarkedPaths(s)
  BY <1>2 DEF Holds, Marks
<1>5. user[s] # None
  BY <1>1, <1>2 DEF SessionOK
<1>6. Holds'[s] = None /\ Marks'[s] = {}
  BY <1>3 DEF Holds, Marks
<1>7. \A r \in Sessions \ {s} : /\ client_state'[r] = client_state[r]
                                /\ user'[r] = user[r] /\ mailbox'[r] = mailbox[r]
  BY <1>1, <1>2 DEF TypeOK
<1>8. Holds' = [Holds EXCEPT ![s] = None] /\ Marks' = [Marks EXCEPT ![s] = {}]
  BY <1>6, <1>7, OthersSeeNothing
<1> QED
  BY <1>2, <1>4, <1>5, <1>8 DEF Store!Next, Store!Commit

(* Mail arrives in both.                                                     *)
LEMMA ArriveRefines ==
    ASSUME NEW p \in due, Arrive(p) PROVE Store!Next
<1>1. UNCHANGED <<base_dir, bye, Holds, Marks>>
  BY DEF Arrive, session, config, Holds, Marks, MarkedPaths, PathOf
<1> QED
  BY <1>1 DEF Arrive, Store!Next, Store!Arrive

(* Every step of the sessions is a step of MailStore or changes nothing of   *)
(* it.                                                                       *)
LEMMA StepRefines == IInv /\ [Next]_vars => [Store!Next]_(Store!vars)
<1> SUFFICES ASSUME IInv, [Next]_vars PROVE [Store!Next]_(Store!vars)
  OBVIOUS
<1>1. TypeOK
  BY DEF IInv
<1>2. CASE UNCHANGED vars
  BY <1>2, Stutters DEF vars, config
<1>3. ASSUME NEW s \in Sessions, Connect(s) PROVE Store!Next
  BY <1>1, <1>3, ConnectBegins
<1>4. ASSUME NEW s \in Sessions, PeerCloses(s) PROVE Store!Next
  BY <1>1, <1>4, LeavingAbandons DEF PeerCloses, config, store, TypeOK
<1>5. ASSUME NEW s \in Sessions, QuitElsewhere(s) PROVE Store!Next
  BY <1>1, <1>5, QuitElsewhereLeaves
<1>6. ASSUME NEW s \in Sessions, (\E t \in Typed : User(s, t)) \/ UserRefused(s)
      PROVE  Store!Next
  <2>1. \E st \in {"MANAGER", "AUTHORIZATION"} : client_state' = [client_state EXCEPT ![s] = st]
    BY <1>6 DEF User, UserRefused, Deauthorized
  <2>2. \A r \in Sessions \ {s} : user'[r] = user[r]
    BY <1>1, <1>6 DEF User, UserRefused, TypeOK
  <2>3. UNCHANGED <<mailbox, bye, disk, due, base_dir>>
    BY <1>6 DEF User, UserRefused, config, store
  <2> QED
    BY <1>1, <2>1, <2>2, <2>3, LeavingAbandons
<1>7. ASSUME NEW s \in Sessions, NEW p \in Users, Pass(s, p) PROVE Store!Next
  BY <1>7, PassOpens
<1>8. ASSUME NEW s \in Sessions,
             \/ \E p \in Users : PassAborts(s, p)
             \/ AnswerOnly(s)
             \/ \E n \in Numbers : ListOne(s, n) \/ Retr(s, n)
             \/ \E on \in BOOLEAN : Tran(s, on)
             \/ \E len \in 0 .. MaxLen : Host(s, len)
             \/ Logg(s)
      PROVE  UNCHANGED <<session, store, base_dir>>
  BY <1>8 DEF PassAborts, AnswerOnly, ListOne, Retr, Tran, Host, Logg, config
<1>9. ASSUME NEW s \in Sessions, NEW len \in 0 .. MaxLen, Dirr(s, len)
      PROVE  UNCHANGED <<session, store>> /\ base_dir' \in {base_dir, ""}
  BY <1>9 DEF Dirr
<1>10. ASSUME NEW s \in Sessions, NEW n \in Numbers, Dele(s, n) PROVE Store!Next
  BY <1>10, DeleMarks
<1>11. ASSUME NEW s \in Sessions, Rset(s) PROVE Store!Next
  BY <1>11, RsetUnmarks
<1>12. ASSUME NEW s \in Sessions, Quit(s) PROVE Store!Next
  BY <1>12, QuitCommits
<1>13. ASSUME NEW k \in DOMAIN transfers, Transfer(k)
       PROVE  UNCHANGED <<session, store, base_dir>>
  BY <1>13 DEF Transfer, config
<1>14. ASSUME NEW p \in due, Arrive(p) PROVE Store!Next
  BY <1>14, ArriveRefines
<1> QED
  BY <1>2, <1>3, <1>4, <1>5, <1>6, <1>7, <1>8, <1>9, <1>10, <1>11, <1>12, <1>13, <1>14, Stutters
     DEF Next, Command

(* The sessions of any number of users implement MailStore: a mail leaves    *)
(* the store only by the QUIT of a session of its owner that marked it.      *)
THEOREM SessionsImplementStore == Spec => StoreSpec
<1>1. Init => Store!Init
  BY InitRefines
<1>2. IInv /\ [Next]_vars => [Store!Next]_(Store!vars)
  BY StepRefines
<1> QED
  BY <1>1, <1>2, Invariance, PTL DEF Spec, StoreSpec, Store!Spec

=============================================================================
