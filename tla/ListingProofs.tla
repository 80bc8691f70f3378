----------------------------- MODULE ListingProofs -----------------------------
(***************************************************************************)
(* Proofs about Listing for any number of rows and any limits.             *)
(*                                                                         *)
(* The cursor splits the keys.  A page takes rows behind the cursor and    *)
(* moves the cursor to the last of them, so that the rows that were served *)
(* stay on one side of it and the rows that are owed on the other.         *)
(***************************************************************************)
EXTENDS Listing, TLAPS

LEMMA Facts ==
  /\ Row \subseteq Nat /\ Asked \subseteq Nat
  /\ \A r \in Row : r \in Nat
  /\ MaxTime \in Nat
BY ListingAssumption

LEMMA KeyFields ==
  ASSUME NEW k \in Key
  PROVE  k.created \in Int /\ k.id \in Int
<1>1. k.created \in 0..MaxTime /\ k.id \in Row
  BY DEF Key
<1>2. k.created \in Int
  BY <1>1
<1>3. k.id \in Int
  <2>1. Row \subseteq Int
    BY Facts
  <2> QED BY <1>1, <2>1
<1> QED BY <1>2, <1>3

(* Keys are totally ordered, and Behind is Newer read backwards.           *)
LEMMA KeysAreOrdered ==
  ASSUME NEW k \in Key, NEW j \in Key, NEW c \in Key
  PROVE  /\ Newer(k, j) <=> Behind(j, k)
         /\ ~Behind(k, k)
         /\ Behind(k, j) => ~Behind(j, k)
         /\ Behind(k, j) /\ Behind(j, c) => Behind(k, c)
<1>1. /\ k.created \in Int /\ k.id \in Int /\ j.created \in Int /\ j.id \in Int
      /\ c.created \in Int /\ c.id \in Int
  BY KeyFields
<1> QED BY <1>1 DEF Newer, Behind

LEMMA KeyTyped ==
  ASSUME TypeOK, NEW r \in Row
  PROVE  KeyOf(r) \in Key
BY DEF TypeOK, KeyOf, Key

-----------------------------------------------------------------------------
(* The rows change, the walk does not.  A row that is staged or unborn is  *)
(* on no page and did not stay, so its key may be set.                     *)
LEMMA WriterKeepsInv ==
  ASSUME ListingInv, NEW r \in Row,
         Insert(r) \/ CommitInsert(r) \/ Rollback(r) \/ Delete(r)
  PROVE  ListingInv'
<1> USE DEF ListingInv
<1>1. /\ \A q \in Row : q # r => row'[q] = row[q]
      /\ walk' = walk /\ served' = served /\ now' = now
      /\ row' \in [Row -> [stage : {"unborn", "staged", "live", "gone"}, created : 0..MaxTime]]
  BY DEF Insert, CommitInsert, Rollback, Delete, Move, TypeOK
<1>2. /\ stayed' \subseteq stayed
      /\ r \in stayed' => row'[r] = row[r]
  <2>1. CASE Insert(r)
    BY <2>1 DEF Insert, Live, TypeOK
  <2>2. CASE CommitInsert(r) \/ Rollback(r)
    BY <2>2 DEF CommitInsert, Rollback, Move, Live, TypeOK
  <2>3. CASE Delete(r)
    BY <2>3 DEF Delete, Move, Live, TypeOK
  <2> QED BY <2>1, <2>2, <2>3
<1>3. served[r] = 1 => row'[r].stage \in {"live", "gone"} /\ row'[r].created = row[r].created
  BY DEF Insert, CommitInsert, Rollback, Delete, Move, TypeOK
<1>4. TypeOK'
  BY <1>1, <1>2 DEF TypeOK
<1>5. \A q \in stayed' : row'[q] = row[q] /\ KeyOf(q)' = KeyOf(q)
  BY <1>1, <1>2 DEF KeyOf, Live
<1>6. stayed' \subseteq Live'
  BY <1>2, <1>5 DEF Live
<1>7. \A q \in Row : served'[q] <= 1 /\ (served'[q] = 1 => row'[q].stage \in {"live", "gone"})
  BY <1>1, <1>3
<1>8. \A q \in Row : served[q] = 1 => KeyOf(q)' = KeyOf(q)
  BY <1>1, <1>3 DEF KeyOf
<1>9. walk'.at = "open" =>
        /\ walk'.cursor \in Key
        /\ \A q \in Row : served'[q] = 1 => ~Behind(KeyOf(q)', walk'.cursor)
        /\ \A q \in stayed' : served'[q] = 1 \/ Behind(KeyOf(q)', walk'.cursor)
  BY <1>1, <1>2, <1>5, <1>8
<1>10. WalkIsComplete'
  BY <1>1, <1>2 DEF WalkIsComplete
<1> QED BY <1>4, <1>6, <1>7, <1>9, <1>10 DEF Behind

(* A page keeps the invariant when the rows it is taken from are those in  *)
(* the list that were not served, and every row that is owed is one of     *)
(* them.                                                                   *)
LEMMA PageKeepsInv ==
  ASSUME TypeOK, NEW rows \in SUBSET Live, NEW before \in [Row -> Nat], NEW n,
         Page(rows, before, n), UNCHANGED <<now, row>>, stayed' \subseteq Live,
         \A r \in Row : before[r] <= 1 /\ (before[r] = 1 => row[r].stage \in {"live", "gone"}),
         \A r \in rows : before[r] = 0,
         \A r \in stayed' : before[r] = 1 \/ r \in rows,
         \A r \in Row, q \in rows : before[r] = 1 => ~Behind(KeyOf(r), KeyOf(q))
  PROVE  ListingInv'
<1>1. CASE KeyFails(rows, n)
  <2>1. walk' = [at |-> "failed", cursor |-> NoCursor] /\ served' = before
    BY <1>1 DEF Page
  <2>2. TypeOK'
    BY <2>1 DEF TypeOK, Live
  <2> QED BY <2>1, <2>2 DEF ListingInv, WalkIsComplete, Live
<1>2. CASE ~KeyFails(rows, n)
  <2>1. PICK items \in SUBSET rows :
          /\ IsPage(items, rows, n)
          /\ served' = [r \in Row |-> IF r \in items THEN before[r] + 1 ELSE before[r]]
          /\ IF Cardinality(rows) > n
             THEN \E last \in LastServed(items, rows) :
                    walk' = [at |-> "open", cursor |-> KeyOf(last)]
             ELSE walk' = [at |-> "ended", cursor |-> NoCursor]
    BY <1>2 DEF Page
  <2>2. /\ items \subseteq Row /\ rows \subseteq Row /\ items \subseteq Live
        /\ \A r \in Row : served'[r] = IF r \in items THEN 1 ELSE before[r]
        /\ served' \in [Row -> Nat]
    BY <2>1 DEF Live
  <2>3. \A r \in Row : served'[r] <= 1 /\ (served'[r] = 1 => row'[r].stage \in {"live", "gone"})
    BY <2>2 DEF Live
  <2>4. Live' = Live /\ \A r \in Row : KeyOf(r)' = KeyOf(r) /\ KeyOf(r) \in Key
    BY KeyTyped DEF Live, KeyOf
  <2>5. CASE Cardinality(rows) > n
    <3>1. PICK last \in LastServed(items, rows) :
            walk' = [at |-> "open", cursor |-> KeyOf(last)]
      BY <2>1, <2>5
    <3>2. /\ last \in items /\ last \in rows /\ last \in Row /\ KeyOf(last) \in Key
          /\ \A p \in items : p = last \/ Newer(KeyOf(p), KeyOf(last))
      BY <2>2, <2>4, <3>1 DEF LastServed
    <3>3. TypeOK'
      BY <2>2, <3>1, <3>2 DEF TypeOK, Live
    <3>4. ASSUME NEW r \in Row, served'[r] = 1 PROVE ~Behind(KeyOf(r), KeyOf(last))
      <4>1. CASE r \in items
        BY <2>4, <3>2, <4>1, KeysAreOrdered
      <4>2. CASE r \notin items
        BY <2>2, <3>2, <3>4, <4>2
      <4> QED BY <4>1, <4>2
    <3>5. ASSUME NEW r \in stayed' PROVE served'[r] = 1 \/ Behind(KeyOf(r), KeyOf(last))
      <4>1. r \in Row
        BY DEF Live
      <4>2. CASE r \in rows \ items
        <5>1. Newer(KeyOf(last), KeyOf(r))
          BY <2>1, <3>2, <4>2 DEF IsPage
        <5> QED BY <2>4, <3>2, <4>1, <5>1, KeysAreOrdered
      <4>3. CASE r \notin rows \ items
        BY <2>2, <4>1, <4>3
      <4> QED BY <4>2, <4>3
    <3>6. walk'.at = "open" /\ walk'.cursor = KeyOf(last)
      BY <3>1
    <3> QED BY <2>3, <2>4, <3>2, <3>3, <3>4, <3>5, <3>6 DEF ListingInv, WalkIsComplete, Live
  <2>6. CASE ~(Cardinality(rows) > n)
    <3>1. walk' = [at |-> "ended", cursor |-> NoCursor] /\ items = rows
      BY <2>1, <2>6 DEF IsPage
    <3>2. TypeOK'
      BY <2>2, <3>1 DEF TypeOK, Live
    <3>3. \A r \in stayed' : served'[r] = 1
      BY <2>2, <3>1 DEF Live
    <3> QED BY <2>3, <2>4, <3>1, <3>2, <3>3 DEF ListingInv, WalkIsComplete
  <2> QED BY <2>5, <2>6
<1> QED BY <1>1, <1>2

-----------------------------------------------------------------------------
LEMMA InitInv == Init => ListingInv
BY Facts DEF Init, ListingInv, TypeOK, WalkIsComplete, Live

LEMMA NextInv == ListingInv /\ [Next]_vars => ListingInv'
<1> SUFFICES ASSUME ListingInv, [Next]_vars PROVE ListingInv'
  OBVIOUS
<1>1. ASSUME NEW r \in Row, Insert(r) \/ CommitInsert(r) \/ Rollback(r) \/ Delete(r)
      PROVE  ListingInv'
  BY <1>1, WriterKeepsInv
<1>2. ASSUME NEW raw \in Asked, FirstPage(raw) PROVE ListingInv'
  <2> DEFINE none == [r \in Row |-> 0]
  <2>1. Page(Live, none, ClampLimit(raw)) /\ stayed' = Live /\ UNCHANGED <<now, row>>
    BY <1>2 DEF FirstPage
  <2>2. none \in [Row -> Nat] /\ \A r \in Row : none[r] = 0
    OBVIOUS
  <2>3. TypeOK /\ Live \subseteq Row
    BY DEF ListingInv, Live
  <2> HIDE DEF none
  <2> QED BY <2>1, <2>2, <2>3, PageKeepsInv
<1>3. ASSUME NEW raw \in Asked, NextPage(raw) PROVE ListingInv'
  <2> DEFINE rows == {r \in Live : Behind(KeyOf(r), walk.cursor)}
  <2>1. /\ walk.at = "open" /\ Page(rows, served, ClampLimit(raw))
        /\ UNCHANGED <<now, row, stayed>>
    BY <1>3 DEF NextPage
  <2>2. /\ TypeOK /\ served \in [Row -> Nat] /\ stayed' \subseteq Live /\ Live \subseteq Row
        /\ walk.cursor \in Key
    BY <2>1 DEF ListingInv, TypeOK, Live
  <2>3. \A r \in Row : served[r] <= 1 /\ (served[r] = 1 => row[r].stage \in {"live", "gone"})
    BY DEF ListingInv
  <2>4. \A r \in rows : served[r] = 0
    BY <2>1, <2>2 DEF ListingInv
  <2>5. \A r \in stayed' : served[r] = 1 \/ r \in rows
    BY <2>1, <2>2 DEF ListingInv
  <2>6. ASSUME NEW r \in Row, NEW q \in rows, served[r] = 1 PROVE ~Behind(KeyOf(r), KeyOf(q))
    <3>1. ~Behind(KeyOf(r), walk.cursor) /\ Behind(KeyOf(q), walk.cursor) /\ q \in Row
      BY <2>1, <2>2, <2>6 DEF ListingInv
    <3> QED BY <2>2, <3>1, KeyTyped, KeysAreOrdered
  <2>7. rows \in SUBSET Live
    OBVIOUS
  <2> HIDE DEF rows
  <2> QED BY <2>1, <2>2, <2>3, <2>4, <2>5, <2>6, <2>7, PageKeepsInv
<1>4. CASE Tick
  <2>1. now' \in 0..MaxTime
    BY <1>4, Facts DEF Tick, ListingInv, TypeOK
  <2> QED BY <1>4, <2>1 DEF Tick, ListingInv, TypeOK, WalkIsComplete, Live, KeyOf
<1>5. CASE UNCHANGED vars
  BY <1>5 DEF vars, ListingInv, TypeOK, WalkIsComplete, Live, KeyOf
<1> QED BY <1>1, <1>2, <1>3, <1>4, <1>5 DEF Next

-----------------------------------------------------------------------------
(* The invariant of paginate and of a client that follows its cursors.     *)
THEOREM ListingInvariant == Spec => []ListingInv
BY InitInv, NextInv, PTL DEF Spec

(* Rows, cursor and counts keep their types.                               *)
THEOREM TypeCorrect == Spec => []TypeOK
<1>1. ListingInv => TypeOK
  BY DEF ListingInv
<1> QED BY <1>1, ListingInvariant, PTL

(* No walk serves a row twice, whatever is written meanwhile and whatever  *)
(* limits its pages ask for.                                               *)
THEOREM NothingIsServedTwice == Spec => []ServedOnce
<1>1. ListingInv => ServedOnce
  BY DEF ListingInv, ServedOnce
<1> QED BY <1>1, ListingInvariant, PTL

(* A walk that ends has served every row that was there all the time.      *)
THEOREM WalksAreComplete == Spec => []WalkIsComplete
<1>1. ListingInv => WalkIsComplete
  BY DEF ListingInv
<1> QED BY <1>1, ListingInvariant, PTL
=============================================================================
