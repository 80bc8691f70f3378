----------------------------- MODULE SnapshotStore -----------------------------
(***************************************************************************)
(* What backups and restores promise, without tables, files or row copies. *)
(* A backup is the set of transactions the database had at one moment.  A  *)
(* restore replaces what the database had at one moment by the archive it  *)
(* was asked for, and what was committed since that moment stays.  None of *)
(* this is said of a transaction that was committed, or brought or taken   *)
(* away, while somebody was in the middle of reading or emptying: such a   *)
(* transaction is void, and is struck from everything.                     *)
(***************************************************************************)
CONSTANTS Txn, Thread

VARIABLES
  committed,  \* transactions that were ever committed
  present,    \* those the database has
  void,       \* those of which nothing is said
  archives,   \* copies that are stored
  busy,       \* threads in the middle of reading or emptying the database
  asked, held, taken
    \* of each thread, if any: the archive it is to restore, the copy it has
    \* made, and what it has emptied the database of

vars == <<committed, present, void, archives, busy, asked, held, taken>>

Init ==
  /\ committed = {} /\ present = {} /\ void = {} /\ archives = {} /\ busy = {}
  /\ asked = [t \in Thread |-> {}] /\ held = asked /\ taken = asked

Commit(x) ==
  /\ x \notin committed
  /\ committed' = committed \union {x}
  /\ IF busy = {} THEN present' = present \union {x} /\ UNCHANGED void
                  ELSE void' = void \union {x} /\ UNCHANGED present
  /\ UNCHANGED <<archives, busy, asked, held, taken>>

Ask(t, a) ==
  /\ asked[t] = {} /\ a \in archives
  /\ asked' = [asked EXCEPT ![t] = {a}]
  /\ UNCHANGED <<committed, present, void, archives, busy, held, taken>>

Start(t) ==
  /\ busy' = busy \union {t}
  /\ UNCHANGED <<committed, present, void, archives, asked, held, taken>>

Copy(t) ==
  /\ held' = [held EXCEPT ![t] = {present}]
  /\ busy' = busy \ {t}
  /\ UNCHANGED <<committed, present, void, archives, asked, taken>>

Store(t) ==
  /\ archives' = archives \union held[t]
  /\ held' = [held EXCEPT ![t] = {}]
  /\ UNCHANGED <<committed, present, void, busy, asked, taken>>

Clear(t) ==
  /\ asked[t] # {} /\ taken[t] = {}
  /\ taken' = [taken EXCEPT ![t] = {present}]
  /\ busy' = busy \ {t}
  /\ UNCHANGED <<committed, present, void, archives, asked, held>>

Strike(copies, X) == {c \ X : c \in copies}

Load(t) ==
  \E a \in asked[t], gone \in taken[t] :
    LET new == (present \ gone) \union a
        X == IF busy = {} THEN {} ELSE (present \ new) \union (new \ present)
    IN
    /\ present' = new \ X
    /\ void' = void \union X
    /\ archives' = Strike(archives, X)
    /\ asked' = [u \in Thread |-> IF u = t THEN {} ELSE Strike(asked[u], X)]
    /\ held' = [u \in Thread |-> Strike(held[u], X)]
    /\ taken' = [u \in Thread |-> IF u = t THEN {} ELSE Strike(taken[u], X)]
    /\ UNCHANGED <<committed, busy>>

Abort(t) ==
  /\ asked' = [asked EXCEPT ![t] = {}]
  /\ held' = [held EXCEPT ![t] = {}]
  /\ taken' = [taken EXCEPT ![t] = {}]
  /\ busy' = busy \ {t}
  /\ UNCHANGED <<committed, present, void, archives>>

Next ==
  \/ \E x \in Txn : Commit(x)
  \/ \E t \in Thread : \/ \E a \in archives : Ask(t, a)
                       \/ Start(t) \/ Copy(t) \/ Store(t) \/ Clear(t) \/ Load(t) \/ Abort(t)

Spec == Init /\ [][Next]_vars

=============================================================================
