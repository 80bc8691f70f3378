-------------------------------- MODULE Listing --------------------------------
(***************************************************************************)
(* The lists of licenses and customers that are served page by page        *)
(* (pagination.py, and its callers in routers/api.py, admin_ui/products.py *)
(* and services/customers.py), and one client that walks a list from its   *)
(* first page to the page without a next_cursor, while handlers insert and *)
(* delete rows.                                                            *)
(*                                                                         *)
(* A row gets its created_at when it is flushed and is seen by others when *)
(* its transaction commits.  A page is one query: the rows behind the      *)
(* cursor, newest first, cut off at the limit.                             *)
(***************************************************************************)
EXTENDS Integers, FiniteSets

CONSTANTS Row,           \* ids of the rows; uuids, so in no order of creation
          Asked,         \* values of ?limit=; 0 for a missing or malformed one
          DefaultLimit,
          MaxLimit,
          Unkeyed,       \* paginate gets tuples and no key_fn: customers.html
          MaxTime        \* clock readings considered

ASSUME ListingAssumption ==
  /\ Row \subseteq Nat /\ Asked \subseteq Nat
  /\ DefaultLimit \in Nat \ {0} /\ MaxLimit \in Nat \ {0}
  /\ Unkeyed \in BOOLEAN /\ MaxTime \in Nat

VARIABLES
  now,
  row,     \* stage and created_at of every row
  walk,    \* how far the client got, and the cursor of its last page
  served,  \* how often each row was on a page of this walk
  stayed   \* history: rows in the list from the walk's first page until now

vars == <<now, row, walk, served, stayed>>

Key == [created : 0..MaxTime, id : Row]
NoCursor == [created |-> 0, id |-> -1]
KeyOf(r) == [created |-> row[r].created, id |-> r]
Live == {r \in Row : row[r].stage = "live"}

Init ==
  /\ now = 0
  /\ row = [r \in Row |-> [stage |-> "unborn", created |-> 0]]
  /\ walk = [at |-> "none", cursor |-> NoCursor]
  /\ served = [r \in Row |-> 0]
  /\ stayed = {}

-----------------------------------------------------------------------------
(* Handlers that write rows.                                               *)

Move(r, from, to) ==
  /\ row[r].stage = from
  /\ row' = [row EXCEPT ![r].stage = to]
  /\ UNCHANGED <<now, walk, served>>

Insert(r) ==
  /\ row[r].stage = "unborn"
  /\ row' = [row EXCEPT ![r] = [stage |-> "staged", created |-> now]]
  /\ UNCHANGED <<now, walk, served, stayed>>

CommitInsert(r) == Move(r, "staged", "live") /\ UNCHANGED stayed
Rollback(r) == Move(r, "staged", "gone") /\ UNCHANGED stayed
Delete(r) == Move(r, "live", "gone") /\ stayed' = stayed \ {r}

Tick ==
  /\ now < MaxTime
  /\ now' = now + 1
  /\ UNCHANGED <<row, walk, served, stayed>>

-----------------------------------------------------------------------------
ClampLimit(raw) ==
  IF raw < 1 THEN DefaultLimit ELSE IF raw < MaxLimit THEN raw ELSE MaxLimit

(* The order of the queries: (created_at, id) descending.                  *)
Newer(k, j) == k.created > j.created \/ (k.created = j.created /\ k.id > j.id)

(* Mutants of the filter: the row of the cursor once more; no tie-break.   *)
BehindOrAt(key, cursor) ==
  key.created < cursor.created \/ (key.created = cursor.created /\ key.id <= cursor.id)
BehindInTime(key, cursor) == key.created < cursor.created

(* The filter that paginate adds to a query.                               *)
Behind(key, cursor) ==
  key.created < cursor.created \/ (key.created = cursor.created /\ key.id < cursor.id)

(* The rows of a page: all that are left, or the newest n of them.         *)
IsPage(items, rows, n) ==
  /\ \A p \in items, q \in rows \ items : Newer(KeyOf(p), KeyOf(q))
  /\ IF Cardinality(rows) > n THEN Cardinality(items) = n ELSE items = rows

(* rows[limit - 1], from which next_cursor is made.  Mutant: rows[limit].  *)
FirstExtra(items, rows) ==
  {r \in rows \ items : \A q \in rows \ items : q = r \/ Newer(KeyOf(r), KeyOf(q))}
LastServed(items, rows) ==
  {r \in items : \A p \in items : p = r \/ Newer(KeyOf(p), KeyOf(r))}

(* The key of the last row is asked for, and is not an attribute of it.    *)
KeyFails(rows, n) == Unkeyed /\ Cardinality(rows) > n

(* A request for a page behind the cursor, of a walk that so far served    *)
(* each row as often as before says.                                       *)
Page(rows, before, n) ==
  IF KeyFails(rows, n)
  THEN walk' = [at |-> "failed", cursor |-> NoCursor] /\ served' = before
  ELSE \E items \in SUBSET rows :
         /\ IsPage(items, rows, n)
         /\ served' = [r \in Row |-> IF r \in items THEN before[r] + 1 ELSE before[r]]
         /\ IF Cardinality(rows) > n
            THEN \E last \in LastServed(items, rows) :
                   walk' = [at |-> "open", cursor |-> KeyOf(last)]
            ELSE walk' = [at |-> "ended", cursor |-> NoCursor]

(* Without a cursor, or with one that cannot be decoded.                   *)
FirstPage(raw) ==
  /\ Page(Live, [r \in Row |-> 0], ClampLimit(raw))
  /\ stayed' = Live
  /\ UNCHANGED <<now, row>>

(* With the next_cursor of the page before.                                *)
NextPage(raw) ==
  /\ walk.at = "open"
  /\ Page({r \in Live : Behind(KeyOf(r), walk.cursor)}, served, ClampLimit(raw))
  /\ UNCHANGED <<now, row, stayed>>

Next ==
  \/ \E r \in Row : Insert(r) \/ CommitInsert(r) \/ Rollback(r) \/ Delete(r)
  \/ \E raw \in Asked : FirstPage(raw) \/ NextPage(raw)
  \/ Tick

Spec == Init /\ [][Next]_vars

-----------------------------------------------------------------------------
(* Rows, cursor and counts have their types. *)
TypeOK ==
  /\ now \in 0..MaxTime
  /\ row \in [Row -> [stage : {"unborn", "staged", "live", "gone"}, created : 0..MaxTime]]
  /\ walk \in [at : {"none", "open", "ended", "failed"}, cursor : Key \union {NoCursor}]
  /\ served \in [Row -> Nat]
  /\ stayed \subseteq Row

(* pagination.py: offset "can also yield duplicate / missed rows when an   *)
(* insert lands between page N and N+1" and the keyset cursor does not.    *)
(* No row is on two pages of one walk, whatever is inserted or deleted     *)
(* meanwhile and whichever limit each page asks for.                       *)
ServedOnce == \A r \in Row : served[r] <= 1

(* A client that follows next_cursor to the end has seen every row that    *)
(* was in the list all the time.                                           *)
WalkIsComplete == walk.at = "ended" => \A r \in stayed : served[r] = 1

(* The inductive invariant: what was served is not behind the cursor, and  *)
(* what stayed was served unless it is.                                    *)
ListingInv ==
  /\ TypeOK
  /\ stayed \subseteq Live
  /\ \A r \in Row : served[r] <= 1 /\ (served[r] = 1 => row[r].stage \in {"live", "gone"})
  /\ walk.at = "open" =>
       /\ walk.cursor \in Key
       /\ \A r \in Row : served[r] = 1 => ~Behind(KeyOf(r), walk.cursor)
       /\ \A r \in stayed : served[r] = 1 \/ Behind(KeyOf(r), walk.cursor)
  /\ WalkIsComplete

=============================================================================
