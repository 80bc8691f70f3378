----------------------------- MODULE LicenseRows -----------------------------
(***************************************************************************)
(* The rows of one product's licenses from issue to deletion, with the     *)
(* rows that point at them: installs, audit events and queued webhooks     *)
(* (models.py).  The handlers are the heartbeat (services/check.py), issue,*)
(* status change, edit and single or bulk delete (services/licenses.py),   *)
(* the deletion of the product (services/products.py), and Stripe's events *)
(* (stripe_webhook.py), which change a status and announce nothing.        *)
(*                                                                         *)
(* A handler loads, then commits; several run at once and lock nothing.    *)
(* The database checks foreign keys (Postgres) or not (SQLite), and a      *)
(* commit it refuses leaves no trace.                                      *)
(***************************************************************************)
EXTENDS Integers, FiniteSets

CONSTANTS License,    \* ids of the licenses ever issued
          Install,    \* install ids the clients send
          Thread,     \* threads that run handlers
          Hooked,     \* licenses with a webhook URL and secret
          Databases,  \* whether foreign keys are checked: {TRUE}, {FALSE} or both
          TTL,        \* jwt_ttl_days
          Lag,        \* the longest a handler runs
          Term,       \* valid_days of an issued license
  Period,     \* days one paid invoice adds
          EditDay,    \* days an admin's edit may let a term end
  MaxTime,    \* days considered
  MaxUntil,   \* the latest valid_until an invoice is considered to reach
          NoInstall

Status == {"active", "delinquent", "disabled", "revoked"}
LiveRow == [status : Status, until : Nat]
Unborn == [status |-> "unborn", until |-> 0]
Gone == [status |-> "gone", until |-> 0]
Row == LiveRow \union {Unborn, Gone}

ASSUME RowsAssumption ==
  /\ IsFiniteSet(License) /\ Hooked \subseteq License
  /\ NoInstall \notin Install /\ Databases \subseteq BOOLEAN
  /\ TTL \in Nat /\ Lag \in Nat /\ Term \in Nat /\ Period \in Nat
  /\ EditDay \subseteq Nat /\ MaxTime \in Nat /\ MaxUntil \in Nat

VARIABLES
  enforced,  \* whether this database checks foreign keys
  product,   \* whether the product row exists
  row,       \* the license rows
  installs,  \* how many Install rows a license has for an install id
  linked,    \* licenses some Event row points at
  queued,    \* licenses some WebhookDelivery row points at
  farewell,  \* whether the delivery of a license.deleted is queued
  told,      \* the status the last queued webhook of a license announced, or
             \* the one it was issued with, which no webhook announces
  token,     \* when the last of a license's tokens expires
  work,      \* what each thread loaded
  now,
  usable,    \* history: the last day a license could be checked
  term,      \* history: the latest valid_until a license ever had
  raced,     \* history: licenses two handlers of which have overlapped
  doubt      \* history: "mixed" while handlers of the license overlap, "some"
             \* from then on, or from a change nobody announced, until a
             \* handler that is alone with the license announces its status

rows == <<product, row, installs, linked, queued, farewell, told, token>>
vars == <<enforced, rows, work, now, usable, term, raced, doubt>>

Work == [op : {"idle", "issue", "check", "status", "edit", "delete", "product",
               "invoice", "mark"},
         lics : SUBSET License, seen : [License -> Row],
         install : Install \union {NoInstall}, known : BOOLEAN, since : Nat]
Idle == [op |-> "idle", lics |-> {}, seen |-> [l \in License |-> Unborn],
         install |-> NoInstall, known |-> FALSE, since |-> 0]

Usable(r, day) == r.status \in {"active", "delinquent"} /\ r.until >= day
Alive == {l \in License : row[l] \in LiveRow}

Init ==
  /\ enforced \in Databases
  /\ product = TRUE
  /\ row = [l \in License |-> Unborn]
  /\ installs = [l \in License |-> [i \in Install |-> 0]]
  /\ linked = {} /\ queued = {} /\ farewell = FALSE
  /\ told = [l \in License |-> "unborn"]
  /\ token = [l \in License |-> 0]
  /\ work = [t \in Thread |-> Idle]
  /\ now = 0
  /\ usable = [l \in License |-> 0]
  /\ term = [l \in License |-> 0]
  /\ raced = {}
  /\ doubt = [l \in License |-> "none"]

-----------------------------------------------------------------------------
(* A handler's loads: the rows of lics, whose columns a deletion does not  *)
(* use, and an install of theirs.                                          *)

Shared(lics) == lics \intersect UNION {work[u].lics : u \in Thread}

Load(t, op, lics, i, known) ==
  /\ work[t] = Idle
  /\ work' = [work EXCEPT ![t] =
                 [op |-> op, lics |-> lics,
                  seen |-> [l \in License |-> IF l \in lics /\ op \notin {"delete", "product"}
                                            THEN row[l] ELSE Unborn],
                  install |-> i, known |-> known, since |-> now]]
  /\ raced' = raced \union Shared(lics)
  /\ doubt' = [l \in License |-> IF l \in Shared(lics) THEN "mixed" ELSE doubt[l]]
  /\ UNCHANGED <<enforced, rows, now>>

LoadIssue(t) ==
  \E l \in License :
    /\ product /\ row[l] = Unborn /\ \A u \in Thread : l \notin work[u].lics
    /\ Load(t, "issue", {l}, NoInstall, FALSE)

(* The validity check of check_license.                                    *)
Accepts(r) == Usable(r, now)

(* Mutant: a disabled license still answers.                               *)
AcceptsDisabled(r) == r.status # "revoked" /\ r.until >= now

(* check_license up to its commit: two rows for the install are one too    *)
(* many for one_or_none(), and without the product nothing can be signed.  *)
LoadCheck(t) ==
  \E l \in Alive, i \in Install :
    /\ Accepts(row[l]) /\ installs[l][i] <= 1 /\ product
    /\ Load(t, "check", {l}, i, installs[l][i] = 1)

LoadChange(t) ==
  \E l \in Alive, op \in {"status", "edit"} :
    Load(t, op, {l}, NoInstall, FALSE)

LoadDelete(t) ==
  \E lics \in (SUBSET Alive) \ {{}} :
    Load(t, "delete", lics, NoInstall, FALSE)

LoadDeleteProduct(t) ==
  product /\ Load(t, "product", Alive, NoInstall, FALSE)

(* valid_until after one more paid invoice.                                *)
Extended(r, day) == (IF r.until >= day THEN r.until ELSE day) + Period

(* stripe_webhook awaits nothing between its loads and its commit, so no   *)
(* two events of Stripe overlap.  An invoice concerns the newest license   *)
(* of its customer, a failed payment or a cancellation all of them.        *)
LoadStripe(t) ==
  /\ \A u \in Thread : work[u].op \notin {"invoice", "mark"}
  /\ \/ \E l \in Alive : /\ Extended(row[l], now) <= MaxUntil
                         /\ Load(t, "invoice", {l}, NoInstall, FALSE)
     \/ \E lics \in (SUBSET Alive) \ {{}} : Load(t, "mark", lics, NoInstall, FALSE)

-----------------------------------------------------------------------------
(* A handler's commit.                                                     *)

(* What is left of the doubt about a license when t commits, having         *)
(* announced the licenses in said: an overlap ends with its last handler,  *)
(* and a status that changed unannounced is doubtful.                      *)
DoubtAfter(t, l, said) ==
  IF doubt[l] = "mixed"
  THEN IF \E u \in Thread \ {t} : l \in work[u].lics THEN "mixed" ELSE "some"
  ELSE IF l \in said THEN "none"
  ELSE IF row'[l].status = row[l].status THEN doubt[l] ELSE "some"

Finish(t, said) ==
  /\ work' = [work EXCEPT ![t] = Idle]
  /\ doubt' = [l \in License |-> IF l \in work[t].lics THEN DoubtAfter(t, l, said)
                                 ELSE doubt[l]]
  /\ UNCHANGED <<enforced, now, raced>>

Rollback(t) == UNCHANGED rows /\ Finish(t, {})

(* issue_license, or Stripe's first invoice of a customer.                 *)
CommitIssue(t) ==
  /\ work[t].op = "issue"
  /\ IF enforced /\ ~product
     THEN Rollback(t)
     ELSE \E l \in work[t].lics, days \in {Term, Period} :
            /\ row' = [row EXCEPT ![l] = [status |-> "active", until |-> now + days]]
            /\ told' = [told EXCEPT ![l] = "active"]
            /\ Finish(t, {l})
            /\ UNCHANGED <<product, installs, linked, queued, farewell, token>>

(* Mutant: a token lives its full TTL.                                     *)
ExpiryFull(until) == now + TTL

(* sign_license_jwt                                                        *)
Expiry(until) == IF now + TTL <= until THEN now + TTL ELSE until

(* Mutant: a heartbeat always adds a row.                                  *)
UpsertAppend(n, known) == n + 1

(* The row of this install, added or updated.                              *)
Upsert(n, known) == IF known THEN n ELSE n + 1

(* A new row needs the license when foreign keys are checked; an UPDATE of *)
(* an install row deleted with its license raises.                         *)
CheckFails(l, w) == row[l] = Gone /\ (enforced \/ w.known)

CommitCheck(t) ==
  /\ work[t].op = "check"
  /\ \E l \in work[t].lics :
       IF CheckFails(l, work[t])
       THEN Rollback(t)
       ELSE /\ installs' = [installs EXCEPT ![l][work[t].install] = Upsert(@, work[t].known)]
            /\ linked' = linked \union {l}
            /\ token' = [token EXCEPT ![l] = IF @ < Expiry(work[t].seen[l].until)
                                             THEN Expiry(work[t].seen[l].until) ELSE @]
            /\ UNCHANGED <<product, row, queued, farewell, told>>
            /\ Finish(t, {})

(* Mutant: an UPDATE of a license row that is gone inserts it again.       *)
ChangeFailsUnseen(l, w, new) == row[l] = Gone /\ enforced

(* The event needs the license when foreign keys are checked; an UPDATE of *)
(* a license row that is gone raises.                                      *)
ChangeFails(l, w, new) == row[l] = Gone /\ (enforced \/ new # w.seen[l])

(* Mutant: what was revoked stays revoked, whatever is announced.          *)
WrittenUnlessRevoked(r, seen, new) ==
  [status |-> IF seen.status = "revoked" THEN r.status ELSE new.status,
   until |-> new.until]

(* Only columns that differ from the loaded ones are written.              *)
Written(r, seen, new) ==
  [status |-> IF new.status = seen.status THEN r.status ELSE new.status,
   until |-> IF new.until = seen.until THEN r.until ELSE new.until]

(* The commit of new, a row for each of the loaded licenses.               *)
Change(t, new, announced) ==
  LET w == work[t]
      heard == IF announced THEN w.lics \intersect Hooked ELSE {}
  IN
  IF \E l \in w.lics : ChangeFails(l, w, new[l])
  THEN Rollback(t)
  ELSE /\ row' = [l \in License |-> IF l \in w.lics THEN Written(row[l], w.seen[l], new[l])
                                   ELSE row[l]]
       /\ linked' = linked \union w.lics
       /\ queued' = queued \union heard
       /\ told' = [l \in License |-> IF l \in heard THEN new[l].status ELSE told[l]]
       /\ UNCHANGED <<product, installs, farewell, token>>
       /\ Finish(t, heard)

(* The loaded rows with another status, or another term.                   *)
WithStatus(w, s) == [l \in License |-> [w.seen[l] EXCEPT !.status = s]]
WithTerm(w, day) == [l \in License |-> [w.seen[l] EXCEPT !.until = day]]

(* set_status: event and webhook even when the status stays the same.      *)
CommitStatus(t) ==
  /\ work[t].op = "status"
  /\ \E s \in {"active", "disabled", "revoked"} : Change(t, WithStatus(work[t], s), TRUE)

(* edit_license: a webhook only when some plan field changed.              *)
CommitEdit(t) ==
  /\ work[t].op = "edit"
  /\ \E day \in EditDay, other \in BOOLEAN :
       Change(t, WithTerm(work[t], day),
              other \/ \E l \in work[t].lics : day # work[t].seen[l].until)

(* _extend_or_create for a customer that has a license.                    *)
CommitInvoice(t) ==
  /\ work[t].op = "invoice"
  /\ Change(t, [l \in License |-> [status |-> "active",
                                  until |-> Extended(work[t].seen[l], work[t].since)]],
            FALSE)

(* _mark_status: a failed payment or a cancellation.                       *)
CommitMark(t) ==
  /\ work[t].op = "mark"
  /\ \E s \in {"delinquent", "revoked"} : Change(t, WithStatus(work[t], s), FALSE)

(* Postgres: deliveries of a license keep its row, and deliveries, or the  *)
(* license:deleted events of the same commit, keep the product row.  Any   *)
(* database: a license that was not loaded keeps it too.                   *)
DeleteFails(w) ==
  \/ enforced /\ w.lics # {} /\ (~product \/ w.lics \intersect queued # {})
  \/ /\ w.op = "product"
     /\ \/ enforced /\ (w.lics # {} \/ queued # {} \/ farewell)
        \/ ~(Alive \subseteq w.lics)

(* Mutant: the events of a deleted license keep pointing at it.            *)
StillLinked(lics) == linked

(* UPDATE events SET license_id=NULL                                       *)
Unlink(lics) == linked \ lics

(* _delete_license_in_tx for each license, then delete(p) for the product. *)
CommitDelete(t) ==
  LET w == work[t]  lics == w.lics IN
  /\ w.op \in {"delete", "product"}
  /\ IF DeleteFails(w)
     THEN Rollback(t)
     ELSE /\ row' = [l \in License |-> IF l \in lics THEN Gone ELSE row[l]]
          /\ installs' = [l \in License |-> IF l \in lics THEN [i \in Install |-> 0]
                                            ELSE installs[l]]
          /\ linked' = Unlink(lics)
          /\ told' = [l \in License |-> IF l \in lics \intersect Hooked THEN "gone"
                                        ELSE told[l]]
          /\ farewell' = (farewell \/ lics \intersect Hooked # {})
          /\ product' = (product /\ w.op # "product")
          /\ UNCHANGED <<queued, token>>
          /\ Finish(t, lics \intersect Hooked)

-----------------------------------------------------------------------------
(* A day passes; no handler runs for more than Lag days.                   *)
Tick ==
  /\ now < MaxTime
  /\ \A t \in Thread : work[t] # Idle => now - work[t].since < Lag
  /\ now' = now + 1
  /\ UNCHANGED <<enforced, rows, work, raced, doubt>>

(* The history, brought up to date with every step.                        *)
Remember ==
  /\ usable' = [l \in License |-> IF Usable(row'[l], now') THEN now' ELSE usable[l]]
  /\ term' = [l \in License |-> IF row'[l].until > term[l] THEN row'[l].until ELSE term[l]]

Step ==
  \/ \E t \in Thread : \/ LoadIssue(t) \/ LoadCheck(t) \/ LoadChange(t)
                       \/ LoadDelete(t) \/ LoadDeleteProduct(t) \/ LoadStripe(t)
                       \/ CommitIssue(t) \/ CommitCheck(t) \/ CommitStatus(t)
                       \/ CommitEdit(t) \/ CommitDelete(t)
                       \/ CommitInvoice(t) \/ CommitMark(t)
  \/ Tick

Next == Step /\ Remember

Spec == Init /\ [][Next]_vars

-----------------------------------------------------------------------------
(* Every column, every loaded value and the history have their types.      *)
TypeOK ==
  /\ enforced \in BOOLEAN /\ product \in BOOLEAN /\ farewell \in BOOLEAN
  /\ row \in [License -> Row]
  /\ installs \in [License -> [Install -> Nat]]
  /\ linked \subseteq License /\ queued \subseteq License /\ raced \subseteq License
  /\ told \in [License -> Status \union {"unborn", "gone"}]
  /\ token \in [License -> Nat]
  /\ work \in [Thread -> Work]
  /\ now \in 0..MaxTime
  /\ usable \in [License -> Nat] /\ term \in [License -> Nat]
  /\ doubt \in [License -> {"none", "some", "mixed"}]

(* A revocation, an expiry or a deletion reaches every client, however     *)
(* handlers overlap: no token outlives the last day its license could be   *)
(* checked by more than its TTL and the run of one heartbeat, and none     *)
(* outlives the term that was ever granted (check.py, signing.py).         *)
TokensEndInTime ==
  \A l \in License : token[l] <= usable[l] + Lag + TTL /\ token[l] <= term[l]

(* models.py Install: "installs are operationally pointless once the       *)
(* parent license is gone": a deleted license leaves no install, and no    *)
(* event that points at it, unless a handler overlapped the deletion on a  *)
(* database that does not check foreign keys.                              *)
DeletionIsClean ==
  \A l \in License : row[l] = Gone /\ (enforced \/ l \notin raced) =>
    l \notin linked /\ \A i \in Install : installs[l][i] = 0

(* CHANGELOG.md:9-13, of set_status: it "enqueues ... on every transition"  *)
(* and "a receiver's immediate /v1/check reads the new state".  Whatever   *)
(* Stripe changed unannounced and whichever handlers overlapped before,    *)
(* what a handler that is alone with the license announces is what the row *)
(* says, and stays so until Stripe or an overlap comes upon it again.      *)
LastWordIsTrue ==
  \A l \in Hooked : doubt[l] = "none" => told[l] = row[l].status

(* check_license counts on one row per license and install.                *)
OneRowPerInstall ==
  \A l \in License \ raced, i \in Install : installs[l][i] <= 1

(* A thread that holds the license l: the row it loaded, of a term that    *)
(* was granted, and for a heartbeat a day on which it could be checked.    *)
(* Unless its handlers overlap, it is alone and the row is unchanged.      *)
Holds(t, l) ==
  LET w == work[t] IN
  /\ w.seen[l].until <= term[l]
  /\ row[l] = Unborn => w.op = "issue"
  /\ w.op \notin {"issue", "delete", "product"} => w.seen[l] \in LiveRow
  /\ w.op = "check" => w.since <= usable[l]
  /\ doubt[l] # "mixed" =>
       /\ \A u \in Thread \ {t} : l \notin work[u].lics
       /\ w.op \notin {"delete", "product"} => row[l] = w.seen[l]
       /\ w.op = "check" => w.known = (installs[l][w.install] = 1)

WorkIsCurrent ==
  \A t \in Thread : work[t] # Idle =>
    /\ work[t].op # "idle"
    /\ work[t].since <= now /\ now <= work[t].since + Lag
    /\ work[t].op = "check" => work[t].install \in Install
    /\ \A l \in work[t].lics : Holds(t, l)

HistoryIsCurrent ==
  \A l \in License :
    /\ row[l].until <= term[l] /\ usable[l] <= now
    /\ row[l] = Unborn => l \notin linked /\ \A i \in Install : installs[l][i] = 0
    /\ doubt[l] = "mixed" => l \in raced

(* The inductive invariant of the properties above.                        *)
RowsInv ==
  /\ TypeOK
  /\ TokensEndInTime /\ DeletionIsClean /\ LastWordIsTrue /\ OneRowPerInstall
  /\ WorkIsCurrent /\ HistoryIsCurrent

(* licenses.py, delete_license: "Delete a single license + cascade         *)
(* installs in one transaction"; products.py, delete_product: "Delete a    *)
(* product + cascade everything underneath in a single transaction".       *)
DeletesSucceed ==
  [][\A t \in Thread : work[t].op \in {"delete", "product"} /\ work'[t] = Idle =>
       \A l \in work[t].lics : row'[l] = Gone]_vars

(* licenses.py, delete_license and products.py, delete_product: what is    *)
(* deleted stays deleted, whichever handler that loaded it before commits  *)
(* afterwards.  With foreign keys nothing of a deleted license is written  *)
(* again, and nothing at all under a deleted product.                      *)
DeletedForGood ==
  [][/\ \A l \in License : row[l] = Gone => row'[l] = Gone
     /\ enforced =>
          /\ \A l \in License : row[l] = Gone =>
               /\ installs'[l] = installs[l] /\ token'[l] = token[l]
               /\ l \in linked' => l \in linked
               /\ l \in queued' => l \in queued
          /\ ~product => UNCHANGED rows]_vars

(* What it rests on: no license is left, or comes, under a product that a  *)
(* database with foreign keys has deleted.                                 *)
NoOrphans == enforced /\ ~product => Alive = {}

=============================================================================
