----------------------------- MODULE StripeBilling -----------------------------
(***************************************************************************)
(* Stripe events of one product (app/stripe_webhook.py) and the licenses   *)
(* they pay for, next to what admins do to the same rows                   *)
(* (services/licenses.py, services/customers.py).                          *)
(*                                                                         *)
(* Stripe delivers its events in any order, repeats a delivery until it    *)
(* gets a 200, and sometimes after it.  The handler is a coroutine of the  *)
(* only worker process, so one event is handled at a time, but admin       *)
(* handlers run in threads and commit between its reads and its commit.    *)
(* A delivery of a recorded event changes nothing and is not a step here,  *)
(* nor is one whose INSERT breaks a constraint (rolled back, 500).         *)
(***************************************************************************)
EXTENDS Integers, FiniteSets, Sequences

CONSTANTS Event,       \* event ids
          Paid,        \* invoice.paid
          Failed,      \* invoice.payment_failed
          Deleted,     \* customer.subscription.deleted; the others are ignored
          Customer,    \* Stripe customer ids
          Payer,       \* the customer of an event
          Email,       \* addresses: customers.email is unique
          MailOf,      \* customer_email in the events of a customer
          AdminEmail,  \* addresses admins issue licenses to
          Unlinked,    \* stripe_customer_id IS NULL
          NoRow,       \* no customer row has the address
          Period,      \* what an invoice pays for, in days of the model
          MaxTime, MaxEdits, MaxCrashes,   \* bounds; admins issue only while there
          MaxLicenses                      \* are fewer licenses than MaxLicenses

ASSUME BillingAssumption ==
  /\ IsFiniteSet(Event) /\ Event # {} /\ Email # {}
  /\ Paid \union Failed \union Deleted \subseteq Event
  /\ Paid \intersect Failed = {} /\ (Paid \union Failed) \intersect Deleted = {}
  /\ Payer \in [Event -> Customer] /\ MailOf \in [Customer -> Email]
  /\ AdminEmail \subseteq Email
  /\ Unlinked \notin Customer /\ NoRow \notin Customer /\ Unlinked # NoRow
  /\ Period \in Nat \ {0}
  /\ MaxTime \in Nat /\ MaxLicenses \in Nat /\ MaxEdits \in Nat /\ MaxCrashes \in Nat

VARIABLES
  account,    \* the stripe_customer_id in the customer row of each address
  licenses,   \* license rows of the product, oldest first
  processed,  \* ids in processed_stripe_events
  job,        \* the event being handled, and what the handler has read
  mailed,     \* keys sent to customers
  keys,       \* keys generated so far
  now,
  edits, crashes,
  applied     \* events whose effect was committed

db == <<account, licenses, processed, applied>>
vars == <<db, job, mailed, keys, now, edits, crashes>>

Status == {"active", "disabled", "revoked", "delinquent"}

(* payer: the Stripe customer all of whose invoices went to this license,  *)
(* as long as no admin has interfered; Unlinked otherwise.                 *)
License == [owner : Email, status : Status, until : Nat, key : Nat,
            byStripe : BOOLEAN, payer : Customer \union {Unlinked}]

(* kind is what the handler will commit: a new license, an extension of    *)
(* license lic (either with valid_until until), a status for all licenses  *)
(* of the address, or nothing.  read is the statuses it has read.          *)
Job == [at : {"idle", "mail", "commit"}, kind : {"create", "extend", "mark", "none"},
        event : Event, mail : Email, lic : Nat, until : Nat, read : Seq(Status), key : Nat]
Idle == [at |-> "idle", kind |-> "none", event |-> CHOOSE e \in Event : TRUE,
         mail |-> CHOOSE m \in Email : TRUE, lic |-> 0, until |-> 0, read |-> <<>>, key |-> 0]

Init ==
  /\ account = [m \in Email |-> NoRow]
  /\ licenses = <<>>
  /\ processed = {} /\ applied = {}
  /\ job = Idle
  /\ mailed = {} /\ keys = 0
  /\ now = 0 /\ edits = 0 /\ crashes = 0

-----------------------------------------------------------------------------
LicensesOf(m) == {i \in DOMAIN licenses : licenses[i].owner = m}
AddressesOf(c) == {m \in Email : account[m] = c}
InvoicesOf(c) == {e \in processed \intersect Paid : Payer[e] = c}
With(l, until, status, payer) ==
  [owner |-> l.owner, status |-> status, until |-> until, key |-> l.key,
   byStripe |-> l.byStripe, payer |-> payer]
WithoutPayer(S) ==
  [i \in DOMAIN licenses |->
     IF i \in S THEN With(licenses[i], licenses[i].until, licenses[i].status, Unlinked)
     ELSE licenses[i]]
IsInserting(m) ==
  job.at # "idle" /\ job.kind = "create" /\ job.mail = m /\ account[m] = NoRow
IsLinking(c) == IsInserting(job.mail) /\ Payer[job.event] = c

(* The licenses an invoice may renew, of which it renews the newest: all   *)
(* of the customer, in whatever status.  Mutant: the active ones.          *)
RenewableActive(m) == {i \in LicensesOf(m) : licenses[i].status = "active"}
Renewable(m) == LicensesOf(m)

(* Mutant: the extension starts from today.                                *)
ExtendedFromNow(until) == now + Period
Extended(until) == (IF until > now THEN until ELSE now) + Period

(* customers.email is unique; mutant: it is not.                           *)
CanInsertAlways(m) == TRUE
CanInsert(m) == account[m] = NoRow

(* The dedup lookup; mutant: none.                                         *)
IsNewAlways(e) == TRUE
IsNew(e) == e \notin processed

(* When the claim is committed: with the effects; mutant: before them.     *)
ClaimedAtOnce(e) == processed \union {e}
Claimed(e) == processed

-----------------------------------------------------------------------------
(* stripe_webhook up to the handler's last read: look the event up, claim  *)
(* it (uncommitted), find the customer and the license.                    *)
Begin(e, kind, m, i, at) ==
  /\ job.at = "idle" /\ IsNew(e)
  /\ processed' = Claimed(e)
  /\ keys' = IF kind = "create" THEN keys + 1 ELSE keys
  /\ job' = [at |-> at, kind |-> kind, event |-> e, mail |-> m, lic |-> i,
             until |-> CASE kind = "extend" -> Extended(licenses[i].until)
                         [] kind = "create" -> now + Period
                         [] OTHER -> 0,
             read |-> IF kind \in {"extend", "mark"}
                      THEN [j \in DOMAIN licenses |-> licenses[j].status] ELSE <<>>,
             key |-> IF kind = "create" THEN keys' ELSE 0]
  /\ UNCHANGED <<account, licenses, applied, mailed, now, edits, crashes>>

(* _extend_or_create.  An unknown customer gets a row, which needs an      *)
(* address no other row has.                                               *)
InvoicePaid(e) ==
  LET c == Payer[e]
      known == AddressesOf(c)
  IN
  /\ e \in Paid
  /\ \E m \in IF known = {} THEN {MailOf[c]} ELSE known :
       /\ known = {} => CanInsert(m)
       /\ \/ Renewable(m) = {} /\ Begin(e, "create", m, 0, "mail")
          \/ \E i \in Renewable(m) :
               /\ \A j \in Renewable(m) : j <= i
               /\ Begin(e, "extend", m, i, "commit")

(* _mark_status, which ignores an unknown customer.  An event type without *)
(* a handler is recorded, and answered, all the same.                      *)
StatusEvent(e) ==
  LET known == IF e \in Failed \union Deleted THEN AddressesOf(Payer[e]) ELSE {} IN
  /\ e \notin Paid
  /\ \/ known = {} /\ Begin(e, "none", Idle.mail, 0, "commit")
     \/ \E m \in known : Begin(e, "mark", m, 0, "commit")

(* send_license_email, which never raises but may reach nobody.            *)
SendKey ==
  /\ job.at = "mail"
  /\ mailed' \in {mailed, mailed \union {job.key}}
  /\ job' = [job EXCEPT !.at = "commit"]
  /\ UNCHANGED <<db, keys, now, edits, crashes>>

MarkAs(e) == IF e \in Failed THEN "delinquent" ELSE "revoked"

(* A status is written only where it differs from the one that was read.   *)
WriteStatus(i, st) ==
  IF job.read[i] = st THEN licenses[i].status ELSE st

(* What the commit does to the licenses.  Mutant: the key of the row is    *)
(* generated apart from the one that was mailed.                           *)
NewLicenseRekeyed ==
  [owner |-> job.mail, status |-> "active", until |-> job.until, key |-> keys + 1,
   byStripe |-> TRUE, payer |-> Unlinked]
NewLicense ==
  [owner |-> job.mail, status |-> "active", until |-> job.until, key |-> job.key,
   byStripe |-> TRUE,
   payer |-> IF /\ InvoicesOf(Payer[job.event]) = {} /\ LicensesOf(job.mail) = {}
                /\ account[job.mail] \in {Payer[job.event], NoRow}
             THEN Payer[job.event] ELSE Unlinked]

Outcome ==
  CASE job.kind = "none" -> licenses
    [] job.kind = "create" -> Append(licenses, NewLicense)
    [] job.kind = "extend" ->
         [licenses EXCEPT ![job.lic] =
            With(@, job.until, WriteStatus(job.lic, "active"), @.payer)]
    [] job.kind = "mark" ->
         [i \in DOMAIN licenses |->
            IF i \in DOMAIN job.read /\ licenses[i].owner = job.mail
            THEN With(licenses[i], licenses[i].until, WriteStatus(i, MarkAs(job.event)),
                      licenses[i].payer)
            ELSE licenses[i]]

(* db.commit(); whether the 200 reaches Stripe makes no difference here.   *)
Commit ==
  /\ job.at = "commit"
  /\ licenses' = Outcome
  /\ account' = IF job.kind = "create" /\ account[job.mail] = NoRow
                THEN [account EXCEPT ![job.mail] = Payer[job.event]] ELSE account
  /\ processed' = processed \union {job.event}
  /\ applied' = applied \union {job.event}
  /\ job' = Idle
  /\ UNCHANGED <<mailed, keys, now, edits, crashes>>

(* The process dies, or the commit fails: the transaction is rolled back.  *)
Crash ==
  /\ job.at # "idle" /\ crashes < MaxCrashes
  /\ job' = Idle
  /\ crashes' = crashes + 1
  /\ UNCHANGED <<db, mailed, keys, now, edits>>

-----------------------------------------------------------------------------
(* issue_license by e-mail, or from the API by Stripe id c: for the row m   *)
(* that has it, or a new one.  The commit comes before the mail.  An insert *)
(* of what the handler is inserting waits and then fails.                  *)
AdminIssue(m, c) ==
  /\ \/ c = Unlinked /\ m \in AdminEmail
     \/ c # Unlinked /\ account[m] = c
     \/ AddressesOf(c) = {} /\ account[m] = NoRow /\ m \in AdminEmail /\ ~IsLinking(c)
  /\ ~IsInserting(m) /\ Len(licenses) < MaxLicenses
  /\ account' = [account EXCEPT ![m] = IF @ = NoRow THEN c ELSE @]
  /\ keys' = keys + 1
  /\ licenses' = Append(WithoutPayer(LicensesOf(m)),
                        [owner |-> m, status |-> "active", until |-> now + Period,
                         key |-> keys', byStripe |-> FALSE, payer |-> Unlinked])
  /\ mailed' \in {mailed, mailed \union {keys'}}
  /\ UNCHANGED <<processed, applied, job, now, edits, crashes>>

AdminEdit ==
  /\ edits < MaxEdits
  /\ edits' = edits + 1
  /\ UNCHANGED <<processed, applied, mailed, keys, now, crashes>>

(* revoke, disable, enable *)
SetStatus(i, st) ==
  /\ licenses' = [licenses EXCEPT ![i] = With(@, @.until, st, @.payer)]
  /\ UNCHANGED <<account, job>>
  /\ AdminEdit

(* edit_license with another valid_until *)
EditUntil(i, t) ==
  /\ licenses' = [licenses EXCEPT ![i] = With(@, t, @.status, Unlinked)]
  /\ UNCHANGED <<account, job>>
  /\ AdminEdit

(* edit_customer: the row of address m gets address n and Stripe id c, and *)
(* its licenses and a handler that holds the row go with it.               *)
EditCustomer(m, n, c) ==
  /\ account[m] # NoRow /\ (n = m \/ account[n] = NoRow) /\ ~IsInserting(n)
  /\ c = Unlinked \/ (AddressesOf(c) \subseteq {m} /\ ~IsLinking(c))
  /\ account' = [account EXCEPT ![m] = NoRow, ![n] = c]
  /\ licenses' = [i \in DOMAIN licenses |->
                    IF licenses[i].owner = m
                    THEN [licenses[i] EXCEPT !.owner = n, !.payer = Unlinked]
                    ELSE licenses[i]]
  /\ job' = IF job.mail = m /\ job.kind # "none" THEN [job EXCEPT !.mail = n] ELSE job
  /\ AdminEdit

Tick ==
  /\ now < MaxTime
  /\ now' = now + 1
  /\ UNCHANGED <<db, job, mailed, keys, edits, crashes>>

Handle(e) == InvoicePaid(e) \/ StatusEvent(e)

Next ==
  \/ \E e \in Event : Handle(e)
  \/ SendKey \/ Commit \/ Crash \/ Tick
  \/ \E i \in DOMAIN licenses :
       \/ \E st \in {"active", "disabled", "revoked"} : SetStatus(i, st)
       \/ \E t \in 0..MaxTime : EditUntil(i, t)
  \/ \E m \in Email, c \in Customer \union {Unlinked} :
       AdminIssue(m, c) \/ \E n \in Email : EditCustomer(m, n, c)

Spec == Init /\ [][Next]_vars

(* Stripe repeats a delivery until it is answered with 200, and a handler  *)
(* that runs goes on.                                                      *)
FairSpec ==
  /\ Spec
  /\ \A e \in Event : SF_vars(Handle(e))
  /\ WF_vars(SendKey) /\ WF_vars(Commit)

-----------------------------------------------------------------------------
(* Every column and the handler's memory hold values of their types.       *)
TypeOK ==
  /\ account \in [Email -> Customer \union {Unlinked, NoRow}]
  /\ licenses \in Seq(License)
  /\ processed \subseteq Event /\ applied \subseteq Event
  /\ job \in Job
  /\ keys \in Nat /\ mailed \subseteq 1..keys
  /\ now \in 0..MaxTime /\ edits \in 0..MaxEdits /\ crashes \in 0..MaxCrashes

(* An event is recorded exactly when its effect is in the database: a      *)
(* crash neither loses an event Stripe will not send again nor leaves an   *)
(* effect that a redelivery would repeat.                                  *)
RecordedIffApplied == processed = applied

(* models.py: without the dedup table "an invoice.paid redelivery would    *)
(* extend valid_until twice".  A license only Stripe has touched is valid  *)
(* for exactly what its customer's recorded invoices paid for: no less     *)
(* than one period each, and no more than that counted from today.         *)
PaidForExactly ==
  \A i \in DOMAIN licenses :
    LET l == licenses[i]
        n == Cardinality(InvoicesOf(l.payer))
    IN l.payer # Unlinked => n * Period <= l.until /\ l.until <= now + n * Period

(* CHANGELOG.md: "Renewals preserve the keys".  Whatever the status of the *)
(* license and however often an event is repeated or cut short, Stripe's   *)
(* events create one license per customer row.                             *)
RenewalsPreserveKeys ==
  \A i, j \in DOMAIN licenses :
    licenses[i].byStripe /\ licenses[j].byStripe /\ licenses[i].owner = licenses[j].owner
      => i = j

(* Who is linked to what: a Stripe id is in one row, a license has an      *)
(* owner, and one that records its payer is the only one of that customer. *)
RowsAreLinked ==
  /\ \A m, n \in Email : account[m] \in Customer /\ account[m] = account[n] => m = n
  /\ \A i \in DOMAIN licenses :
       LET l == licenses[i] IN
       /\ account[l.owner] # NoRow
       /\ l.payer # Unlinked =>
            l.byStripe /\ account[l.owner] = l.payer /\ LicensesOf(l.owner) = {i}

(* What the handler holds between its reads and its commit: the event is   *)
(* not recorded yet; an extension of a license with a payer continues what *)
(* is in the database; a new license is the customer's first from Stripe.  *)
JobIsCurrent ==
  job.at # "idle" =>
    LET c == Payer[job.event] IN
    /\ job.event \notin processed
    /\ job.at = "mail" => job.kind = "create"
    /\ job.event \in Paid <=> job.kind \in {"create", "extend"}
    /\ job.kind = "extend" =>
         /\ job.lic \in DOMAIN licenses /\ job.lic \in DOMAIN job.read
         /\ licenses[job.lic].payer # Unlinked =>
              /\ job.until >= licenses[job.lic].until + Period
              /\ \/ job.until <= licenses[job.lic].until + Period
                 \/ job.until <= now + Period
         /\ \A i \in DOMAIN licenses : licenses[i].payer = c => i = job.lic
         /\ licenses[job.lic].payer \in {c, Unlinked}
    /\ job.kind = "create" =>
         /\ Period <= job.until /\ job.until <= now + Period
         /\ job.key \in 1..keys
         /\ account[job.mail] = NoRow => AddressesOf(c) = {}
         /\ \A i \in DOMAIN licenses :
              licenses[i].payer # c /\ (licenses[i].owner = job.mail => ~licenses[i].byStripe)

(* The inductive invariant behind the three invariants above.              *)
BillingInv ==
  /\ TypeOK /\ RecordedIffApplied /\ PaidForExactly /\ RenewalsPreserveKeys
  /\ RowsAreLinked /\ JobIsCurrent

(* stripe_webhook.py: "invoice.paid -> extend valid_until 30d,             *)
(* status=active": every invoice that was paid is eventually applied.      *)
PaymentsAreApplied == \A e \in Paid : <>(e \in applied)

(* An invoice of a customer without a row, whose address is in the row of  *)
(* somebody else or of nobody Stripe knows: its insert is refused.         *)
Blocked(e) == AddressesOf(Payer[e]) = {} /\ account[MailOf[Payer[e]]] # NoRow

(* Neither time nor any event, crash or repeat ends that: an admin has to  *)
(* give a row this Stripe id, or another address to the row that is there. *)
Stuck(e) == Blocked(e) /\ e \notin processed /\ ~(job.at # "idle" /\ job.event = e)
OnlyAdminsUnblock ==
  [][\A e \in Paid : Stuck(e) =>
       LET c == Payer[e] IN
       \/ Stuck(e)'
       \/ \E m, n \in Email : AdminIssue(m, c) \/ EditCustomer(m, n, c)
       \/ \E n \in Email, d \in Customer \union {Unlinked} : EditCustomer(MailOf[c], n, d)]_vars

(* Every invoice that is not blocked for ever is applied: repeats, the     *)
(* order of the events, cancellations, crashes and admins' edits take no   *)
(* payment away.                                                           *)
UnblockedPaymentsAreApplied ==
  \A e \in Paid : <>[]~Blocked(e) => <>(e \in applied)

(* Keys that were mailed, that no license has, and that the handler does   *)
(* not hold for the license it will insert.                                *)
Worthless ==
  mailed \ ({licenses[i].key : i \in DOMAIN licenses}
            \union (IF job.at # "idle" /\ job.kind = "create" THEN {job.key} ELSE {}))

(* README.md: "When a license is created ... the customer is emailed their *)
(* key".  The mail goes out before the commit, so that a handler that dies *)
(* in between leaves a customer with a key that never works.  That is all: *)
(* no more such keys than handlers have died, whatever the order of the    *)
(* events and whatever admins do to the rows meanwhile.                    *)
MailedKeysExist == Cardinality(Worthless) <= crashes

-----------------------------------------------------------------------------
(* The handler keeps the promises of PaymentLedger.  A customer's row is   *)
(* the one the handler works on, or has his Stripe id, or will be inserted.*)
AddressOf(c) ==
  IF job.at # "idle" /\ job.kind \in {"create", "extend"} /\ Payer[job.event] = c
  THEN job.mail
  ELSE IF AddressesOf(c) = {} THEN MailOf[c] ELSE CHOOSE m \in Email : account[m] = c

IsNewcomer(c) ==
  /\ InvoicesOf(c) = {} /\ LicensesOf(AddressOf(c)) = {}
  /\ account[AddressOf(c)] \in {c, NoRow}

PaidLicense(c) == CHOOSE i \in DOMAIN licenses : licenses[i].payer = c

TermOf(c) ==
  IF \E i \in DOMAIN licenses : licenses[i].payer = c THEN licenses[PaidLicense(c)].until
  ELSE IF IsNewcomer(c) THEN -1 ELSE -2

Ledger == INSTANCE PaymentLedger WITH
            booked <- processed,
            term   <- [c \in Customer |-> TermOf(c)]

(* Handlers, crashes and repeats behind it, and whatever admins commit in  *)
(* between, each event is booked once, and a term only Stripe has touched  *)
(* grows by one period with each invoice of its customer and never shrinks.*)
ImplementsLedger == Ledger!Spec

=============================================================================
