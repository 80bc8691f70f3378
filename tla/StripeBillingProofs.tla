-------------------------- MODULE StripeBillingProofs --------------------------
(***************************************************************************)
(* Proofs about StripeBilling for any number of events, customers, admin   *)
(* actions and crashes.                                                    *)
(*                                                                         *)
(* What an admin does keeps the licenses that record a payer as they are   *)
(* or takes the record away, so the facts about payers only have to be     *)
(* shown again where Stripe's handler commits: there one more invoice is   *)
(* recorded for one customer, whose license is the one that is extended.   *)
(***************************************************************************)
EXTENDS StripeBilling, FiniteSetTheorems, TLAPS

(* A sequence whose elements are replaced by others of the same type.      *)
LEMMA Replaced ==
  ASSUME NEW S, NEW s \in Seq(S), NEW f, f = [i \in DOMAIN s |-> f[i]],
         \A i \in DOMAIN s : f[i] \in S
  PROVE  f \in Seq(S) /\ Len(f) = Len(s) /\ DOMAIN f = DOMAIN s
<1>1. DOMAIN s = 1..Len(s) /\ Len(s) \in Nat
  OBVIOUS
<1>2. f \in [1..Len(s) -> S]
  BY <1>1
<1> QED BY <1>1, <1>2

(* A license with other values in the columns that are ever written.       *)
LEMMA WithType ==
  ASSUME NEW l \in License, NEW until \in Nat, NEW status \in Status,
         NEW payer \in Customer \union {Unlinked}
  PROVE  /\ With(l, until, status, payer) \in License
         /\ With(l, until, status, payer).owner = l.owner
         /\ With(l, until, status, payer).until = until
         /\ With(l, until, status, payer).status = status
         /\ With(l, until, status, payer).byStripe = l.byStripe
         /\ With(l, until, status, payer).payer = payer
BY DEF With, License

(* The columns of a stored license.                                        *)
LEMMA StoredType ==
  ASSUME TypeOK, NEW i \in DOMAIN licenses
  PROVE  /\ licenses[i] \in License
         /\ licenses[i].owner \in Email /\ licenses[i].status \in Status
         /\ licenses[i].until \in Nat /\ licenses[i].byStripe \in BOOLEAN
         /\ licenses[i].payer \in Customer \union {Unlinked}
<1>1. licenses[i] \in License
  BY DEF TypeOK
<1> QED BY <1>1 DEF License

LEMMA IdleType == Idle \in Job /\ Idle.at = "idle" /\ Idle.mail \in Email
BY BillingAssumption DEF Idle, Job

(* One more invoice of a customer.                                         *)
LEMMA OneMoreInvoice ==
  ASSUME processed \subseteq Event, NEW e \in Paid, e \notin processed,
         NEW c, processed' = processed \union {e}
  PROVE  /\ Cardinality(InvoicesOf(c)) \in Nat
         /\ Payer[e] # c => InvoicesOf(c)' = InvoicesOf(c)
         /\ Payer[e] = c => Cardinality(InvoicesOf(c)') = Cardinality(InvoicesOf(c)) + 1
<1>1. IsFiniteSet(InvoicesOf(c))
  BY BillingAssumption, FS_Subset DEF InvoicesOf
<1>2. Cardinality(InvoicesOf(c)) \in Nat
  BY <1>1, FS_CardinalityType
<1>3. Payer[e] # c => InvoicesOf(c)' = InvoicesOf(c)
  BY DEF InvoicesOf
<1>4. CASE Payer[e] = c
  <2>1. InvoicesOf(c)' = InvoicesOf(c) \union {e} /\ e \notin InvoicesOf(c)
    BY <1>4 DEF InvoicesOf
  <2>2. Cardinality(InvoicesOf(c) \union {e}) = Cardinality(InvoicesOf(c)) + 1
    BY <1>1, <2>1, FS_AddElement
  <2> QED BY <1>2, <1>4, <2>1, <2>2
<1> QED BY <1>2, <1>3, <1>4

LEMMA Periods ==
  ASSUME NEW n \in Nat
  PROVE  (n + 1) * Period = n * Period + Period /\ n * Period \in Nat /\ 0 * Period = 0
         /\ 1 * Period = Period
BY BillingAssumption

-----------------------------------------------------------------------------
(* An event that starts to be handled changes nothing but the handler.     *)
LEMMA BeginKeepsRows ==
  ASSUME BillingInv, NEW e, NEW kind, NEW m, NEW i, NEW at, Begin(e, kind, m, i, at)
  PROVE  /\ RecordedIffApplied' /\ PaidForExactly' /\ RenewalsPreserveKeys' /\ RowsAreLinked'
         /\ UNCHANGED <<account, licenses, processed, applied, mailed, now, edits, crashes>>
         /\ keys' \in Nat /\ keys <= keys' /\ e \notin processed
<1>1. UNCHANGED <<account, licenses, processed, applied, mailed, now, edits, crashes>>
      /\ e \notin processed /\ keys' = IF kind = "create" THEN keys + 1 ELSE keys
  BY DEF Begin, Claimed, IsNew
<1>2. keys' \in Nat /\ keys <= keys'
  BY <1>1 DEF BillingInv, TypeOK
<1>3. RecordedIffApplied' /\ PaidForExactly'
  BY <1>1 DEF BillingInv, RecordedIffApplied, PaidForExactly, InvoicesOf
<1>4. RenewalsPreserveKeys' /\ RowsAreLinked'
  BY <1>1 DEF BillingInv, RenewalsPreserveKeys, RowsAreLinked, LicensesOf
<1> QED BY <1>1, <1>2, <1>3, <1>4

LEMMA BeginType ==
  ASSUME BillingInv, NEW e \in Event, NEW kind \in {"create", "extend", "mark", "none"},
         NEW m \in Email, NEW i \in Nat, NEW at \in {"mail", "commit"},
         Begin(e, kind, m, i, at), kind = "extend" => i \in DOMAIN licenses
  PROVE  /\ TypeOK'
         /\ job'.at = at /\ job'.kind = kind /\ job'.event = e /\ job'.mail = m /\ job'.lic = i
         /\ kind = "extend" => /\ job'.until = Extended(licenses[i].until)
                               /\ DOMAIN job'.read = DOMAIN licenses
         /\ kind = "create" => job'.until = now + Period /\ job'.key \in 1..keys'
<1> DEFINE statuses == [j \in DOMAIN licenses |-> licenses[j].status]
           read == IF kind \in {"extend", "mark"} THEN statuses ELSE <<>>
           until == CASE kind = "extend" -> Extended(licenses[i].until)
                      [] kind = "create" -> now + Period
                      [] OTHER -> 0
           key == IF kind = "create" THEN keys' ELSE 0
<1>1. job' = [at |-> at, kind |-> kind, event |-> e, mail |-> m, lic |-> i, until |-> until,
              read |-> read, key |-> key]
  BY DEF Begin
<1>2. statuses \in Seq(Status) /\ DOMAIN statuses = DOMAIN licenses
  <2>1. licenses \in Seq(License) /\ DOMAIN licenses = 1..Len(licenses) /\ Len(licenses) \in Nat
    BY DEF BillingInv, TypeOK
  <2>2. \A j \in DOMAIN licenses : licenses[j].status \in Status
    BY StoredType DEF BillingInv
  <2>3. statuses \in [1..Len(licenses) -> Status]
    BY <2>1, <2>2
  <2> QED BY <2>1, <2>3
<1>3. read \in Seq(Status)
  BY <1>2
<1>4. until \in Nat
  <2>1. now \in Nat /\ licenses \in Seq(License) /\ Period \in Nat
    BY BillingAssumption DEF BillingInv, TypeOK
  <2>2. kind = "extend" => licenses[i].until \in Nat
    BY StoredType DEF BillingInv
  <2>3. kind = "extend" => Extended(licenses[i].until) \in Nat
    BY <2>1, <2>2 DEF Extended
  <2> QED BY <2>1, <2>3
<1>5. key \in Nat /\ (kind = "create" => key \in 1..keys')
  BY BeginKeepsRows DEF BillingInv, TypeOK, Begin
<1>6. job' \in Job
  BY <1>1, <1>3, <1>4, <1>5 DEF Job
<1>7. TypeOK'
  <2>1. /\ UNCHANGED <<account, licenses, processed, applied, mailed, now, edits, crashes>>
        /\ keys' \in Nat /\ keys <= keys'
    BY BeginKeepsRows
  <2>2. mailed' \subseteq 1..keys'
    BY <2>1 DEF BillingInv, TypeOK
  <2> QED BY <1>6, <2>1, <2>2 DEF BillingInv, TypeOK
<1> QED BY <1>1, <1>2, <1>5, <1>7

LEMMA PaidKeepsInv ==
  ASSUME BillingInv, NEW e \in Event, InvoicePaid(e)
  PROVE  BillingInv'
<1> DEFINE c == Payer[e]
           known == AddressesOf(c)
<1>1. PICK m \in (IF known = {} THEN {MailOf[c]} ELSE known) :
        /\ known = {} => account[m] = NoRow
        /\ \/ Renewable(m) = {} /\ Begin(e, "create", m, 0, "mail")
           \/ \E i \in Renewable(m) :
                /\ \A j \in Renewable(m) : j <= i
                /\ Begin(e, "extend", m, i, "commit")
  BY DEF InvoicePaid, CanInsert
<1>2. e \in Paid /\ c \in Customer /\ m \in Email
  BY <1>1, BillingAssumption DEF InvoicePaid, CanInsert, AddressesOf
<1>3. CASE Renewable(m) = {} /\ Begin(e, "create", m, 0, "mail")
  <2>1. /\ TypeOK' /\ job'.at = "mail" /\ job'.kind = "create" /\ job'.event = e /\ job'.mail = m
        /\ job'.until = now + Period /\ job'.key \in 1..keys'
    BY <1>2, <1>3, BeginType
  <2>2. /\ RecordedIffApplied' /\ PaidForExactly' /\ RenewalsPreserveKeys' /\ RowsAreLinked'
        /\ UNCHANGED <<account, licenses, processed, now>> /\ e \notin processed
    BY <1>3, BeginKeepsRows
  <2>3. now \in Nat /\ Period \in Nat
    BY BillingAssumption DEF BillingInv, TypeOK
  <2>4. Period <= job'.until /\ job'.until <= now' + Period
    BY <1>3, <2>1, <2>2, <2>3
  <2>5. account'[m] = NoRow => AddressesOf(c)' = {}
    BY <1>1, <1>2, <2>2, BillingAssumption DEF AddressesOf
  <2>6. \A i \in DOMAIN licenses : licenses[i].owner # m
    BY <1>3 DEF Renewable, LicensesOf
  <2>7. \A i \in DOMAIN licenses : licenses[i].payer # c
    <3>1. SUFFICES ASSUME NEW i \in DOMAIN licenses, licenses[i].payer = c PROVE FALSE
      OBVIOUS
    <3>2. licenses[i].owner \in Email /\ account[licenses[i].owner] = c
      BY <1>2, <3>1, StoredType, BillingAssumption DEF BillingInv, RowsAreLinked
    <3>3. account[m] = c
      BY <1>1, <1>2, <3>2 DEF AddressesOf
    <3> QED BY <1>2, <2>6, <3>2, <3>3 DEF BillingInv, RowsAreLinked
  <2>8. JobIsCurrent'
    BY <1>2, <2>1, <2>2, <2>4, <2>5, <2>6, <2>7 DEF JobIsCurrent
  <2> QED BY <2>1, <2>2, <2>8 DEF BillingInv
<1>4. ASSUME NEW i \in Renewable(m), Begin(e, "extend", m, i, "commit") PROVE BillingInv'
  <2>1. i \in DOMAIN licenses /\ i \in Nat /\ licenses[i].owner = m /\ licenses[i] \in License
    BY <1>4 DEF Renewable, LicensesOf, BillingInv, TypeOK
  <2>2. /\ TypeOK' /\ job'.at = "commit" /\ job'.kind = "extend" /\ job'.event = e
        /\ job'.mail = m /\ job'.lic = i /\ job'.until = Extended(licenses[i].until)
        /\ DOMAIN job'.read = DOMAIN licenses
    BY <1>2, <1>4, <2>1, BeginType
  <2>3. /\ RecordedIffApplied' /\ PaidForExactly' /\ RenewalsPreserveKeys' /\ RowsAreLinked'
        /\ UNCHANGED <<account, licenses, processed, now>> /\ e \notin processed
    BY <1>4, BeginKeepsRows
  <2>4. licenses[i].until \in Nat /\ now \in Nat /\ Period \in Nat
    BY <2>1, BillingAssumption DEF License, BillingInv, TypeOK
  <2>5. /\ job'.until >= licenses[i].until + Period
        /\ job'.until <= licenses[i].until + Period \/ job'.until <= now + Period
    BY <2>2, <2>4 DEF Extended
  <2>6. account[m] = c
    <3>1. account[m] # NoRow
      BY <2>1 DEF BillingInv, RowsAreLinked
    <3> QED BY <1>1, <3>1 DEF AddressesOf
  <2>7. licenses[i].payer \in {c, Unlinked}
    BY <2>1, <2>6 DEF BillingInv, RowsAreLinked
  <2>8. \A j \in DOMAIN licenses : licenses[j].payer = c => j = i
    <3>1. SUFFICES ASSUME NEW j \in DOMAIN licenses, licenses[j].payer = c PROVE j = i
      OBVIOUS
    <3>2. /\ licenses[j].owner \in Email /\ account[licenses[j].owner] = c
          /\ LicensesOf(licenses[j].owner) = {j}
      BY <1>2, <3>1, StoredType, BillingAssumption DEF BillingInv, RowsAreLinked
    <3>3. licenses[j].owner = m
      BY <1>2, <2>6, <3>2 DEF BillingInv, RowsAreLinked
    <3> QED BY <2>1, <3>2, <3>3 DEF LicensesOf
  <2>9. JobIsCurrent'
    BY <1>2, <2>1, <2>2, <2>3, <2>5, <2>7, <2>8 DEF JobIsCurrent
  <2> QED BY <2>2, <2>3, <2>9 DEF BillingInv
<1> QED BY <1>1, <1>3, <1>4

LEMMA OtherEventsKeepInv ==
  ASSUME BillingInv, NEW e \in Event, e \notin Paid, NEW kind \in {"mark", "none"},
         NEW m \in Email, Begin(e, kind, m, 0, "commit")
  PROVE  BillingInv'
<1>1. TypeOK' /\ job'.at = "commit" /\ job'.kind = kind /\ job'.event = e
  BY BeginType
<1>2. /\ RecordedIffApplied' /\ PaidForExactly' /\ RenewalsPreserveKeys' /\ RowsAreLinked'
      /\ processed' = processed /\ e \notin processed
  BY BeginKeepsRows
<1>3. JobIsCurrent'
  BY <1>1, <1>2 DEF JobIsCurrent
<1> QED BY <1>1, <1>2, <1>3 DEF BillingInv

-----------------------------------------------------------------------------
(* Steps that record no invoice and only keep, or take away, what a license *)
(* says of its payer.                                                      *)
LEMMA PayersKept ==
  ASSUME BillingInv,
         \/ processed' = processed /\ applied' = applied
         \/ \E e \in Event \ Paid : /\ processed' = processed \union {e}
                                    /\ applied' = applied \union {e},
         now' \in Nat, now <= now',
         \A i \in DOMAIN licenses' :
           licenses'[i].payer # Unlinked =>
             /\ i \in DOMAIN licenses /\ licenses'[i].payer = licenses[i].payer
             /\ licenses'[i].until = licenses[i].until
  PROVE  RecordedIffApplied' /\ PaidForExactly'
<1>1. RecordedIffApplied'
  BY DEF BillingInv, RecordedIffApplied
<1>2. ASSUME NEW i \in DOMAIN licenses', licenses'[i].payer # Unlinked
      PROVE  (LET k == Cardinality(InvoicesOf(licenses[i].payer)) IN
              k * Period <= licenses[i].until /\ licenses[i].until <= now + k * Period)'
  <2> DEFINE n == Cardinality(InvoicesOf(licenses[i].payer))
  <2>1. /\ i \in DOMAIN licenses /\ licenses'[i].payer = licenses[i].payer
        /\ licenses'[i].until = licenses[i].until
    BY <1>2
  <2>2. Cardinality(InvoicesOf(licenses[i].payer))' = n
    BY <2>1 DEF InvoicesOf
  <2>3. n \in Nat
    BY FS_Subset, FS_CardinalityType, BillingAssumption DEF InvoicesOf
  <2>4. n * Period \in Nat
    BY <2>3, Periods
  <2>5. n * Period <= licenses[i].until /\ licenses[i].until <= now + n * Period
    BY <1>2, <2>1 DEF BillingInv, PaidForExactly
  <2>6. licenses[i].until \in Nat /\ now \in Nat
    BY <2>1, StoredType DEF BillingInv, TypeOK
  <2> HIDE DEF n
  <2> QED BY <2>1, <2>2, <2>4, <2>5, <2>6
<1>3. PaidForExactly'
  BY <1>2 DEF PaidForExactly
<1> QED BY <1>1, <1>3

(* Steps that add no license of Stripe's and move none to another row.     *)
LEMMA KeysKept ==
  ASSUME BillingInv,
         \A i \in DOMAIN licenses' :
           licenses'[i].byStripe =>
             /\ i \in DOMAIN licenses /\ licenses[i].byStripe
             /\ licenses'[i].owner = licenses[i].owner
  PROVE  RenewalsPreserveKeys'
BY DEF BillingInv, RenewalsPreserveKeys

(* The handler's memory stays good when such a step goes past it.          *)
LEMMA JobMoved ==
  ASSUME BillingInv, processed' = processed,
         UNCHANGED <<job.at, job.kind, job.event, job.lic, job.until, job.read, job.key>>,
         now' \in Nat, now <= now', keys' \in Nat, keys <= keys',
         DOMAIN licenses \subseteq DOMAIN licenses',
         \A i \in DOMAIN licenses' :
           licenses'[i].payer # Unlinked =>
             /\ i \in DOMAIN licenses /\ licenses'[i].payer = licenses[i].payer
             /\ licenses'[i].until = licenses[i].until,
         job.at # "idle" /\ job.kind = "create" =>
           /\ account'[job'.mail] = NoRow => \A m \in Email : account'[m] # Payer[job.event]
           /\ \A i \in DOMAIN licenses' :
                licenses'[i].byStripe /\ licenses'[i].owner = job'.mail =>
                  i \in DOMAIN licenses /\ licenses[i].byStripe /\ licenses[i].owner = job.mail
  PROVE  JobIsCurrent'
<1> SUFFICES ASSUME job.at # "idle" PROVE JobIsCurrent'
  BY DEF JobIsCurrent
<1> DEFINE c == Payer[job.event]
<1>1. job \in Job /\ c \in Customer /\ c # Unlinked /\ Period \in Nat /\ now \in Nat
      /\ keys \in Nat
  BY BillingAssumption DEF BillingInv, TypeOK, Job
<1>2. job.until \in Nat /\ job.key \in Nat
  BY <1>1 DEF Job
<1>3. /\ job.event \notin processed
      /\ job.at = "mail" => job.kind = "create"
      /\ job.event \in Paid <=> job.kind \in {"create", "extend"}
  BY DEF BillingInv, JobIsCurrent
<1>4. ASSUME job.kind = "extend"
      PROVE  /\ job.lic \in DOMAIN licenses' /\ job.lic \in DOMAIN job.read
             /\ licenses'[job.lic].payer # Unlinked =>
                  /\ job.until >= licenses'[job.lic].until + Period
                  /\ \/ job.until <= licenses'[job.lic].until + Period
                     \/ job.until <= now' + Period
             /\ \A i \in DOMAIN licenses' : licenses'[i].payer = c => i = job.lic
             /\ licenses'[job.lic].payer \in {c, Unlinked}
  <2>1. /\ job.lic \in DOMAIN licenses /\ job.lic \in DOMAIN job.read
        /\ licenses[job.lic].payer # Unlinked =>
             /\ job.until >= licenses[job.lic].until + Period
             /\ \/ job.until <= licenses[job.lic].until + Period
                \/ job.until <= now + Period
        /\ \A i \in DOMAIN licenses : licenses[i].payer = c => i = job.lic
        /\ licenses[job.lic].payer \in {c, Unlinked}
    BY <1>4 DEF BillingInv, JobIsCurrent
  <2>2. job.lic \in DOMAIN licenses'
    BY <2>1
  <2>3. licenses'[job.lic].payer # Unlinked =>
          /\ job.until >= licenses'[job.lic].until + Period
          /\ \/ job.until <= licenses'[job.lic].until + Period
             \/ job.until <= now' + Period
    BY <1>1, <1>2, <2>1, <2>2
  <2> QED BY <1>1, <2>1, <2>2, <2>3
<1>5. ASSUME job.kind = "create"
      PROVE  /\ Period <= job.until /\ job.until <= now' + Period
             /\ job.key \in 1..keys'
             /\ account'[job'.mail] = NoRow => \A m \in Email : account'[m] # c
             /\ \A i \in DOMAIN licenses' :
                  /\ licenses'[i].payer # c
                  /\ licenses'[i].owner = job'.mail => ~licenses'[i].byStripe
  <2>1. /\ Period <= job.until /\ job.until <= now + Period /\ job.key \in 1..keys
        /\ \A i \in DOMAIN licenses :
             licenses[i].payer # c /\ (licenses[i].owner = job.mail => ~licenses[i].byStripe)
    BY <1>5 DEF BillingInv, JobIsCurrent
  <2>2. job.until <= now' + Period /\ job.key \in 1..keys'
    BY <1>1, <1>2, <2>1
  <2> QED BY <1>1, <1>5, <2>1, <2>2
<1> QED BY <1>3, <1>4, <1>5 DEF JobIsCurrent, AddressesOf

LEMMA JobKept ==
  ASSUME BillingInv, job' = job, processed' = processed,
         now' \in Nat, now <= now', keys' \in Nat, keys <= keys',
         DOMAIN licenses \subseteq DOMAIN licenses',
         \A i \in DOMAIN licenses' :
           licenses'[i].payer # Unlinked =>
             /\ i \in DOMAIN licenses /\ licenses'[i].payer = licenses[i].payer
             /\ licenses'[i].until = licenses[i].until,
         \A i \in DOMAIN licenses' :
           licenses'[i].byStripe =>
             /\ i \in DOMAIN licenses /\ licenses[i].byStripe
             /\ licenses'[i].owner = licenses[i].owner,
         job.at # "idle" /\ job.kind = "create" /\ account'[job.mail] = NoRow =>
           \A m \in Email : account'[m] # Payer[job.event]
  PROVE  JobIsCurrent'
BY JobMoved

(* Nor does it change whose the licenses with a payer are.                 *)
LEMMA LinksKept ==
  ASSUME BillingInv,
         \A m, n \in Email : account'[m] \in Customer /\ account'[m] = account'[n] => m = n,
         \A i \in DOMAIN licenses' : account'[licenses'[i].owner] # NoRow,
         \A i \in DOMAIN licenses' :
           licenses'[i].payer # Unlinked =>
             /\ i \in DOMAIN licenses /\ licenses'[i].payer = licenses[i].payer
             /\ licenses'[i].owner = licenses[i].owner
             /\ licenses'[i].byStripe = licenses[i].byStripe
             /\ account'[licenses[i].owner] = account[licenses[i].owner]
             /\ \A j \in DOMAIN licenses' :
                  licenses'[j].owner = licenses[i].owner =>
                    j \in DOMAIN licenses /\ licenses[j].owner = licenses[i].owner
  PROVE  RowsAreLinked'
<1>1. ASSUME NEW i \in DOMAIN licenses', licenses'[i].payer # Unlinked
      PROVE  (/\ licenses[i].byStripe /\ account[licenses[i].owner] = licenses[i].payer
              /\ LicensesOf(licenses[i].owner) = {i})'
  <2>1. /\ i \in DOMAIN licenses /\ licenses'[i].payer = licenses[i].payer
        /\ licenses'[i].owner = licenses[i].owner /\ licenses'[i].byStripe = licenses[i].byStripe
        /\ account'[licenses[i].owner] = account[licenses[i].owner]
        /\ \A j \in DOMAIN licenses' :
             licenses'[j].owner = licenses[i].owner =>
               j \in DOMAIN licenses /\ licenses[j].owner = licenses[i].owner
    BY <1>1
  <2>2. /\ licenses[i].byStripe /\ account[licenses[i].owner] = licenses[i].payer
        /\ LicensesOf(licenses[i].owner) = {i}
    BY <1>1, <2>1 DEF BillingInv, RowsAreLinked
  <2>3. LicensesOf(licenses[i].owner)' = {i}
    BY <1>1, <2>1, <2>2 DEF LicensesOf
  <2> QED BY <2>1, <2>2, <2>3
<1> QED BY <1>1 DEF RowsAreLinked

LEMMA WithoutPayerType ==
  ASSUME TypeOK, NEW m
  PROVE  LET w == WithoutPayer(LicensesOf(m)) IN
         /\ w \in Seq(License) /\ Len(w) = Len(licenses) /\ DOMAIN w = DOMAIN licenses
         /\ \A i \in DOMAIN licenses :
              /\ w[i].owner = licenses[i].owner /\ w[i].until = licenses[i].until
              /\ w[i].byStripe = licenses[i].byStripe
              /\ w[i].payer = IF licenses[i].owner = m THEN Unlinked ELSE licenses[i].payer
<1> DEFINE w == WithoutPayer(LicensesOf(m))
<1>1. w = [i \in DOMAIN licenses |-> w[i]] /\ DOMAIN w = DOMAIN licenses
  BY DEF WithoutPayer
<1>2. ASSUME NEW i \in DOMAIN licenses
      PROVE  /\ w[i] \in License /\ w[i].owner = licenses[i].owner
             /\ w[i].until = licenses[i].until /\ w[i].byStripe = licenses[i].byStripe
             /\ w[i].payer = IF licenses[i].owner = m THEN Unlinked ELSE licenses[i].payer
  <2>1. /\ licenses[i] \in License /\ licenses[i].until \in Nat
        /\ licenses[i].status \in Status
    BY StoredType
  <2> DEFINE u == With(licenses[i], licenses[i].until, licenses[i].status, Unlinked)
  <2>2. /\ u \in License /\ u.owner = licenses[i].owner /\ u.until = licenses[i].until
        /\ u.byStripe = licenses[i].byStripe /\ u.payer = Unlinked
    BY <2>1, WithType
  <2>3. w[i] = IF licenses[i].owner = m THEN u ELSE licenses[i]
    BY DEF WithoutPayer, LicensesOf
  <2> HIDE DEF u, w
  <2> QED BY <2>1, <2>2, <2>3
<1>3. licenses \in Seq(License)
  BY DEF TypeOK
<1> HIDE DEF w
<1>4. w \in Seq(License) /\ Len(w) = Len(licenses)
  BY <1>1, <1>2, <1>3, Replaced
<1> QED BY <1>1, <1>2, <1>4 DEF w

-----------------------------------------------------------------------------
LEMMA IssueKeepsInv ==
  ASSUME BillingInv, NEW m \in Email, NEW c \in Customer \union {Unlinked}, AdminIssue(m, c)
  PROVE  BillingInv'
<1> DEFINE w == WithoutPayer(LicensesOf(m))
           r == [owner |-> m, status |-> "active", until |-> now + Period,
                 key |-> keys', byStripe |-> FALSE, payer |-> Unlinked]
<1>1. /\ account[m] = NoRow /\ c # Unlinked => AddressesOf(c) = {} /\ ~IsLinking(c)
      /\ ~IsInserting(m)
      /\ account' = [account EXCEPT ![m] = IF @ = NoRow THEN c ELSE @]
      /\ keys' = keys + 1 /\ licenses' = Append(w, r)
      /\ mailed' \in {mailed, mailed \union {keys'}}
      /\ UNCHANGED <<processed, applied, job, now, edits, crashes>>
  BY BillingAssumption DEF AdminIssue
<1>2. /\ w \in Seq(License) /\ Len(w) = Len(licenses) /\ DOMAIN w = DOMAIN licenses
      /\ \A i \in DOMAIN licenses :
           /\ w[i].owner = licenses[i].owner /\ w[i].until = licenses[i].until
           /\ w[i].byStripe = licenses[i].byStripe
           /\ w[i].payer = IF licenses[i].owner = m THEN Unlinked ELSE licenses[i].payer
  BY WithoutPayerType DEF BillingInv
<1>3. /\ now \in Nat /\ keys \in Nat /\ Period \in Nat
      /\ Len(licenses) \in Nat /\ mailed \subseteq 1..keys /\ licenses \in Seq(License)
      /\ account \in [Email -> Customer \union {Unlinked, NoRow}]
  BY BillingAssumption DEF BillingInv, TypeOK
<1>4. r \in License
  BY <1>1, <1>3 DEF License, Status
<1>5. r.owner = m /\ r.byStripe = FALSE /\ r.payer = Unlinked
  OBVIOUS
<1> HIDE DEF w, r
<1>6. /\ licenses' \in Seq(License) /\ Len(licenses') = Len(licenses) + 1
      /\ DOMAIN licenses' = DOMAIN licenses \union {Len(licenses) + 1}
      /\ licenses'[Len(licenses) + 1] = r
      /\ \A i \in DOMAIN licenses : licenses'[i] = w[i]
  BY <1>1, <1>2, <1>3, <1>4
<1>7. mailed' \subseteq 1..keys' /\ keys' \in Nat /\ keys <= keys'
  BY <1>1, <1>3
<1>8. account' \in [Email -> Customer \union {Unlinked, NoRow}]
  BY <1>1, <1>3
<1>9. TypeOK'
  BY <1>1, <1>3, <1>6, <1>7, <1>8 DEF BillingInv, TypeOK
<1>10. \A i \in DOMAIN licenses' :
         licenses'[i].payer # Unlinked =>
           /\ i \in DOMAIN licenses /\ licenses'[i].payer = licenses[i].payer
           /\ licenses'[i].until = licenses[i].until
           /\ licenses'[i].owner = licenses[i].owner /\ licenses[i].owner # m
           /\ licenses'[i].byStripe = licenses[i].byStripe
  BY <1>2, <1>5, <1>6
<1>11. \A i \in DOMAIN licenses' :
         licenses'[i].byStripe =>
           /\ i \in DOMAIN licenses /\ licenses[i].byStripe
           /\ licenses'[i].owner = licenses[i].owner
  BY <1>2, <1>5, <1>6
<1>12. RecordedIffApplied' /\ PaidForExactly' /\ RenewalsPreserveKeys'
  BY <1>1, <1>3, <1>10, <1>11, PayersKept, KeysKept
<1>13. /\ account'[m] # NoRow
       /\ account[m] # NoRow => account' = account
       /\ account[m] = NoRow => account'[m] = c
       /\ \A n \in Email : n # m => account'[n] = account[n]
  BY <1>1, <1>3, BillingAssumption
<1>14. JobIsCurrent'
  <2>1. ASSUME job.at # "idle", job.kind = "create", account'[job.mail] = NoRow,
               NEW n \in Email
        PROVE  account'[n] # Payer[job.event]
    <3>1. job.mail \in Email /\ Payer[job.event] \in Customer
      BY BillingAssumption DEF BillingInv, TypeOK, Job
    <3>2. account[job.mail] = NoRow
      BY <1>13, <2>1, <3>1
    <3>3. account[n] # Payer[job.event]
      BY <2>1, <3>2 DEF BillingInv, JobIsCurrent, AddressesOf
    <3>4. IsInserting(job.mail)
      BY <2>1, <3>2 DEF IsInserting
    <3>5. account[m] = NoRow => c # Payer[job.event]
      BY <1>1, <3>1, <3>4, BillingAssumption DEF IsLinking
    <3> QED BY <1>13, <3>3, <3>5
  <2> QED BY <1>1, <1>3, <1>6, <1>7, <1>10, <1>11, <2>1, JobKept
<1>15. RowsAreLinked'
  <2>1. \A n, o \in Email : account'[n] \in Customer /\ account'[n] = account'[o] => n = o
    BY <1>1, <1>13, BillingAssumption DEF BillingInv, RowsAreLinked, AddressesOf
  <2>2. \A i \in DOMAIN licenses' : account'[licenses'[i].owner] # NoRow
    <3>1. \A i \in DOMAIN licenses : licenses[i].owner \in Email
      BY StoredType DEF BillingInv
    <3> QED BY <1>2, <1>5, <1>6, <1>13, <3>1 DEF BillingInv, RowsAreLinked
  <2>3. \A i \in DOMAIN licenses' :
          licenses'[i].payer # Unlinked =>
            /\ account'[licenses[i].owner] = account[licenses[i].owner]
            /\ \A j \in DOMAIN licenses' :
                 licenses'[j].owner = licenses[i].owner =>
                   j \in DOMAIN licenses /\ licenses[j].owner = licenses[i].owner
    <3>1. \A i \in DOMAIN licenses : licenses[i].owner \in Email
      BY StoredType DEF BillingInv
    <3> QED BY <1>2, <1>5, <1>6, <1>10, <1>13, <3>1
  <2> QED BY <1>10, <2>1, <2>2, <2>3, LinksKept
<1> QED BY <1>9, <1>12, <1>14, <1>15 DEF BillingInv

(* An edit of one license, which keeps its payer only if valid_until stays. *)
LEMMA EditKeepsInv ==
  ASSUME BillingInv, NEW i \in DOMAIN licenses, NEW t \in Nat, NEW st \in Status,
         NEW p \in {licenses[i].payer, Unlinked}, p # Unlinked => t = licenses[i].until,
         licenses' = [licenses EXCEPT ![i] = With(licenses[i], t, st, p)],
         UNCHANGED <<account, job>>, AdminEdit
  PROVE  BillingInv'
<1> DEFINE l == With(licenses[i], t, st, p)
<1>1. /\ edits < MaxEdits /\ edits' = edits + 1
      /\ UNCHANGED <<processed, applied, job, mailed, keys, now, crashes>>
  BY DEF AdminEdit
<1>2. licenses[i] \in License /\ p \in Customer \union {Unlinked}
  BY StoredType DEF BillingInv
<1>3. /\ l \in License /\ l.owner = licenses[i].owner /\ l.until = t
      /\ l.byStripe = licenses[i].byStripe /\ l.payer = p
  BY <1>2, WithType
<1>4. /\ now \in Nat /\ keys \in Nat /\ MaxEdits \in Nat /\ edits \in Nat
      /\ Len(licenses) \in Nat /\ licenses \in Seq(License)
  BY BillingAssumption DEF BillingInv, TypeOK
<1>5. licenses' = [licenses EXCEPT ![i] = l]
  OBVIOUS
<1> HIDE DEF l
<1>6. /\ licenses' \in Seq(License) /\ Len(licenses') = Len(licenses)
      /\ DOMAIN licenses' = DOMAIN licenses
  BY <1>3, <1>4, <1>5
<1>7. \A j \in DOMAIN licenses : licenses'[j] = IF j = i THEN l ELSE licenses[j]
  BY <1>4, <1>5
<1>8. TypeOK'
  BY <1>1, <1>4, <1>6 DEF BillingInv, TypeOK
<1>9. \A j \in DOMAIN licenses :
        /\ licenses'[j].owner = licenses[j].owner
        /\ licenses'[j].byStripe = licenses[j].byStripe
        /\ licenses'[j].payer # Unlinked =>
             licenses'[j].payer = licenses[j].payer /\ licenses'[j].until = licenses[j].until
  BY <1>3, <1>7
<1>10. RecordedIffApplied' /\ PaidForExactly' /\ RenewalsPreserveKeys'
  BY <1>1, <1>4, <1>6, <1>9, PayersKept, KeysKept
<1>11. JobIsCurrent'
  <2>1. job.at # "idle" /\ job.kind = "create" /\ account'[job.mail] = NoRow =>
          \A m \in Email : account'[m] # Payer[job.event]
    BY DEF BillingInv, JobIsCurrent, AddressesOf
  <2> QED BY <1>1, <1>4, <1>6, <1>9, <2>1, JobKept
<1>12. RowsAreLinked'
  <2>1. \A n, o \in Email : account'[n] \in Customer /\ account'[n] = account'[o] => n = o
    BY DEF BillingInv, RowsAreLinked
  <2>2. \A j \in DOMAIN licenses' : account'[licenses'[j].owner] # NoRow
    BY <1>6, <1>9 DEF BillingInv, RowsAreLinked
  <2> QED BY <1>6, <1>9, <2>1, <2>2, LinksKept
<1> QED BY <1>8, <1>10, <1>11, <1>12 DEF BillingInv

(* The licenses when the row of their owner gets another address.          *)
LEMMA MovedRows ==
  ASSUME BillingInv, NEW m \in Email, NEW n \in Email, NEW c, EditCustomer(m, n, c)
  PROVE  /\ licenses' \in Seq(License) /\ DOMAIN licenses' = DOMAIN licenses
         /\ \A i \in DOMAIN licenses :
              /\ licenses'[i].owner = IF licenses[i].owner = m THEN n ELSE licenses[i].owner
              /\ licenses'[i].until = licenses[i].until
              /\ licenses'[i].byStripe = licenses[i].byStripe
              /\ licenses'[i].key = licenses[i].key
              /\ licenses'[i].payer = IF licenses[i].owner = m THEN Unlinked
                                      ELSE licenses[i].payer
<1> DEFINE moved(i) == [licenses[i] EXCEPT !.owner = n, !.payer = Unlinked]
           w == [i \in DOMAIN licenses |->
                   IF licenses[i].owner = m THEN moved(i) ELSE licenses[i]]
<1>1. licenses' = w /\ licenses \in Seq(License)
  BY DEF EditCustomer, BillingInv, TypeOK
<1>2. ASSUME NEW i \in DOMAIN licenses
      PROVE  /\ licenses[i] \in License /\ moved(i) \in License
             /\ moved(i).owner = n /\ moved(i).until = licenses[i].until
             /\ moved(i).byStripe = licenses[i].byStripe /\ moved(i).key = licenses[i].key
             /\ moved(i).payer = Unlinked
  BY StoredType DEF BillingInv, License
<1> HIDE DEF moved
<1>3. w = [i \in DOMAIN licenses |-> w[i]] /\ \A i \in DOMAIN licenses : w[i] \in License
  BY <1>2
<1>4. w \in Seq(License) /\ DOMAIN w = DOMAIN licenses
  <2> HIDE DEF w
  <2> QED BY <1>1, <1>3, Replaced
<1> QED BY <1>1, <1>2, <1>4

LEMMA CustomerEditKeepsInv ==
  ASSUME BillingInv, NEW m \in Email, NEW n \in Email, NEW c \in Customer \union {Unlinked},
         EditCustomer(m, n, c)
  PROVE  BillingInv'
<1>1. /\ account[m] # NoRow /\ (n = m \/ account[n] = NoRow) /\ ~IsInserting(n)
      /\ c = Unlinked \/ (AddressesOf(c) \subseteq {m} /\ ~IsLinking(c))
      /\ account' = [account EXCEPT ![m] = NoRow, ![n] = c]
      /\ job' = IF job.mail = m /\ job.kind # "none" THEN [job EXCEPT !.mail = n] ELSE job
      /\ edits < MaxEdits /\ edits' = edits + 1
      /\ UNCHANGED <<processed, applied, mailed, keys, now, crashes>>
  BY DEF EditCustomer, AdminEdit
<1>2. /\ licenses' \in Seq(License) /\ DOMAIN licenses' = DOMAIN licenses
      /\ \A i \in DOMAIN licenses :
           /\ licenses'[i].owner = IF licenses[i].owner = m THEN n ELSE licenses[i].owner
           /\ licenses'[i].until = licenses[i].until
           /\ licenses'[i].byStripe = licenses[i].byStripe
           /\ licenses'[i].payer = IF licenses[i].owner = m THEN Unlinked ELSE licenses[i].payer
  BY MovedRows
<1>3. /\ now \in Nat /\ keys \in Nat /\ MaxEdits \in Nat /\ edits \in Nat /\ job \in Job
      /\ account \in [Email -> Customer \union {Unlinked, NoRow}]
  BY BillingAssumption DEF BillingInv, TypeOK
<1>4. /\ account' \in [Email -> Customer \union {Unlinked, NoRow}]
      /\ account'[n] = c /\ c # NoRow /\ (m # n => account'[m] = NoRow)
      /\ \A a \in Email \ {m, n} : account'[a] = account[a]
  BY <1>1, <1>3, BillingAssumption
<1>5. \A i \in DOMAIN licenses :
        /\ licenses[i].owner \in Email /\ account[licenses[i].owner] # NoRow
        /\ licenses[i].owner = n => m = n
  BY <1>1, StoredType DEF BillingInv, RowsAreLinked
<1>6. /\ job' \in Job
      /\ UNCHANGED <<job.at, job.kind, job.event, job.lic, job.until, job.read, job.key>>
      /\ job'.mail = IF job.mail = m /\ job.kind # "none" THEN n ELSE job.mail
  BY <1>1, <1>3 DEF Job
<1>7. TypeOK'
  BY <1>1, <1>2, <1>3, <1>4, <1>6 DEF BillingInv, TypeOK
<1>8. RecordedIffApplied' /\ PaidForExactly'
  BY <1>1, <1>2, <1>3, PayersKept
<1>9. RenewalsPreserveKeys'
  BY <1>2, <1>5 DEF BillingInv, RenewalsPreserveKeys
<1>10. JobIsCurrent'
  <2>1. ASSUME job.at # "idle", job.kind = "create"
        PROVE  /\ account'[job'.mail] = NoRow => \A a \in Email : account'[a] # Payer[job.event]
               /\ \A i \in DOMAIN licenses' :
                    licenses'[i].byStripe /\ licenses'[i].owner = job'.mail =>
                      licenses[i].byStripe /\ licenses[i].owner = job.mail
    <3>1. job.mail \in Email /\ Payer[job.event] \in Customer
      BY <1>3, BillingAssumption DEF Job
    <3>2. CASE job.mail = m
      BY <1>2, <1>4, <1>5, <1>6, <2>1, <3>2
    <3>3. CASE job.mail # m
      <4>1. job'.mail = job.mail
        BY <1>6, <3>3
      <4>2. job.mail # n \/ account[n] # NoRow
        BY <1>1, <2>1 DEF IsInserting
      <4>3. \A i \in DOMAIN licenses' :
              licenses'[i].byStripe /\ licenses'[i].owner = job'.mail =>
                licenses[i].byStripe /\ licenses[i].owner = job.mail
        BY <1>1, <1>2, <3>3, <4>1, <4>2
      <4>4. ASSUME account'[job.mail] = NoRow, NEW a \in Email
            PROVE  account'[a] # Payer[job.event]
        <5>1. job.mail # n /\ account[job.mail] = NoRow
          BY <1>4, <3>1, <3>3, <4>4
        <5>2. account[a] # Payer[job.event]
          BY <2>1, <5>1 DEF BillingInv, JobIsCurrent, AddressesOf
        <5>3. IsInserting(job.mail)
          BY <2>1, <5>1 DEF IsInserting
        <5>4. c # Payer[job.event]
          BY <1>1, <3>1, <5>3, BillingAssumption DEF IsLinking
        <5> QED BY <1>4, <3>1, <5>2, <5>4, BillingAssumption
      <4> QED BY <4>1, <4>3, <4>4
    <3> QED BY <3>2, <3>3
  <2> QED BY <1>1, <1>2, <1>3, <1>6, <2>1, JobMoved
<1>11. RowsAreLinked'
  <2>1. ASSUME NEW a \in Email, NEW o \in Email, account'[a] \in Customer, account'[a] = account'[o]
        PROVE  a = o
    <3>1. CASE a # n /\ o # n
      BY <1>4, <2>1, <3>1, BillingAssumption DEF BillingInv, RowsAreLinked
    <3>2. CASE a = n \/ o = n
      BY <1>1, <1>4, <2>1, <3>2, BillingAssumption DEF AddressesOf
    <3> QED BY <3>1, <3>2
  <2>2. \A i \in DOMAIN licenses' : account'[licenses'[i].owner] # NoRow
    BY <1>2, <1>4, <1>5
  <2>3. \A i \in DOMAIN licenses' :
          licenses'[i].payer # Unlinked =>
            /\ licenses[i].owner # m /\ licenses[i].owner # n
            /\ account'[licenses[i].owner] = account[licenses[i].owner]
    BY <1>2, <1>4, <1>5
  <2>4. \A i \in DOMAIN licenses' :
          licenses'[i].payer # Unlinked =>
            \A j \in DOMAIN licenses' :
              licenses'[j].owner = licenses[i].owner => licenses[j].owner = licenses[i].owner
    BY <1>2, <2>3
  <2> QED BY <1>2, <2>1, <2>2, <2>3, <2>4, LinksKept
<1> QED BY <1>7, <1>8, <1>9, <1>10, <1>11 DEF BillingInv

(* Time passes.                                                            *)
LEMMA TickKeepsInv ==
  ASSUME BillingInv, Tick
  PROVE  BillingInv'
<1>1. /\ now < MaxTime /\ now' = now + 1
      /\ UNCHANGED <<account, licenses, processed, applied, job, mailed, keys, edits, crashes>>
  BY DEF Tick, db
<1>2. now \in Nat /\ keys \in Nat /\ MaxTime \in Nat
  BY BillingAssumption DEF BillingInv, TypeOK
<1>3. TypeOK'
  BY <1>1, <1>2 DEF BillingInv, TypeOK
<1>4. RecordedIffApplied' /\ PaidForExactly' /\ RenewalsPreserveKeys'
  BY <1>1, <1>2, PayersKept, KeysKept
<1>5. RowsAreLinked'
  BY <1>1 DEF BillingInv, RowsAreLinked, LicensesOf
<1>6. job.at # "idle" /\ job.kind = "create" /\ account'[job.mail] = NoRow =>
        \A m \in Email : account'[m] # Payer[job.event]
  BY <1>1 DEF BillingInv, JobIsCurrent, AddressesOf
<1>7. JobIsCurrent'
  BY <1>1, <1>2, <1>6, JobKept
<1> QED BY <1>3, <1>4, <1>5, <1>7 DEF BillingInv

(* The mail and a crash touch no row.                                      *)
LEMMA SendKeyKeepsInv ==
  ASSUME BillingInv, SendKey
  PROVE  BillingInv'
<1>1. /\ job.at = "mail" /\ mailed' \in {mailed, mailed \union {job.key}}
      /\ job' = [job EXCEPT !.at = "commit"]
      /\ UNCHANGED <<account, licenses, processed, applied, keys, now, edits, crashes>>
  BY DEF SendKey, db
<1>2. job \in Job /\ keys \in Nat /\ mailed \subseteq 1..keys
  BY DEF BillingInv, TypeOK
<1>3. /\ job' \in Job /\ job'.at = "commit" /\ job'.kind = job.kind /\ job'.event = job.event
      /\ job'.mail = job.mail /\ job'.lic = job.lic /\ job'.until = job.until
      /\ job'.read = job.read /\ job'.key = job.key
  BY <1>1, <1>2 DEF Job
<1>4. job.kind = "create" /\ job.key \in 1..keys
  BY <1>1 DEF BillingInv, JobIsCurrent
<1>5. TypeOK'
  BY <1>1, <1>2, <1>3, <1>4 DEF BillingInv, TypeOK
<1>6. RecordedIffApplied' /\ PaidForExactly'
  BY <1>1 DEF BillingInv, RecordedIffApplied, PaidForExactly, InvoicesOf
<1>7. RenewalsPreserveKeys' /\ RowsAreLinked'
  BY <1>1 DEF BillingInv, RenewalsPreserveKeys, RowsAreLinked, LicensesOf
<1>8. JobIsCurrent'
  BY <1>1, <1>3, <1>4 DEF BillingInv, JobIsCurrent, AddressesOf
<1> QED BY <1>5, <1>6, <1>7, <1>8 DEF BillingInv

LEMMA CrashKeepsInv ==
  ASSUME BillingInv, Crash
  PROVE  BillingInv'
<1>1. /\ crashes < MaxCrashes /\ crashes' = crashes + 1 /\ job' = Idle
      /\ UNCHANGED <<account, licenses, processed, applied, mailed, keys, now, edits>>
  BY DEF Crash, db
<1>2. TypeOK'
  BY <1>1, IdleType, BillingAssumption DEF BillingInv, TypeOK
<1>3. RecordedIffApplied' /\ PaidForExactly'
  BY <1>1 DEF BillingInv, RecordedIffApplied, PaidForExactly, InvoicesOf
<1>4. RenewalsPreserveKeys' /\ RowsAreLinked'
  BY <1>1 DEF BillingInv, RenewalsPreserveKeys, RowsAreLinked, LicensesOf
<1>5. JobIsCurrent'
  BY <1>1, IdleType DEF JobIsCurrent
<1> QED BY <1>2, <1>3, <1>4, <1>5 DEF BillingInv

-----------------------------------------------------------------------------
LEMMA WriteType ==
  ASSUME TypeOK, NEW i \in DOMAIN licenses, NEW st \in Status
  PROVE  WriteStatus(i, st) \in Status
BY StoredType DEF WriteStatus

(* What all commits have in common.                                        *)
LEMMA CommitType ==
  ASSUME BillingInv, Commit
  PROVE  /\ job' = Idle /\ JobIsCurrent' /\ RecordedIffApplied'
         /\ job \in Job /\ job.at # "idle" /\ job.event \in Event /\ job.event \notin processed
         /\ processed' = processed \union {job.event} /\ applied' = applied \union {job.event}
         /\ licenses' = Outcome /\ UNCHANGED <<mailed, keys, now, edits, crashes>>
         /\ licenses \in Seq(License) /\ Len(licenses) \in Nat
         /\ Payer[job.event] \in Customer
         /\ now \in Nat /\ keys \in Nat /\ Period \in Nat /\ job.until \in Nat
         /\ job.kind # "create" => account' = account
         /\ licenses' \in Seq(License)
            /\ account' \in [Email -> Customer \union {Unlinked, NoRow}] => TypeOK'
<1>1. /\ job.at = "commit" /\ licenses' = Outcome
      /\ account' = IF job.kind = "create" /\ account[job.mail] = NoRow
                    THEN [account EXCEPT ![job.mail] = Payer[job.event]] ELSE account
      /\ processed' = processed \union {job.event} /\ applied' = applied \union {job.event}
      /\ job' = Idle /\ UNCHANGED <<mailed, keys, now, edits, crashes>>
  BY DEF Commit
<1>2. job \in Job /\ licenses \in Seq(License) /\ now \in Nat /\ keys \in Nat
  BY DEF BillingInv, TypeOK
<1>3. job.event \in Event /\ job.until \in Nat /\ Payer[job.event] \in Customer /\ Period \in Nat
  BY <1>2, BillingAssumption DEF Job
<1>4. JobIsCurrent' /\ job.event \notin processed
  BY <1>1, IdleType DEF BillingInv, JobIsCurrent
<1>5. RecordedIffApplied'
  BY <1>1 DEF BillingInv, RecordedIffApplied
<1>6. licenses' \in Seq(License)
        /\ account' \in [Email -> Customer \union {Unlinked, NoRow}] => TypeOK'
  <2>1. /\ job' \in Job /\ processed' \subseteq Event /\ applied' \subseteq Event
        /\ mailed' \subseteq 1..keys'
    BY <1>1, <1>3, IdleType DEF BillingInv, TypeOK
  <2>2. UNCHANGED <<mailed, keys, now, edits, crashes>>
    BY <1>1
  <2> QED BY <2>1, <2>2 DEF BillingInv, TypeOK
<1>7. job.at # "idle" /\ (job.kind # "create" => account' = account) /\ Len(licenses) \in Nat
  BY <1>1, <1>2
<1> QED BY <1>1, <1>2, <1>3, <1>4, <1>5, <1>6, <1>7

(* What a commit does to the licenses: it writes statuses,                *)
LEMMA MarkRows ==
  ASSUME BillingInv, Commit, job.kind \in {"none", "mark"}
  PROVE  /\ licenses' \in Seq(License) /\ Len(licenses') = Len(licenses)
         /\ DOMAIN licenses' = DOMAIN licenses
         /\ \A i \in DOMAIN licenses :
              /\ licenses'[i].owner = licenses[i].owner /\ licenses'[i].until = licenses[i].until
              /\ licenses'[i].byStripe = licenses[i].byStripe
              /\ licenses'[i].payer = licenses[i].payer
<1>0. licenses' = Outcome /\ licenses \in Seq(License)
  BY CommitType
<1>1. CASE job.kind = "none"
  BY <1>0, <1>1 DEF Outcome
<1>2. CASE job.kind = "mark"
  <2> DEFINE marked(i) == With(licenses[i], licenses[i].until,
                               WriteStatus(i, MarkAs(job.event)), licenses[i].payer)
             w == [i \in DOMAIN licenses |->
                     IF i \in DOMAIN job.read /\ licenses[i].owner = job.mail
                     THEN marked(i) ELSE licenses[i]]
  <2>1. licenses' = w
    BY <1>0, <1>2 DEF Outcome
  <2>2. ASSUME NEW i \in DOMAIN licenses
        PROVE  /\ licenses[i] \in License /\ marked(i) \in License
               /\ marked(i).owner = licenses[i].owner /\ marked(i).until = licenses[i].until
               /\ marked(i).byStripe = licenses[i].byStripe
               /\ marked(i).payer = licenses[i].payer
    <3>1. /\ licenses[i] \in License /\ licenses[i].until \in Nat
          /\ licenses[i].payer \in Customer \union {Unlinked}
      BY StoredType DEF BillingInv
    <3>2. WriteStatus(i, MarkAs(job.event)) \in Status
      BY WriteType DEF BillingInv, MarkAs, Status
    <3> QED BY <3>1, <3>2, WithType
  <2> HIDE DEF marked
  <2>3. w = [i \in DOMAIN licenses |-> w[i]] /\ \A i \in DOMAIN licenses : w[i] \in License
    BY <2>2
  <2>4. w \in Seq(License) /\ Len(w) = Len(licenses) /\ DOMAIN w = DOMAIN licenses
    <3> HIDE DEF w
    <3> QED BY <1>0, <2>3, Replaced
  <2> QED BY <2>1, <2>2, <2>4
<1> QED BY <1>1, <1>2

(* or renews one license,                                                  *)
LEMMA RenewalRows ==
  ASSUME BillingInv, Commit, job.kind = "extend"
  PROVE  /\ licenses' \in Seq(License) /\ Len(licenses') = Len(licenses)
         /\ DOMAIN licenses' = DOMAIN licenses /\ licenses'[job.lic].until = job.until
         /\ \A i \in DOMAIN licenses :
              /\ licenses'[i].owner = licenses[i].owner /\ licenses'[i].payer = licenses[i].payer
              /\ licenses'[i].byStripe = licenses[i].byStripe
              /\ i # job.lic => licenses'[i].until = licenses[i].until
<1> DEFINE k == job.lic
           l == With(licenses[k], job.until, WriteStatus(k, "active"), licenses[k].payer)
<1>1. licenses' = Outcome /\ licenses \in Seq(License) /\ job.until \in Nat
  BY CommitType
<1>2. k \in DOMAIN licenses
  BY CommitType DEF BillingInv, JobIsCurrent
<1>3. /\ l \in License /\ l.owner = licenses[k].owner /\ l.until = job.until
      /\ l.byStripe = licenses[k].byStripe /\ l.payer = licenses[k].payer
  <2>1. /\ licenses[k] \in License /\ licenses[k].payer \in Customer \union {Unlinked}
        /\ WriteStatus(k, "active") \in Status
    BY <1>2, StoredType, WriteType DEF BillingInv, Status
  <2> QED BY <1>1, <2>1, WithType
<1>4. licenses' = [licenses EXCEPT ![k] = l]
  BY <1>1 DEF Outcome
<1> HIDE DEF l
<1>5. /\ licenses' \in Seq(License) /\ Len(licenses') = Len(licenses)
      /\ DOMAIN licenses' = DOMAIN licenses
      /\ \A i \in DOMAIN licenses : licenses'[i] = IF i = k THEN l ELSE licenses[i]
  BY <1>1, <1>2, <1>3, <1>4
<1> QED BY <1>2, <1>3, <1>5

(* or adds one, with a row for an address that had none.                   *)
LEMMA CreationRows ==
  ASSUME BillingInv, Commit, job.kind = "create"
  PROVE  /\ licenses' \in Seq(License) /\ Len(licenses') = Len(licenses) + 1
         /\ DOMAIN licenses' = DOMAIN licenses \union {Len(licenses) + 1}
         /\ Len(licenses) + 1 \notin DOMAIN licenses /\ licenses'[Len(licenses) + 1] = NewLicense
         /\ \A i \in DOMAIN licenses : licenses'[i] = licenses[i]
         /\ account' \in [Email -> Customer \union {Unlinked, NoRow}]
         /\ account'[job.mail] # NoRow
         /\ account[job.mail] = NoRow => account'[job.mail] = Payer[job.event]
         /\ account[job.mail] # NoRow => account' = account
         /\ \A n \in Email : n # job.mail => account'[n] = account[n]
<1> DEFINE l == NewLicense
           new == Len(licenses) + 1
<1>1. /\ licenses' = Outcome /\ licenses \in Seq(License) /\ Len(licenses) \in Nat
      /\ job.until \in Nat /\ Payer[job.event] \in Customer /\ job \in Job
  BY CommitType
<1>2. job.mail \in Email /\ job.key \in Nat
  BY <1>1 DEF Job
<1>3. l \in License
  BY <1>1, <1>2 DEF NewLicense, License, Status
<1>4. licenses' = Append(licenses, l)
  BY <1>1 DEF Outcome
<1> HIDE DEF l
<1>5. /\ licenses' \in Seq(License) /\ Len(licenses') = new
      /\ DOMAIN licenses' = DOMAIN licenses \union {new} /\ new \notin DOMAIN licenses
      /\ licenses'[new] = l /\ \A i \in DOMAIN licenses : licenses'[i] = licenses[i]
  BY <1>1, <1>3, <1>4
<1>6. account' = IF account[job.mail] = NoRow
                 THEN [account EXCEPT ![job.mail] = Payer[job.event]] ELSE account
  BY DEF Commit
<1>7. account \in [Email -> Customer \union {Unlinked, NoRow}]
  BY DEF BillingInv, TypeOK
<1>8. /\ account' \in [Email -> Customer \union {Unlinked, NoRow}]
      /\ account'[job.mail] # NoRow
      /\ account[job.mail] = NoRow => account'[job.mail] = Payer[job.event]
      /\ account[job.mail] # NoRow => account' = account
      /\ \A n \in Email : n # job.mail => account'[n] = account[n]
  BY <1>1, <1>2, <1>6, <1>7, BillingAssumption
<1> QED BY <1>5, <1>8 DEF l

(* A commit that only writes statuses: no invoice is recorded.             *)
LEMMA MarkKeepsInv ==
  ASSUME BillingInv, Commit, job.kind \in {"none", "mark"}
  PROVE  BillingInv'
<1>1. /\ JobIsCurrent' /\ processed' = processed \union {job.event}
      /\ applied' = applied \union {job.event} /\ job.event \in Event \ Paid
      /\ licenses' = Outcome /\ account' = account /\ now' = now /\ now \in Nat
      /\ licenses \in Seq(License)
  BY CommitType DEF BillingInv, JobIsCurrent
<1>2. /\ licenses' \in Seq(License) /\ Len(licenses') = Len(licenses)
      /\ DOMAIN licenses' = DOMAIN licenses
      /\ \A i \in DOMAIN licenses :
           /\ licenses'[i].owner = licenses[i].owner /\ licenses'[i].until = licenses[i].until
           /\ licenses'[i].byStripe = licenses[i].byStripe
           /\ licenses'[i].payer = licenses[i].payer
  BY MarkRows
<1>3. TypeOK'
  BY <1>1, <1>2, CommitType DEF BillingInv, TypeOK
<1>4. RecordedIffApplied' /\ PaidForExactly' /\ RenewalsPreserveKeys'
  BY <1>1, <1>2, PayersKept, KeysKept
<1>5. RowsAreLinked'
  <2>1. \A n, o \in Email : account'[n] \in Customer /\ account'[n] = account'[o] => n = o
    BY <1>1 DEF BillingInv, RowsAreLinked
  <2>2. \A i \in DOMAIN licenses' : account'[licenses'[i].owner] # NoRow
    BY <1>1, <1>2 DEF BillingInv, RowsAreLinked
  <2> QED BY <1>1, <1>2, <2>1, <2>2, LinksKept
<1> QED BY <1>1, <1>3, <1>4, <1>5 DEF BillingInv

(* A renewal: one more invoice is recorded for the customer of the license. *)
LEMMA RenewalKeepsInv ==
  ASSUME BillingInv, Commit, job.kind = "extend"
  PROVE  BillingInv'
<1> DEFINE c == Payer[job.event]
           k == job.lic
<1>1. /\ JobIsCurrent' /\ RecordedIffApplied' /\ processed' = processed \union {job.event}
      /\ job.event \notin processed /\ licenses' = Outcome /\ account' = account
      /\ now' = now /\ now \in Nat /\ Period \in Nat /\ job.until \in Nat /\ c \in Customer
      /\ licenses \in Seq(License) /\ Len(licenses) \in Nat
  BY CommitType
<1>2. /\ job.event \in Paid /\ k \in DOMAIN licenses
      /\ licenses[k].payer # Unlinked =>
           /\ job.until >= licenses[k].until + Period
           /\ \/ job.until <= licenses[k].until + Period
              \/ job.until <= now + Period
      /\ \A i \in DOMAIN licenses : licenses[i].payer = c => i = k
      /\ licenses[k].payer \in {c, Unlinked}
  BY CommitType DEF BillingInv, JobIsCurrent
<1> HIDE DEF k
<1>5. /\ licenses' \in Seq(License) /\ Len(licenses') = Len(licenses)
      /\ DOMAIN licenses' = DOMAIN licenses /\ licenses'[k].until = job.until
      /\ \A i \in DOMAIN licenses : i # k => licenses'[i].until = licenses[i].until
  BY RenewalRows DEF k
<1>6. \A i \in DOMAIN licenses :
        /\ licenses'[i].owner = licenses[i].owner /\ licenses'[i].payer = licenses[i].payer
        /\ licenses'[i].byStripe = licenses[i].byStripe
  BY RenewalRows
<1>7. TypeOK'
  BY <1>1, <1>5, CommitType DEF BillingInv, TypeOK
<1>8. PaidForExactly'
  <2>1. SUFFICES
          ASSUME NEW i \in DOMAIN licenses', licenses'[i].payer # Unlinked
          PROVE  (LET n == Cardinality(InvoicesOf(licenses[i].payer)) IN
                  n * Period <= licenses[i].until /\ licenses[i].until <= now + n * Period)'
    BY DEF PaidForExactly
  <2> DEFINE p == licenses[i].payer
             n == Cardinality(InvoicesOf(p))
             n1 == Cardinality(InvoicesOf(p)')
  <2>2. i \in DOMAIN licenses /\ p # Unlinked /\ licenses'[i].payer = p
    BY <1>5, <1>6, <2>1
  <2>3. n * Period <= licenses[i].until /\ licenses[i].until <= now + n * Period
    BY <2>2 DEF BillingInv, PaidForExactly
  <2>4. licenses[i].until \in Nat
    BY <2>2, StoredType DEF BillingInv
  <2>5. PICK q : q = p
    OBVIOUS
  <2>6. /\ Cardinality(InvoicesOf(q)) \in Nat
        /\ c # q => InvoicesOf(q)' = InvoicesOf(q)
        /\ c = q => Cardinality(InvoicesOf(q)') = Cardinality(InvoicesOf(q)) + 1
    BY <1>1, <1>2, OneMoreInvoice DEF BillingInv, TypeOK
  <2>7. Cardinality(InvoicesOf(licenses[i].payer))' = Cardinality(InvoicesOf(q)')
    BY <2>2, <2>5 DEF InvoicesOf
  <2>8. CASE i = k
    <3>1. q = c /\ licenses'[i].until = job.until
      BY <1>2, <1>5, <2>2, <2>5, <2>8
    <3>2. Cardinality(InvoicesOf(licenses[i].payer))' = n + 1
      BY <2>5, <2>6, <2>7, <3>1
    <3>3. n \in Nat
      BY <2>5, <2>6
    <3>4. (n + 1) * Period = n * Period + Period /\ n * Period \in Nat
      BY <3>3, Periods
    <3>5. /\ job.until >= licenses[i].until + Period
          /\ job.until <= licenses[i].until + Period \/ job.until <= now + Period
      BY <1>2, <2>2, <2>8
    <3> HIDE DEF n
    <3> QED BY <1>1, <2>3, <2>4, <3>1, <3>2, <3>4, <3>5
  <2>9. CASE i # k
    <3>1. q # c /\ licenses'[i].until = licenses[i].until
      BY <1>2, <1>5, <2>2, <2>5, <2>9
    <3>2. Cardinality(InvoicesOf(licenses[i].payer))' = n
      BY <2>5, <2>6, <2>7, <3>1
    <3> HIDE DEF n
    <3> QED BY <1>1, <2>3, <3>1, <3>2
  <2> QED BY <2>8, <2>9
<1>9. RenewalsPreserveKeys'
  BY <1>5, <1>6 DEF BillingInv, RenewalsPreserveKeys
<1>10. RowsAreLinked'
  <2>1. \A n, o \in Email : account'[n] \in Customer /\ account'[n] = account'[o] => n = o
    BY <1>1 DEF BillingInv, RowsAreLinked
  <2>2. \A i \in DOMAIN licenses' : account'[licenses'[i].owner] # NoRow
    BY <1>1, <1>5, <1>6 DEF BillingInv, RowsAreLinked
  <2> QED BY <1>1, <1>5, <1>6, <2>1, <2>2, LinksKept
<1> QED BY <1>1, <1>7, <1>8, <1>9, <1>10 DEF BillingInv

(* A first invoice: the new license is the only one of its customer, or it *)
(* records no payer.                                                       *)
LEMMA CreationKeepsInv ==
  ASSUME BillingInv, Commit, job.kind = "create"
  PROVE  BillingInv'
<1> DEFINE c == Payer[job.event]
           m == job.mail
           l == NewLicense
           new == Len(licenses) + 1
<1>1. /\ JobIsCurrent' /\ RecordedIffApplied' /\ processed' = processed \union {job.event}
      /\ job.event \notin processed /\ licenses' = Outcome
      /\ now' = now /\ now \in Nat /\ Period \in Nat /\ job.until \in Nat /\ c \in Customer
      /\ licenses \in Seq(License) /\ Len(licenses) \in Nat
  BY CommitType
<1>2. /\ job.event \in Paid /\ Period <= job.until /\ job.until <= now + Period
      /\ job.key \in 1..keys
      /\ account[m] = NoRow => AddressesOf(c) = {}
      /\ \A i \in DOMAIN licenses :
           licenses[i].payer # c /\ (licenses[i].owner = m => ~licenses[i].byStripe)
  BY CommitType DEF BillingInv, JobIsCurrent
<1>3. m \in Email /\ job.key \in Nat
  BY CommitType DEF Job
<1>4. /\ l \in License /\ l.owner = m /\ l.until = job.until /\ l.byStripe
      /\ l.payer \in {c, Unlinked}
      /\ l.payer # Unlinked => /\ InvoicesOf(c) = {} /\ LicensesOf(m) = {}
                               /\ account[m] \in {c, NoRow}
  BY <1>1, <1>3 DEF NewLicense, License, Status
<1>6. /\ licenses' \in Seq(License) /\ Len(licenses') = new
      /\ DOMAIN licenses' = DOMAIN licenses \union {new} /\ new \notin DOMAIN licenses
      /\ licenses'[new] = l /\ \A i \in DOMAIN licenses : licenses'[i] = licenses[i]
  BY CreationRows
<1>8. /\ account' \in [Email -> Customer \union {Unlinked, NoRow}]
      /\ account'[m] # NoRow
      /\ account[m] = NoRow => account'[m] = c
      /\ account[m] # NoRow => account' = account
      /\ \A n \in Email : n # m => account'[n] = account[n]
  BY CreationRows
<1> HIDE DEF l
<1>9. TypeOK'
  BY <1>6, <1>8, CommitType
<1>10. PaidForExactly'
  <2>1. SUFFICES
          ASSUME NEW i \in DOMAIN licenses', licenses'[i].payer # Unlinked
          PROVE  (LET n == Cardinality(InvoicesOf(licenses[i].payer)) IN
                  n * Period <= licenses[i].until /\ licenses[i].until <= now + n * Period)'
    BY DEF PaidForExactly
  <2>2. PICK q : q = licenses'[i].payer
    OBVIOUS
  <2>3. /\ Cardinality(InvoicesOf(q)) \in Nat
        /\ c # q => InvoicesOf(q)' = InvoicesOf(q)
        /\ c = q => Cardinality(InvoicesOf(q)') = Cardinality(InvoicesOf(q)) + 1
    BY <1>1, <1>2, OneMoreInvoice DEF BillingInv, TypeOK
  <2>4. Cardinality(InvoicesOf(licenses[i].payer))' = Cardinality(InvoicesOf(q)')
    BY <2>2 DEF InvoicesOf
  <2>5. CASE i = new
    <3>1. q = c /\ InvoicesOf(c) = {} /\ licenses'[i].until = job.until
      BY <1>4, <1>6, <2>1, <2>2, <2>5
    <3>2. Cardinality(InvoicesOf(licenses[i].payer))' = 1
      BY <2>3, <2>4, <3>1, FS_EmptySet
    <3>3. 1 * Period = Period
      BY Periods
    <3> QED BY <1>1, <1>2, <3>1, <3>2, <3>3
  <2>6. CASE i \in DOMAIN licenses
    <3>1. licenses'[i] = licenses[i] /\ q = licenses[i].payer /\ q # c
      BY <1>2, <1>6, <2>2, <2>6
    <3>2. Cardinality(InvoicesOf(licenses[i].payer))' = Cardinality(InvoicesOf(licenses[i].payer))
      BY <2>3, <2>4, <3>1
    <3>3. LET n == Cardinality(InvoicesOf(licenses[i].payer)) IN
          n * Period <= licenses[i].until /\ licenses[i].until <= now + n * Period
      BY <2>1, <2>6, <3>1 DEF BillingInv, PaidForExactly
    <3> QED BY <1>1, <3>1, <3>2, <3>3
  <2> QED BY <1>6, <2>5, <2>6
<1>11. RenewalsPreserveKeys'
  BY <1>2, <1>4, <1>6 DEF BillingInv, RenewalsPreserveKeys
<1>12. RowsAreLinked'
  <2>1. \A i \in DOMAIN licenses : licenses[i].owner \in Email
    BY StoredType DEF BillingInv
  <2>2. ASSUME NEW n \in Email, NEW o \in Email, account'[n] \in Customer, account'[n] = account'[o]
        PROVE  n = o
    <3>1. CASE account[m] # NoRow
      BY <1>8, <2>2, <3>1 DEF BillingInv, RowsAreLinked
    <3>2. CASE account[m] = NoRow
      <4>1. \A a \in Email : account[a] # c
        BY <1>2, <3>2 DEF AddressesOf
      <4> QED BY <1>8, <2>2, <3>2, <4>1 DEF BillingInv, RowsAreLinked
    <3> QED BY <3>1, <3>2
  <2>3. \A i \in DOMAIN licenses' : account'[licenses'[i].owner] # NoRow
    BY <1>4, <1>6, <1>8, <2>1 DEF BillingInv, RowsAreLinked
  <2>4. ASSUME NEW i \in DOMAIN licenses', licenses'[i].payer # Unlinked
        PROVE  (/\ licenses[i].byStripe /\ account[licenses[i].owner] = licenses[i].payer
                /\ LicensesOf(licenses[i].owner) = {i})'
    <3>1. CASE i = new
      <4>1. licenses'[i] = l /\ l.payer = c /\ LicensesOf(m) = {} /\ account[m] \in {c, NoRow}
        BY <1>4, <1>6, <2>4, <3>1
      <4>2. account'[m] = c
        BY <1>1, <1>8, <4>1, BillingAssumption
      <4>3. LicensesOf(licenses[i].owner)' = {new}
        BY <1>4, <1>6, <4>1 DEF LicensesOf
      <4> QED BY <1>4, <3>1, <4>1, <4>2, <4>3
    <3>2. CASE i \in DOMAIN licenses
      <4>1. licenses'[i] = licenses[i]
        BY <1>6, <3>2
      <4>2. /\ licenses[i].byStripe /\ account[licenses[i].owner] = licenses[i].payer
            /\ LicensesOf(licenses[i].owner) = {i} /\ licenses[i].owner # m
        BY <1>2, <2>4, <3>2, <4>1 DEF BillingInv, RowsAreLinked
      <4>3. account'[licenses[i].owner] = licenses[i].payer
        BY <1>8, <2>1, <3>2, <4>2
      <4>4. LicensesOf(licenses[i].owner)' = {i}
        BY <1>4, <1>6, <4>1, <4>2 DEF LicensesOf
      <4> QED BY <4>1, <4>2, <4>3, <4>4
    <3> QED BY <1>6, <3>1, <3>2
  <2> QED BY <2>2, <2>3, <2>4 DEF RowsAreLinked
<1> QED BY <1>1, <1>9, <1>10, <1>11, <1>12 DEF BillingInv

-----------------------------------------------------------------------------
LEMMA InitInv == Init => BillingInv
<1> SUFFICES ASSUME Init PROVE BillingInv
  OBVIOUS
<1>1. TypeOK
  BY IdleType, BillingAssumption DEF Init, TypeOK
<1>2. RecordedIffApplied /\ PaidForExactly /\ RenewalsPreserveKeys
  BY DEF Init, RecordedIffApplied, PaidForExactly, RenewalsPreserveKeys
<1>3. RowsAreLinked
  BY BillingAssumption DEF Init, RowsAreLinked
<1>4. JobIsCurrent
  BY IdleType DEF Init, JobIsCurrent
<1> QED BY <1>1, <1>2, <1>3, <1>4 DEF BillingInv

LEMMA NextInv == BillingInv /\ [Next]_vars => BillingInv'
<1> SUFFICES ASSUME BillingInv, [Next]_vars PROVE BillingInv'
  OBVIOUS
<1>1. ASSUME NEW e \in Event, Handle(e) PROVE BillingInv'
  <2>1. CASE InvoicePaid(e)
    BY <2>1, PaidKeepsInv
  <2>2. CASE StatusEvent(e)
    <3>1. e \notin Paid
      BY <2>2, BillingAssumption DEF StatusEvent
    <3>2. \E kind \in {"mark", "none"}, m \in Email : Begin(e, kind, m, 0, "commit")
      BY <2>2, IdleType DEF StatusEvent, AddressesOf
    <3> QED BY <3>1, <3>2, OtherEventsKeepInv
  <2> QED BY <1>1, <2>1, <2>2 DEF Handle
<1>2. ASSUME Commit PROVE BillingInv'
  <2>1. job.kind \in {"create", "extend", "mark", "none"}
    BY DEF BillingInv, TypeOK, Job
  <2> QED BY <1>2, <2>1, MarkKeepsInv, RenewalKeepsInv, CreationKeepsInv
<1>3. ASSUME NEW i \in DOMAIN licenses, NEW st \in {"active", "disabled", "revoked"},
             SetStatus(i, st)
      PROVE  BillingInv'
  <2>1. licenses[i].until \in Nat
    BY StoredType DEF BillingInv
  <2>2. licenses' = [licenses EXCEPT ![i] =
                       With(licenses[i], licenses[i].until, st, licenses[i].payer)]
    BY <1>3 DEF SetStatus
  <2> QED BY <1>3, <2>1, <2>2, EditKeepsInv DEF SetStatus, Status
<1>4. ASSUME NEW i \in DOMAIN licenses, NEW t \in 0..MaxTime, EditUntil(i, t)
      PROVE  BillingInv'
  <2>1. licenses[i].status \in Status /\ t \in Nat
    BY StoredType DEF BillingInv
  <2>2. licenses' = [licenses EXCEPT ![i] = With(licenses[i], t, licenses[i].status, Unlinked)]
    BY <1>4 DEF EditUntil
  <2> QED BY <1>4, <2>1, <2>2, EditKeepsInv DEF EditUntil
<1>5. CASE UNCHANGED vars
  <2>1. UNCHANGED <<account, licenses, processed, applied, job, mailed, keys, now, edits, crashes>>
    BY <1>5 DEF vars, db
  <2>2. TypeOK' /\ RecordedIffApplied'
    BY <2>1 DEF BillingInv, TypeOK, RecordedIffApplied
  <2>3. PaidForExactly' /\ RenewalsPreserveKeys'
    BY <2>1 DEF BillingInv, PaidForExactly, RenewalsPreserveKeys, InvoicesOf
  <2>4. RowsAreLinked' /\ JobIsCurrent'
    BY <2>1 DEF BillingInv, RowsAreLinked, JobIsCurrent, LicensesOf, AddressesOf
  <2> QED BY <2>2, <2>3, <2>4 DEF BillingInv
<1> QED
  BY <1>1, <1>2, <1>3, <1>4, <1>5, SendKeyKeepsInv, CrashKeepsInv, TickKeepsInv,
     IssueKeepsInv, CustomerEditKeepsInv DEF Next

(* The inductive invariant holds in every reachable state.                 *)
THEOREM BillingInvariant == Spec => []BillingInv
<1> QED BY InitInv, NextInv, PTL DEF Spec

(* An event is recorded (processed_stripe_events) exactly when its effect  *)
(* is committed, whatever is repeated and wherever the process dies.       *)
THEOREM EventsApplyOnce == Spec => []RecordedIffApplied
<1>1. BillingInv => RecordedIffApplied
  BY DEF BillingInv
<1> QED BY <1>1, BillingInvariant, PTL

(* A license only Stripe touched is valid for what was paid, no day less   *)
(* and no day more.                                                        *)
THEOREM PaymentsBuyExactly == Spec => []PaidForExactly
<1>1. BillingInv => PaidForExactly
  BY DEF BillingInv
<1> QED BY <1>1, BillingInvariant, PTL

(* However events and admin actions interleave, Stripe's events make one   *)
(* license for a customer row.                                             *)
THEOREM OneStripeLicense == Spec => []RenewalsPreserveKeys
<1>1. BillingInv => RenewalsPreserveKeys
  BY DEF BillingInv
<1> QED BY <1>1, BillingInvariant, PTL

(* Rows, the handler's values and the clock keep their types.              *)
THEOREM TypeCorrect == Spec => []TypeOK
<1>1. BillingInv => TypeOK
  BY DEF BillingInv
<1> QED BY <1>1, BillingInvariant, PTL

-----------------------------------------------------------------------------
IsKey(k) == \E i \in DOMAIN licenses : licenses[i].key = k

(* Appending a row leaves the others where they were. *)
LEMMA AppendedRow ==
  ASSUME NEW s \in Seq(License), NEW r, NEW t \in Seq(License), t = Append(s, r)
  PROVE  /\ Len(s) + 1 \in DOMAIN t /\ t[Len(s) + 1] = r
         /\ \A i \in DOMAIN s : i \in DOMAIN t /\ t[i] = s[i]
<1>1. DOMAIN s = 1..Len(s) /\ Len(s) \in Nat
  OBVIOUS
<1>2. Len(t) = Len(s) + 1 /\ DOMAIN t = 1..Len(t)
  OBVIOUS
<1> QED BY <1>1, <1>2

(* A commit keeps every key, and adds the one that was mailed for it. *)
LEMMA CommitKeepsKeys ==
  ASSUME BillingInv, BillingInv', Commit
  PROVE  /\ \A k : IsKey(k) => IsKey(k)'
         /\ job.kind = "create" => \A k : k = job.key => IsKey(k)'
<1>1. licenses' = Outcome /\ licenses \in Seq(License) /\ licenses' \in Seq(License) /\ job \in Job
  BY DEF Commit, BillingInv, TypeOK
<1>2. CASE job.kind = "none"
  BY <1>1, <1>2 DEF Outcome, IsKey
<1>3. CASE job.kind = "create"
  <2>1. licenses' = Append(licenses, NewLicense) /\ NewLicense.key = job.key
    BY <1>1, <1>3 DEF Outcome, NewLicense
  <2>2. DOMAIN licenses = 1..Len(licenses) /\ Len(licenses) \in Nat
    BY <1>1
  <2>3. /\ Len(licenses) + 1 \in DOMAIN licenses' /\ licenses'[Len(licenses) + 1] = NewLicense
        /\ \A i \in DOMAIN licenses : i \in DOMAIN licenses' /\ licenses'[i] = licenses[i]
    BY <1>1, <2>1, <2>2, AppendedRow
  <2> QED BY <2>1, <2>3 DEF IsKey
<1>4. CASE job.kind = "extend"
  <2>1. licenses' = [licenses EXCEPT ![job.lic] =
                       With(licenses[job.lic], job.until, WriteStatus(job.lic, "active"),
                            licenses[job.lic].payer)]
    BY <1>1, <1>4 DEF Outcome
  <2>2. \A i \in DOMAIN licenses : licenses'[i].key = licenses[i].key
    BY <2>1 DEF With
  <2> QED BY <1>4, <2>1, <2>2 DEF IsKey
<1>5. CASE job.kind = "mark"
  <2>1. licenses' = [i \in DOMAIN licenses |->
            IF i \in DOMAIN job.read /\ licenses[i].owner = job.mail
            THEN With(licenses[i], licenses[i].until, WriteStatus(i, MarkAs(job.event)),
                      licenses[i].payer)
            ELSE licenses[i]]
    BY <1>1, <1>5 DEF Outcome
  <2>2. \A i \in DOMAIN licenses : licenses'[i].key = licenses[i].key
    BY <2>1 DEF With
  <2> QED BY <1>5, <2>1, <2>2 DEF IsKey
<1> QED BY <1>1, <1>2, <1>3, <1>4, <1>5 DEF Job

LEMMA AdminKeepsKeys ==
  ASSUME BillingInv, BillingInv',
         \/ \E i \in DOMAIN licenses : \/ \E st \in Status : SetStatus(i, st)
                                       \/ \E t \in Nat : EditUntil(i, t)
         \/ \E m, n \in Email, c \in Customer \union {Unlinked} : EditCustomer(m, n, c)
  PROVE  /\ \A k : IsKey(k) => IsKey(k)'
         /\ UNCHANGED <<job.at, job.kind, job.key, mailed, crashes>>
<1>1. UNCHANGED <<job.at, job.kind, job.key, mailed, crashes>>
  <2>1. job \in Job
    BY DEF BillingInv, TypeOK
  <2> QED BY <2>1 DEF SetStatus, EditUntil, EditCustomer, AdminEdit, Job
<1>2. ASSUME NEW i \in DOMAIN licenses, NEW t, NEW st, NEW p,
             licenses' = [licenses EXCEPT ![i] = With(licenses[i], t, st, p)]
      PROVE  \A k : IsKey(k) => IsKey(k)'
  <2>1. \A j \in DOMAIN licenses : licenses'[j].key = licenses[j].key
    BY <1>2 DEF With
  <2> QED BY <1>2, <2>1 DEF IsKey
<1>4. ASSUME NEW i \in DOMAIN licenses, NEW st \in Status, SetStatus(i, st)
      PROVE  \A k : IsKey(k) => IsKey(k)'
  <2>1. licenses' = [licenses EXCEPT ![i] = With(licenses[i], licenses[i].until, st, licenses[i].payer)]
    BY <1>4 DEF SetStatus
  <2> QED BY <1>2, <2>1
<1>5. ASSUME NEW i \in DOMAIN licenses, NEW t \in Nat, EditUntil(i, t)
      PROVE  \A k : IsKey(k) => IsKey(k)'
  <2>1. licenses' = [licenses EXCEPT ![i] = With(licenses[i], t, licenses[i].status, Unlinked)]
    BY <1>5 DEF EditUntil
  <2> QED BY <1>2, <2>1
<1>6. ASSUME NEW m \in Email, NEW n \in Email, NEW c, EditCustomer(m, n, c)
      PROVE  \A k : IsKey(k) => IsKey(k)'
  BY <1>6, MovedRows DEF IsKey
<1> QED BY <1>1, <1>4, <1>5, <1>6

LEMMA IssueKeepsKeys ==
  ASSUME BillingInv, BillingInv', NEW m \in Email, NEW c, AdminIssue(m, c)
  PROVE  (\A k : IsKey(k) \/ k = keys' => IsKey(k)') /\ UNCHANGED <<job, crashes>>
<1> DEFINE w == WithoutPayer(LicensesOf(m))
           r == [owner |-> m, status |-> "active", until |-> now + Period,
                 key |-> keys', byStripe |-> FALSE, payer |-> Unlinked]
<1>1. licenses' = Append(w, r) /\ UNCHANGED <<job, crashes>>
  BY DEF AdminIssue
<1>2. w \in Seq(License) /\ Len(w) = Len(licenses) /\ DOMAIN w = DOMAIN licenses
  BY WithoutPayerType DEF BillingInv
<1>3. \A i \in DOMAIN licenses : w[i].key = licenses[i].key
  BY DEF WithoutPayer, With
<1>4. r.key = keys'
  OBVIOUS
<1> HIDE DEF w, r
<1>5. /\ Len(w) + 1 \in DOMAIN licenses' /\ licenses'[Len(w) + 1] = r
      /\ \A i \in DOMAIN w : i \in DOMAIN licenses' /\ licenses'[i] = w[i]
  <2>1. licenses' \in Seq(License)
    BY DEF BillingInv, TypeOK
  <2> QED BY <1>1, <1>2, <2>1, AppendedRow
<1> QED BY <1>1, <1>2, <1>3, <1>4, <1>5 DEF IsKey

(* No step but a crash makes a key worthless, and a crash only the one in  *)
(* the hands of the handler.                                               *)
LEMMA OnlyCrashesLoseKeys ==
  ASSUME BillingInv, BillingInv', [Next]_vars
  PROVE  \/ Worthless' \subseteq Worthless /\ crashes' = crashes
         \/ Worthless' \subseteq Worthless \union {job.key} /\ crashes' = crashes + 1
<1> DEFINE InHand(k) == job.at # "idle" /\ job.kind = "create" /\ job.key = k
           Kept == /\ \A k : IsKey(k) \/ InHand(k) => IsKey(k)' \/ InHand(k)'
                   /\ \A k \in mailed' \ mailed : IsKey(k)' \/ InHand(k)'
                   /\ crashes' = crashes
<1>0. Kept => Worthless' \subseteq Worthless /\ crashes' = crashes
  BY DEF Worthless, IsKey
<1>1. ASSUME NEW e \in Event, Handle(e) PROVE Kept
  <2>1. job.at = "idle" /\ UNCHANGED <<licenses, mailed, crashes>>
    BY <1>1 DEF Handle, InvoicePaid, StatusEvent, Begin
  <2> QED BY <2>1 DEF IsKey
<1>2. ASSUME SendKey PROVE Kept
  <2>1. /\ job.at = "mail" /\ mailed' \in {mailed, mailed \union {job.key}}
        /\ job' = [job EXCEPT !.at = "commit"] /\ UNCHANGED <<licenses, crashes>>
    BY <1>2 DEF SendKey, db
  <2>2. job.kind = "create" /\ job \in Job
    BY <2>1 DEF BillingInv, JobIsCurrent, TypeOK
  <2>3. job'.at = "commit" /\ job'.kind = job.kind /\ job'.key = job.key
    BY <2>1, <2>2 DEF Job
  <2> QED BY <2>1, <2>2, <2>3 DEF IsKey
<1>3. ASSUME Commit PROVE Kept
  <2>1. UNCHANGED <<mailed, crashes>>
    BY <1>3 DEF Commit
  <2> QED BY <1>3, <2>1, CommitKeepsKeys
<1>4. ASSUME Crash
      PROVE  Worthless' \subseteq Worthless \union {job.key} /\ crashes' = crashes + 1
  <2>1. UNCHANGED <<licenses, mailed>> /\ crashes' = crashes + 1
    BY <1>4 DEF Crash, db
  <2> QED BY <2>1 DEF Worthless
<1>5. ASSUME Tick \/ UNCHANGED vars PROVE Kept
  <2>1. UNCHANGED <<licenses, job, mailed, crashes>>
    BY <1>5 DEF Tick, vars, db
  <2> QED BY <2>1 DEF IsKey
<1>6. ASSUME NEW m \in Email, NEW c, AdminIssue(m, c) PROVE Kept
  <2>1. mailed' \in {mailed, mailed \union {keys'}}
    BY <1>6 DEF AdminIssue
  <2> QED BY <1>6, <2>1, IssueKeepsKeys
<1>7. ASSUME \/ \E i \in DOMAIN licenses : \/ \E st \in Status : SetStatus(i, st)
                                           \/ \E t \in Nat : EditUntil(i, t)
             \/ \E m, n \in Email, c \in Customer \union {Unlinked} : EditCustomer(m, n, c)
      PROVE  Kept
  BY <1>7, AdminKeepsKeys
<1> HIDE DEF Kept
<1> QED BY <1>0, <1>1, <1>2, <1>3, <1>4, <1>5, <1>6, <1>7, BillingAssumption DEF Next, Status

(* README.md, "the customer is emailed their key": at most one mailed key  *)
(* for each handler that died is not one of a license, for any order of    *)
(* events and whatever admins do to the rows meanwhile.                    *)
THEOREM MailedKeysWork == Spec => []MailedKeysExist
<1>1. Init => MailedKeysExist
  <2> SUFFICES ASSUME Init PROVE MailedKeysExist
    OBVIOUS
  <2>1. Worthless = {} /\ crashes = 0
    BY DEF Init, Worthless
  <2> QED BY <2>1, FS_EmptySet DEF MailedKeysExist
<1>2. BillingInv /\ BillingInv' /\ MailedKeysExist /\ [Next]_vars => MailedKeysExist'
  <2> SUFFICES ASSUME BillingInv, BillingInv', MailedKeysExist, [Next]_vars PROVE MailedKeysExist'
    OBVIOUS
  <2>1. keys \in Nat /\ mailed \subseteq 1..keys /\ crashes \in Nat
    BY DEF BillingInv, TypeOK
  <2>2. IsFiniteSet(Worthless) /\ Cardinality(Worthless) \in Nat
    <3>1. IsFiniteSet(1..keys)
      BY <2>1, FS_Interval
    <3>2. Worthless \in SUBSET (1..keys)
      BY <2>1 DEF Worthless
    <3>3. IsFiniteSet(Worthless)
      BY <3>1, <3>2, FS_Subset
    <3> QED BY <3>3, FS_CardinalityType
  <2> DEFINE lost == Worthless \union {job.key}
  <2>3. IsFiniteSet(lost) /\ Cardinality(lost) \in Nat /\ Cardinality(lost) <= Cardinality(Worthless) + 1
    <3>1. /\ IsFiniteSet(lost)
          /\ Cardinality(lost) = IF job.key \in Worthless THEN Cardinality(Worthless)
                                  ELSE Cardinality(Worthless) + 1
      BY <2>2, FS_AddElement
    <3> HIDE DEF lost
    <3> QED BY <2>2, <3>1
  <2>4. \A S : S = Worthless' =>
          /\ S \subseteq Worthless => Cardinality(S) \in Nat /\ Cardinality(S) <= Cardinality(Worthless)
          /\ S \subseteq lost => Cardinality(S) \in Nat /\ Cardinality(S) <= Cardinality(lost)
    BY <2>2, <2>3, FS_Subset, FS_CardinalityType
  <2> HIDE DEF lost
  <2>5. \/ Worthless' \subseteq Worthless /\ crashes' = crashes
        \/ Worthless' \subseteq lost /\ crashes' = crashes + 1
    BY OnlyCrashesLoseKeys DEF lost
  <2> QED BY <2>1, <2>2, <2>3, <2>4, <2>5 DEF MailedKeysExist
<1> QED BY <1>1, <1>2, BillingInvariant, PTL DEF Spec

-----------------------------------------------------------------------------
(* The row the handler works on: the license it extends stays with its     *)
(* address, and an address without a row is the one in the event.          *)
JobHasRow ==
  job.at # "idle" =>
    /\ job.kind = "extend" => licenses[job.lic].owner = job.mail
    /\ job.kind = "create" =>
         job.mail = MailOf[Payer[job.event]] \/ account[job.mail] # NoRow

LEMMA JobRowKept ==
  ASSUME BillingInv, JobHasRow, job' = job,
         \A m \in Email : account[m] # NoRow => account'[m] # NoRow,
         \A i \in DOMAIN licenses : licenses'[i].owner = licenses[i].owner
  PROVE  JobHasRow'
<1>1. job.at # "idle" => job.mail \in Email /\ (job.kind = "extend" => job.lic \in DOMAIN licenses)
  BY DEF BillingInv, JobIsCurrent, TypeOK, Job
<1> QED BY <1>1 DEF JobHasRow

LEMMA BeginHasRow ==
  ASSUME NEW e, NEW kind, NEW m, NEW i, NEW at, Begin(e, kind, m, i, at),
         kind = "extend" => licenses[i].owner = m,
         kind = "create" => m = MailOf[Payer[e]] \/ account[m] # NoRow
  PROVE  JobHasRow'
<1>1. /\ job'.kind = kind /\ job'.event = e /\ job'.mail = m /\ job'.lic = i
      /\ UNCHANGED <<account, licenses>>
  BY DEF Begin
<1> QED BY <1>1 DEF JobHasRow

LEMMA HandleHasRow ==
  ASSUME BillingInv, NEW e \in Event, Handle(e)
  PROVE  JobHasRow'
<1>1. CASE InvoicePaid(e)
  <2> DEFINE known == AddressesOf(Payer[e])
  <2>1. PICK m \in (IF known = {} THEN {MailOf[Payer[e]]} ELSE known) :
          \/ Begin(e, "create", m, 0, "mail")
          \/ \E i \in Renewable(m) : Begin(e, "extend", m, i, "commit")
    BY <1>1 DEF InvoicePaid, CanInsert
  <2>2. m = MailOf[Payer[e]] \/ account[m] # NoRow
    BY <2>1, BillingAssumption DEF AddressesOf
  <2>3. \A i \in Renewable(m) : licenses[i].owner = m
    BY DEF Renewable, LicensesOf
  <2> QED BY <2>1, <2>2, <2>3, BeginHasRow
<1>2. CASE StatusEvent(e)
  BY <1>2, BeginHasRow DEF StatusEvent
<1> QED BY <1>1, <1>2 DEF Handle

(* What admins do to the rows.                                             *)
AdminStep ==
  \/ \E m \in Email, c \in Customer \union {Unlinked} : AdminIssue(m, c)
  \/ \E i \in DOMAIN licenses : \/ \E st \in Status : SetStatus(i, st)
                                \/ \E t \in Nat : EditUntil(i, t)
  \/ \E m, n \in Email, c \in Customer \union {Unlinked} : EditCustomer(m, n, c)

(* It leaves the events alone; a license keeps its payer only together     *)
(* with its valid_until, and a handler stays with its row.                 *)
LEMMA AdminKeepsRows ==
  ASSUME BillingInv, AdminStep
  PROVE  /\ UNCHANGED <<processed, now>>
         /\ \A i \in DOMAIN licenses' :
              licenses'[i].payer # Unlinked =>
                /\ i \in DOMAIN licenses /\ licenses'[i].payer = licenses[i].payer
                /\ licenses'[i].until = licenses[i].until
         /\ JobHasRow => JobHasRow'
<1>1. licenses \in Seq(License) /\ account \in [Email -> Customer \union {Unlinked, NoRow}]
  BY DEF BillingInv, TypeOK
<1>2. ASSUME NEW i \in DOMAIN licenses, NEW t, NEW st, NEW p,
             p # Unlinked => p = licenses[i].payer /\ t = licenses[i].until,
             licenses' = [licenses EXCEPT ![i] = With(licenses[i], t, st, p)],
             UNCHANGED <<processed, job, now, account>>
      PROVE  /\ \A j \in DOMAIN licenses' :
                  licenses'[j].payer # Unlinked =>
                    /\ j \in DOMAIN licenses /\ licenses'[j].payer = licenses[j].payer
                    /\ licenses'[j].until = licenses[j].until
             /\ JobHasRow => JobHasRow'
  <2>1. DOMAIN licenses' = DOMAIN licenses
        /\ \A j \in DOMAIN licenses :
             licenses'[j] = IF j = i THEN With(licenses[i], t, st, p) ELSE licenses[j]
    BY <1>1, <1>2
  <2>2. /\ With(licenses[i], t, st, p).owner = licenses[i].owner
        /\ With(licenses[i], t, st, p).until = t /\ With(licenses[i], t, st, p).payer = p
    BY DEF With
  <2>3. \A j \in DOMAIN licenses : licenses'[j].owner = licenses[j].owner
    BY <2>1, <2>2
  <2> QED BY <1>2, <2>1, <2>2, <2>3, JobRowKept
<1>3. ASSUME NEW i \in DOMAIN licenses, NEW st \in Status, SetStatus(i, st)
      PROVE  /\ UNCHANGED <<processed, job, now, account>>
             /\ licenses' = [licenses EXCEPT ![i] =
                               With(licenses[i], licenses[i].until, st, licenses[i].payer)]
  BY <1>3 DEF SetStatus, AdminEdit
<1>4. ASSUME NEW i \in DOMAIN licenses, NEW t \in Nat, EditUntil(i, t)
      PROVE  /\ UNCHANGED <<processed, job, now, account>>
             /\ licenses' = [licenses EXCEPT ![i] =
                               With(licenses[i], t, licenses[i].status, Unlinked)]
  BY <1>4 DEF EditUntil, AdminEdit
<1>5. ASSUME NEW m \in Email, NEW n \in Email, NEW c \in Customer \union {Unlinked},
             EditCustomer(m, n, c)
      PROVE  /\ UNCHANGED <<processed, now>>
             /\ \A i \in DOMAIN licenses' :
                  licenses'[i].payer # Unlinked =>
                    /\ i \in DOMAIN licenses /\ licenses'[i].payer = licenses[i].payer
                    /\ licenses'[i].until = licenses[i].until
             /\ JobHasRow => JobHasRow'
  <2>1. /\ account' = [account EXCEPT ![m] = NoRow, ![n] = c]
        /\ job' = IF job.mail = m /\ job.kind # "none" THEN [job EXCEPT !.mail = n] ELSE job
        /\ UNCHANGED <<processed, now>> /\ account[m] # NoRow /\ (n = m \/ account[n] = NoRow)
    BY <1>5 DEF EditCustomer, AdminEdit
  <2>2. /\ account'[n] = c /\ c # NoRow
        /\ \A a \in Email \ {m, n} : account'[a] = account[a]
    BY <1>1, <2>1, BillingAssumption
  <2>3. job \in Job
    BY DEF BillingInv, TypeOK
  <2>4. /\ UNCHANGED <<job.at, job.kind, job.event, job.lic>> /\ job.mail \in Email
        /\ job'.mail = IF job.mail = m /\ job.kind # "none" THEN n ELSE job.mail
    BY <2>1, <2>3 DEF Job
  <2>5. /\ DOMAIN licenses' = DOMAIN licenses
        /\ \A i \in DOMAIN licenses :
             /\ licenses'[i].owner = IF licenses[i].owner = m THEN n ELSE licenses[i].owner
             /\ licenses'[i].until = licenses[i].until
             /\ licenses'[i].payer = IF licenses[i].owner = m THEN Unlinked
                                     ELSE licenses[i].payer
    BY <1>5, MovedRows
  <2>6. ASSUME JobHasRow PROVE JobHasRow'
    <3>1. job.at # "idle" /\ job.kind = "extend" => job.lic \in DOMAIN licenses
      BY DEF BillingInv, JobIsCurrent
    <3>2. ASSUME job.at # "idle", job.kind = "extend" PROVE licenses'[job.lic].owner = job'.mail
      BY <2>4, <2>5, <2>6, <3>1, <3>2 DEF JobHasRow
    <3>3. ASSUME job.at # "idle", job.kind = "create"
          PROVE  job'.mail = MailOf[Payer[job.event]] \/ account'[job'.mail] # NoRow
      BY <2>1, <2>2, <2>4, <2>6, <3>3 DEF JobHasRow
    <3> QED BY <2>4, <3>2, <3>3 DEF JobHasRow
  <2> QED BY <2>1, <2>5, <2>6
<1>6. ASSUME NEW m \in Email, NEW c \in Customer \union {Unlinked}, AdminIssue(m, c)
      PROVE  /\ UNCHANGED <<processed, now>>
             /\ \A i \in DOMAIN licenses' :
                  licenses'[i].payer # Unlinked =>
                    /\ i \in DOMAIN licenses /\ licenses'[i].payer = licenses[i].payer
                    /\ licenses'[i].until = licenses[i].until
             /\ JobHasRow => JobHasRow'
  <2> DEFINE w == WithoutPayer(LicensesOf(m))
             r == [owner |-> m, status |-> "active", until |-> now + Period,
                   key |-> keys', byStripe |-> FALSE, payer |-> Unlinked]
  <2>1. /\ licenses' = Append(w, r) /\ UNCHANGED <<processed, job, now>>
        /\ account' = [account EXCEPT ![m] = IF @ = NoRow THEN c ELSE @]
    BY <1>6 DEF AdminIssue
  <2>2. /\ w \in Seq(License) /\ Len(w) = Len(licenses) /\ DOMAIN w = DOMAIN licenses
        /\ \A i \in DOMAIN licenses :
             /\ w[i].owner = licenses[i].owner /\ w[i].until = licenses[i].until
             /\ w[i].payer = IF licenses[i].owner = m THEN Unlinked ELSE licenses[i].payer
    BY WithoutPayerType DEF BillingInv
  <2>3. r.payer = Unlinked
    OBVIOUS
  <2> HIDE DEF w, r
  <2>4. /\ DOMAIN licenses' = DOMAIN w \union {Len(w) + 1}
        /\ licenses'[Len(w) + 1] = r /\ \A i \in DOMAIN w : licenses'[i] = w[i]
    <3>1. Len(w) \in Nat /\ DOMAIN w = 1..Len(w)
      BY <2>2
    <3> QED BY <2>1, <2>2, <3>1
  <2>5. \A n \in Email : account[n] # NoRow => account'[n] # NoRow
    BY <1>1, <2>1
  <2>6. \A i \in DOMAIN licenses : licenses'[i].owner = licenses[i].owner
    BY <2>2, <2>4
  <2> QED BY <2>1, <2>2, <2>3, <2>4, <2>5, <2>6, JobRowKept
<1> QED BY <1>2, <1>3, <1>4, <1>5, <1>6 DEF AdminStep

LEMMA NextAdminStep ==
  ASSUME BillingInv, [Next]_vars
  PROVE  \/ \E e \in Event : Handle(e)
         \/ SendKey \/ Commit \/ Crash \/ Tick \/ AdminStep \/ UNCHANGED vars
<1>1. {"active", "disabled", "revoked"} \subseteq Status /\ 0..MaxTime \subseteq Nat
  BY DEF Status
<1> QED BY <1>1 DEF Next, AdminStep

LEMMA NextKeepsJobRow == BillingInv /\ JobHasRow /\ [Next]_vars => JobHasRow'
<1> SUFFICES ASSUME BillingInv, JobHasRow, [Next]_vars PROVE JobHasRow'
  OBVIOUS
<1>1. ASSUME NEW e \in Event, Handle(e) PROVE JobHasRow'
  BY <1>1, HandleHasRow
<1>2. CASE SendKey
  <2>1. job' = [job EXCEPT !.at = "commit"] /\ UNCHANGED <<account, licenses>> /\ job \in Job
        /\ job.at # "idle"
    BY <1>2 DEF SendKey, db, BillingInv, TypeOK
  <2>2. /\ job'.kind = job.kind /\ job'.event = job.event /\ job'.mail = job.mail
        /\ job'.lic = job.lic
    BY <2>1 DEF Job
  <2> QED BY <2>1, <2>2 DEF JobHasRow
<1>3. CASE Commit \/ Crash
  BY <1>3, IdleType DEF Commit, Crash, JobHasRow
<1>4. CASE Tick \/ UNCHANGED vars
  BY <1>4, JobRowKept DEF Tick, vars, db
<1>5. CASE AdminStep
  BY <1>5, AdminKeepsRows
<1> QED BY <1>1, <1>2, <1>3, <1>4, <1>5, NextAdminStep

LEMMA JobRowInvariant == Spec => []JobHasRow
<1>1. Init => JobHasRow
  BY IdleType DEF Init, JobHasRow
<1> QED BY <1>1, NextKeepsJobRow, BillingInvariant, PTL DEF Spec

-----------------------------------------------------------------------------
(* Refinement of the payment ledger.  First how terms and addresses are    *)
(* read off the rows.                                                      *)
TermsAreRead ==
  \A c \in Customer :
    /\ \A i \in DOMAIN licenses : licenses[i].payer = c => TermOf(c) = licenses[i].until
    /\ (\A i \in DOMAIN licenses : licenses[i].payer # c) =>
         TermOf(c) = IF IsNewcomer(c) THEN -1 ELSE -2
    /\ TermOf(c) \in Int

IsServing(c) ==
  job.at # "idle" /\ job.kind \in {"create", "extend"} /\ Payer[job.event] = c

AddressesAreRead ==
  \A c \in Customer :
    /\ AddressOf(c) \in Email
    /\ IsServing(c) => AddressOf(c) = job.mail
    /\ ~IsServing(c) =>
         /\ \A m \in Email : account[m] = c => AddressOf(c) = m
         /\ (\A m \in Email : account[m] # c) => AddressOf(c) = MailOf[c]

(* The license of a payer is the only one.                                 *)
LEMMA OnePayer ==
  ASSUME BillingInv, NEW c \in Customer, NEW i \in DOMAIN licenses, NEW j \in DOMAIN licenses,
         licenses[i].payer = c, licenses[j].payer = c
  PROVE  i = j
<1>1. /\ licenses[i].owner \in Email /\ licenses[j].owner \in Email /\ c # Unlinked
  BY StoredType, BillingAssumption DEF BillingInv
<1>2. /\ account[licenses[i].owner] = c /\ account[licenses[j].owner] = c
      /\ LicensesOf(licenses[i].owner) = {i} /\ LicensesOf(licenses[j].owner) = {j}
  BY <1>1 DEF BillingInv, RowsAreLinked
<1>3. licenses[i].owner = licenses[j].owner
  BY <1>1, <1>2 DEF BillingInv, RowsAreLinked
<1> QED BY <1>2, <1>3

LEMMA ReadTerms == BillingInv => TermsAreRead
<1> SUFFICES ASSUME BillingInv, NEW c \in Customer
             PROVE  /\ \A i \in DOMAIN licenses :
                         licenses[i].payer = c => TermOf(c) = licenses[i].until
                    /\ (\A i \in DOMAIN licenses : licenses[i].payer # c) =>
                         TermOf(c) = IF IsNewcomer(c) THEN -1 ELSE -2
                    /\ TermOf(c) \in Int
  BY DEF TermsAreRead
<1>1. ASSUME NEW i \in DOMAIN licenses, licenses[i].payer = c
      PROVE  TermOf(c) = licenses[i].until /\ TermOf(c) \in Int
  <2>1. \A j \in DOMAIN licenses : licenses[j].payer = c => j = i
    BY <1>1, OnePayer
  <2>2. PaidLicense(c) = i
    BY <1>1, <2>1 DEF PaidLicense
  <2>3. licenses[i].until \in Nat
    BY StoredType DEF BillingInv
  <2> QED BY <1>1, <2>2, <2>3 DEF TermOf
<1>2. ASSUME \A i \in DOMAIN licenses : licenses[i].payer # c
      PROVE  TermOf(c) = (IF IsNewcomer(c) THEN -1 ELSE -2) /\ TermOf(c) \in Int
  BY <1>2 DEF TermOf
<1> QED BY <1>1, <1>2

LEMMA ReadAddresses == BillingInv => AddressesAreRead
<1> SUFFICES ASSUME BillingInv, NEW c \in Customer
             PROVE  /\ AddressOf(c) \in Email
                    /\ IsServing(c) => AddressOf(c) = job.mail
                    /\ ~IsServing(c) =>
                         /\ \A m \in Email : account[m] = c => AddressOf(c) = m
                         /\ (\A m \in Email : account[m] # c) => AddressOf(c) = MailOf[c]
  BY DEF AddressesAreRead
<1>1. job.mail \in Email /\ MailOf[c] \in Email
  BY BillingAssumption DEF BillingInv, TypeOK, Job
<1>2. CASE IsServing(c)
  BY <1>1, <1>2 DEF IsServing, AddressOf
<1>3. CASE ~IsServing(c)
  <2>1. ASSUME NEW m \in Email, account[m] = c PROVE AddressOf(c) = m
    <3>1. \A n \in Email : account[n] = c => n = m
      BY <2>1 DEF BillingInv, RowsAreLinked
    <3>2. (CHOOSE n \in Email : account[n] = c) = m
      BY <2>1, <3>1
    <3> QED BY <1>3, <2>1, <3>2 DEF IsServing, AddressOf, AddressesOf
  <2>2. ASSUME \A m \in Email : account[m] # c PROVE AddressOf(c) = MailOf[c]
    BY <1>3, <2>2 DEF IsServing, AddressOf, AddressesOf
  <2> QED BY <1>1, <1>3, <2>1, <2>2
<1> QED BY <1>2, <1>3

LEMMA LedgerInit == Init => Ledger!Init
<1> SUFFICES ASSUME Init PROVE Ledger!Init
  OBVIOUS
<1>1. BillingInv
  BY InitInv
<1>2. ASSUME NEW c \in Customer PROVE TermOf(c) = -1
  <2>1. AddressOf(c) \in Email /\ TermsAreRead
    BY <1>1, ReadAddresses, ReadTerms DEF AddressesAreRead
  <2>2. IsNewcomer(c)
    BY <2>1 DEF Init, IsNewcomer, InvoicesOf, LicensesOf
  <2>3. \A i \in DOMAIN licenses : licenses[i].payer # c
    BY DEF Init
  <2> QED BY <2>1, <2>2, <2>3 DEF TermsAreRead
<1> QED BY <1>2 DEF Init, Ledger!Init, Ledger!Unpaid

(* A step that books nothing, and changes of the licenses with a payer at  *)
(* most that they lose it.                                                 *)
LEMMA LedgerInterfere ==
  ASSUME TermsAreRead, TermsAreRead', UNCHANGED <<processed, now>>,
         \A i \in DOMAIN licenses' :
           licenses'[i].payer # Unlinked =>
             /\ i \in DOMAIN licenses /\ licenses'[i].payer = licenses[i].payer
             /\ licenses'[i].until = licenses[i].until
  PROVE  Ledger!Next
<1>1. ASSUME NEW c \in Customer
      PROVE  /\ TermOf(c)' \in Int
             /\ \/ TermOf(c)' \in {TermOf(c), -2}
                \/ TermOf(c)' = -1 /\ InvoicesOf(c) = {}
  <2>1. TermOf(c)' \in Int
    BY DEF TermsAreRead
  <2>2. ASSUME NEW i \in DOMAIN licenses', licenses'[i].payer = c
        PROVE  TermOf(c)' = TermOf(c)
    <3>1. /\ i \in DOMAIN licenses /\ licenses[i].payer = c
          /\ licenses'[i].until = licenses[i].until
      BY <2>2, BillingAssumption
    <3>2. TermOf(c) = licenses[i].until /\ TermOf(c)' = licenses'[i].until
      BY <2>2, <3>1 DEF TermsAreRead
    <3> QED BY <3>1, <3>2
  <2>3. ASSUME \A i \in DOMAIN licenses' : licenses'[i].payer # c
        PROVE  TermOf(c)' = -2 \/ (TermOf(c)' = -1 /\ InvoicesOf(c) = {})
    <3>1. TermOf(c)' = IF IsNewcomer(c)' THEN -1 ELSE -2
      BY <2>3 DEF TermsAreRead
    <3>2. IsNewcomer(c)' => InvoicesOf(c) = {}
      BY DEF IsNewcomer, InvoicesOf
    <3> QED BY <3>1, <3>2
  <2> QED BY <2>1, <2>2, <2>3
<1>2. Ledger!Interfere
  BY <1>1 DEF Ledger!Interfere, Ledger!NoTerm, Ledger!Unpaid, Ledger!InvoicesOf, InvoicesOf
<1> QED BY <1>2 DEF Ledger!Next

(* The rows of a customer whom a step does not concern.                    *)
LEMMA TermKept ==
  ASSUME AddressesAreRead, AddressesAreRead', TermsAreRead, TermsAreRead',
         NEW c \in Customer, ~IsServing(c), ~IsServing(c)', UNCHANGED account,
         InvoicesOf(c)' = InvoicesOf(c),
         DOMAIN licenses' = DOMAIN licenses,
         \A i \in DOMAIN licenses :
           /\ licenses'[i].owner = licenses[i].owner /\ licenses'[i].payer = licenses[i].payer
           /\ licenses[i].payer = c => licenses'[i].until = licenses[i].until
  PROVE  TermOf(c)' = TermOf(c)
<1>1. AddressOf(c)' = AddressOf(c)
  BY DEF AddressesAreRead
<1>2. IsNewcomer(c)' = IsNewcomer(c)
  BY <1>1 DEF IsNewcomer, LicensesOf
<1>3. ASSUME NEW i \in DOMAIN licenses, licenses[i].payer = c PROVE TermOf(c)' = TermOf(c)
  BY <1>3 DEF TermsAreRead
<1>4. ASSUME \A i \in DOMAIN licenses : licenses[i].payer # c PROVE TermOf(c)' = TermOf(c)
  BY <1>2, <1>4 DEF TermsAreRead
<1> QED BY <1>3, <1>4

(* What an event that starts to be handled, a mail and a crash leave alone. *)
LEMMA HandlerKeepsRows ==
  ASSUME (\E e \in Event : Handle(e)) \/ SendKey \/ Crash
  PROVE  UNCHANGED <<account, licenses, processed, now>>
BY DEF Handle, InvoicePaid, StatusEvent, Begin, Claimed, IsNew, SendKey, Crash, db

(* Whose the invoices are that a commit records.                           *)
LEMMA CommitRecords ==
  ASSUME BillingInv, Commit
  PROVE  /\ job.event \in Event /\ job.event \notin processed
         /\ processed' = processed \union {job.event} /\ now' = now /\ now \in Nat
         /\ Period \in Nat /\ job.until \in Nat /\ Payer[job.event] \in Customer
         /\ job.event \in Paid <=> job.kind \in {"create", "extend"}
         /\ \A c \in Customer : ~IsServing(c)'
         /\ \A c \in Customer : IsServing(c) => job.event \in Paid /\ c = Payer[job.event]
         /\ \A c \in Customer : ~IsServing(c) => InvoicesOf(c)' = InvoicesOf(c)
         /\ \A c \in Customer : job.event \in Paid /\ c = Payer[job.event] => InvoicesOf(c)' # {}
<1>1. /\ job.event \in Event /\ job.event \notin processed /\ job' = Idle
      /\ processed' = processed \union {job.event} /\ now' = now /\ now \in Nat
      /\ Period \in Nat /\ job.until \in Nat /\ Payer[job.event] \in Customer
      /\ job.at # "idle"
  BY CommitType
<1>2. job.event \in Paid <=> job.kind \in {"create", "extend"}
  BY <1>1 DEF BillingInv, JobIsCurrent
<1>3. \A c \in Customer : ~IsServing(c)'
  BY <1>1, IdleType DEF IsServing
<1>4. \A c \in Customer : ~IsServing(c) => InvoicesOf(c)' = InvoicesOf(c)
  BY <1>1, <1>2 DEF IsServing, InvoicesOf
<1>5. \A c \in Customer : job.event \in Paid /\ c = Payer[job.event] => InvoicesOf(c)' # {}
  BY <1>1 DEF InvoicesOf
<1> QED BY <1>1, <1>2, <1>3, <1>4, <1>5 DEF IsServing

LEMMA LedgerMark ==
  ASSUME BillingInv, TermsAreRead, TermsAreRead', AddressesAreRead, AddressesAreRead',
         Commit, job.kind \in {"none", "mark"}
  PROVE  Ledger!Next
<1>1. /\ job.event \in Event /\ job.event \notin processed /\ job.event \notin Paid
      /\ processed' = processed \union {job.event} /\ now' = now
  BY CommitRecords
<1>2. ASSUME NEW c \in Customer PROVE TermOf(c)' = TermOf(c) /\ TermOf(c)' \in Int
  <2>1. ~IsServing(c) /\ ~IsServing(c)' /\ InvoicesOf(c)' = InvoicesOf(c)
    BY CommitRecords DEF IsServing
  <2>2. account' = account
    BY CommitType
  <2>3. TermOf(c)' = TermOf(c)
    BY <2>1, <2>2, MarkRows, TermKept
  <2> QED BY <2>3 DEF TermsAreRead
<1>3. Ledger!Book(job.event)
  BY <1>1, <1>2 DEF Ledger!Book
<1> QED BY <1>1, <1>3 DEF Ledger!Next

LEMMA LedgerRenewal ==
  ASSUME BillingInv, JobHasRow, TermsAreRead, TermsAreRead', AddressesAreRead, AddressesAreRead',
         Commit, job.kind = "extend"
  PROVE  Ledger!Next
<1>0. PICK e \in Event, c \in Customer, k \in {job.lic} :
        e = job.event /\ c = Payer[e] /\ k = job.lic
  BY CommitRecords
<1>1. /\ e \notin processed /\ e \in Paid
      /\ processed' = processed \union {e} /\ now' = now /\ now \in Nat
      /\ Period \in Nat /\ job.until \in Nat
  BY <1>0, CommitRecords
<1>2. /\ k \in DOMAIN licenses /\ licenses[k].until \in Nat
      /\ licenses[k].payer # Unlinked =>
           /\ job.until >= licenses[k].until + Period
           /\ \/ job.until <= licenses[k].until + Period
              \/ job.until <= now + Period
      /\ \A i \in DOMAIN licenses : licenses[i].payer = c => i = k
      /\ licenses[k].payer \in {c, Unlinked}
      /\ licenses[k].owner = job.mail
  BY <1>0, CommitType, StoredType DEF BillingInv, JobIsCurrent, JobHasRow
<1>3. /\ DOMAIN licenses' = DOMAIN licenses /\ licenses'[k].until = job.until
      /\ \A i \in DOMAIN licenses :
           /\ licenses'[i].owner = licenses[i].owner /\ licenses'[i].payer = licenses[i].payer
           /\ i # k => licenses'[i].until = licenses[i].until
  BY <1>0, RenewalRows
<1>4. account' = account
  BY CommitType
<1>5. \A x \in Customer : TermOf(x)' \in Int
  BY DEF TermsAreRead
<1>6. ASSUME NEW x \in Customer \ {c} PROVE TermOf(x)' = TermOf(x)
  <2>1. ~IsServing(x) /\ ~IsServing(x)' /\ InvoicesOf(x)' = InvoicesOf(x)
    BY <1>0, CommitRecords DEF IsServing
  <2>2. \A i \in DOMAIN licenses : licenses[i].payer = x => i # k
    BY <1>2, BillingAssumption
  <2> QED BY <1>3, <1>4, <2>1, <2>2, TermKept
<1>7. TermOf(c)' \in Ledger!After(TermOf(c))
  <2>1. CASE licenses[k].payer = c
    <3> DEFINE t == licenses[k].until
    <3>1. TermOf(c) = t /\ TermOf(c)' = job.until
      BY <1>1, <1>2, <1>3, <2>1 DEF TermsAreRead
    <3>2. /\ job.until >= t + Period
          /\ job.until <= t + Period \/ job.until <= now + Period
      BY <1>1, <1>2, <2>1, BillingAssumption
    <3>3. t \in Nat
      BY <1>2
    <3> HIDE DEF t
    <3>4. PICK day \in Int : day + Period = job.until
      <4>1. job.until - Period \in Int /\ (job.until - Period) + Period = job.until
        BY <1>1
      <4> QED BY <4>1
    <3>5. day \in {t} \union t..now
      BY <1>1, <3>2, <3>3, <3>4
    <3> QED BY <3>1, <3>3, <3>4, <3>5 DEF Ledger!After, Ledger!NoTerm, Ledger!Unpaid
  <2>2. CASE licenses[k].payer # c
    <3>1. \A i \in DOMAIN licenses : licenses[i].payer # c /\ licenses'[i].payer # c
      BY <1>2, <1>3, <2>2
    <3>2. AddressOf(c) = job.mail
      BY <1>0, CommitType DEF AddressesAreRead, IsServing
    <3>3. ~IsNewcomer(c)
      BY <1>2, <3>2 DEF IsNewcomer, LicensesOf
    <3>4. ~IsNewcomer(c)'
      BY <1>0, <1>1, CommitRecords DEF IsNewcomer
    <3>5. TermOf(c) = -2 /\ TermOf(c)' = -2
      BY <1>1, <1>3, <3>1, <3>3, <3>4 DEF TermsAreRead
    <3> QED BY <3>5 DEF Ledger!After, Ledger!NoTerm, Ledger!Unpaid
  <2> QED BY <2>1, <2>2
<1>8. Ledger!Book(e)
  BY <1>0, <1>1, <1>5, <1>6, <1>7 DEF Ledger!Book
<1> QED BY <1>8 DEF Ledger!Next

LEMMA LedgerCreation ==
  ASSUME BillingInv, TermsAreRead, TermsAreRead', AddressesAreRead, AddressesAreRead',
         Commit, job.kind = "create"
  PROVE  Ledger!Next
<1>0. PICK e \in Event, c \in Customer, m \in Email :
        e = job.event /\ c = Payer[e] /\ m = job.mail
  BY CommitRecords, CommitType DEF Job
<1>1. /\ e \notin processed /\ e \in Paid
      /\ processed' = processed \union {e} /\ now' = now /\ now \in Nat
      /\ Period \in Nat /\ job.until \in Nat /\ c # NoRow /\ c # Unlinked
  BY <1>0, CommitRecords, BillingAssumption
<1>2. /\ Period <= job.until /\ job.until <= now + Period
      /\ account[m] = NoRow => AddressesOf(c) = {}
      /\ \A i \in DOMAIN licenses : licenses[i].payer # c
      /\ AddressOf(c) = m
  BY <1>0, CommitType DEF BillingInv, JobIsCurrent, AddressesAreRead, IsServing
<1> DEFINE new == Len(licenses) + 1
<1>3. /\ DOMAIN licenses' = DOMAIN licenses \union {new} /\ new \notin DOMAIN licenses
      /\ licenses'[new] = NewLicense
      /\ \A i \in DOMAIN licenses : licenses'[i] = licenses[i]
  BY CreationRows
<1>4. /\ NewLicense.owner = m /\ NewLicense.until = job.until
      /\ NewLicense.payer = IF IsNewcomer(c) THEN c ELSE Unlinked
  BY <1>0, <1>2 DEF NewLicense, IsNewcomer
<1>5. /\ account[m] = NoRow => account'[m] = c
      /\ account[m] # NoRow => account' = account
      /\ \A n \in Email : n # m => account'[n] = account[n]
  BY <1>0, CreationRows
<1> HIDE DEF new
<1>6. \A x \in Customer : TermOf(x)' \in Int
  BY DEF TermsAreRead
<1>7. ASSUME NEW x \in Customer \ {c}
      PROVE  TermOf(x)' = TermOf(x) \/ (TermOf(x) = -1 /\ TermOf(x)' = -2)
  <2>1. ~IsServing(x) /\ ~IsServing(x)' /\ InvoicesOf(x)' = InvoicesOf(x)
    BY <1>0, CommitRecords DEF IsServing
  <2>2. CASE \E i \in DOMAIN licenses : licenses[i].payer = x
    BY <1>3, <2>2 DEF TermsAreRead
  <2>3. CASE \A i \in DOMAIN licenses : licenses[i].payer # x
    <3>1. x # Unlinked /\ x # NoRow
      BY BillingAssumption
    <3>2. \A i \in DOMAIN licenses' : licenses'[i].payer # x
      BY <1>3, <1>4, <2>3, <3>1
    <3>3. /\ TermOf(x) = IF IsNewcomer(x) THEN -1 ELSE -2
          /\ TermOf(x)' = IF IsNewcomer(x)' THEN -1 ELSE -2
      BY <2>3, <3>2 DEF TermsAreRead
    <3>4. \A n \in Email : account'[n] = x <=> account[n] = x
      BY <1>5, <3>1
    <3>5. AddressOf(x)' = AddressOf(x) /\ AddressOf(x) \in Email
      BY <2>1, <3>4 DEF AddressesAreRead
    <3>6. IsNewcomer(x)' => IsNewcomer(x)
      <4>1. SUFFICES ASSUME IsNewcomer(x)' PROVE IsNewcomer(x)
        OBVIOUS
      <4>2. PICK a \in Email : a = AddressOf(x) /\ a = AddressOf(x)'
        BY <3>5
      <4>3. InvoicesOf(x) = {} /\ LicensesOf(a)' = {} /\ account'[a] \in {x, NoRow}
        BY <2>1, <4>1, <4>2 DEF IsNewcomer, LicensesOf
      <4>4. LicensesOf(a) = {}
        BY <1>3, <4>3 DEF LicensesOf
      <4>5. account[a] \in {x, NoRow}
        BY <1>1, <1>5, <4>3
      <4> QED BY <4>2, <4>3, <4>4, <4>5 DEF IsNewcomer
    <3> QED BY <3>3, <3>6
  <2> QED BY <2>2, <2>3
<1>8. TermOf(c)' \in Ledger!After(TermOf(c))
  <2>1. CASE IsNewcomer(c)
    <3>1. TermOf(c) = -1 /\ TermOf(c)' = job.until
      BY <1>2, <1>3, <1>4, <2>1 DEF TermsAreRead
    <3>2. PICK day \in Int : day + Period = job.until
      <4>1. job.until - Period \in Int /\ (job.until - Period) + Period = job.until
        BY <1>1
      <4> QED BY <4>1
    <3>3. day \in 0..now
      BY <1>1, <1>2, <3>2
    <3> QED BY <3>1, <3>2, <3>3 DEF Ledger!After, Ledger!NoTerm, Ledger!Unpaid
  <2>2. CASE ~IsNewcomer(c)
    <3>1. \A i \in DOMAIN licenses' : licenses'[i].payer # c
      BY <1>1, <1>2, <1>3, <1>4, <2>2
    <3>2. ~IsNewcomer(c)'
      BY <1>0, <1>1, CommitRecords DEF IsNewcomer
    <3>3. TermOf(c) = -2 /\ TermOf(c)' = -2
      BY <1>2, <2>2, <3>1, <3>2 DEF TermsAreRead
    <3> QED BY <3>3 DEF Ledger!After, Ledger!NoTerm, Ledger!Unpaid
  <2> QED BY <2>1, <2>2
<1>9. Ledger!Book(e)
  BY <1>0, <1>1, <1>6, <1>7, <1>8 DEF Ledger!Book, Ledger!Unpaid, Ledger!NoTerm
<1> QED BY <1>9 DEF Ledger!Next

LEMMA LedgerTick ==
  ASSUME TermsAreRead, TermsAreRead', AddressesAreRead, AddressesAreRead', Tick
  PROVE  Ledger!Next
<1>1. now' = now + 1 /\ UNCHANGED <<account, licenses, processed, job>>
  BY DEF Tick, db
<1>2. ASSUME NEW c \in Customer PROVE TermOf(c)' = TermOf(c)
  <2>1. AddressOf(c)' = AddressOf(c)
    BY <1>1 DEF AddressesAreRead, IsServing
  <2>2. IsNewcomer(c)' = IsNewcomer(c)
    BY <1>1, <2>1 DEF IsNewcomer, InvoicesOf, LicensesOf
  <2> QED BY <1>1, <2>2 DEF TermsAreRead
<1>3. Ledger!NewDay
  BY <1>1, <1>2 DEF Ledger!NewDay
<1> QED BY <1>3 DEF Ledger!Next

LEMMA LedgerStep ==
  BillingInv /\ JobHasRow /\ TermsAreRead /\ TermsAreRead' /\ AddressesAreRead
    /\ AddressesAreRead' /\ [Next]_vars => [Ledger!Next]_(Ledger!vars)
<1> SUFFICES ASSUME BillingInv, JobHasRow, TermsAreRead, TermsAreRead', AddressesAreRead,
                    AddressesAreRead', [Next]_vars
             PROVE  Ledger!Next
  OBVIOUS
<1>1. CASE (\E e \in Event : Handle(e)) \/ SendKey \/ Crash \/ UNCHANGED vars
  <2>1. UNCHANGED <<licenses, processed, now>>
    BY <1>1, HandlerKeepsRows DEF vars, db
  <2> QED BY <2>1, LedgerInterfere
<1>2. CASE AdminStep
  BY <1>2, AdminKeepsRows, LedgerInterfere
<1>3. CASE Commit
  <2>1. job.kind \in {"create", "extend", "mark", "none"}
    BY DEF BillingInv, TypeOK, Job
  <2> QED BY <1>3, <2>1, LedgerMark, LedgerRenewal, LedgerCreation
<1> QED BY <1>1, <1>2, <1>3, LedgerTick, NextAdminStep

(* The handler and the admins' services implement the payment ledger: each *)
(* event is booked once, an invoice adds one period to the license of its  *)
(* payer and to nobody else's, and no term shrinks, whatever is repeated,  *)
(* wherever the process dies and whichever admin commits come in between.  *)
THEOREM BillingImplementsLedger == Spec => ImplementsLedger
<1> QED
  BY LedgerInit, LedgerStep, ReadTerms, ReadAddresses, BillingInvariant, JobRowInvariant, PTL
  DEF Spec, ImplementsLedger, Ledger!Spec

-----------------------------------------------------------------------------
(* A refused payment.  The rows of the addresses with and without the      *)
(* Stripe id decide; what changes neither leaves the payment refused.      *)
LEMMA StuckKept ==
  ASSUME NEW e \in Paid, Stuck(e), processed' = processed \/ e \notin processed',
         job'.at = "idle" \/ job'.event # e,
         \A m \in Email : account'[m] # Payer[e],
         account'[MailOf[Payer[e]]] # NoRow
  PROVE  Stuck(e)'
BY DEF Stuck, Blocked, AddressesOf

LEMMA AdminsUnblock ==
  ASSUME BillingInv, NEW e \in Paid, Stuck(e), AdminStep
  PROVE  LET c == Payer[e] IN
         \/ Stuck(e)'
         \/ \E m, n \in Email : AdminIssue(m, c) \/ EditCustomer(m, n, c)
         \/ \E n \in Email, d \in Customer \union {Unlinked} : EditCustomer(MailOf[c], n, d)
<1> DEFINE c == Payer[e]
<1>1. /\ c \in Customer /\ MailOf[c] \in Email /\ c # Unlinked /\ c # NoRow
      /\ account \in [Email -> Customer \union {Unlinked, NoRow}]
      /\ \A m \in Email : account[m] # c
      /\ account[MailOf[c]] # NoRow
      /\ e \notin processed /\ (job.at = "idle" \/ job.event # e)
  BY BillingAssumption DEF BillingInv, TypeOK, Stuck, Blocked, AddressesOf
<1>2. processed' = processed
  BY AdminKeepsRows
<1>3. CASE UNCHANGED <<account, job>>
  BY <1>1, <1>2, <1>3, StuckKept
<1>4. ASSUME NEW m \in Email, NEW d \in Customer \union {Unlinked}, AdminIssue(m, d), d # c
      PROVE  Stuck(e)'
  <2>1. account' = [account EXCEPT ![m] = IF @ = NoRow THEN d ELSE @] /\ job' = job
    BY <1>4 DEF AdminIssue
  <2>2. d # NoRow
    BY BillingAssumption
  <2>3. (\A a \in Email : account'[a] # c) /\ account'[MailOf[c]] # NoRow
    BY <1>1, <1>4, <2>1, <2>2
  <2> QED BY <1>1, <1>2, <2>1, <2>3, StuckKept
<1>5. ASSUME NEW m \in Email, NEW n \in Email, NEW d \in Customer \union {Unlinked},
             EditCustomer(m, n, d), d # c, m # MailOf[c]
      PROVE  Stuck(e)'
  <2>1. /\ account' = [account EXCEPT ![m] = NoRow, ![n] = d]
        /\ job' = IF job.mail = m /\ job.kind # "none" THEN [job EXCEPT !.mail = n] ELSE job
    BY <1>5 DEF EditCustomer
  <2>2. d # NoRow /\ job \in Job
    BY BillingAssumption DEF BillingInv, TypeOK
  <2>3. (\A a \in Email : account'[a] # c) /\ account'[MailOf[c]] # NoRow
    BY <1>1, <1>5, <2>1, <2>2
  <2>4. job'.at = job.at /\ job'.event = job.event
    BY <2>1, <2>2 DEF Job
  <2> QED BY <1>1, <1>2, <2>3, <2>4, StuckKept
<1>6. CASE \E i \in DOMAIN licenses : \/ \E st \in Status : SetStatus(i, st)
                                      \/ \E t \in Nat : EditUntil(i, t)
  BY <1>3, <1>6 DEF SetStatus, EditUntil
<1> QED BY <1>4, <1>5, <1>6 DEF AdminStep

LEMMA StuckStep ==
  ASSUME BillingInv, JobHasRow, NEW e \in Paid, Stuck(e), [Next]_vars
  PROVE  LET c == Payer[e] IN
         \/ Stuck(e)'
         \/ \E m, n \in Email : AdminIssue(m, c) \/ EditCustomer(m, n, c)
         \/ \E n \in Email, d \in Customer \union {Unlinked} : EditCustomer(MailOf[c], n, d)
<1> DEFINE c == Payer[e]
<1>1. /\ c \in Customer /\ MailOf[c] \in Email /\ c # Unlinked /\ c # NoRow
      /\ \A m \in Email : account[m] # c
      /\ account[MailOf[c]] # NoRow
      /\ e \notin processed /\ (job.at = "idle" \/ job.event # e)
  BY BillingAssumption DEF Stuck, Blocked, AddressesOf
<1>2. ASSUME NEW f \in Event, Handle(f) PROVE Stuck(e)'
  <2>1. UNCHANGED <<account, processed>>
    BY <1>2, HandlerKeepsRows
  <2>2. f # e
    BY <1>1, <1>2 DEF Handle, InvoicePaid, CanInsert, StatusEvent, AddressesOf
  <2>3. job'.event = f
    <3>1. \A kind, m, i, at : Begin(f, kind, m, i, at) => job'.event = f
      BY DEF Begin
    <3> QED BY <1>2, <3>1 DEF Handle, InvoicePaid, StatusEvent
  <2> QED BY <1>1, <2>1, <2>2, <2>3, StuckKept
<1>3. CASE SendKey
  <2>1. job' = [job EXCEPT !.at = "commit"] /\ job \in Job /\ job.at = "mail"
        /\ UNCHANGED <<account, processed>>
    BY <1>3 DEF SendKey, db, BillingInv, TypeOK
  <2>2. job'.event = job.event
    BY <2>1 DEF Job
  <2> QED BY <1>1, <2>1, <2>2, StuckKept
<1>4. CASE Crash \/ Tick \/ UNCHANGED vars
  BY <1>1, <1>4, IdleType, StuckKept DEF Crash, Tick, vars, db
<1>5. CASE Commit
  <2>1. /\ job' = Idle /\ processed' = processed \union {job.event} /\ job.at # "idle"
        /\ job.kind # "create" => account' = account
        /\ job.event \in Event
    BY <1>5, CommitType
  <2>2. e \notin processed'
    BY <1>1, <2>1
  <2>3. CASE job.kind = "create"
    <3>1. /\ account[job.mail] = NoRow => account'[job.mail] = Payer[job.event]
          /\ account[job.mail] # NoRow => account' = account
          /\ \A n \in Email : n # job.mail => account'[n] = account[n]
          /\ account'[job.mail] # NoRow
      BY <1>5, <2>3, CreationRows
    <3>2. account[job.mail] = NoRow => Payer[job.event] # c
      BY <1>1, <2>1, <2>3 DEF JobHasRow
    <3>3. (\A a \in Email : account'[a] # c) /\ account'[MailOf[c]] # NoRow
      BY <1>1, <3>1, <3>2
    <3> QED BY <2>1, <2>2, <3>3, IdleType, StuckKept
  <2>4. CASE job.kind # "create"
    BY <1>1, <2>1, <2>2, <2>4, IdleType, StuckKept
  <2> QED BY <2>3, <2>4
<1> QED BY <1>2, <1>3, <1>4, <1>5, AdminsUnblock, NextAdminStep

(* An invoice whose customer has no row while somebody has his address is  *)
(* refused, with a 500, on every repeat, until an admin gives a row his    *)
(* Stripe id or another address to the row that has his.                   *)
THEOREM RefusedUntilAdmin == Spec => OnlyAdminsUnblock
<1> DEFINE step(e) == LET c == Payer[e] IN
         \/ Stuck(e)'
         \/ \E m, n \in Email : AdminIssue(m, c) \/ EditCustomer(m, n, c)
         \/ \E n \in Email, d \in Customer \union {Unlinked} : EditCustomer(MailOf[c], n, d)
<1>1. BillingInv /\ JobHasRow /\ [Next]_vars => \A e \in Paid : Stuck(e) => step(e)
  BY StuckStep
<1> QED BY <1>1, BillingInvariant, JobRowInvariant, PTL DEF Spec, OnlyAdminsUnblock

=============================================================================
