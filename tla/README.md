# Formal model of YgLicenseServer

TLA+ modules, TLC configurations and TLAPS proofs kept beside the license server.
Paths of the form `services/check.py` are relative to `src/app/`. `PROJECT.json`
is the machine-readable index: components, runs, the source lines each definition
stands for, a mutant for every property, findings, hazards and theorems.

1. [The system](#1-the-system)
2. [Plan](#2-plan)
3. [Modules and how they correspond to the code](#3-modules-and-how-they-correspond-to-the-code)
4. [Runs, bounds and what they show](#4-runs-bounds-and-what-they-show)
5. [Fairness](#5-fairness)
6. [Proofs](#6-proofs)
7. [Only model-checked, and not modelled](#7-only-model-checked-and-not-modelled)
8. [What came up](#8-what-came-up)

## 1. The system

A FastAPI application (one uvicorn worker) that sells and checks licenses: installs
of a licensed product send heartbeats (`/v1/check`) and get a signed token back,
Stripe reports payments, admins work through HTML pages and a JSON API, and scripts
started by systemd timers do the rest. All state is in one database, SQLite or
Postgres, through SQLAlchemy's synchronous ORM.

How the pieces run decides which behaviours are hard:

* Synchronous handlers run in a thread pool, each with its own session and its own
  transaction (`db.py get_db`). Nothing takes a row lock. A handler loads rows,
  computes, and at its commit the ORM writes **only the columns that differ from what
  it loaded**, so overlapping handlers mix their columns rather than overwrite each
  other's rows.
* The Stripe handler is a coroutine without an `await` between its first database
  access and its commit: two Stripe events never overlap, an admin's thread and a
  Stripe event do.
* Webhooks are written to an outbox table in the transaction that causes them and
  sent after its commit, by the handler that caused them, by the retry worker
  (a separate process, one pass at a time) and by an admin's Retry button.
* Sessions are opened with `autoflush=False`: a bulk `UPDATE` does not see objects
  that were added before it in the same transaction. SQLite does not check foreign
  keys here, Postgres does.

### Components

| Component | State | Operations | Hard part | What makes it correct |
|---|---|---|---|---|
| Webhook retry queue (`webhooks.py`, `scripts/retry_webhooks.py`, `routers/admin_ui/webhook_deliveries.py`) | `webhook_deliveries`: status, attempts, next_attempt_at | enqueue, attempt after commit, worker pass, admin Retry, test probe | three kinds of sessions attempt one row without a lock; lost answers; crashes; one row that raises | no event is given up before its seven sends, none stays pending for ever, "delivered" is true, the counter stays a valid backoff index |
| License webhook settings (`services/licenses.py`, `services/check.py`) | URL, secret, who set the URL, http flag of a license | edit form, webhook form, JSON API, convert to self, heartbeat registration | long sequences of edits; stale forms; a heartbeat that overlaps an admin | a URL has a secret, http needs the opt-in, an admin's URL is locked and its secret is never disclosed, a self-registered channel recovers |
| Stripe billing (`stripe_webhook.py`) | customers, licenses, `processed_stripe_events` | invoice paid or failed, subscription deleted, admin issue, status and expiry edits, edits of a customer's address and Stripe id | reordered and repeated events, a crash between mail and commit, admin commits in between | each event is applied once and in full, a renewal extends the license it belongs to, a refused payment can be repaired by an admin |
| License lifecycle and tokens (`services/licenses.py`, `services/check.py`, `services/products.py`, `signing.py`) | licenses, installs, audit events, deliveries, tokens in the field | issue, heartbeat, status, edit, single and bulk delete, product delete | a handler that loaded a row before another revoked or deleted it; foreign keys | revocation, expiry and deletion reach every client in time; a deletion leaves nothing behind; webhooks tell the truth |
| Expiry warnings (`scripts/send_expiry_warnings.py`) | `events` of type `expiry_warning_*` | daily pass | mail before commit, one failing license, memory per threshold and not per term | one warning per license, threshold and term; a term is warned at every threshold |
| Audit events and pruning (`models.py`, `scripts/prune_events.py`) | `events` | autofill of the subject, weekly prune | batches next to writers | what other code reads back from events is never pruned |
| Backup, restore, retention (`backup.py`, `backup_s3.py`, `services/backups.py`, `scripts/run_backup.py`) | archive files, S3 objects, the whole database | export, safety snapshot, restore, sweep by age and count | tables read one by one, wipe and load, failing uploads | a restored database holds whole transactions; what a restore takes away is in a snapshot |
| Secret envelope and KEK rotation (`keystore.py`, `scripts/rewrap_secrets.py`, `main.py` readyz) | which key each stored secret is wrapped under | product creation and deletion, rotation of the env file, restart, rewrap batch, readiness, removal of the old key | products made or deleted meanwhile, lost messages, a second rotation; the admin's TOTP secret | no product's secret outlives the key it needs; "rotation complete" is true |
| Admin login and MFA (`services/mfa.py`, `routers/admin_ui/auth.py`, `_deps.py`) | TOTP secret, recovery codes, cookies | enrol, verify, login, recover, disable | read-modify-write of the list of codes; a factor that is replaced step by step | a recovery code works once; an enabled factor is one the admin has proved to hold |
| Customers (`services/customers.py`) | customers (the rows of `StripeBilling`) | edit, list | unique e-mail and Stripe id; an edit while an event of that customer is handled | an id belongs to one row, payments go to the row that has it |
| Feature presets (`services/presets.py`) | presets | create, edit, delete | little: nothing reads them back | |
| Pagination, listings, exports (`pagination.py`, `routers/exports.py`) | the cursor a client holds | keyset walk over licenses or customers | rows that come and go between two pages, page boundaries, ties | no row twice, none missed |
| URL safety, signing keys (`security.py`, `signing.py`, `license_keys.py`) | none | URL shape, address resolution, EdDSA, hashing | mostly external | |
| Application shell, templates, migrations, deployment | none of their own | | | |

Interactions: status changes, edits and deletions *enqueue* rows of the retry queue;
both registration by heartbeats and the admins' forms write the *settings* the queue
sends to; Stripe and the admins write the *same license rows*; heartbeats read those
rows and leave installs, events and tokens; backups copy and restore everything,
the dedup table and the outbox included.

The principal hazards are in `PROJECT.json` under "hazards", each at the line where it
bites, with the properties that cover it or the reason why none does.

## 2. Plan

Order: what loses money or customers first.

| Step | Module | Composes / refines | State |
|---|---|---|---|
| 1 | `WebhookOutbox`, `WebhookQueue`, proofs | the queue implements the abstract outbox | done |
| 2 | `WebhookConfig`, proofs | | done |
| 3 | `PaymentLedger`, `StripeBilling`, proofs | the handler implements the abstract ledger | done |
| 4 | `LicenseRows`, proofs | license, product, install, event and delivery rows together | done |
| 5 | `SnapshotStore`, `Backups`, proofs: table-by-table export next to writers, safety snapshot, wipe and load, local retention | backups implement the abstract store | done, without S3 |
| 6 | `ExpiryWarnings`, proofs: the daily pass next to renewals, deletions, failed mails and crashes | | done |
| 7 | `Keystore`, `KekRotation`, `AdminMfa`, proofs | `Secrets` composes rotation and second factor over one KEK | done; restoring an archive from before a rotation is planned |
| 8 | `Listing`, proofs | | done |
| 9 | `StatusDelivery`: license status changes through the queue, order of arrival at the receiver | `LicenseRows`' announcements over `WebhookOutbox` | planned |
| 10 | abstract specifications of a license's life (one step per handler) and of a recovery code's life | `LicenseRows`, `AdminMfa` refine them while handlers do not overlap | planned |

Runs: per component one run at the smallest instance in which two actors collide and
a third step (crash, tick, retry) falls in between, liveness in the same run where
something must eventually happen, and one more where a statement of the repository is
violated. Larger instances add little once the safety properties are proved for every
value of the constants, so the instances are kept small where a proof exists. Every
component has a proof module, and every invariant, action property and refinement of a
passing run is a theorem; only its liveness is not. The type invariants and the other parts
of the inductive invariants were checked by TLC on the same instances before they were
proved; they are theorems (`TypeCorrect` and the `...Invariant` of each proof module) and
no longer part of the runs.

## 3. Modules and how they correspond to the code

Common conventions: a handler that reads, computes and commits is a *load* step and a
*commit* step with everybody else's steps in between; the loaded values live in a
record per session (`session`, `work`, `job`); a commit writes the columns that differ
from the loaded ones. What is a single transaction without a read that matters is one
step. Payloads, wording, logging and e-mail texts are left out. A definition marked
"mutant" stands before the one it distorts and is used by nothing else.

**`WebhookOutbox`** is what the queue promises: an event that was accepted is owed until
the receiver has it or the schedule is used up; an operator may reopen it.

**`WebhookQueue`** is `webhook_deliveries` with its three kinds of sessions.
`TryDeliverLoad / Deliver / StoreOutcome` are `try_deliver` before, in and after the
POST; `TryDeliverSkip` its early return; `DeliverRaises` an exception out of `deliver`
(a URL with an out-of-range port, for one), which ends a handler's attempt and a whole
worker pass; `WorkerPass` is `retry_webhooks.run`; `RetryLoad / RetryCommit` the Retry
button; `RecordTest` the terminal row of a `license.test` probe; `CrashWeb`,
`CrashWorker` lose what is in memory. `next_attempt_at` is abstracted to the
sequence `due`: pending rows whose time has come, oldest first, because order and
"has it come" are all the code asks of it.

**`WebhookConfig`** is one license's four webhook columns. `ApplyWebhookConfig`,
`EditLicense`, `ConvertToSelf`, `SelfRegister` are the functions that compute a row;
`Save / SavePlain / Configure / Convert / Check` the handlers that load and call them;
`Commit` the column-wise write; `Echo` the response of `/v1/check`, which tells the
client the secret of a self-registered URL. A secret is the number of its generation.
`OpenForm` is an edit form left open for as long as one likes. Rows from before secrets
existed (`Legacy`), the installs' own and those the migration ascribed to an admin, are
initial states; 0 is "no secret" and never one an admin held. `overlapped` is history: two handlers have been
between load and commit of the row at once (`Busy`).

**`PaymentLedger`** is what a paying customer is promised: each event is booked once, an
invoice takes the term its customer has paid for one period further, nothing shortens
that term, and nobody else's event changes it, until an admin has a hand in the license.

**`StripeBilling`** is the Stripe handler for one product. `InvoicePaid` and `StatusEvent`
(of which an ignored event is the case without an effect) are its reads up to the point
where it mails (`SendKey`) or commits (`Commit`); `Crash` is a death or a refused commit;
`AdminIssue`, `SetStatus`, `EditUntil` and `EditCustomer` (another address, another Stripe
id, or none) are what admins do to the same rows, also while the handler holds them. A repeated delivery of a
recorded event is a stutter. A license's `payer` remembers that only one customer's
invoices ever touched it, so that what it is worth can be compared with what was paid.
`Ledger` maps it to `PaymentLedger`: a customer's term is that of the license with its
`payer`; he is new while nothing was paid and his row has no license.

**`LicenseRows`** is the rest of the life of license rows: `Load*` and `Commit*` of
issue, heartbeat, status change, edit, single and bulk delete and product delete, and of
Stripe's `CommitInvoice` (extend and set active, or issue for a newcomer) and `CommitMark` (delinquent or revoked for
every license of the address), which change a status without announcing it. What becomes
of the payment itself is `StripeBilling`'s; here it is one more writer of the rows. A
term ends `Term` or `Period` days after its start, or on an `EditDay` of an admin. `enforced` tells whether the database checks foreign keys. `Upsert` is the install
row, `Expiry` the token's `exp`, `Unlink` the `UPDATE events SET license_id=NULL`,
`DeleteFails`, `ChangeFails`, `CheckFails` the constraint and stale-row errors. `usable`,
`term`, `raced` and `doubt` are history variables that no guard reads (`Remember` brings the first
two up to date in every step). `doubt` says why the row and the last announcement may
differ: a Stripe handler has changed the status without a word, or two handlers that write it have overlapped. An announced change whose handler had the row for itself
takes the doubt away.

**`SnapshotStore`** is what backups and restores promise, without tables: a backup is the
database at one moment; a restore replaces what the database had at one moment by the
archive it was asked for, and what was committed since stays. It says nothing of a
transaction that came or went while somebody was in the middle of reading or emptying the
tables (`void`).

**`Backups`** knows of the database which rows of which committed transaction each table
holds. `ExportTable` is one turn of the loop in `export_archive`, `WriteFile` the file that
`create_backup` leaves, `Sweep` the local retention, `DeleteTable` one turn of the wipe,
`LoadTables` the inserts and the commit of `import_archive`, `Rollback` its `except`;
`BackupCreate`, `RunBackup`, `RestoreBackup` start a thread on its way through them.
`Restored` is what the load leaves: what was committed after a table's `DELETE` stays.
Any archive ever written may be uploaded again (`made`). `torn` and `exposed` are history:
the transactions an export or a wipe saw half of, and those that came too late for a
snapshot or whose snapshot was deleted. `Store` maps it to `SnapshotStore`: `void` is `torn`,
and of an archive, a copy in memory or an emptied table count the transactions it has whole.

**`ExpiryWarnings`** is `send_expiry_warnings.run`, by its timer and by hand. `Start` is the
query, `Goes` what a pass takes on to its next step, `Turn` one turn of the loop up to the
mail, `Dispatch` and `SendFails` the outcomes of `send_expiry_warning_email`, `Record` the event and its commit, `Abort` what an
exception or a death leaves to the next day. A pass computes with the values of its query
until its first commit and loads each license again after it (`fresh`, since a commit
expires the session's objects). `SetUntil`, `SetStatus`, `Delete` are the commits of other
handlers. `sent`, `again`, `missed`, `spent`, `since` are history: the mails of the
present term and the reasons the code may have for one too many or one too few.

**`Keystore`** is the envelope: a stored secret is plain or wrapped under one of the keys,
numbered in the order they are generated. `server` is the key the running process read at
its start.

**`KekRotation`** is what the operator and `rewrap_secrets.py` do with those keys, next to
products that are created (under the server's key) and deleted. `RotateSecrets` and
`Restart` are `deploy.ps1 -RotateSecrets -PushEnvOnly`, `StartRewrap` the script up to the
loaded rows, `Changed` and `Migratable` its two `_rewrap_field` functions, `RewrapCommits`
its only commit, `RewrapRollsBack` its `except` and its death, `ClearPrev` what the last
message (`told`) and `.env.prod.example` ask of the operator. `Degraded` is a red `/readyz`.
A product's three secrets are written and rewrapped together and are one value.

**`AdminMfa`** is the row of `admin_mfa`, the two cookies of one browser and the handlers,
each with its load and its column-wise commit; `Disable` goes on to a second transaction
(`Clear`) after the one of `verify_login`. Which secret a typed code belongs to is the
only thing about TOTP that matters: a right code is typed or the request is refused and
changes nothing. `proven`, `spent`, `lost` are history: secrets whose code was typed at
enrolment, codes that were redeemed or replaced, and columns written over a change the
writer had not loaded.

**`Secrets`** puts both under one server. A restart with new secrets ends the handlers of
the old process and invalidates every cookie, since the session secret rotates too.

**`Listing`** is `paginate` under its callers: a client walks a list from its first page to
the page without `next_cursor` while rows are flushed (which stamps `created_at`), commit
later or never, and are deleted. `Behind` is the keyset filter, `LastServed` the row of which
the next cursor is made, `KeyFails` the case in which that row is a tuple and no `key_fn`
was passed. `stayed` is history: rows that were in the list from the first page on.

**`MC*`** give the constants their values; **`*Proofs`** hold lemmas and theorems.

## 4. Runs, bounds and what they show

| Run | Distinct states | Shows |
|---|---|---|
| `queue` | 436 137 | counters, abandonment and "delivered" stay truthful under every interleaving of a handler and a worker that takes one of several due rows per pass, lost answers, Retry, a row that raises, a test probe and a crash; the queue implements the outbox; a delivered row nobody is at work on is never sent again; every committed event is settled, unless a row that raises is due |
| `queue_poison` (violated) | | a row whose send raises keeps the rows behind it pending for ever |
| `config` | 982 137 | two handlers at once, forms of any age, any number of heartbeats of two installs: safe until handlers overlap; after whatever overlap heartbeats alone repair a self-registered channel, and once repaired no heartbeat changes its secret or takes it away |
| `billing` | 651 988 | events in any order, repeats, a crash and admin actions: paid for exactly, one license per customer row, no more dead keys in the mail than handlers that died; the handler implements the ledger; an invoice is applied unless somebody else's row has its customer's address, and then only an admin's edit helps |
| `billing_clash` (violated) | | an invoice for an address that has a row without the Stripe id is refused for ever |
| `rows_safety` | 2 226 549 | two overlapping handlers, of admins, heartbeats and Stripe, on a license from issue to deletion, on both kinds of database: tokens end in time, webhooks tell the truth, deleted is deleted |
| `rows_deletes` (violated) | | with foreign keys, some deletions always fail |
| `backups_safety` | 2 815 000 | two threads that back up, restore and sweep next to commits, crashes and deleted archives, on both kinds of database: transactions stay whole and nothing is lost; they implement the store |
| `expiry_daily` | 1 236 000 | daily passes and one by hand over two licenses that others renew, revoke and delete: a term is warned at each threshold it passes through and no earlier term used, and once; a recorded warning is never mailed again |
| `expiry_renewed` (violated) | | a license that was warned and then renewed in place lapses without that warning |
| `secrets` | 1 659 126 | two rotations next to products made and deleted, lost messages and failing batches, and two handlers of the second factor at once: keys are held, codes work once, a factor that can no longer be checked lets nobody in |
| `listing` | 415 138 | a walk over five rows in pages of one or two, while rows are inserted, rolled back and deleted: nothing twice, nothing missed |

The four runs marked "violated" each check one statement of the documentation or a
comment that the code does not keep; section 8 and "findings" quote the lines.

Bounds, and why they are enough:

* *Queue.* `MaxAttempts = 2` (7 in the code): a first and a last attempt, and a stale
  counter of one session that meets the other's increment; the proofs have any number.
  Two healthy rows and `Limit = 1` make a pass that has to choose, so that a row could be
  starved by another that fails, is revived by Retry and falls due again; a worker that
  took the newest row first would be. One request handler and the worker are any two
  attempts of a row at once; three at once are left to the proofs. `queue_poison` has
  `Limit = 2`, a pass with a row after the raising one. One crash at any point; a second
  one would begin in a state the first already allows.
* *Settings.* An https and an http URL: "unchanged", "changed", "other scheme". Two admin
  requests, since any overlap is of two handlers and the sequences of any length without
  an overlap are covered by the proofs; a heartbeat costs nothing. Two installs, so that
  one learns a secret that another's late commit replaces, and rows from before secrets, of either source.
* *Billing.* Period = 1 day and MaxTime = 2: a license can be renewed early, on its last
  day and after it has lapsed. Two invoices and a cancellation of one customer come in
  every order, so an invoice meets a revoked license; a second Stripe id and a second
  address are there for the admin's edits to give to a row. One edit and one crash at any
  point, two licenses.
* *Rows.* One license, one install, two threads: a collision of every pair of handlers.
  `Term = Period = 3`, `TTL = 2`, `Lag = 1`, `MaxTime = 2`, terms up to day 5: a token issued
  on day 2 for a license that was revoked on day 0 outlives what the revocation allows,
  one for a license that an edit (`EditDay`, 0 or 4) cut short outlives its term, and a
  handler may see midnight; so both halves of `TokensEndInTime` can fail. A second license adds only batches in which another
  license fails the transaction; the proofs below have any number, and the violated
  run has two licenses.

* *Backups.* Three tables and transactions that write two and three of them: a commit can
  fall before, between and after what an export or a wipe touches. Three jobs are a
  backup and two restores, one after the other or overlapping; `Keep = MaxAge = 1` and
  three seconds let both branches of the sweep delete.

* *Warnings.* Two licenses: one behind another in the loop, before or after the commit
  that reloads it. Thresholds of one and three days are a window of one day and one of
  several; four days let a term pass through both. `MaxUpsets = 2` bounds commits of
  other handlers, passes by hand, failed mails and crashes together: any pair of them at any
  points. Three were tried as well (18.5 million states, no violation). A pass ends on
  the day it began. `expiry_renewed` needs one license, the timer's pass and one renewal.

* *Secrets.* Three keys are two rotations, so that the second overwrites a PREV that is still
  needed; two products let one stop the batch of the other, be created between its load
  and its commit, or be deleted there. Two enrolments and two sets of two codes let a
  redeemed, a replaced and a fresh code meet; seven requests are an enrolment with its
  verification, a login or a disable, and whatever two others may do in between.
* *Listing.* Five rows are three pages with one row inserted or deleted at any place; two
  moments give ties within and across a page. Limits below, at and above the bounds of
  `clamp_limit`, and a different one for each page.

Deadlock checking is off in the billing, row, backup and warning configurations, where time ends
at `MaxTime`, jobs are numbered and every event may have been handled.

## 5. Fairness

* A handler or worker that runs takes its next step: weak fairness of `TryDeliver`,
  `RetryCommit`, `Commit`, `SendKey`. Every HTTP call in the code has a timeout.
* The retry timer (`deploy/gcp/yg-license-retry-webhooks.timer`, every 5 minutes) keeps starting passes
  and time passes: weak fairness of `WorkerPass` and of `BackoffElapses` of every row.
  Nobody has to press Retry.
* `EveryEventSettles` is about behaviours without a due row that raises, and
  `UnblockedPaymentsAreApplied` about invoices that from some moment on no other row's
  address blocks: the exceptions are the two findings, each with its own violated run.
  `PoisonBlocksTheWorker` and `OnlyAdminsUnblock` say of both exceptions that nothing but an
  admin's action ends them.
* Installs send heartbeats for ever: weak fairness of `Heartbeat`.
* Stripe repeats a delivery until it is answered with 200: strong fairness of the
  handling of each event, because other deliveries occupy the handler again and again.
  Stripe in fact gives up after about three days. The fairness idealises that: an outage,
  or an address that stays blocked, of more than three days is outside `UnblockedPaymentsAreApplied`.

No admin action is fair, and crashes are finite in number, never fair.

## 6. Proofs

All theorems are for every value of the constants that meets the ASSUME of the module
(finite sets of the right kind, at least one attempt, and so on; no bound of the runs
is used other than as "some natural number").

Three kinds of results. An *invariant* of a run follows from the inductive invariant of its
module. An *abstract specification* (`WebhookOutbox`, `PaymentLedger`, `SnapshotStore`) is
implemented: initial states map to initial states and every step that starts and ends in
the inductive invariant maps to a step or a stutter. An *action property* says that some
state, once reached, is left by nobody or only by a named step (`DeliveredIsFinal`,
`SettledStaysSettled`, `OnlyAdminsUnblock`, `DeletedForGood`, `RecordsAreFinal`,
`FactorFailsClosed`): it is proved action by action, like an invariant that holds from
that state on, and what makes it hard is what handlers loaded before.

**Queue** (`WebhookQueueProofs`): `QueueInvariant`, from which `TypeCorrect`,
`NeverGivenUpEarly`, `BackoffIsDefined`, `DeliveredIsTruthful`, `ProbesStayTerminal`; `QueueImplementsOutbox`, `DeliveryIsFinal` and `PoisonBlocks`. `QueueInv` adds to the properties what sessions hold between
load and write-back (`HeldValuesAreCovered`): a counter in memory never exceeds the sends that
really went out. Without it the properties are not inductive, since a stale counter is
written over whatever the row says. `DueRowsArePending` is needed for the worker's first
row, which is attempted with the values of the SELECT. The argument: lost updates of
the counter only ever lower it, so the queue tries more often and never less.
`DeliveryIsFinal` speaks of a row no session is at work on with an older status (`Settled`):
every session that comes upon it later reads "delivered" and leaves. `PoisonBlocks` is the
finding `queue_poison` for any queue: the oldest due row stays the oldest whatever is enqueued,
sent or retried, except by an admin's Retry of it (`OldestStays`), and a worker that
raised at it has stored nothing (`PoisonIsNotStored`). It is not in a run; TLC agrees with it on the instance of `queue`.

**Settings** (`WebhookConfigProofs`): `ConfigInvariant` and from it `TypeCorrect`,
`ChannelsStayComplete` (which excepts only a row without a secret that nobody has written
since, whoever set its URL), `HttpStaysOptIn`, `SecretsRetire`, `AdminUrlsAreLocked`,
`PlainSavesKeepChannel`, for any number of installs, admins and threads, of which the last five say what holds until handlers overlap
(section 8 says what then breaks). The strengthening (`Serial`) says that what the only
handler loaded is still the row, and that what it will write is `Sound`; each
function that computes a row has a lemma that it maps sound rows to sound rows. The last
theorem adds `PlainIsPlain`: without an overlap the form is still the one a plain save was
computed from. `ChannelsStaySettled` needs no such proviso: heartbeats that overlap and
commit late are part of it. It rests on `HeartbeatsRegister`, that what a heartbeat is about to
write is what `SelfRegister` made of the row it loaded, and on
`LateHeartbeatsKeepTheChannel`, that of a complete row it therefore never writes the secret.

**Billing** (`StripeBillingProofs`): `BillingInvariant` and from it `TypeCorrect`, `EventsApplyOnce`,
`PaymentsBuyExactly`, `OneStripeLicense`, `MailedKeysWork`, with admins interleaved and any
number of crashes. `JobIsCurrent` is the strengthening: the extension in the handler's memory is the
right one for the row as it is now, because whoever could have changed the row has
cleared its `payer`; `RowsAreLinked` ties a license with a payer to the only row with that
Stripe id. Counting (one more recorded invoice is one more period) is a lemma on
cardinalities. `MailedKeysWork` counts the keys that were mailed and belong to no license: it rests
on `OnlyCrashesLoseKeys`, that no step makes such a key but the death of the handler that
holds one, and then only that one. `BillingImplementsLedger` needs that the handler's customer row exists
or is about to be inserted (`JobHasRow`); the term of a customer is then that of one license
before and after each step (`TermOf`), an admin's step takes terms away or leaves a customer
as if he were new, and a commit is the one step that books. `RefusedUntilAdmin` says of an
invoice whose customer has no row while his address has one that no event, repeat, crash or
day gets it through.

**Rows** (`LicenseRowsProofs`): `RowsInvariant` and from it `TypeCorrect`, `RevocationTakesEffect`
(whatever overlaps), `DeletionLeavesNothing` and `InstallsStayUnique`
(for licenses whose handlers did not overlap, and the first of the two always where
foreign keys are checked), `WebhooksTellTheTruth` (from the first announced change that is
alone with the license to the next unannounced or overlapping one, however many of these
there were before) and `DeletionIsFinal`. The
strengthening (`WorkIsCurrent`) says of each loaded row that its term was once granted
and that a heartbeat's license was usable on the day of the load, which is at most `Lag` days ago. One
generic lemma for loads and one for commits carry the per-license argument; each handler
shows the hypotheses of one of them. `DeletionIsFinal` is about the commits of handlers that loaded the row
before it was deleted: the ORM's UPDATE finds no row and the transaction fails. With
foreign keys it needs `NoOrphans`, that under a deleted product there is no license and none can come.

**Backups** (`BackupsProofs`): `BackupsInvariant` and from it `TypeCorrect`, `RestoresAreConsistent`,
`RestoresCanBeUndone` and `BackupsImplementStore`, for any number of tables, transactions and threads and with any
retention. The properties speak of the database and the files; what makes them inductive
is what the threads hold (`SeenIsWhole`, `Safe`): an export has read exactly what the
tables have of a transaction, a wipe has removed exactly that, and a restore that may
take something away has it in its snapshot before. `OneRestores` is needed for the
former: on SQLite the write lock gives it, on Postgres the assumption that one admin
restores at a time. For the refinement, a transaction that is not torn is in a finished
copy whole or not at all, and whole exactly if the database had it then; so the last table read is the
moment of the abstract copy, the last table wiped that of the abstract clearing, and the
other turns of both loops are stutters. A load makes torn, and so void, what changes under
somebody who reads or wipes at that moment.

**Secrets** (`SecretsProofs`): `SecretsInvariant` and from it `TypeCorrect`,
`ProductKeysAreHeld`, `EnabledFactorIsProven`, `RecoveryCodesAreSingleUse` and
`FactorStaysClosed`, for any number
of products, keys, enrolments, sets of codes and handlers. `RotationInv` adds that while the script
runs each product is as it was read, deleted, or new and under the present key; that is why
a batch that commits leaves nothing under PREV, and `told` means what it says. For the
second factor, `Decided` says of each handler that what it will write is a function of what
it loaded, `FreshIsNew` that codes generated but not committed are nowhere else,
`CodesAreGenerated` that the next set is therefore new, and `KeysArePast` that no secret is
under a key after the server's. `ResetKeeps` carries every step that only drops handlers. `FactorStaysClosed` is the other side of
the lockout in section 8: every way to a session or to a disabled factor decrypts the secret
first, and `KeysNeverReturn` says that a key the server no longer holds is never held again.

**Warnings** (`ExpiryWarningsProofs`): `ExpiryInvariant` and from it `TypeCorrect`,
`RunsAreIdempotent`, `TermsAreWarned` and `RecordedWarningsAreFinal`, for any licenses, thresholds and runners.
`MailsAreRecorded` is why a mail goes out once: what was mailed is recorded or held by the
one pass that is about to record it. For the other promise `PickedAreMailed` follows the days of a term: what the
days left picked on a day the timer has come to was mailed, or is `Ahead` of its pass, or
has one of the reasons; `TimerIsCurrent` says that a pass which works with the values of
its query works with the present ones, or the license has changed and the term is new.
`RequiredIsPicked` connects the thresholds a term passes through with those days.
`RecordedWarningsAreFinal` needs no history: a pass picks only what is not recorded, so a
warning that no pass had picked before its event came is not mailed again while the license is there.

**Listing** (`ListingProofs`): `ListingInvariant` and from it `TypeCorrect`,
`NothingIsServedTwice` and `WalksAreComplete`, for any rows, limits and clock, and whatever
limit each page asks for. Inductive is that no row that was served is behind the cursor and
that every row that stayed was served or is behind it. The page step rests on
`KeysAreOrdered`, the order on (created_at, id) being total and transitive, and on the key
of a row never changing once it is in the list.

## 7. Only model-checked, and not modelled

Only TLC: liveness (`EveryEventSettles`, `ChannelHeals`, `UnblockedPaymentsAreApplied`),
which TLAPS does not reach, and the four violated statements. What the provers can say
about the liveness findings is their reason: `PoisonBlocks` and `RefusedUntilAdmin`. No
module has a recursive operator.

Not modelled yet: steps 9 and 10 of the plan, the effect of a restore on the rows it brings back
(archives from before a rotation, delivered webhooks that are pending again, forgotten
Stripe events), and the pruning of events (nothing reads back what it prunes). Left out of
the modelled components: audit
events of the settings handlers and of backups; dry runs of the expiry script, a missing
mail key and customers without an address; the copies on S3 and their sweep; what
`read_manifest` and the schema checks refuse, which is before anything is touched; deletions
by other handlers while a backup runs; overlapping restores on Postgres; Stripe signatures, events without an id, a customer or an
e-mail (a log line); the payload-decoding error of `try_deliver` (every payload is written
by `json.dumps` of a dict); editing a product; customers' names; the exports, the dashboard and
the events page, which are single queries; a KEK that is malformed or required, a dry run
of the rewrap script and a push of the env file without a restart; rate limits and CSRF
tokens. External and
modelled only by their effect: HTTP, mail, name resolution, EdDSA, Fernet, Stripe, the
clock, process deaths.

Not planned: feature presets, the application shell (boot validation, middleware, rate
limits of a library), templates, browser code, migrations and deployment scripts. They
keep no state of their own or nothing reads it back.

## 8. What came up

Violated statements, each a run and a finding:

1. `queue_poison`: `deliver()` resolves the host outside any `try`. A URL with a port above
   65535 passes the shape test, raises there, and the worker gives up every pass at that
   row. `webhooks.py:112`: "Don't raise".
2. `billing_clash`: an admin issues a license to an address, the same customer then pays
   through Stripe: the insert of a second customer row with the address fails on every
   repeat. The same happens when an admin changes the Stripe id of a paying customer's row,
   or takes it away. `OnlyAdminsUnblock` says what ends it. `stripe_webhook.py:9`.
3. `rows_deletes`: with foreign keys, `license:deleted` events added to the same transaction
   still carry the product's id, which the bulk UPDATE did not reach, so a product that
   has a license cannot be deleted; a license cannot once a delivery row names it.
   (`processed_stripe_events.product_id`, which the model leaves out, keeps a product too.)
   `services/products.py:98`.
4. `expiry_renewed`: warnings are remembered per license and threshold, not per term. A
   license that was warned, was renewed in place and lapses at the end of its new term is
   not warned again at the thresholds it has used.
   `docs/plans/2026-05-18-overnight-handoff.md:57`: "emails customers at three thresholds
   before their license lapses". `UnusedThresholdsAreWarned` is what is left of it.

Seen while modelling, against a statement of the repository. The properties make the
exception, so that they say what holds besides it:

* The lock on admin-managed URLs is tested on the row a heartbeat loaded
  (`services/check.py:66`): an admin's commit between that and the heartbeat's is
  overwritten, and the row may end with the client's URL marked "admin". `check.py:67` and
  `models.py:144` state the lock without exception. `AdminUrlIsLocked` is checked and proved for
  handlers that do not overlap.
* An edit form older than the URL it shows puts the old URL back, as an admin's, although
  a plain save "must NOT re-write the webhook" (`services/licenses.py:299`).
  `PlainSaveKeepsWebhook` therefore speaks of forms that show the current URL.
* Two logins with one recovery code that overlap both succeed, and a login that overlaps a
  regeneration brings the old codes back, although `services/mfa.py:99` and `models.py:377`
  call the codes single-use. `CodesWorkOnce` says that nothing else does.
* Safety snapshots are named by the second: two restores within one second keep only the
  second's snapshot, and what the first took away is gone. `backup.py:57` ("never
  auto-pruned"), `services/backups.py:104` and the changelog of 1.3.0 promise that "a bad
  restore is one more restore away from undone". `exposed` excepts it.
* What is committed between the reading of the snapshot and the wipe of a restore is in
  neither the snapshot nor the restored database; nothing stops handlers during a restore.
  That, too, is against `services/backups.py:104`, and in `exposed`.
* The rewrap script leaves the admin's TOTP secret under the old key, and a second rotation
  overwrites the only copy of a key that products may still need; it nevertheless says "KEK
  rotation complete. Remove LICENSE_KEY_ENCRYPTION_KEY_PREV" (`rewrap_secrets.py:157`), and
  `keystore.py:4` claims that its key wraps "every secret stored at rest", while the list
  behind it has those of products only. After a rotation an
  admin with an enabled second factor cannot log in, with a recovery code neither, because
  `verify_login` decrypts the secret first; all cookies died with the session secret.
  `KeysAreHeld` is about products and excepts keys that were `overwritten`;
  `AdminHasTheFactor` excepts a secret under an older key than the server's.
* The key of a new license is mailed before the commit: a crash in between leaves a
  customer with a key that never works, and the repeated event mails another.
  `stripe_webhook.py:12` says that the event is recorded "BEFORE any side effects fire" and
  `models.py:346` "before any side effect": it is inserted before, but committed after.
  `MailedKeysExist` allows one such key for each handler that died.
* `/admin/customers` paginates rows `(Customer, count)` without the `key_fn` that
  `pagination.py:117` asks for (`services/customers.py:78`): with more than 100 customers the
  page raises instead of rendering "a Next link when there's more"
  (`routers/admin_ui/customers.py:23`). In `Listing` this is `KeyFails`; with `Unkeyed = TRUE`
  TLC reaches a failed walk as soon as there is one row more than a page.
* Stripe's events change the status of a license without a webhook, so that its receiver
  learns of a revocation or a reactivation from its next heartbeat only. `CHANGELOG.md:12`
  has "every transition" of `set_status` in mind. `LastWordIsTrue` excepts the time from
  such an event to the next announced change.

Behaviour that no document speaks against:

* A license deleted while the expiry pass runs, or a failing commit, ends the pass; the licenses behind it
  wait for the next day. A pass by hand that overlaps the timer's may mail a warning twice.
* A failing last attempt that overlaps a successful one turns the row from delivered
  into abandoned (all seven sends did go out, so `AbandonedOnlyAfterAllTries` holds).
* A status equal to the loaded one is announced and not written, so of two overlapping
  status changes the row may end with neither's word.
* The last delivered Stripe event has the last word: a late invoice makes a revoked
  license active again.
* Two overlapping first heartbeats of an install both insert its row
  (`services/check.py:121`, no lock and no unique constraint), and `one_or_none()` then
  raises on each later heartbeat of it. `OneRowPerInstall` holds for licenses whose
  handlers do not overlap.
* An archive whose tables were read before and after a commit may have children without
  parents. SQLite loads it; Postgres refuses it, after the safety snapshot and without harm.
* A product created after the restart of a rotation and before the script runs is under
  the new key, which `--migrate-from-prev` cannot decrypt: the batch rolls back on every
  run until that product is gone. A second rotation before that overwrites the only copy of
  the old key (`overwritten`).
* A Retry while an older attempt of the row is in flight: the older one writes its higher
  counter into the fresh schedule, which is then shorter than seven attempts.
