----------------------------- MODULE WebhookQueue -----------------------------
(***************************************************************************)
(* The durable retry queue of outbound webhooks (app/webhooks.py, the      *)
(* worker scripts/retry_webhooks.py and the admin's Retry button in        *)
(* routers/admin_ui/webhook_deliveries.py).                                *)
(*                                                                         *)
(* A row of webhook_deliveries is attempted by three kinds of sessions:    *)
(* the post-commit hook of the request that enqueued it, the worker the    *)
(* timer starts, and an admin's Retry.  None of them locks the row: each   *)
(* loads it, POSTs to the receiver, and writes back, column by column,     *)
(* what it changed relative to what it loaded.                             *)
(*                                                                         *)
(* Time is abstracted to `due': the pending rows whose next_attempt_at has *)
(* passed, in the order of next_attempt_at.  A backoff takes a row out of  *)
(* `due', the clock puts it back at the end, and writing "now" moves it to *)
(* the end, which is where its next_attempt_at sorts.                      *)
(***************************************************************************)
EXTENDS Integers, SequencesExt

CONSTANTS Row,          \* primary keys of webhook_deliveries
          TestRow,      \* those that record a license.test probe
          Poison,       \* those whose send raises something deliver() does not catch
          Request,      \* request handlers of the web process that run at once
          Worker,       \* the retry worker (a oneshot unit: one pass at a time)
          MaxAttempts,  \* MAX_ATTEMPTS: sends before a row is abandoned
          Limit,        \* rows the worker takes in one pass
          MaxCrashes    \* process deaths considered

ASSUME QueueAssumption ==
  /\ Row # {}
  /\ TestRow \subseteq Row /\ Poison \subseteq Row
  /\ Worker \notin Request
  /\ MaxAttempts \in Nat \ {0}
  /\ Limit \in Nat \ {0}
  /\ MaxCrashes \in Nat

VARIABLES
  status,    \* status column of each row; "none" before it is inserted
  attempts,  \* attempts column
  due,       \* pending rows with next_attempt_at <= now, oldest first
  session,   \* what each session is doing and what it loaded
  batch,     \* rows left of the worker's pass, the current one first
  received,  \* rows whose event the receiver has processed
  tries,     \* sends of each row, counted up to MaxAttempts
  crashes

vars == <<status, attempts, due, session, batch, received, tries, crashes>>

Session == Request \union {Worker}
EventRow == Row \ TestRow
Status == {"none", "pending", "delivered", "abandoned"}
Stage == {"idle", "load", "send", "store", "retry"}

(* A session's stage, the row it works on, and the columns it holds in     *)
(* memory; ok is the answer of deliver().                                  *)
Job == [at : Stage, row : Row, status : Status, attempts : 0..MaxAttempts,
        ok : BOOLEAN]

JobAt(stage, r, st, n, ok) ==
  [at |-> stage, row |-> r, status |-> st, attempts |-> n, ok |-> ok]

Idle == JobAt("idle", CHOOSE r \in Row : TRUE, "none", 0, FALSE)

(* try_deliver's local state after its SELECT; mutant: the attempt is      *)
(* counted before the send as well as after it.                            *)
LoadedAndCounted(stage, r) == JobAt(stage, r, status[r], attempts[r] + 1, FALSE)
Loaded(stage, r) == JobAt(stage, r, status[r], attempts[r], FALSE)
Load(r) == JobAt("load", r, "none", 0, FALSE)

(* The test that ends the schedule; mutant: off by one.                    *)
ExhaustedLate(n) == n > MaxAttempts
Exhausted(n) == n >= MaxAttempts

(* The answers that count as delivered; mutant: anything but an exception. *)
AnyAnswer(reply) == reply \in {"ok", "refused", "lost"}
Accepted(reply) == reply = "ok"

(* The rows Retry takes; mutant: the guard against probes is missing.      *)
AnyRow(r) == status[r] # "none"
Retryable(r) == status[r] # "none" /\ r \notin TestRow

(* The sequence s, without the element e. *)
Without(s, e) ==
  IF Contains(s, e) THEN RemoveAt(s, CHOOSE k \in DOMAIN s : s[k] = e) ELSE s

Init ==
  /\ status = [r \in Row |-> "none"]
  /\ attempts = [r \in Row |-> 0]
  /\ due = <<>>
  /\ session = [s \in Session |-> Idle]
  /\ batch = <<>>
  /\ received = {}
  /\ tries = [r \in Row |-> 0]
  /\ crashes = 0

-----------------------------------------------------------------------------
(* A session is done with its row: a request ends, the worker goes on with *)
(* the next row of its pass, which it will load again.                     *)
Finish(s) ==
  IF s = Worker /\ Len(batch) > 1
  THEN /\ session' = [session EXCEPT ![s] = Load(batch[2])]
       /\ batch' = Tail(batch)
  ELSE /\ session' = [session EXCEPT ![s] = Idle]
       /\ batch' = IF s = Worker THEN <<>> ELSE batch

(* An exception out of try_deliver: rollback; the worker gives up its pass.*)
Abort(s) ==
  /\ session' = [session EXCEPT ![s] = Idle]
  /\ batch' = IF s = Worker THEN <<>> ELSE batch

(* A request commits its change and the row enqueue() flushed, and goes on *)
(* to the post-commit attempt.                                             *)
Enqueue(s, r) ==
  /\ session[s].at = "idle"
  /\ r \in EventRow /\ status[r] = "none"
  /\ status' = [status EXCEPT ![r] = "pending"]
  /\ due' = Append(due, r)
  /\ session' = [session EXCEPT ![s] = Load(r)]
  /\ UNCHANGED <<attempts, batch, received, tries, crashes>>

(* test_webhook: a probe is recorded as a terminal row after its only send.*)
RecordTest(r, outcome) ==
  /\ r \in TestRow /\ status[r] = "none"
  /\ status' = [status EXCEPT ![r] = outcome]
  /\ attempts' = [attempts EXCEPT ![r] = 1]
  /\ UNCHANGED <<due, session, batch, received, tries, crashes>>

(* try_deliver up to the send: a row that is not pending is left alone.    *)
TryDeliverSkip(s) ==
  /\ session[s].at = "load"
  /\ status[session[s].row] # "pending"
  /\ Finish(s)
  /\ UNCHANGED <<status, attempts, due, received, tries, crashes>>

(* Mutant: the status is not looked at. *)
TryDeliverLoadAny(s) ==
  /\ session[s].at = "load"
  /\ session' = [session EXCEPT ![s] = Loaded("send", session[s].row)]
  /\ UNCHANGED <<status, attempts, due, batch, received, tries, crashes>>

TryDeliverLoad(s) ==
  /\ session[s].at = "load"
  /\ status[session[s].row] = "pending"
  /\ session' = [session EXCEPT ![s] = Loaded("send", session[s].row)]
  /\ UNCHANGED <<status, attempts, due, batch, received, tries, crashes>>

(* deliver(): the receiver answers 2xx, or does not take the event, or     *)
(* takes it and its answer is lost.                                        *)
Deliver(s) ==
  LET j == session[s]
      r == j.row
  IN
  /\ j.at = "send" /\ r \notin Poison
  /\ \E reply \in {"ok", "refused", "lost"} :
       /\ session' = [session EXCEPT
                         ![s] = JobAt("store", r, j.status, j.attempts, Accepted(reply))]
       /\ received' = IF reply = "refused" THEN received ELSE received \union {r}
  /\ tries' = [tries EXCEPT ![r] = IF @ < MaxAttempts THEN @ + 1 ELSE @]
  /\ UNCHANGED <<status, attempts, due, batch, crashes>>

(* A URL whose port or host name makes resolve_safe_address raise.         *)
DeliverRaises(s) ==
  /\ session[s].at = "send" /\ session[s].row \in Poison
  /\ Abort(s)
  /\ UNCHANGED <<status, attempts, due, received, tries, crashes>>

(* try_deliver after the send, and the caller's commit.  Only the columns  *)
(* that differ from the loaded ones are written: a failed attempt writes   *)
(* status only when it is the last.                                        *)
StoreOutcome(s) ==
  LET r == session[s].row
      n == session[s].attempts + 1
  IN
  /\ session[s].at = "store"
  /\ attempts' = [attempts EXCEPT ![r] = n]
  /\ status' = [status EXCEPT ![r] = IF session[s].ok THEN "delivered"
                                     ELSE IF Exhausted(n) THEN "abandoned"
                                     ELSE @]
  /\ due' = Without(due, r)
  /\ Finish(s)
  /\ UNCHANGED <<received, tries, crashes>>

-----------------------------------------------------------------------------
(* Mutant: the newest due rows first (a DESC in the SELECT).               *)
WorkerPassNewestFirst ==
  /\ session[Worker].at = "idle" /\ due # <<>>
  /\ batch' = SubSeq(Reverse(due), 1, IF Len(due) < Limit THEN Len(due) ELSE Limit)
  /\ session' = [session EXCEPT ![Worker] = Loaded("send", Last(due))]
  /\ UNCHANGED <<status, attempts, due, received, tries, crashes>>

(* retry_webhooks.run: select the due rows.  The first one is attempted    *)
(* with the values this SELECT loaded, the others after a fresh load.      *)
WorkerPass ==
  /\ session[Worker].at = "idle" /\ due # <<>>
  /\ batch' = SubSeq(due, 1, IF Len(due) < Limit THEN Len(due) ELSE Limit)
  /\ session' = [session EXCEPT ![Worker] = Loaded("send", Head(due))]
  /\ UNCHANGED <<status, attempts, due, received, tries, crashes>>

(* retry_delivery: load the row, refuse a probe ...                        *)
RetryLoad(s, r) ==
  /\ session[s].at = "idle"
  /\ Retryable(r)
  /\ session' = [session EXCEPT ![s] = Loaded("retry", r)]
  /\ UNCHANGED <<status, attempts, due, batch, received, tries, crashes>>

(* ... then commit: an abandoned row becomes pending with a fresh counter, *)
(* every row is due now, and an attempt follows.                           *)
RetryCommit(s) ==
  LET r == session[s].row
      revive == session[s].status = "abandoned"
  IN
  /\ session[s].at = "retry"
  /\ status' = [status EXCEPT ![r] = IF revive THEN "pending" ELSE @]
  /\ attempts' = [attempts EXCEPT ![r] = IF revive THEN 0 ELSE @]
  /\ due' = IF status'[r] = "pending" THEN Append(Without(due, r), r) ELSE due
  /\ session' = [session EXCEPT ![s] = Load(r)]
  /\ UNCHANGED <<batch, received, tries, crashes>>

(* The clock reaches the next_attempt_at of a row that was backing off.    *)
BackoffElapses(r) ==
  /\ status[r] = "pending" /\ ~Contains(due, r)
  /\ due' = Append(due, r)
  /\ UNCHANGED <<status, attempts, session, batch, received, tries, crashes>>

(* The web process or the worker dies: what it holds in memory is gone.    *)
CrashWeb ==
  /\ crashes < MaxCrashes
  /\ \E s \in Request : session[s].at # "idle"
  /\ session' = [s \in Session |-> IF s \in Request THEN Idle ELSE session[s]]
  /\ crashes' = crashes + 1
  /\ UNCHANGED <<status, attempts, due, batch, received, tries>>

CrashWorker ==
  /\ crashes < MaxCrashes
  /\ session[Worker].at # "idle"
  /\ Abort(Worker)
  /\ crashes' = crashes + 1
  /\ UNCHANGED <<status, attempts, due, received, tries>>

-----------------------------------------------------------------------------
TryDeliver(s) ==
  \/ TryDeliverSkip(s)
  \/ TryDeliverLoad(s)
  \/ Deliver(s)
  \/ DeliverRaises(s)
  \/ StoreOutcome(s)

Next ==
  \/ \E s \in Session : TryDeliver(s)
  \/ \E s \in Request : RetryCommit(s)
  \/ \E s \in Request, r \in Row : Enqueue(s, r) \/ RetryLoad(s, r)
  \/ \E r \in Row, outcome \in {"delivered", "abandoned"} : RecordTest(r, outcome)
  \/ WorkerPass
  \/ \E r \in Row : BackoffElapses(r)
  \/ CrashWeb
  \/ CrashWorker

Spec == Init /\ [][Next]_vars

(* A running handler takes its next step, the timer keeps starting passes  *)
(* (OnUnitActiveSec=5min) and time passes.  Nobody has to press Retry.     *)
FairSpec ==
  /\ Spec
  /\ \A s \in Session : WF_vars(TryDeliver(s))
  /\ \A s \in Request : WF_vars(RetryCommit(s))
  /\ WF_vars(WorkerPass)
  /\ \A r \in Row : WF_vars(BackoffElapses(r))

-----------------------------------------------------------------------------
(* Every column and every session holds a value of its type.               *)
TypeOK ==
  /\ status \in [Row -> Status]
  /\ attempts \in [Row -> 0..MaxAttempts]
  /\ due \in Seq(Row)
  /\ session \in [Session -> Job]
  /\ batch \in Seq(Row)
  /\ received \subseteq Row
  /\ tries \in [Row -> 0..MaxAttempts]
  /\ crashes \in 0..MaxCrashes

(* try_deliver indexes BACKOFF_SCHEDULE with the counter of a pending row: *)
(* whatever stale counters concurrent attempts write back, a pending row   *)
(* has an attempt left, so the index is in range.                          *)
PendingHasAttemptsLeft ==
  \A r \in Row : status[r] = "pending" => attempts[r] < MaxAttempts

(* A row is given up only after MAX_ATTEMPTS sends really went out.  Lost  *)
(* updates of the counter make the queue try more often, never less.       *)
AbandonedOnlyAfterAllTries ==
  \A r \in EventRow : status[r] = "abandoned" => tries[r] = MaxAttempts

(* A row marked delivered has been processed by its receiver, even when    *)
(* the row was attempted, crashed on and retried by several sessions.      *)
DeliveredWasReceived ==
  \A r \in EventRow : status[r] = "delivered" => r \in received

(* A license.test probe never enters the retry queue, whatever is clicked. *)
TestRowsStayTerminal ==
  \A r \in TestRow : /\ status[r] # "pending"
                     /\ \A s \in Session : session[s].at # "idle" => session[s].row # r

(* The worker's SELECT: the due rows are pending and each is there once, so *)
(* one pass attempts no row twice and none that was settled before it.     *)
DueRowsArePending ==
  /\ \A i \in DOMAIN due : status[due[i]] = "pending"
  /\ \A i, j \in DOMAIN due : due[i] = due[j] => i = j

(* What a session holds in memory between the load and the write-back: the *)
(* counter it will write is covered by sends that really went out, and an  *)
(* answer of 2xx by an event the receiver has.                             *)
HeldValuesAreCovered ==
  \A s \in Session :
    LET j == session[s] IN
    /\ j.at # "idle" => j.row \in EventRow /\ status[j.row] # "none"
    /\ j.at \in {"send", "store"} => j.attempts < MaxAttempts
    /\ j.at = "send" => j.attempts <= tries[j.row]
    /\ j.at = "store" => /\ j.attempts < tries[j.row]
                         /\ j.ok => j.row \in received

(* A row that is delivered, and that no attempt is under way on which took  *)
(* it for something else: it was answered while it was in the queue, or an  *)
(* admin pressed Retry while it was abandoned.                              *)
Settled(r) ==
  /\ status[r] = "delivered"
  /\ \A s \in Session : session[s].row = r =>
       \/ session[s].at \in {"idle", "load"}
       \/ session[s].at = "retry" /\ session[s].status # "abandoned"

(* webhooks.py, try_deliver: "Attempt one HTTP send for a pending           *)
(* delivery".  Once a row is settled it stays so and is never sent again,   *)
(* whichever request, pass, Retry or crash comes upon it later.             *)
DeliveredIsFinal ==
  [][\A r \in EventRow :
       Settled(r) => Settled(r)' /\ tries'[r] = tries[r] /\ attempts'[r] = attempts[r]]_vars

(* The inductive invariant behind the four invariants above.               *)
QueueInv ==
  /\ TypeOK
  /\ DueRowsArePending
  /\ HeldValuesAreCovered
  /\ PendingHasAttemptsLeft
  /\ AbandonedOnlyAfterAllTries
  /\ DeliveredWasReceived
  /\ \A r \in EventRow : /\ attempts[r] <= tries[r]
                         /\ status[r] = "none" => attempts[r] = 0
  /\ \A r \in TestRow : status[r] # "pending"
  /\ \A i \in DOMAIN batch : batch[i] \in EventRow /\ status[batch[i]] # "none"

(* The queue keeps the promises of WebhookOutbox.                          *)
Outbox == INSTANCE WebhookOutbox WITH
            Event    <- EventRow,
            accepted <- {r \in EventRow : status[r] # "none"},
            owed     <- {r \in EventRow : status[r] = "pending"},
            got      <- received,
            tries    <- [r \in EventRow |-> tries[r]]

ImplementsOutbox == Outbox!Spec

(* Every row that becomes pending is eventually delivered or abandoned, as *)
(* long as no row whose send raises is queued: one such row stops every    *)
(* later pass of the worker (HealthyEventSettles below).                   *)
EveryEventSettles ==
  [](\A p \in Poison : status[p] = "none") => Outbox!EveryEventSettles

-----------------------------------------------------------------------------
(* webhooks.py: "Backoff schedule: ... -> abandon after 7 attempts" and    *)
(* deliver(): "Don't raise".  A row whose own URL is fine therefore leaves *)
(* the queue whatever the other rows are.                                  *)
HealthyEventSettles ==
  \A r \in EventRow \ Poison : status[r] = "pending" ~> status[r] # "pending"

(* The worker is between passes, or in one, that end at the poison row p:   *)
(* it is the oldest due row.                                                *)
Blocked(p) ==
  /\ due # <<>> /\ due[1] = p
  /\ session[Worker].at = "idle" \/ (session[Worker].at = "send" /\ session[Worker].row = p)

(* Why HealthyEventSettles fails: no pass, attempt, backoff or crash gets   *)
(* the worker past a row whose send raises; an admin's Retry of that row,   *)
(* which puts it at the end of the queue, is the only step that does.       *)
PoisonBlocksTheWorker ==
  [][\A p \in Poison : Blocked(p) =>
       \/ Blocked(p)'
       \/ \E s \in Request : session[s].at = "retry" /\ session[s].row = p]_vars

=============================================================================
