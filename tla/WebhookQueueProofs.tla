-------------------------- MODULE WebhookQueueProofs --------------------------
(***************************************************************************)
(* Proofs about WebhookQueue, for any number of rows, request handlers,    *)
(* attempts and crashes.                                                   *)
(***************************************************************************)
EXTENDS WebhookQueue, SequenceTheorems, TLAPS

Distinct(s) == \A i, j \in DOMAIN s : s[i] = s[j] => i = j

(* RemoveAt of the sequences module, position by position. *)
LEMMA RemoveAtPositions ==
  ASSUME NEW S, NEW s \in Seq(S), NEW k \in 1..Len(s)
  PROVE  LET t == RemoveAt(s, k) IN
         /\ t \in Seq(S)
         /\ Len(t) = Len(s) - 1
         /\ \A j \in 1..Len(t) : t[j] = IF j < k THEN s[j] ELSE s[j + 1]
<1> DEFINE t == RemoveAt(s, k)
           a == SubSeq(s, 1, k - 1)
           b == SubSeq(s, k + 1, Len(s))
<1>1. a \in Seq(S) /\ Len(a) = k - 1 /\ \A i \in 1..(k - 1) : a[i] = s[i]
  BY SubSeqProperties
<1>2. /\ b \in Seq(S)
      /\ Len(b) = Len(s) - k
      /\ \A i \in 1..(Len(s) - k) : b[i] = s[k + i]
  BY SubSeqProperties
<1>3. t = a \o b
  BY DEF RemoveAt
<1>k. k \in 1..Len(s) /\ Len(s) \in Nat
  OBVIOUS
<1> HIDE DEF a, b, t
<1>4. /\ t \in Seq(S)
      /\ Len(t) = Len(a) + Len(b)
      /\ \A i \in 1..Len(t) : t[i] = IF i <= Len(a) THEN a[i] ELSE b[i - Len(a)]
  <2>1. a \in Seq(S) /\ b \in Seq(S)
    BY <1>1, <1>2
  <2> QED BY <2>1, <1>3, ConcatProperties
<1>5. ASSUME NEW j \in 1..Len(t) PROVE t[j] = IF j < k THEN s[j] ELSE s[j + 1]
  <2>1. CASE j < k BY <2>1, <1>1, <1>2, <1>4
  <2>2. CASE ~(j < k)
    <3> DEFINE m == j - (k - 1)
    <3>1. Len(s) \in Nat /\ k \in Int /\ j \in Int /\ j <= Len(s) - 1 /\ k <= j
      BY <2>2, <1>1, <1>2, <1>4
    <3>2. m \in 1..(Len(s) - k) /\ k + m = j + 1 /\ ~(j <= k - 1)
      BY <3>1
    <3>3. t[j] = b[m]
      BY <3>1, <3>2, <1>1, <1>4
    <3>4. b[m] = s[k + m]
      BY <3>2, <1>2
    <3> QED BY <3>2, <3>3, <3>4, <2>2
  <2> QED BY <2>1, <2>2
<1>6. Len(t) = Len(s) - 1
  BY <1>1, <1>2, <1>4, <1>k
<1> QED BY <1>4, <1>5, <1>6 DEF t

(* Taking an element out of a duplicate-free sequence leaves a duplicate-free *)
(* sequence of the other elements.                                         *)
LEMMA WithoutIsSub ==
  ASSUME NEW S, NEW s \in Seq(S), NEW e, Distinct(s)
  PROVE  LET t == Without(s, e) IN
         /\ t \in Seq(S)
         /\ Distinct(t)
         /\ \A i \in DOMAIN t : t[i] # e /\ \E j \in DOMAIN s : t[i] = s[j]
<1>1. CASE Contains(s, e)
  <2> DEFINE k == CHOOSE k \in DOMAIN s : s[k] = e
             t == RemoveAt(s, k)
  <2>1. k \in 1..Len(s) /\ s[k] = e
    BY <1>1 DEF Contains
  <2> HIDE DEF k
  <2>2. /\ t \in Seq(S)
        /\ Len(t) = Len(s) - 1
        /\ \A j \in 1..Len(t) : t[j] = IF j < k THEN s[j] ELSE s[j + 1]
    BY <2>1, RemoveAtPositions
  <2> HIDE DEF t
  <2>3. Distinct(t)
    <3> SUFFICES ASSUME NEW i \in 1..Len(t), NEW j \in 1..Len(t), t[i] = t[j]
                 PROVE  i = j
      BY <2>2 DEF Distinct
    <3> DEFINE f(n) == IF n < k THEN n ELSE n + 1
    <3>1. f(i) \in DOMAIN s /\ f(j) \in DOMAIN s /\ s[f(i)] = s[f(j)]
      BY <2>1, <2>2
    <3>2. f(i) = f(j)
      BY <3>1 DEF Distinct
    <3> QED BY <3>2, <2>1
  <2>4. \A i \in DOMAIN t : t[i] # e /\ \E j \in DOMAIN s : t[i] = s[j]
    BY <2>1, <2>2 DEF Distinct
  <2>5. Without(s, e) = t
    BY <1>1 DEF Without, t, k
  <2> QED BY <2>2, <2>3, <2>4, <2>5
<1>2. CASE ~Contains(s, e)
  BY <1>2 DEF Without, Distinct, Contains
<1> QED BY <1>1, <1>2

(* Appending a new element to a duplicate-free sequence.                   *)
LEMMA AppendIsDistinct ==
  ASSUME NEW S, NEW s \in Seq(S), NEW e \in S, Distinct(s),
         \A i \in DOMAIN s : s[i] # e
  PROVE  /\ Append(s, e) \in Seq(S)
         /\ Distinct(Append(s, e))
         /\ \A i \in DOMAIN Append(s, e) :
              Append(s, e)[i] = e \/ \E j \in DOMAIN s : Append(s, e)[i] = s[j]
<1> DEFINE t == Append(s, e)
<1>1. /\ t \in Seq(S) /\ Len(t) = Len(s) + 1 /\ Len(s) \in Nat
      /\ \A i \in 1..Len(s) : t[i] = s[i]
      /\ t[Len(s) + 1] = e
      /\ DOMAIN t = 1..(Len(s) + 1) /\ DOMAIN s = 1..Len(s)
  OBVIOUS
<1> HIDE DEF t
<1>2. Distinct(t)
  BY <1>1 DEF Distinct
<1>3. \A i \in DOMAIN t : t[i] = e \/ \E j \in DOMAIN s : t[i] = s[j]
  BY <1>1
<1> QED BY <1>1, <1>2, <1>3 DEF t

-----------------------------------------------------------------------------
LEMMA JobTypes ==
  /\ Idle \in Job
  /\ Idle.at = "idle"
  /\ \A r \in Row : /\ Load(r) \in Job
                    /\ Load(r).at = "load" /\ Load(r).row = r
<1> DEFINE c == CHOOSE r \in Row : TRUE
<1>1. c \in Row
  BY QueueAssumption
<1>2. Idle = JobAt("idle", c, "none", 0, FALSE)
  BY DEF Idle
<1> HIDE DEF c
<1> QED BY <1>1, <1>2, QueueAssumption DEF Load, JobAt, Job, Stage, Status

(* What a session loads has the type of a job, when the columns have theirs. *)
LEMMA LoadedType ==
  ASSUME TypeOK, NEW r \in Row, NEW stage \in Stage
  PROVE  /\ Loaded(stage, r) \in Job
         /\ Loaded(stage, r).at = stage /\ Loaded(stage, r).row = r
         /\ Loaded(stage, r).attempts = attempts[r]
BY QueueAssumption DEF TypeOK, Job, JobAt, Loaded, Status

(* After its row, or after an exception, a session is idle or is about to  *)
(* load an event row that exists, and the batch only shrinks.              *)
LEMMA FinishFacts ==
  ASSUME QueueInv, NEW s \in Session, Finish(s) \/ Abort(s)
  PROVE  /\ \/ session' = [session EXCEPT ![s] = Idle]
            \/ /\ session' = [session EXCEPT ![s] = Load(batch[2])]
               /\ batch[2] \in EventRow /\ status[batch[2]] # "none"
         /\ batch' \in Seq(Row)
         /\ \A i \in DOMAIN batch' : \E k \in DOMAIN batch : batch'[i] = batch[k]
<1>1. batch \in Seq(Row)
  BY DEF QueueInv, TypeOK
<1>2. CASE Finish(s) /\ s = Worker /\ Len(batch) > 1
  <2>1. batch # <<>> /\ Len(batch) \in Nat /\ 2 \in DOMAIN batch
    BY <1>1, <1>2
  <2>2. batch[2] \in EventRow /\ status[batch[2]] # "none"
    BY <1>1, <2>1 DEF QueueInv
  <2>3. session' = [session EXCEPT ![s] = Load(batch[2])] /\ batch' = Tail(batch)
    BY <1>2 DEF Finish
  <2>4. batch' \in Seq(Row)
    BY <1>1, <2>1, <2>3
  <2>5. ASSUME NEW i \in DOMAIN batch'
        PROVE  \E k \in DOMAIN batch : batch'[i] = batch[k]
    <3>1. i + 1 \in DOMAIN batch /\ batch'[i] = batch[i + 1]
      BY <1>1, <2>1, <2>3
    <3> QED BY <3>1
  <2> QED BY <2>2, <2>3, <2>4, <2>5
<1>3. CASE ~(Finish(s) /\ s = Worker /\ Len(batch) > 1)
  <2>1. session' = [session EXCEPT ![s] = Idle] /\ (batch' = <<>> \/ batch' = batch)
    BY <1>3 DEF Finish, Abort
  <2>2. <<>> \in Seq(Row) /\ batch' \in Seq(Row)
    BY <1>1, <2>1, EmptySeq
  <2>3. \A i \in DOMAIN batch' : \E k \in DOMAIN batch : batch'[i] = batch[k]
    BY <1>1, <2>1
  <2> QED BY <2>1, <2>2, <2>3
<1> QED BY <1>2, <1>3

(* The initial state satisfies the inductive invariant.                    *)
LEMMA InitQueueInv == Init => QueueInv
<1> SUFFICES ASSUME Init PROVE QueueInv
  OBVIOUS
<1>1. TypeOK
  BY QueueAssumption, JobTypes, EmptySeq DEF Init, TypeOK, Status
<1>2. \A s \in Session : session[s].at = "idle"
  BY JobTypes DEF Init
<1>3. DOMAIN due = {} /\ DOMAIN batch = {}
  BY DEF Init
<1>4. DueRowsArePending
  BY <1>3 DEF DueRowsArePending
<1>5. HeldValuesAreCovered
  BY <1>2 DEF HeldValuesAreCovered
<1> QED
  BY <1>1, <1>3, <1>4, <1>5, QueueAssumption
  DEF Init, QueueInv, EventRow, PendingHasAttemptsLeft,
      AbandonedOnlyAfterAllTries, DeliveredWasReceived

(* A session that changes only its own job keeps what is said of the jobs  *)
(* of the others.                                                          *)
LEMMA OneSessionMoves ==
  ASSUME QueueInv, NEW s \in Session, NEW j \in Job,
         session' = [session EXCEPT ![s] = j],
         \A r \in Row : status[r] # "none" => status'[r] # "none",
         \A r \in Row : tries'[r] \in Nat /\ tries[r] <= tries'[r],
         received \subseteq received',
         j.at # "idle" => j.row \in EventRow /\ status'[j.row] # "none",
         j.at \in {"send", "store"} => j.attempts < MaxAttempts,
         j.at = "send" => j.attempts <= tries'[j.row],
         j.at = "store" => /\ j.attempts < tries'[j.row]
                           /\ j.ok => j.row \in received'
  PROVE  session' \in [Session -> Job] /\ HeldValuesAreCovered'
<1>1. session' \in [Session -> Job]
  BY DEF QueueInv, TypeOK
<1>2. \A x \in Session : session'[x] = IF x = s THEN j ELSE session[x]
  BY DEF QueueInv, TypeOK
<1>3. \A x \in Session : session[x].row \in Row /\ session[x].attempts \in Nat
  BY QueueAssumption DEF QueueInv, TypeOK, Job
<1>4. \A r \in Row : tries[r] \in Nat
  BY QueueAssumption DEF QueueInv, TypeOK
<1> QED
  BY <1>1, <1>2, <1>3, <1>4 DEF QueueInv, HeldValuesAreCovered

(* A session that ends its work on a row, whatever it wrote before.        *)
LEMMA SessionEndsRow ==
  ASSUME QueueInv, NEW s \in Session, Finish(s) \/ Abort(s),
         \A r \in Row : status[r] # "none" => status'[r] # "none",
         UNCHANGED <<tries, received>>
  PROVE  /\ session' \in [Session -> Job] /\ HeldValuesAreCovered'
         /\ batch' \in Seq(Row)
         /\ \A i \in DOMAIN batch' : batch'[i] \in EventRow /\ status'[batch'[i]] # "none"
<1>1. \A r \in Row : tries[r] \in Nat /\ tries'[r] \in Nat /\ tries[r] <= tries'[r]
  BY QueueAssumption DEF QueueInv, TypeOK
<1>2. EventRow \subseteq Row
  BY DEF EventRow
<1>3. session' \in [Session -> Job] /\ HeldValuesAreCovered'
  <2>1. CASE session' = [session EXCEPT ![s] = Idle]
    <3> DEFINE j == Idle
    <3>1. j \in Job /\ j.at = "idle" /\ session' = [session EXCEPT ![s] = j]
      BY <2>1, JobTypes
    <3> HIDE DEF j
    <3> QED BY <1>1, <3>1, OneSessionMoves
  <2>2. CASE /\ session' = [session EXCEPT ![s] = Load(batch[2])]
             /\ batch[2] \in EventRow /\ status[batch[2]] # "none"
    <3> DEFINE j == Load(batch[2])
    <3>1. /\ j \in Job /\ j.at = "load" /\ session' = [session EXCEPT ![s] = j]
          /\ j.row \in EventRow /\ status'[j.row] # "none"
      BY <1>2, <2>2, JobTypes
    <3> HIDE DEF j
    <3> QED BY <1>1, <3>1, OneSessionMoves
  <2> QED BY <2>1, <2>2, FinishFacts
<1>4. \A i \in DOMAIN batch : batch[i] \in EventRow /\ status'[batch[i]] # "none"
  BY <1>2 DEF QueueInv
<1> QED BY <1>3, <1>4, FinishFacts

(* Steps of a session that leave the database alone: a row that is not     *)
(* pending is skipped, a row is loaded, or the send raises.                *)
LEMMA ReadStep ==
  ASSUME QueueInv, NEW s \in Session,
         TryDeliverSkip(s) \/ TryDeliverLoad(s) \/ DeliverRaises(s)
  PROVE  QueueInv'
<1>1. UNCHANGED <<status, attempts, due, received, tries, crashes>>
  BY DEF TryDeliverSkip, TryDeliverLoad, DeliverRaises
<1>2. /\ session' \in [Session -> Job] /\ HeldValuesAreCovered'
      /\ batch' \in Seq(Row)
      /\ \A i \in DOMAIN batch' : batch'[i] \in EventRow /\ status'[batch'[i]] # "none"
  <2>1. CASE TryDeliverLoad(s)
    <3> DEFINE r == session[s].row
               j == Loaded("send", r)
    <3>1. r \in EventRow /\ r \in Row
      BY <2>1 DEF QueueInv, TypeOK, HeldValuesAreCovered, TryDeliverLoad, EventRow, Job
    <3>2. j \in Job /\ j.at = "send" /\ j.row = r /\ j.attempts = attempts[r]
      BY <3>1, LoadedType DEF QueueInv, Stage
    <3>3. status[r] = "pending" /\ attempts[r] < MaxAttempts /\ attempts[r] <= tries[r]
      BY <3>1, <2>1 DEF TryDeliverLoad, QueueInv, PendingHasAttemptsLeft
    <3>4. session' = [session EXCEPT ![s] = j] /\ batch' = batch
      BY <2>1 DEF TryDeliverLoad
    <3>5. \A x \in Row : tries'[x] \in Nat /\ tries[x] <= tries'[x]
      BY <1>1, QueueAssumption DEF QueueInv, TypeOK
    <3> HIDE DEF j, r
    <3>6. session' \in [Session -> Job] /\ HeldValuesAreCovered'
      BY <1>1, <3>1, <3>2, <3>3, <3>4, <3>5, OneSessionMoves
    <3> QED BY <1>1, <3>4, <3>6 DEF QueueInv, TypeOK
  <2>2. CASE TryDeliverSkip(s) \/ DeliverRaises(s)
    <3>1. Finish(s) \/ Abort(s)
      BY <2>2 DEF TryDeliverSkip, DeliverRaises
    <3> QED BY <1>1, <3>1, SessionEndsRow
  <2> QED BY <2>1, <2>2
<1> QED
  BY <1>1, <1>2
  DEF QueueInv, TypeOK, DueRowsArePending, PendingHasAttemptsLeft,
      AbandonedOnlyAfterAllTries, DeliveredWasReceived

(* The send: one more try, and perhaps an event the receiver has.          *)
LEMMA DeliverStep ==
  ASSUME QueueInv, NEW s \in Session, Deliver(s)
  PROVE  QueueInv'
<1> DEFINE r == session[s].row
<1>1. /\ session[s] \in Job /\ r \in EventRow /\ r \in Row
      /\ session[s].at = "send" /\ status[r] # "none"
      /\ session[s].attempts < MaxAttempts /\ session[s].attempts <= tries[r]
  BY DEF QueueInv, TypeOK, HeldValuesAreCovered, Deliver, Job
<1>2. UNCHANGED <<status, attempts, due, batch, crashes>>
  BY DEF Deliver
<1>3. /\ tries' \in [Row -> 0..MaxAttempts]
      /\ \A x \in Row : tries[x] \in Nat /\ tries'[x] \in Nat /\ tries[x] <= tries'[x]
      /\ tries'[r] = IF tries[r] < MaxAttempts THEN tries[r] + 1 ELSE tries[r]
      /\ session[s].attempts < tries'[r]
  BY <1>1, QueueAssumption DEF Deliver, QueueInv, TypeOK, Job
<1>4. PICK reply \in {"ok", "refused", "lost"} :
        /\ session' = [session EXCEPT ![s] = JobAt("store", r, session[s].status,
                                                   session[s].attempts, Accepted(reply))]
        /\ received' = IF reply = "refused" THEN received ELSE received \union {r}
  BY DEF Deliver
<1> DEFINE j == JobAt("store", r, session[s].status, session[s].attempts, Accepted(reply))
<1>5. /\ session' = [session EXCEPT ![s] = j] /\ j \in Job
      /\ j.at = "store" /\ j.row = r /\ j.attempts = session[s].attempts
      /\ j.ok = Accepted(reply)
  BY <1>1, <1>4 DEF JobAt, Job, Stage, Accepted
<1> HIDE DEF j
<1>6. /\ received \subseteq received' /\ received' \subseteq Row
      /\ Accepted(reply) => r \in received'
  BY <1>1, <1>4 DEF QueueInv, TypeOK, Accepted
<1>7. session' \in [Session -> Job] /\ HeldValuesAreCovered'
  BY <1>1, <1>2, <1>3, <1>5, <1>6, OneSessionMoves
<1>8. \A x \in EventRow : attempts[x] <= tries[x] => attempts[x] <= tries'[x]
  BY <1>3, QueueAssumption DEF EventRow, QueueInv, TypeOK
<1>9. \A x \in EventRow : tries[x] = MaxAttempts => tries'[x] = MaxAttempts
  BY <1>3, QueueAssumption DEF EventRow, QueueInv, TypeOK
<1> QED
  BY <1>2, <1>3, <1>6, <1>7, <1>8, <1>9
  DEF QueueInv, TypeOK, DueRowsArePending, PendingHasAttemptsLeft,
      AbandonedOnlyAfterAllTries, DeliveredWasReceived

(* The rows that are due after one of them is taken out.                   *)
LEMMA DueWithout ==
  ASSUME QueueInv, NEW r \in Row
  PROVE  LET d == Without(due, r) IN
         /\ d \in Seq(Row) /\ Distinct(d)
         /\ \A i \in DOMAIN d : d[i] # r /\ status[d[i]] = "pending"
<1>1. due \in Seq(Row) /\ Distinct(due) /\ \A i \in DOMAIN due : status[due[i]] = "pending"
  BY DEF QueueInv, TypeOK, DueRowsArePending, Distinct
<1>2. LET d == Without(due, r) IN
      /\ d \in Seq(Row) /\ Distinct(d)
      /\ \A i \in DOMAIN d : d[i] # r /\ \E k \in DOMAIN due : d[i] = due[k]
  BY <1>1, WithoutIsSub
<1> QED BY <1>1, <1>2

(* A pending row that was not due is appended.                             *)
LEMMA DueAppend ==
  ASSUME NEW d \in Seq(Row), Distinct(d), NEW r \in Row,
         \A i \in DOMAIN d : d[i] # r,
         due' = Append(d, r), status'[r] = "pending",
         \A i \in DOMAIN d : status'[d[i]] = "pending"
  PROVE  due' \in Seq(Row) /\ DueRowsArePending'
<1>1. /\ due' \in Seq(Row) /\ Distinct(due')
      /\ \A i \in DOMAIN due' : due'[i] = r \/ \E k \in DOMAIN d : due'[i] = d[k]
  BY AppendIsDistinct
<1> QED BY <1>1 DEF DueRowsArePending, Distinct

(* The write-back of an attempt.                                           *)
LEMMA StoreStep ==
  ASSUME QueueInv, NEW s \in Session, StoreOutcome(s)
  PROVE  QueueInv'
<1> DEFINE r == session[s].row
           n == session[s].attempts + 1
<1>1. /\ r \in EventRow /\ r \in Row /\ status[r] # "none"
      /\ session[s].attempts \in Nat /\ session[s].ok \in BOOLEAN
      /\ n \in 1..MaxAttempts /\ n <= tries[r]
      /\ session[s].ok => r \in received
  BY QueueAssumption
  DEF QueueInv, TypeOK, HeldValuesAreCovered, StoreOutcome, Job, EventRow
<1>2. /\ attempts' = [attempts EXCEPT ![r] = n]
      /\ status' = [status EXCEPT ![r] = IF session[s].ok THEN "delivered"
                                         ELSE IF n >= MaxAttempts THEN "abandoned"
                                         ELSE @]
      /\ due' = Without(due, r)
      /\ Finish(s)
      /\ UNCHANGED <<received, tries, crashes>>
  BY DEF StoreOutcome, Exhausted
<1>3. /\ status' \in [Row -> Status] /\ attempts' \in [Row -> 0..MaxAttempts]
      /\ \A x \in Row : x # r => status'[x] = status[x] /\ attempts'[x] = attempts[x]
      /\ attempts'[r] = n
      /\ status'[r] = IF session[s].ok THEN "delivered"
                      ELSE IF n >= MaxAttempts THEN "abandoned" ELSE status[r]
      /\ status'[r] # "none"
  BY <1>1, <1>2 DEF QueueInv, TypeOK, Status
<1> HIDE DEF r, n
<1>4. /\ session' \in [Session -> Job] /\ HeldValuesAreCovered'
      /\ batch' \in Seq(Row)
      /\ \A i \in DOMAIN batch' : batch'[i] \in EventRow /\ status'[batch'[i]] # "none"
  BY <1>2, <1>3, SessionEndsRow
<1>5. due' \in Seq(Row) /\ DueRowsArePending'
  BY <1>1, <1>2, <1>3, DueWithout, ElementOfSeq DEF DueRowsArePending, Distinct
<1>6. TypeOK'
  BY <1>2, <1>3, <1>4, <1>5 DEF QueueInv, TypeOK
<1>7. \A x \in EventRow : /\ attempts'[x] <= tries'[x]
                          /\ status'[x] = "none" => attempts'[x] = 0
  BY <1>1, <1>2, <1>3 DEF QueueInv, EventRow
<1>8. PendingHasAttemptsLeft'
  BY <1>1, <1>3, QueueAssumption DEF QueueInv, PendingHasAttemptsLeft
<1>9. AbandonedOnlyAfterAllTries'
  <2>1. tries[r] \in 0..MaxAttempts
    BY <1>1 DEF QueueInv, TypeOK
  <2>2. n >= MaxAttempts => tries[r] = MaxAttempts
    BY <1>1, <2>1, QueueAssumption
  <2> QED BY <1>1, <1>2, <1>3, <2>2
          DEF QueueInv, AbandonedOnlyAfterAllTries, EventRow
<1>10. DeliveredWasReceived'
  BY <1>1, <1>2, <1>3 DEF QueueInv, DeliveredWasReceived, EventRow
<1>11. \A x \in TestRow : status'[x] # "pending"
  BY <1>1, <1>3, QueueAssumption DEF QueueInv, EventRow
<1> QED BY <1>4, <1>5, <1>6, <1>7, <1>8, <1>9, <1>10, <1>11 DEF QueueInv

(* A request commits a new row, or an admin's retry commits its changes,   *)
(* and the attempt follows.                                                *)
LEMMA AttemptFollows ==
  ASSUME QueueInv, NEW s \in Session, NEW r \in EventRow,
         session' = [session EXCEPT ![s] = Load(r)],
         status'[r] # "none",
         \A x \in Row : status[x] # "none" => status'[x] # "none",
         UNCHANGED <<batch, received, tries>>
  PROVE  /\ session' \in [Session -> Job] /\ HeldValuesAreCovered'
         /\ \A i \in DOMAIN batch' : batch'[i] \in EventRow /\ status'[batch'[i]] # "none"
<1> DEFINE j == Load(r)
<1>1. j \in Job /\ j.at = "load" /\ j.row = r /\ session' = [session EXCEPT ![s] = j]
  BY JobTypes DEF EventRow
<1>2. \A x \in Row : tries'[x] \in Nat /\ tries[x] <= tries'[x]
  BY QueueAssumption DEF QueueInv, TypeOK
<1> HIDE DEF j
<1>3. session' \in [Session -> Job] /\ HeldValuesAreCovered'
  BY <1>1, <1>2, OneSessionMoves
<1> QED BY <1>3 DEF QueueInv, EventRow

LEMMA EnqueueStep ==
  ASSUME QueueInv, NEW s \in Session, NEW r \in Row, Enqueue(s, r)
  PROVE  QueueInv'
<1>1. /\ r \in EventRow /\ status[r] = "none" /\ attempts[r] = 0
  <2>1. r \in EventRow /\ status[r] = "none"
    BY DEF Enqueue
  <2> QED BY <2>1 DEF QueueInv
<1>2. /\ status' = [status EXCEPT ![r] = "pending"] /\ due' = Append(due, r)
      /\ session' = [session EXCEPT ![s] = Load(r)]
      /\ UNCHANGED <<attempts, batch, received, tries, crashes>>
  BY DEF Enqueue
<1>3. /\ status' \in [Row -> Status] /\ status'[r] = "pending"
      /\ \A x \in Row : x # r => status'[x] = status[x]
  BY <1>2 DEF QueueInv, TypeOK, Status
<1>4. /\ session' \in [Session -> Job] /\ HeldValuesAreCovered'
      /\ \A i \in DOMAIN batch' : batch'[i] \in EventRow /\ status'[batch'[i]] # "none"
  BY <1>1, <1>2, <1>3, AttemptFollows
<1>5. due' \in Seq(Row) /\ DueRowsArePending'
  <2>1. /\ due \in Seq(Row) /\ Distinct(due)
        /\ \A i \in DOMAIN due : due[i] \in Row /\ status[due[i]] = "pending"
    BY ElementOfSeq DEF QueueInv, TypeOK, DueRowsArePending, Distinct
  <2>2. \A i \in DOMAIN due : due[i] # r /\ status'[due[i]] = "pending"
    BY <1>1, <1>3, <2>1
  <2> QED BY <1>2, <1>3, <2>1, <2>2, DueAppend
<1> QED
  BY <1>1, <1>2, <1>3, <1>4, <1>5, QueueAssumption
  DEF QueueInv, TypeOK, PendingHasAttemptsLeft, AbandonedOnlyAfterAllTries,
      DeliveredWasReceived, EventRow

LEMMA RecordTestStep ==
  ASSUME QueueInv, NEW r \in Row, NEW outcome \in {"delivered", "abandoned"},
         RecordTest(r, outcome)
  PROVE  QueueInv'
<1>1. /\ r \in TestRow /\ status[r] = "none"
      /\ status' = [status EXCEPT ![r] = outcome]
      /\ attempts' = [attempts EXCEPT ![r] = 1]
      /\ UNCHANGED <<due, session, batch, received, tries, crashes>>
  BY DEF RecordTest
<1>2. /\ status' \in [Row -> Status] /\ attempts' \in [Row -> 0..MaxAttempts]
      /\ status'[r] = outcome
      /\ \A x \in EventRow : status'[x] = status[x] /\ attempts'[x] = attempts[x]
      /\ \A x \in Row : x # r => status'[x] = status[x]
  BY <1>1, QueueAssumption DEF QueueInv, TypeOK, Status, EventRow
<1>3. DueRowsArePending'
  <2>1. \A i \in DOMAIN due : due[i] \in Row /\ due[i] # r
    BY <1>1, ElementOfSeq DEF QueueInv, TypeOK, DueRowsArePending
  <2> QED BY <1>1, <1>2, <2>1 DEF QueueInv, DueRowsArePending
<1>4. HeldValuesAreCovered'
  BY <1>1, <1>2 DEF QueueInv, HeldValuesAreCovered
<1> QED
  BY <1>1, <1>2, <1>3, <1>4
  DEF QueueInv, TypeOK, PendingHasAttemptsLeft, AbandonedOnlyAfterAllTries,
      DeliveredWasReceived, EventRow

LEMMA WorkerPassStep ==
  ASSUME QueueInv, WorkerPass
  PROVE  QueueInv'
<1> DEFINE r == Head(due)
           j == Loaded("send", r)
           k == IF Len(due) < Limit THEN Len(due) ELSE Limit
<1>1. /\ due # <<>> /\ batch' = SubSeq(due, 1, k)
      /\ session' = [session EXCEPT ![Worker] = j]
      /\ UNCHANGED <<status, attempts, due, received, tries, crashes>>
  BY DEF WorkerPass
<1>2. /\ due \in Seq(Row) /\ k \in 1..Len(due) /\ 1 \in DOMAIN due
      /\ r = due[1] /\ r \in Row
  BY <1>1, QueueAssumption DEF QueueInv, TypeOK
<1>3. \A i \in DOMAIN due : due[i] \in EventRow /\ status[due[i]] = "pending"
  BY <1>2, ElementOfSeq DEF QueueInv, DueRowsArePending, EventRow
<1>4. /\ r \in EventRow /\ status[r] = "pending"
      /\ attempts[r] < MaxAttempts /\ attempts[r] <= tries[r]
  BY <1>2, <1>3 DEF QueueInv, PendingHasAttemptsLeft
<1>5. j \in Job /\ j.at = "send" /\ j.row = r /\ j.attempts = attempts[r]
  BY <1>2, LoadedType DEF QueueInv, Stage
<1>6. \A x \in Row : tries'[x] \in Nat /\ tries[x] <= tries'[x]
  BY <1>1, QueueAssumption DEF QueueInv, TypeOK
<1>7. batch' \in Seq(Row) /\ \A i \in DOMAIN batch' : i \in DOMAIN due /\ batch'[i] = due[i]
  BY <1>1, <1>2, SubSeqProperties, ElementOfSeq
<1> HIDE DEF j, r, k
<1>8. session' \in [Session -> Job] /\ HeldValuesAreCovered'
  <2>1. Worker \in Session
    BY DEF Session
  <2> QED BY <1>1, <1>4, <1>5, <1>6, <2>1, OneSessionMoves
<1>9. \A i \in DOMAIN batch' : batch'[i] \in EventRow /\ status'[batch'[i]] # "none"
  BY <1>1, <1>3, <1>7
<1> QED
  BY <1>1, <1>7, <1>8, <1>9
  DEF QueueInv, TypeOK, DueRowsArePending, PendingHasAttemptsLeft,
      AbandonedOnlyAfterAllTries, DeliveredWasReceived

LEMMA RetryLoadStep ==
  ASSUME QueueInv, NEW s \in Session, NEW r \in Row, RetryLoad(s, r)
  PROVE  QueueInv'
<1> DEFINE j == Loaded("retry", r)
<1>1. /\ r \in EventRow /\ status[r] # "none"
      /\ session' = [session EXCEPT ![s] = j]
      /\ UNCHANGED <<status, attempts, due, batch, received, tries, crashes>>
  BY DEF RetryLoad, Retryable, EventRow
<1>2. j \in Job /\ j.at = "retry" /\ j.row = r
  BY LoadedType DEF QueueInv, Stage
<1>3. \A x \in Row : tries'[x] \in Nat /\ tries[x] <= tries'[x]
  BY <1>1, QueueAssumption DEF QueueInv, TypeOK
<1> HIDE DEF j
<1>4. session' \in [Session -> Job] /\ HeldValuesAreCovered'
  BY <1>1, <1>2, <1>3, OneSessionMoves
<1> QED
  BY <1>1, <1>4
  DEF QueueInv, TypeOK, DueRowsArePending, PendingHasAttemptsLeft,
      AbandonedOnlyAfterAllTries, DeliveredWasReceived

LEMMA RetryCommitStep ==
  ASSUME QueueInv, NEW s \in Session, RetryCommit(s)
  PROVE  QueueInv'
<1> DEFINE r == session[s].row
           revive == session[s].status = "abandoned"
           d == Without(due, r)
<1>1. r \in EventRow /\ r \in Row /\ status[r] # "none"
  BY DEF QueueInv, TypeOK, HeldValuesAreCovered, RetryCommit, Job
<1>2. /\ status' = [status EXCEPT ![r] = IF revive THEN "pending" ELSE @]
      /\ attempts' = [attempts EXCEPT ![r] = IF revive THEN 0 ELSE @]
      /\ due' = IF status'[r] = "pending" THEN Append(d, r) ELSE due
      /\ session' = [session EXCEPT ![s] = Load(r)]
      /\ UNCHANGED <<batch, received, tries, crashes>>
  BY DEF RetryCommit
<1>3. /\ status' \in [Row -> Status] /\ attempts' \in [Row -> 0..MaxAttempts]
      /\ \A x \in Row : x # r => status'[x] = status[x] /\ attempts'[x] = attempts[x]
      /\ \/ status'[r] = "pending" /\ attempts'[r] = 0
         \/ status'[r] = status[r] /\ attempts'[r] = attempts[r]
      /\ status'[r] # "none"
  BY <1>1, <1>2, QueueAssumption DEF QueueInv, TypeOK, Status
<1>4. /\ d \in Seq(Row) /\ Distinct(d)
      /\ \A i \in DOMAIN d : d[i] \in Row /\ d[i] # r /\ status[d[i]] = "pending"
  BY <1>1, DueWithout, ElementOfSeq
<1> HIDE DEF r, revive, d
<1>5. /\ session' \in [Session -> Job] /\ HeldValuesAreCovered'
      /\ \A i \in DOMAIN batch' : batch'[i] \in EventRow /\ status'[batch'[i]] # "none"
  <2>1. \A x \in Row : status[x] # "none" => status'[x] # "none"
    BY <1>3
  <2> QED BY <1>1, <1>2, <1>3, <2>1, AttemptFollows
<1>6. due' \in Seq(Row) /\ DueRowsArePending'
  <2>1. CASE status'[r] = "pending"
    <3>1. \A i \in DOMAIN d : status'[d[i]] = "pending"
      BY <1>3, <1>4
    <3> QED BY <1>1, <1>2, <1>4, <2>1, <3>1, DueAppend
  <2>2. CASE status'[r] # "pending"
    <3>1. \A i \in DOMAIN due : due[i] \in Row /\ status[due[i]] = "pending"
      BY ElementOfSeq DEF QueueInv, TypeOK, DueRowsArePending
    <3>2. \A i \in DOMAIN due : status'[due[i]] = "pending"
      BY <1>3, <2>2, <3>1
    <3>3. due' = due
      BY <1>2, <2>2
    <3> QED BY <3>2, <3>3 DEF QueueInv, TypeOK, DueRowsArePending
  <2> QED BY <2>1, <2>2
<1>7. TypeOK'
  BY <1>2, <1>3, <1>5, <1>6 DEF QueueInv, TypeOK
<1>8. \A x \in EventRow : /\ attempts'[x] <= tries'[x]
                          /\ status'[x] = "none" => attempts'[x] = 0
  BY <1>1, <1>2, <1>3, QueueAssumption DEF QueueInv, TypeOK, EventRow
<1>9. PendingHasAttemptsLeft'
  BY <1>1, <1>3, QueueAssumption DEF QueueInv, PendingHasAttemptsLeft
<1>10. AbandonedOnlyAfterAllTries' /\ DeliveredWasReceived'
  BY <1>1, <1>2, <1>3
  DEF QueueInv, AbandonedOnlyAfterAllTries, DeliveredWasReceived, EventRow
<1>11. \A x \in TestRow : status'[x] # "pending"
  BY <1>1, <1>3, QueueAssumption DEF QueueInv, EventRow
<1> QED BY <1>5, <1>6, <1>7, <1>8, <1>9, <1>10, <1>11 DEF QueueInv

LEMMA BackoffElapsesStep ==
  ASSUME QueueInv, NEW r \in Row, BackoffElapses(r)
  PROVE  QueueInv'
<1>1. /\ status[r] = "pending" /\ due' = Append(due, r)
      /\ UNCHANGED <<status, attempts, session, batch, received, tries, crashes>>
  BY DEF BackoffElapses
<1>2. /\ due \in Seq(Row) /\ Distinct(due)
      /\ \A i \in DOMAIN due : due[i] # r /\ status[due[i]] = "pending"
  BY DEF QueueInv, TypeOK, DueRowsArePending, Distinct, BackoffElapses, Contains
<1>3. due' \in Seq(Row) /\ DueRowsArePending'
  BY <1>1, <1>2, DueAppend
<1> QED
  BY <1>1, <1>3
  DEF QueueInv, TypeOK, HeldValuesAreCovered, PendingHasAttemptsLeft,
      AbandonedOnlyAfterAllTries, DeliveredWasReceived

LEMMA CrashStep ==
  ASSUME QueueInv, CrashWeb \/ CrashWorker
  PROVE  QueueInv'
<1>1. crashes' \in 0..MaxCrashes /\ UNCHANGED <<status, attempts, due, received, tries>>
  BY QueueAssumption DEF QueueInv, TypeOK, CrashWeb, CrashWorker
<1>2. /\ session' \in [Session -> Job] /\ HeldValuesAreCovered'
      /\ batch' \in Seq(Row)
      /\ \A i \in DOMAIN batch' : batch'[i] \in EventRow /\ status'[batch'[i]] # "none"
  <2>1. CASE CrashWorker
    BY <1>1, <2>1, SessionEndsRow DEF CrashWorker, Session
  <2>2. CASE CrashWeb
    <3>1. /\ session' = [s \in Session |-> IF s \in Request THEN Idle ELSE session[s]]
          /\ batch' = batch
      BY <2>2 DEF CrashWeb
    <3>2. session' \in [Session -> Job]
      BY <3>1, JobTypes DEF QueueInv, TypeOK
    <3>3. \A s \in Session : session'[s].at = "idle" \/ session'[s] = session[s]
      BY <3>1, JobTypes
    <3>4. HeldValuesAreCovered'
      BY <1>1, <3>3 DEF QueueInv, HeldValuesAreCovered
    <3> QED BY <1>1, <3>1, <3>2, <3>4 DEF QueueInv, TypeOK
  <2> QED BY <2>1, <2>2
<1> QED
  BY <1>1, <1>2
  DEF QueueInv, TypeOK, DueRowsArePending, PendingHasAttemptsLeft,
      AbandonedOnlyAfterAllTries, DeliveredWasReceived

-----------------------------------------------------------------------------
LEMMA NextPreservesQueueInv == QueueInv /\ [Next]_vars => QueueInv'
<1> SUFFICES ASSUME QueueInv, [Next]_vars PROVE QueueInv'
  OBVIOUS
<1>1. ASSUME NEW s \in Session, TryDeliver(s) PROVE QueueInv'
  BY <1>1, ReadStep, DeliverStep, StoreStep DEF TryDeliver
<1>2. ASSUME NEW s \in Request, RetryCommit(s) PROVE QueueInv'
  BY <1>2, RetryCommitStep DEF Session
<1>3. ASSUME NEW s \in Request, NEW r \in Row, Enqueue(s, r) \/ RetryLoad(s, r)
      PROVE  QueueInv'
  BY <1>3, EnqueueStep, RetryLoadStep DEF Session
<1>4. ASSUME NEW r \in Row, NEW outcome \in {"delivered", "abandoned"},
             RecordTest(r, outcome)
      PROVE  QueueInv'
  BY <1>4, RecordTestStep
<1>5. CASE WorkerPass
  BY <1>5, WorkerPassStep
<1>6. ASSUME NEW r \in Row, BackoffElapses(r) PROVE QueueInv'
  BY <1>6, BackoffElapsesStep
<1>7. CASE CrashWeb \/ CrashWorker
  BY <1>7, CrashStep
<1>8. CASE UNCHANGED vars
  BY <1>8
  DEF vars, QueueInv, TypeOK, DueRowsArePending, HeldValuesAreCovered,
      PendingHasAttemptsLeft, AbandonedOnlyAfterAllTries, DeliveredWasReceived
<1> QED
  BY <1>1, <1>2, <1>3, <1>4, <1>5, <1>6, <1>7, <1>8 DEF Next

(* The inductive invariant holds in every reachable state.                 *)
THEOREM QueueInvariant == Spec => []QueueInv
<1> QED BY InitQueueInv, NextPreservesQueueInv, PTL DEF Spec

(* Every column and session keeps its type, for any number of rows,        *)
(* handlers, attempts and crashes.                                         *)
THEOREM TypeCorrect == Spec => []TypeOK
<1>1. QueueInv => TypeOK
  BY DEF QueueInv
<1> QED BY <1>1, QueueInvariant, PTL

(* BACKOFF_SCHEDULE is never indexed out of range, and no row is given up  *)
(* before MAX_ATTEMPTS sends, whatever counters stale sessions write back. *)
THEOREM NeverGivenUpEarly == Spec => [](PendingHasAttemptsLeft /\ AbandonedOnlyAfterAllTries)
<1>1. QueueInv => PendingHasAttemptsLeft /\ AbandonedOnlyAfterAllTries
  BY DEF QueueInv
<1> QED BY <1>1, QueueInvariant, PTL

(* A row marked delivered has been processed by its receiver.              *)
THEOREM DeliveredIsTruthful == Spec => []DeliveredWasReceived
<1>1. QueueInv => DeliveredWasReceived
  BY DEF QueueInv
<1> QED BY <1>1, QueueInvariant, PTL

(* A test probe stays out of the retry queue.                              *)
THEOREM ProbesStayTerminal == Spec => []TestRowsStayTerminal
<1>1. QueueInv => TestRowsStayTerminal
  BY DEF QueueInv, TestRowsStayTerminal, HeldValuesAreCovered, EventRow
<1> QED BY <1>1, QueueInvariant, PTL

-----------------------------------------------------------------------------
(* Refinement of the outbox, step by step.                                 *)
LEMMA OutboxInit == Init => Outbox!Init
BY QueueAssumption DEF Init, Outbox!Init, EventRow

(* A step that moves no outbox variable is a stutter of the outbox.        *)
LEMMA OutboxStutter ==
  ASSUME UNCHANGED <<status, received, tries>>
  PROVE  UNCHANGED Outbox!vars
BY DEF Outbox!vars

LEMMA OutboxDeliver ==
  ASSUME QueueInv, NEW s \in Session, Deliver(s)
  PROVE  Outbox!Next
<1>0. PICK r \in Row : r = session[s].row
  BY DEF QueueInv, TypeOK, Job
<1>1. r \in EventRow /\ r \in Row /\ status[r] # "none"
  BY <1>0 DEF QueueInv, HeldValuesAreCovered, Deliver, EventRow
<1>2. /\ tries' = [tries EXCEPT ![r] = IF @ < MaxAttempts THEN @ + 1 ELSE @]
      /\ received' \in {received, received \union {r}}
      /\ status' = status
  BY <1>0 DEF Deliver
<1>3. [x \in EventRow |-> tries'[x]]
        = [[x \in EventRow |-> tries[x]] EXCEPT ![r] = IF @ < MaxAttempts THEN @ + 1 ELSE @]
  BY <1>1, <1>2 DEF QueueInv, TypeOK, EventRow
<1>4. Outbox!Try(r)
  BY <1>1, <1>2, <1>3 DEF Outbox!Try
<1> QED BY <1>1, <1>4 DEF Outbox!Next

LEMMA OutboxStore ==
  ASSUME QueueInv, NEW s \in Session, StoreOutcome(s)
  PROVE  Outbox!Next \/ UNCHANGED Outbox!vars
<1>0. PICK r \in Row : r = session[s].row
  BY DEF QueueInv, TypeOK, Job
<1> DEFINE n == session[s].attempts + 1
<1>1. /\ r \in EventRow /\ status[r] # "none"
      /\ session[s].attempts \in Nat /\ n <= tries[r]
      /\ session[s].ok => r \in received
  BY <1>0, QueueAssumption
  DEF QueueInv, TypeOK, HeldValuesAreCovered, StoreOutcome, Job
<1>2. /\ status' = [status EXCEPT ![r] = IF session[s].ok THEN "delivered"
                                         ELSE IF n >= MaxAttempts THEN "abandoned"
                                         ELSE @]
      /\ UNCHANGED <<received, tries>>
  BY <1>0 DEF StoreOutcome, Exhausted
<1>3. n >= MaxAttempts => tries[r] = MaxAttempts
  <2>1. tries[r] \in 0..MaxAttempts /\ n \in Nat
    BY <1>1 DEF QueueInv, TypeOK
  <2> HIDE DEF n
  <2> QED BY <1>1, <2>1, QueueAssumption
<1>4. /\ \A x \in EventRow : x # r => status'[x] = status[x]
      /\ status'[r] \in {"delivered", "abandoned", status[r]}
      /\ status'[r] # status[r] => r \in received \/ tries[r] = MaxAttempts
  BY <1>1, <1>2, <1>3 DEF QueueInv, TypeOK, EventRow
<1> HIDE DEF n
<1>5. {x \in EventRow : status'[x] # "none"} = {x \in EventRow : status[x] # "none"}
  BY <1>1, <1>4
<1>6. CASE status[r] = "pending" /\ status'[r] # "pending"
  <2>1. /\ {x \in EventRow : status'[x] = "pending"}
             = {x \in EventRow : status[x] = "pending"} \ {r}
        /\ r \in {x \in EventRow : status[x] = "pending"}
    BY <1>1, <1>4, <1>6
  <2>2. r \in received \/ [x \in EventRow |-> tries[x]][r] = MaxAttempts
    BY <1>1, <1>4, <1>6
  <2>3. Outbox!Settle(r)
    BY <1>2, <1>5, <2>1, <2>2 DEF Outbox!Settle
  <2> QED BY <1>1, <2>3 DEF Outbox!Next
<1>7. CASE ~(status[r] = "pending" /\ status'[r] # "pending")
  <2>1. {x \in EventRow : status'[x] = "pending"} = {x \in EventRow : status[x] = "pending"}
    BY <1>1, <1>4, <1>7
  <2> QED BY <1>2, <1>5, <2>1 DEF Outbox!vars
<1> QED BY <1>6, <1>7

LEMMA OutboxEnqueue ==
  ASSUME QueueInv, NEW s \in Session, NEW r \in Row, Enqueue(s, r)
  PROVE  Outbox!Next
<1>1. /\ r \in EventRow /\ status[r] = "none"
      /\ status' = [status EXCEPT ![r] = "pending"]
      /\ UNCHANGED <<received, tries>>
  BY DEF Enqueue
<1>2. /\ status'[r] = "pending"
      /\ \A x \in EventRow : x # r => status'[x] = status[x]
  BY <1>1 DEF QueueInv, TypeOK, EventRow
<1>3. /\ {x \in EventRow : status'[x] # "none"}
            = {x \in EventRow : status[x] # "none"} \union {r}
      /\ {x \in EventRow : status'[x] = "pending"}
            = {x \in EventRow : status[x] = "pending"} \union {r}
      /\ r \notin {x \in EventRow : status[x] # "none"}
  BY <1>1, <1>2
<1>4. Outbox!Accept(r)
  BY <1>1, <1>3 DEF Outbox!Accept
<1> QED BY <1>1, <1>4 DEF Outbox!Next

LEMMA OutboxRetryCommit ==
  ASSUME QueueInv, NEW s \in Session, RetryCommit(s)
  PROVE  Outbox!Next \/ UNCHANGED Outbox!vars
<1>0. PICK r \in Row : r = session[s].row
  BY DEF QueueInv, TypeOK, Job
<1>1. r \in EventRow /\ status[r] # "none"
  BY <1>0 DEF QueueInv, HeldValuesAreCovered, RetryCommit
<1>2. /\ \A x \in EventRow : x # r => status'[x] = status[x]
      /\ status'[r] \in {"pending", status[r]}
      /\ UNCHANGED <<received, tries>>
  BY <1>0, <1>1 DEF RetryCommit, QueueInv, TypeOK, EventRow
<1>3. {x \in EventRow : status'[x] # "none"} = {x \in EventRow : status[x] # "none"}
  BY <1>1, <1>2
<1>4. CASE status[r] # "pending" /\ status'[r] = "pending"
  <2>1. /\ {x \in EventRow : status'[x] = "pending"}
             = {x \in EventRow : status[x] = "pending"} \union {r}
        /\ r \in {x \in EventRow : status[x] # "none"}
        /\ r \notin {x \in EventRow : status[x] = "pending"}
    BY <1>1, <1>2, <1>4
  <2>2. Outbox!Reopen(r)
    BY <1>2, <1>3, <2>1 DEF Outbox!Reopen
  <2> QED BY <1>1, <2>2 DEF Outbox!Next
<1>5. CASE ~(status[r] # "pending" /\ status'[r] = "pending")
  <2>1. {x \in EventRow : status'[x] = "pending"} = {x \in EventRow : status[x] = "pending"}
    BY <1>1, <1>2, <1>5
  <2> QED BY <1>2, <1>3, <2>1 DEF Outbox!vars
<1> QED BY <1>4, <1>5

LEMMA OutboxRecordTest ==
  ASSUME QueueInv, NEW r \in Row, NEW outcome \in {"delivered", "abandoned"},
         RecordTest(r, outcome)
  PROVE  UNCHANGED Outbox!vars
<1>1. /\ \A x \in EventRow : status'[x] = status[x]
      /\ UNCHANGED <<received, tries>>
  BY DEF RecordTest, QueueInv, TypeOK, EventRow
<1> QED BY <1>1 DEF Outbox!vars

LEMMA OutboxStep == QueueInv /\ [Next]_vars => [Outbox!Next]_(Outbox!vars)
<1> SUFFICES ASSUME QueueInv, [Next]_vars PROVE Outbox!Next \/ UNCHANGED Outbox!vars
  OBVIOUS
<1>1. ASSUME NEW s \in Session, TryDeliver(s)
      PROVE  Outbox!Next \/ UNCHANGED Outbox!vars
  <2>1. CASE TryDeliverSkip(s) \/ TryDeliverLoad(s) \/ DeliverRaises(s)
    BY <2>1, OutboxStutter DEF TryDeliverSkip, TryDeliverLoad, DeliverRaises
  <2> QED BY <1>1, <2>1, OutboxDeliver, OutboxStore DEF TryDeliver
<1>2. ASSUME NEW s \in Request, RetryCommit(s)
      PROVE  Outbox!Next \/ UNCHANGED Outbox!vars
  BY <1>2, OutboxRetryCommit DEF Session
<1>3. ASSUME NEW s \in Request, NEW r \in Row, Enqueue(s, r)
      PROVE  Outbox!Next
  BY <1>3, OutboxEnqueue DEF Session
<1>4. ASSUME NEW r \in Row, NEW outcome \in {"delivered", "abandoned"},
             RecordTest(r, outcome)
      PROVE  UNCHANGED Outbox!vars
  BY <1>4, OutboxRecordTest
<1>5. CASE \/ \E s \in Request, r \in Row : RetryLoad(s, r)
           \/ WorkerPass
           \/ \E r \in Row : BackoffElapses(r)
           \/ CrashWeb \/ CrashWorker \/ UNCHANGED vars
  BY <1>5, OutboxStutter
  DEF RetryLoad, WorkerPass, BackoffElapses, CrashWeb, CrashWorker, vars
<1> QED BY <1>1, <1>2, <1>3, <1>4, <1>5 DEF Next

(* The queue implements the outbox: an event is settled only when its      *)
(* receiver has it or every attempt was made, whatever sessions interleave.*)
THEOREM QueueImplementsOutbox == Spec => ImplementsOutbox
<1> QED
  BY OutboxInit, OutboxStep, QueueInvariant, PTL DEF Spec, ImplementsOutbox, Outbox!Spec

(* BACKOFF_SCHEDULE has an entry for every counter that a session may      *)
(* write into a pending row, however stale the counter is.                 *)
THEOREM BackoffIsDefined == Spec => []PendingHasAttemptsLeft
<1>1. QueueInv => PendingHasAttemptsLeft
  BY DEF QueueInv
<1> QED BY <1>1, QueueInvariant, PTL

-----------------------------------------------------------------------------
(* A session goes from one job to another and the row r keeps its columns.  *)
LEMMA SettledByJob ==
  ASSUME TypeOK, NEW r \in EventRow, Settled(r), NEW s \in Session, NEW job,
         session' = [session EXCEPT ![s] = job],
         job.row = r => \/ job.at \in {"idle", "load"}
                        \/ job.at = "retry" /\ job.status # "abandoned",
         status'[r] = status[r]
  PROVE  Settled(r)'
BY DEF Settled, TypeOK

(* Finish and Abort leave a session idle or about to load.                 *)
LEMMA SettledByFinish ==
  ASSUME TypeOK, NEW r \in EventRow, Settled(r), NEW s \in Session,
         Finish(s) \/ Abort(s), status'[r] = status[r]
  PROVE  Settled(r)'
<1>1. Idle.at = "idle" /\ Load(batch[2]).at = "load"
  BY DEF Idle, Load, JobAt
<1>2. \/ session' = [session EXCEPT ![s] = Load(batch[2])]
      \/ session' = [session EXCEPT ![s] = Idle]
  BY DEF Finish, Abort
<1> QED BY <1>1, <1>2, SettledByJob

LEMMA SettledStays ==
  ASSUME QueueInv, [Next]_vars, NEW r \in EventRow, Settled(r)
  PROVE  Settled(r)' /\ tries'[r] = tries[r] /\ attempts'[r] = attempts[r]
<1> USE DEF EventRow
<1>0. TypeOK /\ status[r] = "delivered" /\ r \in Row
  BY DEF QueueInv, Settled
<1>1. ASSUME NEW s \in Session, TryDeliverSkip(s)
      PROVE  Settled(r)' /\ tries'[r] = tries[r] /\ attempts'[r] = attempts[r]
  BY <1>0, <1>1, SettledByFinish DEF TryDeliverSkip
<1>2. ASSUME NEW s \in Session, TryDeliverLoad(s)
      PROVE  Settled(r)' /\ tries'[r] = tries[r] /\ attempts'[r] = attempts[r]
  <2>1. session[s].row # r /\ Loaded("send", session[s].row).row # r
    BY <1>0, <1>2 DEF TryDeliverLoad, Loaded, JobAt
  <2>2. /\ session' = [session EXCEPT ![s] = Loaded("send", session[s].row)]
        /\ UNCHANGED <<status, attempts, tries>>
    BY <1>2 DEF TryDeliverLoad
  <2> QED BY <1>0, <2>1, <2>2, SettledByJob
<1>3. ASSUME NEW s \in Session, Deliver(s)
      PROVE  Settled(r)' /\ tries'[r] = tries[r] /\ attempts'[r] = attempts[r]
  <2>1. session[s].at = "send" /\ session[s].row # r
    BY <1>3 DEF Deliver, Settled
  <2>2. PICK reply : session' = [session EXCEPT ![s] =
          JobAt("store", session[s].row, session[s].status, session[s].attempts, Accepted(reply))]
    BY <1>3 DEF Deliver
  <2>3. tries'[r] = tries[r] /\ UNCHANGED <<status, attempts>>
    BY <1>0, <1>3, <2>1 DEF Deliver, TypeOK
  <2> QED BY <1>0, <2>1, <2>2, <2>3, SettledByJob DEF JobAt
<1>4. ASSUME NEW s \in Session, DeliverRaises(s)
      PROVE  Settled(r)' /\ tries'[r] = tries[r] /\ attempts'[r] = attempts[r]
  BY <1>0, <1>4, SettledByFinish DEF DeliverRaises
<1>5. ASSUME NEW s \in Session, StoreOutcome(s)
      PROVE  Settled(r)' /\ tries'[r] = tries[r] /\ attempts'[r] = attempts[r]
  <2>1. session[s].row # r
    BY <1>5 DEF StoreOutcome, Settled
  <2>2. status'[r] = status[r] /\ attempts'[r] = attempts[r] /\ tries' = tries /\ Finish(s)
    BY <1>0, <1>5, <2>1 DEF StoreOutcome, TypeOK
  <2> QED BY <1>0, <2>2, SettledByFinish
<1>6. ASSUME NEW s \in Request, RetryCommit(s)
      PROVE  Settled(r)' /\ tries'[r] = tries[r] /\ attempts'[r] = attempts[r]
  <2>1. s \in Session /\ session' = [session EXCEPT ![s] = Load(session[s].row)]
        /\ Load(session[s].row).at = "load" /\ tries' = tries
    BY <1>6 DEF RetryCommit, Session, Load, JobAt
  <2>2. session[s].row = r => session[s].status # "abandoned"
    BY <1>6, <2>1 DEF RetryCommit, Settled
  <2>3. status'[r] = status[r] /\ attempts'[r] = attempts[r]
    BY <1>0, <1>6, <2>2 DEF RetryCommit, TypeOK
  <2> QED BY <1>0, <2>1, <2>3, SettledByJob
<1>7. ASSUME NEW s \in Request, NEW x \in Row, Enqueue(s, x)
      PROVE  Settled(r)' /\ tries'[r] = tries[r] /\ attempts'[r] = attempts[r]
  <2>1. s \in Session /\ session' = [session EXCEPT ![s] = Load(x)] /\ Load(x).at = "load"
    BY <1>7 DEF Enqueue, Session, Load, JobAt
  <2>2. status'[r] = status[r] /\ UNCHANGED <<attempts, tries>>
    BY <1>0, <1>7 DEF Enqueue, TypeOK
  <2> QED BY <1>0, <2>1, <2>2, SettledByJob
<1>8. ASSUME NEW s \in Request, NEW x \in Row, RetryLoad(s, x)
      PROVE  Settled(r)' /\ tries'[r] = tries[r] /\ attempts'[r] = attempts[r]
  <2>1. s \in Session /\ session' = [session EXCEPT ![s] = Loaded("retry", x)]
        /\ UNCHANGED <<status, attempts, tries>>
    BY <1>8 DEF RetryLoad, Session
  <2>2. /\ Loaded("retry", x).row = x /\ Loaded("retry", x).at = "retry"
        /\ x = r => Loaded("retry", x).status # "abandoned"
    BY <1>0 DEF Loaded, JobAt
  <2> QED BY <1>0, <2>1, <2>2, SettledByJob
<1>9. ASSUME NEW x \in Row, NEW outcome, RecordTest(x, outcome)
      PROVE  Settled(r)' /\ tries'[r] = tries[r] /\ attempts'[r] = attempts[r]
  BY <1>0, <1>9 DEF RecordTest, Settled, TypeOK
<1>10. CASE WorkerPass
  <2>1. /\ session' = [session EXCEPT ![Worker] = Loaded("send", Head(due))]
        /\ UNCHANGED <<status, attempts, tries>> /\ due # <<>> /\ Worker \in Session
    BY <1>10 DEF WorkerPass, Session
  <2>2. status[Head(due)] = "pending"
    BY <2>1 DEF QueueInv, TypeOK, DueRowsArePending
  <2>3. Loaded("send", Head(due)).row # r
    BY <1>0, <2>2 DEF Loaded, JobAt
  <2> QED BY <1>0, <2>1, <2>3, SettledByJob
<1>11. ASSUME NEW x \in Row, BackoffElapses(x)
       PROVE  Settled(r)' /\ tries'[r] = tries[r] /\ attempts'[r] = attempts[r]
  BY <1>11 DEF BackoffElapses, Settled
<1>12. CASE CrashWeb
  <2>1. UNCHANGED <<status, attempts, tries>>
        /\ \A s \in Session : session'[s] = session[s] \/ session'[s].at = "idle"
    BY <1>12 DEF CrashWeb, Idle, JobAt
  <2> QED BY <2>1 DEF Settled
<1>13. CASE CrashWorker
  BY <1>0, <1>13, SettledByFinish DEF CrashWorker, Session
<1>14. CASE UNCHANGED vars
  BY <1>14 DEF vars, Settled
<1> QED
  BY <1>1, <1>2, <1>3, <1>4, <1>5, <1>6, <1>7, <1>8, <1>9, <1>10, <1>11, <1>12, <1>13, <1>14
  DEF Next, TryDeliver

(* An event that was delivered, and that nobody has in flight any more, is  *)
(* never sent again and never leaves its status.                            *)
THEOREM DeliveryIsFinal == Spec => DeliveredIsFinal
<1> DEFINE Kept ==
      \A r \in EventRow :
        Settled(r) => Settled(r)' /\ tries'[r] = tries[r] /\ attempts'[r] = attempts[r]
<1>1. QueueInv /\ [Next]_vars => [Kept]_vars
  BY SettledStays
<1> QED BY <1>1, QueueInvariant, PTL DEF Spec, DeliveredIsFinal

-----------------------------------------------------------------------------
(* Taking out another element, or appending one, leaves the oldest where it *)
(* is.                                                                      *)
LEMMA OldestStays ==
  ASSUME NEW S, NEW s \in Seq(S), s # <<>>, NEW e
  PROVE  /\ s[1] # e => Without(s, e) # <<>> /\ Without(s, e)[1] = s[1]
         /\ \A x : Append(s, x) # <<>> /\ Append(s, x)[1] = s[1]
<1>1. Len(s) \in Nat \ {0} /\ DOMAIN s = 1..Len(s)
  BY EmptySeq
<1>2. \A x : Append(s, x) # <<>> /\ Append(s, x)[1] = s[1]
  BY <1>1
<1>3. ASSUME s[1] # e PROVE Without(s, e) # <<>> /\ Without(s, e)[1] = s[1]
  <2>1. CASE Contains(s, e)
    <3> DEFINE k == CHOOSE k \in DOMAIN s : s[k] = e
               t == RemoveAt(s, k)
    <3>1. k \in 1..Len(s) /\ s[k] = e
      BY <2>1 DEF Contains
    <3> HIDE DEF k
    <3>2. k > 1 /\ Len(s) > 1
      BY <1>1, <1>3, <3>1
    <3>3. /\ t \in Seq(S) /\ Len(t) = Len(s) - 1
          /\ \A j \in 1..Len(t) : t[j] = IF j < k THEN s[j] ELSE s[j + 1]
      BY <3>1, RemoveAtPositions
    <3> HIDE DEF t
    <3>4. Len(t) >= 1 /\ t[1] = s[1]
      BY <1>1, <3>2, <3>3
    <3>5. t # <<>>
      BY <3>3, <3>4
    <3> QED BY <2>1, <3>4, <3>5 DEF Without, t, k
  <2>2. CASE ~Contains(s, e)
    BY <2>2 DEF Without
  <2> QED BY <2>1, <2>2
<1> QED BY <1>2, <1>3

(* A row whose send raises never gets to the write-back of an outcome.      *)
PoisonIsNotStored ==
  \A s \in Session : session[s].at = "store" => session[s].row \notin Poison

LEMMA PoisonByJob ==
  ASSUME TypeOK, PoisonIsNotStored, NEW s \in Session, NEW job,
         session' = [session EXCEPT ![s] = job],
         job.at = "store" => job.row \notin Poison
  PROVE  PoisonIsNotStored'
BY DEF PoisonIsNotStored, TypeOK

LEMMA PoisonByFinish ==
  ASSUME TypeOK, PoisonIsNotStored, NEW s \in Session, Finish(s) \/ Abort(s)
  PROVE  PoisonIsNotStored'
<1>1. Idle.at # "store" /\ Load(batch[2]).at # "store"
  BY DEF Idle, Load, JobAt
<1>2. \/ session' = [session EXCEPT ![s] = Load(batch[2])]
      \/ session' = [session EXCEPT ![s] = Idle]
  BY DEF Finish, Abort
<1> QED BY <1>1, <1>2, PoisonByJob

LEMMA PoisonStaysUnstored ==
  ASSUME TypeOK, PoisonIsNotStored, [Next]_vars
  PROVE  PoisonIsNotStored'
<1>1. ASSUME NEW s \in Session, TryDeliverSkip(s) \/ DeliverRaises(s) \/ StoreOutcome(s)
      PROVE  PoisonIsNotStored'
  BY <1>1, PoisonByFinish DEF TryDeliverSkip, DeliverRaises, StoreOutcome
<1>2. ASSUME NEW s \in Session, NEW stage \in {"send", "retry"}, NEW r,
             session' = [session EXCEPT ![s] = Loaded(stage, r)]
      PROVE  PoisonIsNotStored'
  <2>1. Loaded(stage, r).at # "store"
    BY DEF Loaded, JobAt
  <2> QED BY <1>2, <2>1, PoisonByJob
<1>3. ASSUME NEW s \in Session, NEW r, session' = [session EXCEPT ![s] = Load(r)]
      PROVE  PoisonIsNotStored'
  <2>1. Load(r).at # "store"
    BY DEF Load, JobAt
  <2> QED BY <1>3, <2>1, PoisonByJob
<1>4. ASSUME NEW s \in Session, Deliver(s) PROVE PoisonIsNotStored'
  <2>1. PICK ok : session' = [session EXCEPT ![s] =
          JobAt("store", session[s].row, session[s].status, session[s].attempts, ok)]
    BY <1>4 DEF Deliver
  <2>2. session[s].row \notin Poison
    BY <1>4 DEF Deliver
  <2> QED BY <2>1, <2>2, PoisonByJob DEF JobAt
<1>5. CASE CrashWeb
  <2>1. \A s \in Session : session'[s] = session[s] \/ session'[s].at = "idle"
    BY <1>5 DEF CrashWeb, Idle, JobAt
  <2> QED BY <2>1 DEF PoisonIsNotStored
<1>6. ASSUME UNCHANGED session PROVE PoisonIsNotStored'
  BY <1>6 DEF PoisonIsNotStored
<1>7. ASSUME NEW s \in Session, TryDeliver(s) PROVE PoisonIsNotStored'
  BY <1>1, <1>2, <1>4, <1>7 DEF TryDeliver, TryDeliverLoad
<1>8. ASSUME NEW s \in Request, RetryCommit(s) PROVE PoisonIsNotStored'
  BY <1>3, <1>8 DEF RetryCommit, Session
<1>9. ASSUME NEW s \in Request, NEW r \in Row, Enqueue(s, r) \/ RetryLoad(s, r)
      PROVE  PoisonIsNotStored'
  BY <1>2, <1>3, <1>9 DEF Enqueue, RetryLoad, Session
<1>10. CASE WorkerPass
  BY <1>2, <1>10 DEF WorkerPass, Session
<1>11. CASE CrashWorker
  BY <1>11, PoisonByFinish DEF CrashWorker, Session
<1>12. ASSUME NEW r \in Row, BackoffElapses(r) \/ \E outcome : RecordTest(r, outcome)
       PROVE  PoisonIsNotStored'
  BY <1>6, <1>12 DEF BackoffElapses, RecordTest
<1>13. CASE UNCHANGED vars
  BY <1>6, <1>13 DEF vars
<1> QED BY <1>5, <1>7, <1>8, <1>9, <1>10, <1>11, <1>12, <1>13 DEF Next

LEMMA BlockedStays ==
  ASSUME QueueInv, PoisonIsNotStored, [Next]_vars, NEW p \in Poison, Blocked(p),
         \A s \in Request : ~(session[s].at = "retry" /\ session[s].row = p)
  PROVE  Blocked(p)'
<1>0. /\ TypeOK /\ due \in Seq(Row) /\ due # <<>> /\ due[1] = p /\ Head(due) = p
      /\ Worker \in Session /\ Worker \notin Request
      /\ session[Worker].at = "idle" \/ (session[Worker].at = "send" /\ session[Worker].row = p)
  BY QueueAssumption DEF QueueInv, TypeOK, Blocked, Session
<1>1. ASSUME due' = due \/ \E x : due' = Append(due, x) \/
               (x # p /\ (due' = Without(due, x) \/ \E y : due' = Append(Without(due, x), y)))
      PROVE  due' # <<>> /\ due'[1] = p
  <2>1. CASE due' = due
    BY <1>0, <2>1
  <2>2. ASSUME NEW x, due' = Append(due, x) PROVE due' # <<>> /\ due'[1] = p
    BY <1>0, <2>2, OldestStays
  <2>3. ASSUME NEW x, x # p PROVE Without(due, x) # <<>> /\ Without(due, x)[1] = p
    BY <1>0, <2>3, OldestStays
  <2>4. ASSUME NEW x, x # p, NEW y, due' = Append(Without(due, x), y)
        PROVE  due' # <<>> /\ due'[1] = p
    <3>1. Without(due, x) \in Seq(Row)
      BY <1>0, WithoutIsSub DEF QueueInv, DueRowsArePending, Distinct
    <3> QED BY <2>3, <2>4, <3>1, OldestStays
  <2> QED BY <1>1, <2>1, <2>2, <2>3, <2>4
<1>2. ASSUME NEW s \in Request, TryDeliver(s) PROVE Blocked(p)'
  <2>1. s # Worker /\ s \in Session /\ session'[Worker] = session[Worker]
    BY <1>0, <1>2
    DEF Session, TypeOK, TryDeliver, TryDeliverSkip, TryDeliverLoad, Deliver, DeliverRaises,
        StoreOutcome, Finish, Abort
  <2>2. due' = due \/ \E x : x # p /\ due' = Without(due, x)
    <3>1. CASE StoreOutcome(s)
      <4>1. session[s].row # p /\ due' = Without(due, session[s].row)
        BY <2>1, <3>1 DEF StoreOutcome, PoisonIsNotStored
      <4> QED BY <4>1
    <3>2. CASE ~StoreOutcome(s)
      BY <1>2, <3>2 DEF TryDeliver, TryDeliverSkip, TryDeliverLoad, Deliver, DeliverRaises
    <3> QED BY <3>1, <3>2
  <2>3. due' # <<>> /\ due'[1] = p
    BY <1>1, <2>2
  <2> QED BY <1>0, <2>1, <2>3 DEF Blocked
<1>3. ASSUME TryDeliver(Worker) PROVE Blocked(p)'
  <2>1. session[Worker].at = "send" /\ session[Worker].row = p
    BY <1>0, <1>3
    DEF TryDeliver, TryDeliverSkip, TryDeliverLoad, Deliver, DeliverRaises, StoreOutcome
  <2>2. DeliverRaises(Worker)
    BY <1>3, <2>1 DEF TryDeliver, TryDeliverSkip, TryDeliverLoad, Deliver, StoreOutcome
  <2>3. due' = due /\ session'[Worker].at = "idle"
    BY <1>0, <2>2 DEF DeliverRaises, Abort, TypeOK, Idle, JobAt
  <2> QED BY <1>0, <2>3 DEF Blocked
<1>4. ASSUME NEW s \in Request, RetryCommit(s) PROVE Blocked(p)'
  <2>1. session[s].row # p /\ session'[Worker] = session[Worker]
    BY <1>0, <1>4 DEF RetryCommit, TypeOK, Session
  <2>2. due' = due \/ \E x, y : x # p /\ due' = Append(Without(due, x), y)
    BY <1>4, <2>1 DEF RetryCommit
  <2>3. due' # <<>> /\ due'[1] = p
    BY <1>1, <2>2
  <2> QED BY <1>0, <2>1, <2>3 DEF Blocked
<1>5. ASSUME NEW s \in Request, NEW r \in Row, Enqueue(s, r) \/ RetryLoad(s, r)
      PROVE  Blocked(p)'
  <2>1. session'[Worker] = session[Worker]
    BY <1>0, <1>5 DEF Enqueue, RetryLoad, TypeOK, Session
  <2>2. due' = due \/ due' = Append(due, r)
    BY <1>5 DEF Enqueue, RetryLoad
  <2>3. due' # <<>> /\ due'[1] = p
    BY <1>1, <2>2
  <2> QED BY <1>0, <2>1, <2>3 DEF Blocked
<1>6. CASE WorkerPass
  <2>1. Loaded("send", p).at = "send" /\ Loaded("send", p).row = p
    BY DEF Loaded, JobAt
  <2>2. due' = due /\ session'[Worker] = Loaded("send", p)
    BY <1>0, <1>6 DEF WorkerPass, TypeOK
  <2> QED BY <1>0, <2>1, <2>2 DEF Blocked
<1>7. ASSUME NEW r \in Row, BackoffElapses(r) PROVE Blocked(p)'
  <2>1. due' = Append(due, r) /\ session' = session
    BY <1>7 DEF BackoffElapses
  <2>2. due' # <<>> /\ due'[1] = p
    BY <1>1, <2>1
  <2> QED BY <1>0, <2>1, <2>2 DEF Blocked
<1>8. CASE CrashWeb \/ CrashWorker
  <2>1. due' = due /\ (session'[Worker] = session[Worker] \/ session'[Worker].at = "idle")
    BY <1>0, <1>8 DEF CrashWeb, CrashWorker, Abort, TypeOK, Idle, JobAt
  <2> QED BY <1>0, <2>1 DEF Blocked
<1>9. ASSUME \/ \E r \in Row, outcome \in {"delivered", "abandoned"} : RecordTest(r, outcome)
             \/ UNCHANGED vars
      PROVE  Blocked(p)'
  BY <1>9 DEF RecordTest, vars, Blocked
<1> QED
  BY <1>2, <1>3, <1>4, <1>5, <1>6, <1>7, <1>8, <1>9 DEF Next, Session

(* The finding of the violated run, for any queue: once a row whose send    *)
(* raises is the oldest due one, no step but an admin's Retry of that row   *)
(* lets the worker get to another row.                                      *)
THEOREM PoisonBlocks == Spec => PoisonBlocksTheWorker
<1> DEFINE Kept ==
      \A p \in Poison : Blocked(p) =>
        \/ Blocked(p)'
        \/ \E s \in Request : session[s].at = "retry" /\ session[s].row = p
<1>1. Init => PoisonIsNotStored
  BY DEF Init, PoisonIsNotStored, Idle, JobAt
<1>2. QueueInv /\ PoisonIsNotStored /\ [Next]_vars => PoisonIsNotStored'
  BY PoisonStaysUnstored DEF QueueInv
<1>3. QueueInv /\ PoisonIsNotStored /\ [Next]_vars => [Kept]_vars
  BY BlockedStays
<1> QED
  BY <1>1, <1>2, <1>3, QueueInvariant, PTL DEF Spec, PoisonBlocksTheWorker

=============================================================================
