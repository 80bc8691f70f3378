--------------------------- MODULE LicenseRowsProofs ---------------------------
(***************************************************************************)
(* Proofs about LicenseRows for any number of licenses, installs, threads  *)
(* and days, on databases with and without foreign keys.                   *)
(*                                                                         *)
(* Whatever overlaps, the terms and the days of use that were recorded     *)
(* only grow, and a heartbeat started on a day its license could be        *)
(* checked: that bounds the tokens.  A license whose handlers do not       *)
(* overlap at the moment is held by one thread at most, and what that      *)
(* thread loaded is still there when it commits: that keeps the tables     *)
(* clean and makes what it announces true again, whatever was in doubt.    *)
(***************************************************************************)
EXTENDS LicenseRows, TLAPS

(* Rows have a term, and live rows are neither unborn nor gone.            *)
LEMMA RowFacts ==
  /\ \A r \in Row : r.until \in Nat
  /\ Unborn \in Row /\ Gone \in Row /\ Unborn # Gone
  /\ \A r \in LiveRow : r # Unborn /\ r # Gone /\ r.status \in Status
  /\ \A r \in Row : r \in LiveRow \/ r = Unborn \/ r = Gone
BY DEF Row, LiveRow, Unborn, Gone, Status

LEMMA IdleFacts == Idle \in Work /\ Idle.op = "idle" /\ Idle.lics = {}
BY RowFacts DEF Idle, Work

(* The history only grows.                                                 *)
LEMMA Remembered ==
  ASSUME TypeOK, HistoryIsCurrent, Remember, row' \in [License -> Row],
         now' \in Nat, now <= now'
  PROVE  /\ usable' \in [License -> Nat] /\ term' \in [License -> Nat]
         /\ \A l \in License :
              /\ usable[l] <= usable'[l] /\ usable'[l] <= now'
              /\ term[l] <= term'[l] /\ row'[l].until <= term'[l]
              /\ Usable(row'[l], now') => usable'[l] = now'
<1>1. \A l \in License : row'[l].until \in Nat /\ usable[l] \in Nat /\ term[l] \in Nat
  BY RowFacts DEF TypeOK
<1>2. now \in Nat /\ \A l \in License : usable[l] <= now
  BY RowsAssumption DEF TypeOK, HistoryIsCurrent
<1>3. \A l \in License : /\ usable'[l] = IF Usable(row'[l], now') THEN now' ELSE usable[l]
                         /\ term'[l] = IF row'[l].until > term[l] THEN row'[l].until ELSE term[l]
  BY DEF Remember
<1>4. usable' \in [License -> Nat]
  BY <1>1 DEF Remember
<1>5. term' \in [License -> Nat]
  BY <1>1 DEF Remember
<1> QED BY <1>1, <1>2, <1>3, <1>4, <1>5

-----------------------------------------------------------------------------
(* What a handler may have loaded when it is through with its reads.       *)
Ops == {"issue", "check", "status", "edit", "delete", "product", "invoice", "mark"}

Loadable(op, lics, i, known) ==
  /\ op \in Ops /\ lics \subseteq License /\ known \in BOOLEAN
  /\ i \in Install \union {NoInstall}
  /\ op = "check" => i \in Install
  /\ \A l \in lics :
       /\ IF op = "issue" THEN row[l] = Unborn ELSE row[l] \in LiveRow
       /\ op = "check" => Usable(row[l], now) /\ known = (installs[l][i] = 1)

LEMMA LoadKeepsInv ==
  ASSUME RowsInv, Remember, NEW t \in Thread, NEW op, NEW lics, NEW i, NEW known,
         Loadable(op, lics, i, known), Load(t, op, lics, i, known)
  PROVE  RowsInv'
<1> DEFINE seen == [l \in License |-> IF l \in lics /\ op \notin {"delete", "product"}
                                      THEN row[l] ELSE Unborn]
           w == [op |-> op, lics |-> lics, seen |-> seen,
                 install |-> i, known |-> known, since |-> now]
<1>1. /\ work[t] = Idle
      /\ work' = [work EXCEPT ![t] = w]
      /\ raced' = raced \union Shared(lics)
      /\ doubt' = [l \in License |-> IF l \in Shared(lics) THEN "mixed" ELSE doubt[l]]
      /\ UNCHANGED <<enforced, product, row, installs, linked, queued, farewell, told, token, now>>
  BY DEF Load, rows
<1>2. now \in Nat /\ now' \in Nat /\ now <= now'
  BY <1>1, RowsAssumption DEF RowsInv, TypeOK
<1>3. /\ usable' \in [License -> Nat] /\ term' \in [License -> Nat]
      /\ \A l \in License :
           /\ usable[l] <= usable'[l] /\ usable'[l] <= now'
           /\ term[l] <= term'[l] /\ row'[l].until <= term'[l]
           /\ Usable(row'[l], now') => usable'[l] = now'
  BY <1>1, <1>2, Remembered DEF RowsInv, TypeOK
<1>4. w \in Work /\ seen \in [License -> Row]
  <2>1. seen \in [License -> Row]
    BY RowFacts DEF RowsInv, TypeOK
  <2> HIDE DEF seen
  <2> QED BY <1>2, <2>1 DEF Loadable, Ops, Work
<1>5. /\ w.op = op /\ w.lics = lics /\ w.seen = seen /\ w.install = i /\ w.known = known
      /\ w.since = now
  OBVIOUS
<1>6. \A l \in License : /\ l \in lics /\ op \notin {"delete", "product"} => seen[l] = row[l]
                         /\ ~(l \in lics /\ op \notin {"delete", "product"}) => seen[l] = Unborn
  OBVIOUS
<1> HIDE DEF w, seen
<1>7. work'[t] = w /\ \A u \in Thread : u # t => work'[u] = work[u]
  BY <1>1 DEF RowsInv, TypeOK
<1>8. /\ Shared(lics) \subseteq License
      /\ \A l \in lics : l \notin Shared(lics) => \A u \in Thread : l \notin work[u].lics
  BY DEF Shared, Loadable
<1>9. /\ raced \subseteq raced' /\ raced' \subseteq License
      /\ doubt' \in [License -> {"none", "some", "mixed"}]
      /\ \A l \in License : /\ doubt'[l] = "mixed" => l \in raced'
                            /\ doubt'[l] # "mixed" => doubt'[l] = doubt[l] /\ l \notin Shared(lics)
  BY <1>1, <1>8 DEF RowsInv, TypeOK, HistoryIsCurrent
<1>10. TypeOK'
  <2>1. work' \in [Thread -> Work]
    BY <1>1, <1>4 DEF RowsInv, TypeOK
  <2> QED BY <1>1, <1>3, <1>9, <2>1 DEF RowsInv, TypeOK
<1>11. TokensEndInTime'
  BY <1>1, <1>3, RowsAssumption DEF RowsInv, TypeOK, TokensEndInTime
<1>12. DeletionIsClean' /\ LastWordIsTrue' /\ OneRowPerInstall'
  <2>1. DeletionIsClean'
    BY <1>1, <1>9 DEF RowsInv, DeletionIsClean
  <2>2. LastWordIsTrue'
    BY <1>1, <1>9, RowsAssumption DEF RowsInv, LastWordIsTrue
  <2>3. OneRowPerInstall'
    BY <1>1, <1>9 DEF RowsInv, OneRowPerInstall
  <2> QED BY <2>1, <2>2, <2>3
<1>13. HistoryIsCurrent'
  BY <1>1, <1>3, <1>9 DEF RowsInv, HistoryIsCurrent
<1>14. WorkIsCurrent'
  <2> SUFFICES ASSUME NEW u \in Thread, work'[u] # Idle
               PROVE  /\ work'[u].op # "idle"
                      /\ work'[u].since <= now' /\ now' <= work'[u].since + Lag
                      /\ work'[u].op = "check" => work'[u].install \in Install
                      /\ \A l \in work'[u].lics : Holds(u, l)'
    BY DEF WorkIsCurrent
  <2>1. CASE u = t
    <3>1. ASSUME NEW l \in lics PROVE Holds(u, l)'
      <4>1. l \in License /\ term'[l] \in Nat /\ row[l].until \in Nat /\ row[l] \in Row
        BY <1>3, <3>1, RowFacts DEF Loadable, RowsInv, TypeOK
      <4>2. seen[l].until <= term'[l]
        BY <1>1, <1>3, <1>6, <4>1 DEF Unborn
      <4>3. op = "check" => now <= usable'[l]
        BY <1>1, <1>3, <1>2, <3>1, <4>1 DEF Loadable
      <4>4. ASSUME doubt'[l] # "mixed", NEW v \in Thread \ {u} PROVE l \notin work'[v].lics
        BY <1>7, <1>8, <1>9, <2>1, <3>1, <4>1, <4>4
      <4>5. /\ row[l] = Unborn => op = "issue"
            /\ op \notin {"issue", "delete", "product"} => seen[l] \in LiveRow
            /\ op \notin {"delete", "product"} => row[l] = seen[l]
            /\ op = "check" => known = (installs[l][i] = 1)
        BY <1>6, <3>1, <4>1, RowFacts DEF Loadable
      <4> QED
        BY <1>1, <1>5, <1>7, <2>1, <4>2, <4>3, <4>4, <4>5 DEF Holds
    <3> QED
      BY <1>1, <1>2, <1>5, <1>7, <2>1, <3>1, RowsAssumption DEF Loadable, Ops
  <2>2. CASE u # t
    <3>1. work'[u] = work[u]
      BY <1>7, <2>2
    <3>2. ASSUME NEW l \in work[u].lics PROVE Holds(u, l)'
      <4>1. Holds(u, l) /\ l \in License /\ work[u] \in Work
        BY <3>1, <3>2 DEF RowsInv, WorkIsCurrent, TypeOK, Work
      <4>2. work[u].seen[l].until \in Nat /\ work[u].since \in Nat
        BY <4>1, RowFacts DEF Work
      <4>3. work[u].seen[l].until <= term'[l] /\ (work[u].op = "check" => work[u].since <= usable'[l])
        BY <1>3, <4>1, <4>2 DEF Holds, RowsInv, TypeOK
      <4>4. ASSUME doubt'[l] # "mixed"
            PROVE  doubt[l] # "mixed" /\ \A v \in Thread \ {u} : l \notin work'[v].lics
        <5>1. doubt[l] # "mixed" /\ l \notin Shared(lics)
          BY <1>9, <4>1, <4>4
        <5>2. l \notin lics
          BY <1>8, <3>2, <5>1
        <5>3. \A v \in Thread \ {u} : l \notin work[v].lics
          BY <4>1, <5>1 DEF Holds
        <5> QED BY <1>5, <1>7, <5>1, <5>2, <5>3
      <4> QED
        BY <1>1, <3>1, <4>1, <4>3, <4>4 DEF Holds
    <3> QED BY <1>1, <3>1, <3>2 DEF RowsInv, WorkIsCurrent
  <2> QED BY <2>1, <2>2
<1> QED BY <1>10, <1>11, <1>12, <1>13, <1>14 DEF RowsInv

(* The doubt that is left when a handler has finished: an overlap is over  *)
(* only when nobody else holds the license, and a license is beyond doubt  *)
(* if it was announced, or neither it nor its status changed.              *)
LEMMA DoubtKept ==
  ASSUME RowsInv, NEW t \in Thread, NEW said, Finish(t, said)
  PROVE  /\ work' = [work EXCEPT ![t] = Idle] /\ UNCHANGED <<enforced, now, raced>>
         /\ doubt' \in [License -> {"none", "some", "mixed"}]
         /\ \A l \in License :
              /\ doubt'[l] = "mixed" => doubt[l] = "mixed"
              /\ l \notin work[t].lics => doubt'[l] = doubt[l]
              /\ doubt[l] = "mixed" /\ doubt'[l] # "mixed" =>
                   \A u \in Thread \ {t} : l \notin work[u].lics
              /\ l \in work[t].lics /\ doubt'[l] = "none" =>
                   /\ doubt[l] # "mixed"
                   /\ l \in said \/ (row'[l].status = row[l].status /\ doubt[l] = "none")
<1>1. /\ work' = [work EXCEPT ![t] = Idle] /\ UNCHANGED <<enforced, now, raced>>
      /\ doubt' = [l \in License |-> IF l \in work[t].lics THEN DoubtAfter(t, l, said)
                                     ELSE doubt[l]]
  BY DEF Finish
<1>2. \A l \in License : doubt[l] \in {"none", "some", "mixed"}
  BY DEF RowsInv, TypeOK
<1>3. \A l \in License : doubt'[l] = IF l \in work[t].lics THEN DoubtAfter(t, l, said) ELSE doubt[l]
  BY <1>1
<1>4. ASSUME NEW l \in License
      PROVE  /\ DoubtAfter(t, l, said) \in {"none", "some", "mixed"}
             /\ DoubtAfter(t, l, said) = "mixed" => doubt[l] = "mixed"
             /\ doubt[l] = "mixed" /\ DoubtAfter(t, l, said) # "mixed" =>
                  \A u \in Thread \ {t} : l \notin work[u].lics
             /\ DoubtAfter(t, l, said) = "none" =>
                   /\ doubt[l] # "mixed"
                   /\ l \in said \/ (row'[l].status = row[l].status /\ doubt[l] = "none")
  BY <1>2, <1>4 DEF DoubtAfter
<1>5. doubt' \in [License -> {"none", "some", "mixed"}]
  BY <1>1, <1>2, <1>4
<1> QED BY <1>1, <1>3, <1>4, <1>5

(* The other threads' views survive a commit: a license they share with    *)
(* the committing thread stays mixed until the last of them is through.    *)
LEMMA WorkKept ==
  ASSUME RowsInv, Remember, NEW t \in Thread, work[t] # Idle, NEW said, Finish(t, said),
         row' \in [License -> Row],
         \A l \in License \ work[t].lics : row'[l] = row[l] /\ installs'[l] = installs[l],
         \A l \in License : row'[l] = Unborn => row[l] = Unborn
  PROVE  WorkIsCurrent'
<1>1. work' = [work EXCEPT ![t] = Idle] /\ UNCHANGED <<enforced, now, raced>>
  BY DEF Finish
<1>2. now \in Nat
  BY RowsAssumption DEF RowsInv, TypeOK
<1>3. /\ usable' \in [License -> Nat] /\ term' \in [License -> Nat]
      /\ \A l \in License : usable[l] <= usable'[l] /\ term[l] <= term'[l]
  BY <1>1, <1>2, Remembered DEF RowsInv, TypeOK
<1> SUFFICES ASSUME NEW u \in Thread, work'[u] # Idle
             PROVE  /\ work'[u].op # "idle"
                    /\ work'[u].since <= now' /\ now' <= work'[u].since + Lag
                    /\ work'[u].op = "check" => work'[u].install \in Install
                    /\ \A l \in work'[u].lics : Holds(u, l)'
  BY DEF WorkIsCurrent
<1>4. u # t /\ work'[u] = work[u]
  BY <1>1 DEF RowsInv, TypeOK
<1>5. ASSUME NEW l \in work[u].lics PROVE Holds(u, l)'
  <2>1. Holds(u, l) /\ l \in License /\ work[u] \in Work
    BY <1>4, <1>5 DEF RowsInv, WorkIsCurrent, TypeOK, Work
  <2>2. work[u].seen[l].until \in Nat /\ work[u].since \in Nat
    BY <2>1, RowFacts DEF Work
  <2>3. work[u].seen[l].until <= term'[l] /\ (work[u].op = "check" => work[u].since <= usable'[l])
    BY <1>3, <2>1, <2>2 DEF Holds, RowsInv, TypeOK
  <2>4. row'[l] = Unborn => work[u].op = "issue"
    BY <2>1 DEF Holds
  <2>5. ASSUME doubt'[l] # "mixed"
        PROVE  /\ doubt[l] # "mixed"
               /\ \A v \in Thread \ {u} : l \notin work'[v].lics
               /\ row'[l] = row[l] /\ installs'[l] = installs[l]
    <3>0. doubt[l] # "mixed"
      BY <1>4, <1>5, <2>1, <2>5, DoubtKept
    <3>1. \A v \in Thread \ {u} : l \notin work[v].lics
      BY <2>1, <3>0 DEF Holds
    <3>2. l \notin work[t].lics
      BY <1>4, <3>1
    <3>3. \A v \in Thread \ {u} : l \notin work'[v].lics
      BY <1>1, <3>1, IdleFacts DEF RowsInv, TypeOK
    <3> QED BY <2>1, <3>0, <3>2, <3>3
  <2> QED BY <1>1, <1>4, <2>1, <2>3, <2>4, <2>5 DEF Holds
<1> QED BY <1>1, <1>4, <1>5 DEF RowsInv, WorkIsCurrent

(* A commit keeps the invariant if the tables it writes keep their types   *)
(* and what they say of the licenses the thread held, where the thread     *)
(* was alone.                                                              *)
LEMMA CommitKeepsInv ==
  ASSUME RowsInv, Remember, NEW t \in Thread, work[t] # Idle, NEW said, Finish(t, said),
         product' \in BOOLEAN, farewell' \in BOOLEAN,
         row' \in [License -> Row], installs' \in [License -> [Install -> Nat]],
         linked' \subseteq License, queued' \subseteq License,
         told' \in [License -> Status \union {"unborn", "gone"}],
         token' \in [License -> Nat],
         \A l \in License \ work[t].lics :
           /\ row'[l] = row[l] /\ installs'[l] = installs[l] /\ told'[l] = told[l]
           /\ token'[l] = token[l] /\ (l \in linked' => l \in linked),
         \A l \in work[t].lics :
           /\ row'[l] # Unborn \/ UNCHANGED <<row[l], installs[l], linked>>
           /\ token'[l] <= usable[l] + Lag + TTL /\ token'[l] <= term[l]
           /\ row'[l] = Gone /\ (enforced \/ l \notin raced) =>
                l \notin linked' /\ \A i \in Install : installs'[l][i] = 0
           /\ l \in Hooked /\ doubt'[l] = "none" => told'[l] = row'[l].status
           /\ l \notin raced => \A i \in Install : installs'[l][i] <= 1
  PROVE  RowsInv'
<1>1. work' = [work EXCEPT ![t] = Idle] /\ UNCHANGED <<enforced, now, raced>>
  BY DEF Finish
<1>2. now \in Nat /\ work[t].lics \subseteq License
  BY RowsAssumption DEF RowsInv, TypeOK, Work
<1>3. /\ usable' \in [License -> Nat] /\ term' \in [License -> Nat]
      /\ \A l \in License :
           /\ usable[l] <= usable'[l] /\ usable'[l] <= now'
           /\ term[l] <= term'[l] /\ row'[l].until <= term'[l]
  BY <1>1, <1>2, Remembered DEF RowsInv, TypeOK
<1>4. \A l \in License : row'[l] = Unborn =>
         row[l] = Unborn /\ installs'[l] = installs[l] /\ (l \in linked' => l \in linked)
  BY <1>2
<1>5. WorkIsCurrent'
  BY <1>4, WorkKept
<1>6. TypeOK'
  BY <1>1, <1>3, IdleFacts, DoubtKept DEF RowsInv, TypeOK
<1>7. TokensEndInTime'
  <2> SUFFICES ASSUME NEW l \in License
               PROVE  token'[l] <= usable'[l] + Lag + TTL /\ token'[l] <= term'[l]
    BY DEF TokensEndInTime
  <2>1. token'[l] <= usable[l] + Lag + TTL /\ token'[l] <= term[l]
    BY <1>2 DEF RowsInv, TokensEndInTime
  <2> QED BY <1>3, <2>1, RowsAssumption DEF RowsInv, TypeOK
<1>8. DeletionIsClean'
  <2> SUFFICES ASSUME NEW l \in License, row'[l] = Gone, enforced \/ l \notin raced
               PROVE  l \notin linked' /\ \A i \in Install : installs'[l][i] = 0
    BY <1>1 DEF DeletionIsClean
  <2> QED BY <1>2 DEF RowsInv, DeletionIsClean
<1>9. LastWordIsTrue'
  <2> SUFFICES ASSUME NEW l \in Hooked, doubt'[l] = "none" PROVE told'[l] = row'[l].status
    BY DEF LastWordIsTrue
  <2>1. l \notin work[t].lics => doubt'[l] = doubt[l] /\ told'[l] = told[l] /\ row'[l] = row[l]
    BY DoubtKept, RowsAssumption
  <2> QED BY <2>1 DEF RowsInv, LastWordIsTrue
<1>10. OneRowPerInstall'
  <2> SUFFICES ASSUME NEW l \in License \ raced, NEW i \in Install
               PROVE installs'[l][i] <= 1
    BY <1>1 DEF OneRowPerInstall
  <2> QED BY <1>2 DEF RowsInv, OneRowPerInstall
<1>11. HistoryIsCurrent'
  <2>1. \A l \in License : doubt'[l] = "mixed" => l \in raced'
    BY <1>1, DoubtKept DEF RowsInv, HistoryIsCurrent
  <2> QED BY <1>1, <1>3, <1>4, <2>1 DEF RowsInv, HistoryIsCurrent
<1> QED BY <1>5, <1>6, <1>7, <1>8, <1>9, <1>10, <1>11 DEF RowsInv

(* What the invariant says of a license the committing thread holds.       *)
LEMMA Held ==
  ASSUME RowsInv, NEW t \in Thread, work[t] # Idle, NEW l \in work[t].lics
  PROVE  /\ l \in License /\ work[t] \in Work /\ Holds(t, l)
         /\ row[l] \in Row /\ token[l] \in Nat /\ usable[l] \in Nat /\ term[l] \in Nat
         /\ work[t].seen[l] \in Row /\ work[t].since \in Nat
         /\ work[t].since <= now /\ now <= work[t].since + Lag
         /\ doubt[l] = "mixed" => l \in raced
         /\ work[t].op = "check" => work[t].install \in Install
         /\ token[l] <= usable[l] + Lag + TTL /\ token[l] <= term[l]
<1>1. work[t] \in Work /\ l \in License
  BY DEF RowsInv, TypeOK, Work
<1>2. work[t].seen[l] \in Row /\ work[t].since \in Nat
  BY <1>1 DEF Work
<1> QED BY <1>1, <1>2 DEF RowsInv, TypeOK, WorkIsCurrent, TokensEndInTime, HistoryIsCurrent

(* A commit the database refuses.                                          *)
LEMMA RollbackKeepsInv ==
  ASSUME RowsInv, Remember, NEW t \in Thread, work[t] # Idle, Rollback(t)
  PROVE  RowsInv'
<1>1. Finish(t, {}) /\ UNCHANGED <<product, row, installs, linked, queued, farewell, told, token>>
  BY DEF Rollback, rows
<1>2. \A l \in work[t].lics :
        /\ row'[l] # Unborn \/ UNCHANGED <<row[l], installs[l], linked>>
        /\ token'[l] <= usable[l] + Lag + TTL /\ token'[l] <= term[l]
        /\ row'[l] = Gone /\ (enforced \/ l \notin raced) =>
             l \notin linked' /\ \A i \in Install : installs'[l][i] = 0
        /\ l \in Hooked /\ doubt'[l] = "none" => told'[l] = row'[l].status
        /\ l \notin raced => \A i \in Install : installs'[l][i] <= 1
  <2> SUFFICES ASSUME NEW l \in work[t].lics
               PROVE  /\ token[l] <= usable[l] + Lag + TTL /\ token[l] <= term[l]
                      /\ row[l] = Gone /\ (enforced \/ l \notin raced) =>
                           l \notin linked /\ \A i \in Install : installs[l][i] = 0
                      /\ l \in Hooked /\ doubt'[l] = "none" => told[l] = row[l].status
                      /\ l \notin raced => \A i \in Install : installs[l][i] <= 1
    BY <1>1
  <2>1. l \in License /\ (doubt'[l] = "none" => doubt[l] = "none")
    BY <1>1, Held, DoubtKept
  <2> QED BY <2>1, Held DEF RowsInv, DeletionIsClean, LastWordIsTrue, OneRowPerInstall
<1> QED BY <1>1, <1>2, CommitKeepsInv DEF RowsInv, TypeOK

LEMMA IssueKeepsInv ==
  ASSUME RowsInv, Remember, NEW t \in Thread, CommitIssue(t)
  PROVE  RowsInv'
<1>1. work[t] # Idle
  BY IdleFacts DEF CommitIssue
<1>2. CASE enforced /\ ~product
  BY <1>1, <1>2, RollbackKeepsInv DEF CommitIssue
<1>3. CASE ~(enforced /\ ~product)
  <2>1. PICK l \in work[t].lics, days \in {Term, Period} :
          /\ row' = [row EXCEPT ![l] = [status |-> "active", until |-> now + days]]
          /\ told' = [told EXCEPT ![l] = "active"]
          /\ Finish(t, {l})
          /\ UNCHANGED <<product, installs, linked, queued, farewell, token>>
    BY <1>3 DEF CommitIssue
  <2> DEFINE new == [status |-> "active", until |-> now + days]
  <2>2. new \in LiveRow /\ new \in Row /\ new # Unborn /\ new # Gone
    BY RowsAssumption, RowFacts DEF LiveRow, Status, Row, RowsInv, TypeOK
  <2>3. l \in License
    BY <1>1, Held
  <2>4. /\ row' \in [License -> Row] /\ row'[l] = new /\ told'[l] = "active"
        /\ told' \in [License -> Status \union {"unborn", "gone"}]
        /\ \A k \in License \ {l} : row'[k] = row[k] /\ told'[k] = told[k]
    BY <2>1, <2>2, <2>3 DEF RowsInv, TypeOK, Status
  <2>5. ASSUME NEW k \in work[t].lics
        PROVE  /\ row'[k] # Unborn \/ UNCHANGED <<row[k], installs[k], linked>>
               /\ token'[k] <= usable[k] + Lag + TTL /\ token'[k] <= term[k]
               /\ row'[k] = Gone /\ (enforced \/ k \notin raced) =>
                    k \notin linked' /\ \A i \in Install : installs'[k][i] = 0
               /\ k \in Hooked /\ doubt'[k] = "none" => told'[k] = row'[k].status
               /\ k \notin raced => \A i \in Install : installs'[k][i] <= 1
    <3>1. k \in License /\ (k # l => (doubt'[k] = "none" => doubt[k] = "none"))
      BY <1>1, <2>1, Held, DoubtKept
    <3>2. k # l => row'[k] = row[k] /\ told'[k] = told[k]
      BY <2>4, <3>1
    <3>3. k = l => row'[k] = new /\ told'[k] = new.status
      BY <2>4
    <3>4. k \in Hooked /\ doubt'[k] = "none" => told'[k] = row'[k].status
      BY <3>1, <3>2, <3>3 DEF RowsInv, LastWordIsTrue
    <3> QED BY <1>1, <2>1, <2>2, <3>1, <3>2, <3>3, <3>4, Held
            DEF RowsInv, DeletionIsClean, OneRowPerInstall
  <2> HIDE DEF new
  <2> QED BY <1>1, <2>1, <2>4, <2>5, CommitKeepsInv DEF RowsInv, TypeOK
<1> QED BY <1>2, <1>3

LEMMA CheckKeepsInv ==
  ASSUME RowsInv, Remember, NEW t \in Thread, CommitCheck(t)
  PROVE  RowsInv'
<1>1. work[t] # Idle /\ work[t].op = "check"
  BY IdleFacts DEF CommitCheck
<1> DEFINE w == work[t]
<1>2. PICK l \in w.lics :
        IF CheckFails(l, w)
        THEN Rollback(t)
        ELSE /\ installs' = [installs EXCEPT ![l][w.install] = Upsert(@, w.known)]
             /\ linked' = linked \union {l}
             /\ token' = [token EXCEPT ![l] = IF @ < Expiry(w.seen[l].until)
                                              THEN Expiry(w.seen[l].until) ELSE @]
             /\ UNCHANGED <<product, row, queued, farewell, told>>
             /\ Finish(t, {})
  BY DEF CommitCheck
<1>3. CASE CheckFails(l, w)
  BY <1>1, <1>2, <1>3, RollbackKeepsInv
<1>4. CASE ~CheckFails(l, w)
  <2>1. /\ l \in License /\ w \in Work /\ Holds(t, l) /\ row[l] \in Row /\ w.seen[l] \in LiveRow
        /\ token[l] \in Nat /\ usable[l] \in Nat /\ term[l] \in Nat
        /\ w.since \in Nat /\ w.since <= now /\ now <= w.since + Lag
        /\ w.install \in Install
        /\ token[l] <= usable[l] + Lag + TTL /\ token[l] <= term[l]
    BY <1>1, Held DEF Holds
  <2>2. w.seen[l].until \in Nat /\ w.seen[l].until <= term[l] /\ w.since <= usable[l] /\ now \in Nat
    BY <1>1, <2>1, RowsAssumption DEF LiveRow, Holds, RowsInv, TypeOK
  <2>3. /\ Expiry(w.seen[l].until) \in Nat
        /\ Expiry(w.seen[l].until) <= usable[l] + Lag + TTL
        /\ Expiry(w.seen[l].until) <= term[l]
    BY <2>1, <2>2, RowsAssumption DEF Expiry
  <2>4. /\ token' \in [License -> Nat]
        /\ token'[l] <= usable[l] + Lag + TTL /\ token'[l] <= term[l]
        /\ \A k \in License \ {l} : token'[k] = token[k]
    BY <1>2, <1>4, <2>1, <2>3 DEF RowsInv, TypeOK
  <2>5. w.known \in BOOLEAN /\ installs[l] \in [Install -> Nat]
    BY <2>1 DEF Work, RowsInv, TypeOK
  <2> DEFINE n == Upsert(installs[l][w.install], w.known)
  <2>6. /\ installs' \in [License -> [Install -> Nat]]
        /\ \A i \in Install : installs'[l][i] = IF i = w.install THEN n ELSE installs[l][i]
        /\ \A k \in License \ {l} : installs'[k] = installs[k]
    <3>1. n \in Nat
      BY <2>1, <2>5 DEF Upsert
    <3>2. installs \in [License -> [Install -> Nat]]
      BY DEF RowsInv, TypeOK
    <3>3. installs' = [installs EXCEPT ![l][w.install] = n]
      BY <1>2, <1>4
    <3> HIDE DEF n
    <3> QED BY <2>1, <2>5, <3>1, <3>2, <3>3
  <2>7. row[l] # Unborn
    BY <1>1, <2>1 DEF Holds
  <2>8. ~(row[l] = Gone /\ (enforced \/ l \notin raced))
    BY <1>1, <1>4, <2>1, RowFacts, Held DEF CheckFails, Holds
  <2>9. ASSUME l \notin raced, NEW i \in Install PROVE installs'[l][i] <= 1
    <3>1. /\ installs[l][i] <= 1 /\ installs[l][i] \in Nat
          /\ installs[l][w.install] <= 1 /\ installs[l][w.install] \in Nat
      BY <2>1, <2>5, <2>9 DEF RowsInv, OneRowPerInstall
    <3>2. w.known = (installs[l][w.install] = 1)
      BY <1>1, <2>1, <2>9, Held DEF Holds
    <3>3. n <= 1
      <4>1. CASE w.known
        BY <3>1, <4>1 DEF Upsert
      <4>2. CASE ~w.known
        <5>1. installs[l][w.install] # 1
          BY <2>5, <3>2, <4>2, Zenon
        <5>2. n = installs[l][w.install] + 1
          BY <4>2 DEF Upsert
        <5> QED BY <3>1, <5>1, <5>2
      <4> QED BY <4>1, <4>2
    <3> HIDE DEF n
    <3> QED BY <2>6, <3>1, <3>3
  <2>10. \A k \in w.lics :
           /\ row'[k] # Unborn \/ UNCHANGED <<row[k], installs[k], linked>>
           /\ token'[k] <= usable[k] + Lag + TTL /\ token'[k] <= term[k]
           /\ row'[k] = Gone /\ (enforced \/ k \notin raced) =>
                k \notin linked' /\ \A i \in Install : installs'[k][i] = 0
           /\ k \in Hooked /\ doubt'[k] = "none" => told'[k] = row'[k].status
           /\ k \notin raced => \A i \in Install : installs'[k][i] <= 1
    <3> SUFFICES ASSUME NEW k \in w.lics
                 PROVE  /\ row'[k] # Unborn
                        /\ token'[k] <= usable[k] + Lag + TTL /\ token'[k] <= term[k]
                        /\ row'[k] = Gone /\ (enforced \/ k \notin raced) =>
                             k \notin linked' /\ \A i \in Install : installs'[k][i] = 0
                        /\ k \in Hooked /\ doubt'[k] = "none" => told'[k] = row'[k].status
                        /\ k \notin raced => \A i \in Install : installs'[k][i] <= 1
      OBVIOUS
    <3>1. k \in License /\ row'[k] = row[k] /\ row[k] # Unborn
      BY <1>1, <1>2, <1>4, Held DEF Holds
    <3>2. token'[k] <= usable[k] + Lag + TTL /\ token'[k] <= term[k]
      BY <1>1, <2>4, Held
    <3>3. k \in Hooked /\ doubt'[k] = "none" => told'[k] = row'[k].status
      <4>1. doubt'[k] = "none" => doubt[k] = "none"
        BY <1>2, <1>4, <3>1, DoubtKept
      <4> QED BY <1>2, <1>4, <4>1 DEF RowsInv, LastWordIsTrue
    <3>4. k \notin raced => \A i \in Install : installs'[k][i] <= 1
      BY <2>6, <2>9, <3>1 DEF RowsInv, OneRowPerInstall
    <3>5. row'[k] = Gone /\ (enforced \/ k \notin raced) =>
            k \notin linked' /\ \A i \in Install : installs'[k][i] = 0
      BY <1>2, <1>4, <2>6, <2>8, <3>1 DEF RowsInv, DeletionIsClean
    <3> QED BY <3>1, <3>2, <3>3, <3>4, <3>5
  <2>11. /\ linked' \subseteq License
         /\ \A k \in License \ w.lics :
              /\ row'[k] = row[k] /\ installs'[k] = installs[k] /\ told'[k] = told[k]
              /\ token'[k] = token[k] /\ (k \in linked' => k \in linked)
    BY <1>2, <1>4, <2>1, <2>4, <2>6 DEF RowsInv, TypeOK
  <2>12. /\ Finish(t, {}) /\ UNCHANGED <<product, row, queued, farewell, told>>
    BY <1>2, <1>4
  <2> QED
    BY <1>1, <2>4, <2>6, <2>10, <2>11, <2>12, CommitKeepsInv DEF RowsInv, TypeOK
<1> QED BY <1>3, <1>4

(* set_status, edit_license and Stripe's events: a handler that was alone  *)
(* writes what it announces, and what it does not announce it leaves alone *)
(* or in doubt.                                                            *)
Writers == {"status", "edit", "invoice", "mark"}

LEMMA ChangeKeepsInv ==
  ASSUME RowsInv, Remember, NEW t \in Thread, work[t].op \in Writers,
         NEW new, \A l \in work[t].lics : new[l] \in LiveRow,
         NEW announced \in BOOLEAN, Change(t, new, announced)
  PROVE  RowsInv'
<1> DEFINE w == work[t]
           r(l) == Written(row[l], w.seen[l], new[l])
           heard == IF announced THEN w.lics \intersect Hooked ELSE {}
<1>1. w # Idle
  BY IdleFacts DEF Writers
<1>2. CASE \E l \in w.lics : ChangeFails(l, w, new[l])
  BY <1>1, <1>2, RollbackKeepsInv DEF Change
<1>3. CASE ~ \E l \in w.lics : ChangeFails(l, w, new[l])
  <2>1. ASSUME NEW l \in w.lics
        PROVE  /\ l \in License /\ row[l] \in Row /\ w.seen[l] \in LiveRow /\ row[l] # Unborn
               /\ doubt[l] # "mixed" => row[l] = w.seen[l]
               /\ doubt[l] = "mixed" => l \in raced
               /\ row[l] = Gone => ~enforced /\ new[l] = w.seen[l]
               /\ new[l] \in LiveRow /\ new[l].status \in Status
    <3>1. l \in License /\ Holds(t, l) /\ row[l] \in Row /\ (doubt[l] = "mixed" => l \in raced)
      BY <1>1, Held
    <3>2. row[l] = Gone => ~enforced /\ new[l] = w.seen[l]
      BY <1>3 DEF ChangeFails
    <3> QED BY <3>1, <3>2, RowFacts DEF Holds, Writers
  <2>2. ASSUME NEW l \in w.lics
        PROVE  /\ r(l) \in Row /\ r(l) # Unborn /\ (r(l) = Gone => row[l] = Gone)
               /\ r(l).status = IF new[l].status = w.seen[l].status THEN row[l].status
                                ELSE new[l].status
    <3>0. r(l).status = IF new[l].status = w.seen[l].status THEN row[l].status ELSE new[l].status
      BY DEF Written
    <3>1. CASE row[l] = Gone
      <4>1. r(l) = Gone
        BY <2>1, <3>1 DEF Written, Gone
      <4> QED BY <3>0, <3>1, <4>1, RowFacts
    <3>2. CASE row[l] \in LiveRow
      <4>1. r(l) \in LiveRow
        BY <2>1, <3>2 DEF Written, LiveRow
      <4> QED BY <3>0, <3>2, <4>1, RowFacts DEF Row
    <3> QED BY <2>1, <3>1, <3>2, RowFacts
  <2>3. /\ row' = [l \in License |-> IF l \in w.lics THEN r(l) ELSE row[l]]
        /\ linked' = linked \union w.lics
        /\ queued' = queued \union heard
        /\ told' = [l \in License |-> IF l \in heard THEN new[l].status ELSE told[l]]
        /\ UNCHANGED <<product, installs, farewell, token>>
        /\ Finish(t, heard)
    BY <1>3 DEF Change
  <2> HIDE DEF r
  <2>4. w.lics \subseteq License /\ heard \subseteq w.lics
    BY <2>1
  <2>5. /\ row' \in [License -> Row]
        /\ \A l \in w.lics : row'[l] = r(l)
        /\ \A l \in License \ w.lics : row'[l] = row[l]
    <3>1. \A l \in License : (IF l \in w.lics THEN r(l) ELSE row[l]) \in Row
      BY <2>2 DEF RowsInv, TypeOK
    <3> QED BY <2>3, <2>4, <3>1
  <2>6. /\ told' \in [License -> Status \union {"unborn", "gone"}]
        /\ \A l \in License : told'[l] = IF l \in heard THEN new[l].status ELSE told[l]
        /\ queued' \subseteq License /\ linked' \subseteq License
    <3>1. \A l \in heard : new[l].status \in Status
      BY <2>1, <2>4
    <3>2. told \in [License -> Status \union {"unborn", "gone"}]
      BY DEF RowsInv, TypeOK
    <3>3. queued' \subseteq License /\ linked' \subseteq License
      BY <2>3, <2>4 DEF RowsInv, TypeOK
    <3> HIDE DEF heard
    <3> QED BY <2>3, <3>1, <3>2, <3>3
  <2>7. ASSUME NEW k \in w.lics
        PROVE  /\ row'[k] # Unborn
               /\ token'[k] <= usable[k] + Lag + TTL /\ token'[k] <= term[k]
               /\ row'[k] = Gone /\ (enforced \/ k \notin raced) =>
                    k \notin linked' /\ \A i \in Install : installs'[k][i] = 0
               /\ k \in Hooked /\ doubt'[k] = "none" => told'[k] = row'[k].status
               /\ k \notin raced => \A i \in Install : installs'[k][i] <= 1
    <3>1. k \in License /\ row'[k] = r(k) /\ row'[k] # Unborn
      BY <2>1, <2>2, <2>5
    <3>2. token'[k] <= usable[k] + Lag + TTL /\ token'[k] <= term[k]
      BY <1>1, <2>3, Held
    <3>3. ASSUME k \in Hooked, doubt'[k] = "none" PROVE told'[k] = row'[k].status
      <4>1. /\ doubt[k] # "mixed"
            /\ k \in heard \/ (row'[k].status = row[k].status /\ doubt[k] = "none")
        BY <2>3, <3>1, <3>3, DoubtKept
      <4>2. CASE k \in heard
        <5>1. told'[k] = new[k].status /\ row[k] = w.seen[k]
          BY <2>1, <2>6, <3>1, <4>1, <4>2
        <5> QED BY <2>2, <3>1, <5>1
      <4>3. CASE k \notin heard
        <5>1. told'[k] = told[k] /\ told[k] = row[k].status
          BY <2>6, <3>1, <3>3, <4>1, <4>3 DEF RowsInv, LastWordIsTrue
        <5> QED BY <4>1, <4>3, <5>1
      <4> QED BY <4>2, <4>3
    <3>4. k \notin raced => \A i \in Install : installs'[k][i] <= 1
      BY <2>3, <3>1 DEF RowsInv, OneRowPerInstall
    <3>5. ~(row'[k] = Gone /\ (enforced \/ k \notin raced))
      <4>1. row[k] = Gone => ~enforced /\ (k \notin raced => w.seen[k] = Gone)
        BY <2>1
      <4> QED BY <2>1, <2>2, <3>1, <4>1, RowFacts
    <3> QED BY <3>1, <3>2, <3>3, <3>4, <3>5
  <2>8. \A k \in License \ w.lics :
            /\ row'[k] = row[k] /\ installs'[k] = installs[k] /\ told'[k] = told[k]
            /\ token'[k] = token[k] /\ (k \in linked' => k \in linked)
    BY <2>3, <2>4, <2>5, <2>6
  <2> HIDE DEF heard
  <2> QED
    BY <1>1, <2>3, <2>5, <2>6, <2>7, <2>8, CommitKeepsInv DEF RowsInv, TypeOK
<1> QED BY <1>2, <1>3

(* What the handlers that write rows make of what they have loaded.        *)
LEMMA NewRows ==
  ASSUME RowsInv, NEW t \in Thread, work[t].op \in Writers, NEW l \in work[t].lics
  PROVE  /\ \A s \in Status : WithStatus(work[t], s)[l] \in LiveRow
         /\ \A day \in Nat : WithTerm(work[t], day)[l] \in LiveRow
         /\ Extended(work[t].seen[l], work[t].since) \in Nat
<1>1. l \in License /\ work[t].seen[l] \in LiveRow /\ work[t].since \in Nat
  BY IdleFacts, Held DEF Holds, Writers
<1> QED BY <1>1, RowsAssumption DEF WithStatus, WithTerm, Extended, LiveRow

LEMMA WritersKeepInv ==
  ASSUME RowsInv, Remember, NEW t \in Thread,
         CommitStatus(t) \/ CommitEdit(t) \/ CommitInvoice(t) \/ CommitMark(t)
  PROVE  RowsInv'
<1>1. CASE CommitStatus(t)
  <2>1. PICK s \in {"active", "disabled", "revoked"} : Change(t, WithStatus(work[t], s), TRUE)
    BY <1>1 DEF CommitStatus
  <2>2. work[t].op \in Writers /\ s \in Status
    BY <1>1 DEF CommitStatus, Writers, Status
  <2> QED BY <2>1, <2>2, NewRows, ChangeKeepsInv
<1>2. CASE CommitEdit(t)
  <2>1. PICK day \in EditDay, other \in BOOLEAN :
          Change(t, WithTerm(work[t], day), other \/ \E l \in work[t].lics : day # work[t].seen[l].until)
    BY <1>2 DEF CommitEdit
  <2>2. work[t].op \in Writers /\ day \in Nat
    BY <1>2, RowsAssumption DEF CommitEdit, Writers
  <2>3. (other \/ \E l \in work[t].lics : day # work[t].seen[l].until) \in BOOLEAN
    OBVIOUS
  <2> QED BY <2>1, <2>2, <2>3, NewRows, ChangeKeepsInv
<1>3. CASE CommitInvoice(t)
  <2> DEFINE new == [l \in License |-> [status |-> "active",
                                        until |-> Extended(work[t].seen[l], work[t].since)]]
  <2>1. work[t].op \in Writers /\ Change(t, new, FALSE)
    BY <1>3 DEF CommitInvoice, Writers
  <2>2. \A l \in work[t].lics : new[l] \in LiveRow
    BY <2>1, NewRows, IdleFacts, Held DEF LiveRow, Status, Writers
  <2> HIDE DEF new
  <2> QED BY <2>1, <2>2, ChangeKeepsInv
<1>4. CASE CommitMark(t)
  <2>1. PICK s \in {"delinquent", "revoked"} : Change(t, WithStatus(work[t], s), FALSE)
    BY <1>4 DEF CommitMark
  <2>2. work[t].op \in Writers /\ s \in Status
    BY <1>4 DEF CommitMark, Writers, Status
  <2> QED BY <2>1, <2>2, NewRows, ChangeKeepsInv
<1> QED BY <1>1, <1>2, <1>3, <1>4

LEMMA DeleteKeepsInv ==
  ASSUME RowsInv, Remember, NEW t \in Thread, CommitDelete(t)
  PROVE  RowsInv'
<1> DEFINE w == work[t]
<1>1. w # Idle /\ w.lics \subseteq License
  BY IdleFacts DEF CommitDelete, RowsInv, TypeOK, Work
<1>2. CASE DeleteFails(w)
  BY <1>1, <1>2, RollbackKeepsInv DEF CommitDelete
<1>3. CASE ~DeleteFails(w)
  <2>1. /\ row' = [l \in License |-> IF l \in w.lics THEN Gone ELSE row[l]]
        /\ installs' = [l \in License |-> IF l \in w.lics THEN [i \in Install |-> 0]
                                          ELSE installs[l]]
        /\ linked' = linked \ w.lics
        /\ told' = [l \in License |-> IF l \in w.lics \intersect Hooked THEN "gone"
                                      ELSE told[l]]
        /\ farewell' = (farewell \/ w.lics \intersect Hooked # {})
        /\ product' = (product /\ w.op # "product")
        /\ UNCHANGED <<queued, token>>
        /\ Finish(t, w.lics \intersect Hooked)
    BY <1>3 DEF CommitDelete, Unlink
  <2>2. row' \in [License -> Row] /\ installs' \in [License -> [Install -> Nat]]
    <3>1. [i \in Install |-> 0] \in [Install -> Nat]
      OBVIOUS
    <3> QED BY <2>1, <3>1, RowFacts DEF RowsInv, TypeOK
  <2>3. told' \in [License -> Status \union {"unborn", "gone"}]
    BY <2>1 DEF RowsInv, TypeOK
  <2>4. product' \in BOOLEAN /\ farewell' \in BOOLEAN
    BY <2>1, Zenon DEF RowsInv, TypeOK
  <2>5. \A l \in w.lics :
          /\ row'[l] # Unborn
          /\ token'[l] <= usable[l] + Lag + TTL /\ token'[l] <= term[l]
          /\ l \notin linked' /\ \A i \in Install : installs'[l][i] = 0
          /\ l \in Hooked => told'[l] = row'[l].status
    <3> SUFFICES ASSUME NEW l \in w.lics
                 PROVE  /\ row'[l] # Unborn
                        /\ token'[l] <= usable[l] + Lag + TTL /\ token'[l] <= term[l]
                        /\ l \notin linked' /\ \A i \in Install : installs'[l][i] = 0
                        /\ l \in Hooked => told'[l] = row'[l].status
      OBVIOUS
    <3>1. row'[l] = Gone /\ installs'[l] = [i \in Install |-> 0] /\ l \notin linked'
      BY <1>1, <2>1
    <3>2. token'[l] <= usable[l] + Lag + TTL /\ token'[l] <= term[l]
      BY <1>1, <2>1, Held
    <3>3. l \in Hooked => told'[l] = "gone"
      BY <1>1, <2>1
    <3> QED BY <3>1, <3>2, <3>3, RowFacts DEF Gone
  <2>6. \A l \in License \ w.lics :
          /\ row'[l] = row[l] /\ installs'[l] = installs[l] /\ told'[l] = told[l]
          /\ token'[l] = token[l] /\ (l \in linked' => l \in linked)
    BY <2>1
  <2>7. linked' \subseteq License /\ queued' \subseteq License /\ token' \in [License -> Nat]
    BY <2>1 DEF RowsInv, TypeOK
  <2>8. \A l \in w.lics : l \notin raced => \A i \in Install : installs'[l][i] <= 1
    BY <2>5
  <2>9. \A l \in w.lics :
          /\ row'[l] # Unborn
          /\ token'[l] <= usable[l] + Lag + TTL /\ token'[l] <= term[l]
          /\ l \notin linked' /\ \A i \in Install : installs'[l][i] = 0
          /\ l \in Hooked /\ doubt'[l] = "none" => told'[l] = row'[l].status
    BY <2>5
  <2>10. Finish(t, w.lics \intersect Hooked)
    BY <2>1
  <2> QED
    BY <1>1, <2>2, <2>3, <2>4, <2>6, <2>7, <2>8, <2>9, <2>10, CommitKeepsInv
<1> QED BY <1>2, <1>3

(* A day passes.                                                           *)
LEMMA TickKeepsInv ==
  ASSUME RowsInv, Remember, Tick
  PROVE  RowsInv'
<1>1. /\ now < MaxTime /\ now' = now + 1
      /\ \A t \in Thread : work[t] # Idle => now - work[t].since < Lag
      /\ UNCHANGED <<enforced, product, row, installs, linked, queued, farewell, told, token,
                     work, raced, doubt>>
  BY DEF Tick, rows
<1>2. now \in 0..MaxTime /\ now' \in 0..MaxTime /\ MaxTime \in Nat
  BY <1>1, RowsAssumption DEF RowsInv, TypeOK
<1>3. /\ usable' \in [License -> Nat] /\ term' \in [License -> Nat]
      /\ \A l \in License :
           /\ usable[l] <= usable'[l] /\ usable'[l] <= now'
           /\ term[l] <= term'[l] /\ row'[l].until <= term'[l]
  BY <1>1, <1>2, Remembered DEF RowsInv, TypeOK
<1>4. TypeOK'
  BY <1>1, <1>2, <1>3 DEF RowsInv, TypeOK
<1>5. TokensEndInTime'
  BY <1>1, <1>3, RowsAssumption DEF RowsInv, TypeOK, TokensEndInTime
<1>6. DeletionIsClean' /\ LastWordIsTrue' /\ OneRowPerInstall'
  BY <1>1 DEF RowsInv, DeletionIsClean, LastWordIsTrue, OneRowPerInstall
<1>7. HistoryIsCurrent'
  BY <1>1, <1>3 DEF RowsInv, HistoryIsCurrent
<1>8. WorkIsCurrent'
  <2> SUFFICES ASSUME NEW t \in Thread, work[t] # Idle
               PROVE  /\ work[t].op # "idle"
                      /\ work[t].since <= now' /\ now' <= work[t].since + Lag
                      /\ work[t].op = "check" => work[t].install \in Install
                      /\ \A l \in work[t].lics : Holds(t, l)'
    BY <1>1 DEF WorkIsCurrent
  <2>1. work[t] \in Work /\ work[t].since \in Nat /\ \A l \in License : work[t].seen[l].until \in Nat
    BY RowFacts DEF RowsInv, TypeOK, Work
  <2>2. work[t].since <= now' /\ now' <= work[t].since + Lag
    BY <1>1, <1>2, <2>1, RowsAssumption DEF RowsInv, WorkIsCurrent
  <2>3. ASSUME NEW l \in work[t].lics PROVE Holds(t, l)'
    <3>1. Holds(t, l) /\ l \in License
      BY <2>1 DEF RowsInv, WorkIsCurrent, Work
    <3>2. work[t].seen[l].until <= term'[l] /\ (work[t].op = "check" => work[t].since <= usable'[l])
      BY <1>3, <2>1, <3>1 DEF Holds, RowsInv, TypeOK
    <3> QED BY <1>1, <3>1, <3>2 DEF Holds
  <2> QED BY <2>2, <2>3 DEF RowsInv, WorkIsCurrent
<1> QED BY <1>4, <1>5, <1>6, <1>7, <1>8 DEF RowsInv

-----------------------------------------------------------------------------
LEMMA LoadsKeepInv ==
  ASSUME RowsInv, Remember, NEW t \in Thread,
         \/ LoadIssue(t) \/ LoadCheck(t) \/ LoadChange(t)
         \/ LoadDelete(t) \/ LoadDeleteProduct(t) \/ LoadStripe(t)
  PROVE  RowsInv'
<1>1. \A l \in License : row[l] \in Row /\ row[l].until \in Nat /\ installs[l] \in [Install -> Nat]
  BY RowFacts DEF RowsInv, TypeOK
<1>2. \A l \in Alive : l \in License /\ row[l] \in LiveRow /\ row[l] # Unborn
  BY RowFacts DEF Alive
<1>4. CASE LoadIssue(t)
  <2>1. PICK l \in License : row[l] = Unborn /\ Load(t, "issue", {l}, NoInstall, FALSE)
    BY <1>4 DEF LoadIssue
  <2>2. Loadable("issue", {l}, NoInstall, FALSE)
    BY <1>1, <2>1 DEF Loadable, Ops
  <2> QED BY <2>1, <2>2, LoadKeepsInv
<1>5. CASE LoadCheck(t)
  <2>1. PICK l \in Alive, i \in Install :
          /\ Accepts(row[l]) /\ installs[l][i] <= 1
          /\ Load(t, "check", {l}, i, installs[l][i] = 1)
    BY <1>5 DEF LoadCheck
  <2>2. (installs[l][i] = 1) \in BOOLEAN
    OBVIOUS
  <2>3. Loadable("check", {l}, i, installs[l][i] = 1)
    BY <1>1, <1>2, <2>1, <2>2 DEF Loadable, Ops, Accepts, Row
  <2> QED BY <2>1, <2>3, LoadKeepsInv
<1>6. CASE LoadChange(t)
  <2>1. PICK l \in Alive, op \in {"status", "edit"} :
          Load(t, op, {l}, NoInstall, FALSE)
    BY <1>6 DEF LoadChange
  <2>2. Loadable(op, {l}, NoInstall, FALSE)
    BY <1>1, <1>2 DEF Loadable, Ops, Row
  <2> QED BY <2>1, <2>2, LoadKeepsInv
<1>7. CASE LoadDelete(t)
  <2>1. PICK lics \in SUBSET Alive : Load(t, "delete", lics, NoInstall, FALSE)
    BY <1>7 DEF LoadDelete
  <2>2. Loadable("delete", lics, NoInstall, FALSE)
    BY <1>1, <1>2 DEF Loadable, Ops
  <2> QED BY <2>1, <2>2, LoadKeepsInv
<1>8. CASE LoadDeleteProduct(t)
  <2>1. Load(t, "product", Alive, NoInstall, FALSE)
    BY <1>8 DEF LoadDeleteProduct
  <2>2. Loadable("product", Alive, NoInstall, FALSE)
    BY <1>1, <1>2 DEF Loadable, Ops
  <2> QED BY <2>1, <2>2, LoadKeepsInv
<1>9. CASE LoadStripe(t)
  <2>1. CASE \E l \in Alive : Load(t, "invoice", {l}, NoInstall, FALSE)
    <3>1. PICK l \in Alive : Load(t, "invoice", {l}, NoInstall, FALSE)
      BY <2>1
    <3>2. Loadable("invoice", {l}, NoInstall, FALSE)
      BY <1>1, <1>2 DEF Loadable, Ops
    <3> QED BY <3>1, <3>2, LoadKeepsInv
  <2>2. CASE \E lics \in SUBSET Alive : Load(t, "mark", lics, NoInstall, FALSE)
    <3>1. PICK lics \in SUBSET Alive : Load(t, "mark", lics, NoInstall, FALSE)
      BY <2>2
    <3>2. Loadable("mark", lics, NoInstall, FALSE)
      BY <1>1, <1>2 DEF Loadable, Ops
    <3> QED BY <3>1, <3>2, LoadKeepsInv
  <2> QED BY <1>9, <2>1, <2>2 DEF LoadStripe
<1> QED BY <1>4, <1>5, <1>6, <1>7, <1>8, <1>9

(* The invariant of the license rows, of what points at them and of the    *)
(* running handlers, for any number of handlers at any overlap.            *)
THEOREM RowsInvariant == Spec => []RowsInv
<1>1. Init => RowsInv
  <2> SUFFICES ASSUME Init PROVE RowsInv
    OBVIOUS
  <2>1. TypeOK
    <3>1. /\ enforced \in BOOLEAN /\ product \in BOOLEAN /\ farewell \in BOOLEAN
          /\ linked \subseteq License /\ queued \subseteq License /\ raced \subseteq License
      BY RowsAssumption, Zenon DEF Init
    <3>2. /\ installs \in [License -> [Install -> Nat]]
          /\ told \in [License -> Status \union {"unborn", "gone"}]
          /\ token \in [License -> Nat]
          /\ usable \in [License -> Nat] /\ term \in [License -> Nat]
          /\ doubt \in [License -> {"none", "some", "mixed"}]
      <4>1. [i \in Install |-> 0] \in [Install -> Nat]
        OBVIOUS
      <4> QED BY <4>1 DEF Init
    <3>3. row \in [License -> Row] /\ work \in [Thread -> Work]
      BY RowFacts, IdleFacts DEF Init
    <3>4. now \in 0..MaxTime
      BY RowsAssumption DEF Init
    <3> QED BY <3>1, <3>2, <3>3, <3>4 DEF TypeOK
  <2>2. TokensEndInTime /\ DeletionIsClean /\ LastWordIsTrue /\ OneRowPerInstall
    BY RowsAssumption, RowFacts
    DEF Init, TokensEndInTime, DeletionIsClean, LastWordIsTrue, OneRowPerInstall, Unborn
  <2>3. WorkIsCurrent
    BY DEF Init, WorkIsCurrent
  <2>4. HistoryIsCurrent
    BY DEF Init, HistoryIsCurrent, Unborn
  <2> QED BY <2>1, <2>2, <2>3, <2>4 DEF RowsInv
<1>2. RowsInv /\ [Next]_vars => RowsInv'
  <2> SUFFICES ASSUME RowsInv, [Next]_vars PROVE RowsInv'
    OBVIOUS
  <2>1. CASE Next
    <3>1. Remember /\ Step
      BY <2>1 DEF Next
    <3>2. CASE Tick
      BY <3>1, <3>2, TickKeepsInv
    <3>3. ASSUME NEW t \in Thread,
                 \/ LoadIssue(t) \/ LoadCheck(t) \/ LoadChange(t)
                 \/ LoadDelete(t) \/ LoadDeleteProduct(t) \/ LoadStripe(t)
          PROVE  RowsInv'
      BY <3>1, <3>3, LoadsKeepInv
    <3>4. ASSUME NEW t \in Thread,
                 \/ CommitIssue(t) \/ CommitCheck(t) \/ CommitStatus(t)
                 \/ CommitEdit(t) \/ CommitDelete(t)
                 \/ CommitInvoice(t) \/ CommitMark(t)
          PROVE  RowsInv'
      BY <3>1, <3>4, IssueKeepsInv, CheckKeepsInv, WritersKeepInv, DeleteKeepsInv
    <3> QED BY <3>1, <3>2, <3>3, <3>4 DEF Step
  <2>2. CASE UNCHANGED vars
    BY <2>2 DEF vars, rows, RowsInv, TypeOK, TokensEndInTime, DeletionIsClean,
                LastWordIsTrue, OneRowPerInstall, WorkIsCurrent, HistoryIsCurrent, Holds
  <2> QED BY <2>1, <2>2
<1> QED BY <1>1, <1>2, PTL DEF Spec

(* check.py and signing.py: whatever overlaps, no token outlives the term, *)
(* nor the last usable day by more than its TTL and one handler's run.     *)
THEOREM RevocationTakesEffect == Spec => []TokensEndInTime
<1>1. RowsInv => TokensEndInTime
  BY DEF RowsInv
<1> QED BY <1>1, RowsInvariant, PTL

(* licenses.py, _delete_license_in_tx: a deletion leaves nothing behind    *)
(* that points at the license, always with foreign keys and without        *)
(* overlap in any case.                                                    *)
THEOREM DeletionLeavesNothing == Spec => []DeletionIsClean
<1>1. RowsInv => DeletionIsClean
  BY DEF RowsInv
<1> QED BY <1>1, RowsInvariant, PTL

(* licenses.py, set_status: whatever Stripe wrote unannounced and whichever *)
(* handlers overlapped before, what a handler that is alone with a license *)
(* announces is what its row says, until Stripe or an overlap comes again. *)
THEOREM WebhooksTellTheTruth == Spec => []LastWordIsTrue
<1>1. RowsInv => LastWordIsTrue
  BY DEF RowsInv
<1> QED BY <1>1, RowsInvariant, PTL

(* Rows, what threads loaded, tokens and the history keep their types.     *)
THEOREM TypeCorrect == Spec => []TypeOK
<1>1. RowsInv => TypeOK
  BY DEF RowsInv
<1> QED BY <1>1, RowsInvariant, PTL

(* check.py: without overlap no install of a license has two rows, which   *)
(* one_or_none() would raise on.                                           *)
THEOREM InstallsStayUnique == Spec => []OneRowPerInstall
<1>1. RowsInv => OneRowPerInstall
  BY DEF RowsInv
<1> QED BY <1>1, RowsInvariant, PTL

-----------------------------------------------------------------------------
(* What a step writes of a deleted license, or under a deleted product.    *)
DeletedStays ==
  /\ \A l \in License : row[l] = Gone => row'[l] = Gone
  /\ enforced =>
       /\ \A l \in License : row[l] = Gone =>
            /\ installs'[l] = installs[l] /\ token'[l] = token[l]
            /\ l \in linked' => l \in linked
            /\ l \in queued' => l \in queued
       /\ ~product => UNCHANGED rows

(* A handler that issues a license is the only one to know of it.          *)
IssuesAreNew ==
  \A t \in Thread : work[t].op = "issue" => \A l \in work[t].lics :
    row[l] = Unborn /\ \A u \in Thread \ {t} : l \notin work[u].lics

DeletionInv == RowsInv /\ NoOrphans /\ IssuesAreNew

(* The thread is idle again, on the same database.                         *)
Ends(t) == work' = [work EXCEPT ![t] = Idle] /\ enforced' = enforced

(* What the commit of a handler does to deleted licenses and new ones.     *)
Deletes(t) ==
  /\ DeletedStays /\ NoOrphans' /\ Ends(t)
  /\ \A l \in License \ work[t].lics : row'[l] = row[l]

(* A license that a handler has loaded is not unborn unless it is issued.  *)
LEMMA LoadedIsLiveOrGone ==
  ASSUME DeletionInv, NEW t \in Thread, work[t] # Idle, work[t].op # "issue",
         NEW l \in work[t].lics
  PROVE  /\ l \in License /\ row[l] # Unborn
         /\ enforced /\ ~product => row[l] = Gone
<1>1. l \in License /\ row[l] \in Row /\ row[l] # Unborn
  BY Held DEF DeletionInv, Holds
<1>2. row[l] \in LiveRow \/ row[l] = Gone
  BY <1>1, RowFacts
<1> QED BY <1>1, <1>2 DEF DeletionInv, NoOrphans, Alive

LEMMA RollbackDeletes ==
  ASSUME NEW t, Rollback(t)
  PROVE  NoOrphans => Deletes(t)
BY DEF Rollback, Finish, Ends, rows, Deletes, DeletedStays, NoOrphans, Alive

LEMMA CheckDeletes ==
  ASSUME DeletionInv, NEW t \in Thread, CommitCheck(t)
  PROVE  Deletes(t)
<1>1. work[t] # Idle /\ work[t].op = "check"
  BY IdleFacts DEF CommitCheck
<1>2. PICK l \in work[t].lics :
        IF CheckFails(l, work[t]) THEN Rollback(t)
        ELSE /\ installs' = [installs EXCEPT ![l][work[t].install] = Upsert(@, work[t].known)]
             /\ linked' = linked \union {l}
             /\ token' = [token EXCEPT ![l] = IF @ < Expiry(work[t].seen[l].until)
                                              THEN Expiry(work[t].seen[l].until) ELSE @]
             /\ UNCHANGED <<product, row, queued, farewell, told>>
             /\ Finish(t, {})
  BY DEF CommitCheck
<1>3. l \in License /\ row[l] # Unborn /\ (enforced /\ ~product => row[l] = Gone)
  BY <1>1, LoadedIsLiveOrGone
<1>4. CASE CheckFails(l, work[t])
  BY <1>2, <1>4, RollbackDeletes DEF DeletionInv
<1>5. CASE ~CheckFails(l, work[t])
  <2>1. enforced => row[l] # Gone
    BY <1>5 DEF CheckFails
  <2>2. \A k \in License : k # l => installs'[k] = installs[k] /\ token'[k] = token[k]
    BY <1>2, <1>5, <1>3 DEF DeletionInv, RowsInv, TypeOK
  <2>3. row' = row /\ queued' = queued /\ product' = product /\ enforced' = enforced
        /\ linked' = linked \union {l} /\ Ends(t)
    BY <1>2, <1>5 DEF Finish, Ends
  <2> QED BY <1>3, <2>1, <2>2, <2>3 DEF Deletes, DeletedStays, NoOrphans, Alive, Ends, DeletionInv
<1> QED BY <1>4, <1>5

LEMMA ChangeDeletes ==
  ASSUME DeletionInv, NEW t \in Thread, work[t].op \in Writers,
         NEW new, NEW announced, Change(t, new, announced)
  PROVE  Deletes(t)
<1> DEFINE w == work[t]
<1>1. w # Idle /\ w.op # "issue" /\ w.lics \subseteq License
  BY IdleFacts DEF Writers, DeletionInv, RowsInv, TypeOK, Work
<1>2. \A l \in w.lics : row[l] # Unborn /\ (enforced /\ ~product => row[l] = Gone)
  BY <1>1, LoadedIsLiveOrGone
<1>3. CASE \E l \in w.lics : ChangeFails(l, w, new[l])
  BY <1>3, RollbackDeletes DEF DeletionInv, Change
<1>4. CASE ~ \E l \in w.lics : ChangeFails(l, w, new[l])
  <2>1. /\ row' = [l \in License |-> IF l \in w.lics THEN Written(row[l], w.seen[l], new[l])
                                    ELSE row[l]]
        /\ linked' = linked \union w.lics /\ queued' \subseteq queued \union w.lics
        /\ told' = [l \in License |-> IF l \in (IF announced THEN w.lics \intersect Hooked ELSE {})
                                     THEN new[l].status ELSE told[l]]
        /\ w.lics = {} => queued' = queued
        /\ Ends(t) /\ UNCHANGED <<product, installs, farewell, token>>
    BY <1>4 DEF Change, Finish, Ends
  <2>2. ASSUME NEW l \in w.lics, row[l] = Gone
        PROVE  ~enforced /\ Written(row[l], w.seen[l], new[l]) = Gone
    <3>1. ~enforced /\ new[l] = w.seen[l]
      BY <1>4, <2>2 DEF ChangeFails
    <3> QED BY <2>2, <3>1 DEF Written, Gone
  <2>3. \A l \in License : row'[l] = IF l \in w.lics THEN Written(row[l], w.seen[l], new[l]) ELSE row[l]
    BY <2>1
  <2>4. \A l \in License : row[l] = Gone => row'[l] = Gone /\ (enforced => l \notin w.lics)
    BY <2>2, <2>3
  <2>5. enforced /\ ~product => w.lics = {}
    BY <1>1, <1>2, <2>4
  <2>6. w.lics = {} => row' = row /\ told' = told /\ linked' = linked /\ queued' = queued
    <3>1. row = [l \in License |-> row[l]] /\ told = [l \in License |-> told[l]]
      BY DEF DeletionInv, RowsInv, TypeOK
    <3> QED BY <2>1, <3>1
  <2>7. enforced /\ ~product => UNCHANGED rows
    BY <2>1, <2>5, <2>6 DEF rows
  <2>8. NoOrphans'
    <3>1. CASE enforced /\ ~product
      BY <2>1, <3>1, <2>5, <2>6 DEF NoOrphans, Alive, Ends, DeletionInv
    <3>2. CASE ~(enforced /\ ~product)
      BY <2>1, <3>2 DEF NoOrphans, Ends
    <3> QED BY <3>1, <3>2
  <2>9. \A l \in License \ w.lics : row'[l] = row[l]
    BY <2>3
  <2> QED BY <2>1, <2>4, <2>7, <2>8, <2>9 DEF Deletes, DeletedStays
<1> QED BY <1>3, <1>4

LEMMA IssueDeletes ==
  ASSUME DeletionInv, NEW t \in Thread, CommitIssue(t)
  PROVE  Deletes(t)
<1>1. CASE enforced /\ ~product
  BY <1>1, RollbackDeletes DEF DeletionInv, CommitIssue
<1>2. CASE ~(enforced /\ ~product)
  <2>1. PICK l \in work[t].lics, days \in {Term, Period} :
            /\ row' = [row EXCEPT ![l] = [status |-> "active", until |-> now + days]]
            /\ Ends(t) /\ UNCHANGED <<product, installs, linked, queued, token>>
    BY <1>2 DEF CommitIssue, Finish, Ends
  <2>2. work[t].op = "issue" /\ row[l] = Unborn
    BY <2>1 DEF CommitIssue, DeletionInv, IssuesAreNew
  <2>3. l \in License
    BY <2>1, <2>2, IdleFacts, Held DEF DeletionInv
  <2>4. \A k \in License : k # l => row'[k] = row[k]
    BY <2>1, <2>3 DEF DeletionInv, RowsInv, TypeOK
  <2>5. row' = row \/ ~enforced \/ product
    BY <1>2
  <2> QED BY <1>2, <2>1, <2>2, <2>3, <2>4, RowFacts
          DEF Deletes, DeletedStays, NoOrphans, Ends, DeletionInv
<1> QED BY <1>1, <1>2

LEMMA DeleteDeletes ==
  ASSUME DeletionInv, NEW t \in Thread, CommitDelete(t)
  PROVE  Deletes(t)
<1> DEFINE w == work[t]
           lics == w.lics
<1>1. w.op \in {"delete", "product"} /\ w # Idle /\ lics \subseteq License
  BY IdleFacts DEF CommitDelete, DeletionInv, RowsInv, TypeOK, Work
<1>2. CASE DeleteFails(w)
  BY <1>2, RollbackDeletes DEF CommitDelete, DeletionInv
<1>3. CASE ~DeleteFails(w)
  <2>1. /\ row' = [l \in License |-> IF l \in lics THEN Gone ELSE row[l]]
        /\ installs' = [l \in License |-> IF l \in lics THEN [i \in Install |-> 0]
                                          ELSE installs[l]]
        /\ linked' = linked \ lics
        /\ told' = [l \in License |-> IF l \in lics \intersect Hooked THEN "gone" ELSE told[l]]
        /\ farewell' = (farewell \/ lics \intersect Hooked # {})
        /\ product' = (product /\ w.op # "product")
        /\ Ends(t) /\ UNCHANGED <<queued, token>>
    BY <1>3 DEF CommitDelete, Unlink, Finish, Ends
  <2>2. enforced => (lics = {} \/ (product /\ w.op # "product"))
    BY <1>1, <1>3 DEF DeleteFails
  <2>3. w.op = "product" => Alive \subseteq lics
    BY <1>3 DEF DeleteFails
  <2>4. ASSUME NEW l \in License, row[l] = Gone, enforced
        PROVE  installs'[l] = installs[l]
    <3>1. installs[l] \in [Install -> Nat] /\ \A i \in Install : installs[l][i] = 0
      BY <2>4 DEF DeletionInv, RowsInv, TypeOK, DeletionIsClean
    <3>2. installs[l] = [i \in Install |-> 0]
      BY <3>1
    <3> QED BY <2>1, <3>2
  <2>5. ASSUME enforced, ~product
        PROVE  UNCHANGED rows
    <3>1. lics = {}
      BY <2>2, <2>5
    <3> QED BY <2>1, <2>5, <3>1 DEF rows, DeletionInv, RowsInv, TypeOK
  <2>6. NoOrphans'
    <3>1. enforced' = enforced
      BY <2>1 DEF Ends
    <3>2. CASE product /\ w.op # "product"
      BY <2>1, <3>2 DEF NoOrphans
    <3>3. CASE ~(product /\ w.op # "product")
      <4>1. enforced => lics = {} /\ row' = row
        BY <2>1, <2>2, <3>3 DEF DeletionInv, RowsInv, TypeOK
      <4>2. enforced => Alive = {}
        BY <1>1, <2>3, <3>3, <4>1 DEF DeletionInv, NoOrphans
      <4> QED BY <3>1, <4>1, <4>2 DEF NoOrphans, Alive
    <3> QED BY <3>2, <3>3
  <2> QED BY <2>1, <2>4, <2>5, <2>6 DEF Deletes, DeletedStays
<1> QED BY <1>2, <1>3

(* Handlers load licenses that are live, or one nobody else knows of.      *)
LEMMA LoadDeletes ==
  ASSUME DeletionInv, NEW t \in Thread, NEW op, NEW lics, NEW i, NEW known,
         Load(t, op, lics, i, known),
         op = "issue" => \A l \in lics :
           row[l] = Unborn /\ \A u \in Thread : l \notin work[u].lics,
         op # "issue" => \A l \in lics : row[l] # Unborn
  PROVE  DeletedStays /\ NoOrphans' /\ IssuesAreNew'
<1> DEFINE new == [op |-> op, lics |-> lics,
                   seen |-> [l \in License |-> IF l \in lics /\ op \notin {"delete", "product"}
                                              THEN row[l] ELSE Unborn],
                   install |-> i, known |-> known, since |-> now]
<1>1. /\ work' = [work EXCEPT ![t] = new] /\ UNCHANGED <<enforced, rows>> /\ UNCHANGED rows
  BY DEF Load
<1>2. new.op = op /\ new.lics = lics
  OBVIOUS
<1> HIDE DEF new
<1>3. work'[t] = new /\ \A u \in Thread : u # t => work'[u] = work[u]
  BY <1>1 DEF DeletionInv, RowsInv, TypeOK
<1>4. DeletedStays /\ NoOrphans'
  BY <1>1 DEF DeletedStays, NoOrphans, Alive, rows, DeletionInv
<1>5. IssuesAreNew'
  <2>1. row' = row
    BY <1>1 DEF rows
  <2> QED BY <1>2, <1>3, <2>1 DEF IssuesAreNew, DeletionInv
<1> QED BY <1>4, <1>5

LEMMA LoadsDelete ==
  ASSUME DeletionInv, NEW t \in Thread,
         \/ LoadIssue(t) \/ LoadCheck(t) \/ LoadChange(t)
         \/ LoadDelete(t) \/ LoadDeleteProduct(t) \/ LoadStripe(t)
  PROVE  DeletedStays /\ NoOrphans' /\ IssuesAreNew'
<1>1. \A l \in Alive : row[l] # Unborn
  BY RowFacts DEF Alive
<1>2. CASE LoadIssue(t)
  BY <1>2, LoadDeletes DEF LoadIssue
<1>3. CASE LoadCheck(t)
  BY <1>1, <1>3, LoadDeletes DEF LoadCheck
<1>4. CASE LoadChange(t)
  BY <1>1, <1>4, LoadDeletes DEF LoadChange
<1>5. CASE LoadDelete(t)
  BY <1>1, <1>5, LoadDeletes DEF LoadDelete
<1>6. CASE LoadDeleteProduct(t)
  BY <1>1, <1>6, LoadDeletes DEF LoadDeleteProduct
<1>7. CASE LoadStripe(t)
  BY <1>1, <1>7, LoadDeletes DEF LoadStripe
<1> QED BY <1>2, <1>3, <1>4, <1>5, <1>6, <1>7

LEMMA DeletionStep ==
  ASSUME DeletionInv, [Next]_vars
  PROVE  /\ NoOrphans' /\ IssuesAreNew'
         /\ vars' # vars => DeletedStays
<1>1. CASE Next
  <2>1. Step
    BY <1>1 DEF Next
  <2>2. CASE Tick
    BY <2>2 DEF Tick, rows, NoOrphans, Alive, IssuesAreNew, DeletedStays, DeletionInv
  <2>3. ASSUME NEW t \in Thread,
               \/ LoadIssue(t) \/ LoadCheck(t) \/ LoadChange(t)
               \/ LoadDelete(t) \/ LoadDeleteProduct(t) \/ LoadStripe(t)
        PROVE  DeletedStays /\ NoOrphans' /\ IssuesAreNew'
    BY <2>3, LoadsDelete
  <2>4. ASSUME NEW t \in Thread,
               \/ CommitIssue(t) \/ CommitCheck(t) \/ CommitStatus(t)
               \/ CommitEdit(t) \/ CommitDelete(t)
               \/ CommitInvoice(t) \/ CommitMark(t)
        PROVE  DeletedStays /\ NoOrphans' /\ IssuesAreNew'
    <3>1. Deletes(t)
      BY <2>4, IssueDeletes, CheckDeletes, ChangeDeletes, DeleteDeletes
      DEF CommitStatus, CommitEdit, CommitInvoice, CommitMark, Writers
    <3>2. work'[t] = Idle /\ \A u \in Thread : u # t => work'[u] = work[u]
      BY <3>1 DEF Deletes, Ends, DeletionInv, RowsInv, TypeOK
    <3>3. ASSUME NEW u \in Thread, work'[u].op = "issue", NEW l \in work'[u].lics
          PROVE  row'[l] = Unborn /\ \A v \in Thread \ {u} : l \notin work'[v].lics
      <4>1. u # t /\ work[u] = work'[u]
        BY <3>2, <3>3, IdleFacts
      <4>2. row[l] = Unborn /\ \A v \in Thread \ {u} : l \notin work[v].lics
        BY <3>3, <4>1 DEF DeletionInv, IssuesAreNew
      <4>3. l \in License /\ l \notin work[t].lics
        BY <3>3, <4>1, <4>2 DEF DeletionInv, RowsInv, TypeOK, Work
      <4> QED BY <3>1, <3>2, <4>2, <4>3, IdleFacts DEF Deletes
    <3> QED BY <3>1, <3>3 DEF Deletes, IssuesAreNew
  <2> QED BY <2>1, <2>2, <2>3, <2>4 DEF Step
<1>2. CASE UNCHANGED vars
  BY <1>2 DEF vars, rows, NoOrphans, Alive, IssuesAreNew, DeletionInv
<1> QED BY <1>1, <1>2

(* licenses.py, delete_license and products.py, delete_product: no handler *)
(* brings back what was deleted, however long ago it loaded it, and with   *)
(* foreign keys none writes anything of it again.                          *)
THEOREM DeletionIsFinal == Spec => DeletedForGood
<1>1. Init => NoOrphans /\ IssuesAreNew
  BY RowFacts, IdleFacts DEF Init, NoOrphans, IssuesAreNew
<1>2. DeletionInv /\ [Next]_vars => NoOrphans' /\ IssuesAreNew'
  BY DeletionStep
<1>3. DeletionInv /\ [Next]_vars =>
        [/\ \A l \in License : row[l] = Gone => row'[l] = Gone
         /\ enforced =>
              /\ \A l \in License : row[l] = Gone =>
                   /\ installs'[l] = installs[l] /\ token'[l] = token[l]
                   /\ l \in linked' => l \in linked
                   /\ l \in queued' => l \in queued
              /\ ~product => UNCHANGED rows]_vars
  BY DeletionStep DEF DeletedStays
<1>4. Spec => [](NoOrphans /\ IssuesAreNew)
  BY <1>1, <1>2, RowsInvariant, PTL DEF Spec, DeletionInv
<1> QED BY <1>3, <1>4, RowsInvariant, PTL DEF Spec, DeletionInv, DeletedForGood

=============================================================================
