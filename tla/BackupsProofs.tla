----------------------------- MODULE BackupsProofs -----------------------------
(***************************************************************************)
(* Proofs about Backups for any number of transactions, tables, threads,   *)
(* archives and days.                                                      *)
(*                                                                         *)
(* A transaction that no export and no wipe saw half of is in every        *)
(* archive with all its rows or none, and a wipe removes exactly what the  *)
(* tables have of it, so that a load leaves exactly what the archive has.  *)
(* A restore puts what is in the database into its safety snapshot before  *)
(* it removes anything, and the snapshots stay: that keeps everything.     *)
(***************************************************************************)
EXTENDS Backups, TLAPS

LEMMA Facts ==
  /\ Tables \in Nat /\ Tables > 0 /\ Table = 1..Tables
  /\ \A x \in Txn : Writes[x] \subseteq Table /\ Writes[x] # {}
  /\ Empty \in Database /\ \A k \in Table : Empty[k] = {}
  /\ Idle \in Job /\ Idle.at = "idle" /\ Idle.op = "none"
  /\ Idle.got = Empty /\ Idle.removed = Empty /\ Idle.source = Empty
BY BackupsAssumption DEF Table, Empty, Database, Idle, Job, Stage

(* A transaction with a row cannot be whole where there is no row.         *)
LEMMA EmptyHasNone ==
  \A x \in Txn : ~Whole(Empty, x) /\ Complete(Empty, x)
BY Facts DEF Whole, Complete

-----------------------------------------------------------------------------
(* A thread that is done, dies or is refused leaves everything as it was.  *)
LEMMA RollbackKeeps ==
  ASSUME BackupsInv, NEW t \in Thread, job' = [job EXCEPT ![t] = Idle],
         UNCHANGED <<enforced, db, made, now, jobs, history>>,
         files' \in [Name -> Database \union {NoFile}],
         \A n \in Name : files'[n] \in {files[n], NoFile},
         \A n \in Name : n.prefix = "pre-restore" => files'[n] = files[n]
  PROVE  BackupsInv'
<1> USE DEF BackupsInv
<1>1. /\ job'[t] = Idle /\ \A u \in Thread : u # t => job'[u] = job[u]
      /\ job' \in [Thread -> Job]
  BY Facts DEF TypeOK
<1>2. TypeOK'
  BY <1>1, Facts DEF TypeOK, history
<1>3. NothingIsInvented'
  BY <1>1, Facts DEF NothingIsInvented, Within, history
<1>4. OneRestores'
  BY <1>1, Facts DEF OneRestores, InTransaction, Wiping, history
<1>5. WholeInv'
  <2> SUFFICES ASSUME NEW x \in Txn \ torn
               PROVE  \A u \in Thread : SeenIsWhole(u, x)'
    BY DEF WholeInv, Complete, Whole, history
  <2> QED BY <1>1, Facts DEF WholeInv, SeenIsWhole, InTransaction, Wiping, Complete, Whole
<1>6. KeptInv'
  <2> SUFFICES ASSUME NEW x \in committed \ exposed
               PROVE  Kept(x)' \/ (Whole(db', x) /\ \A u \in Thread : Safe(u, x)')
    BY DEF KeptInv, history
  <2>1. Kept(x) => Kept(x)'
    BY DEF Kept
  <2> QED BY <1>1, <2>1, Facts DEF KeptInv, Safe, Whole
<1> QED BY <1>2, <1>3, <1>4, <1>5, <1>6

(* Another handler's commit adds a transaction to the tables as a whole.   *)
LEMMA CommitKeeps ==
  ASSUME BackupsInv, NEW x \in Txn, Commit(x)
  PROVE  BackupsInv'
<1> USE DEF BackupsInv
<1>1. /\ db' = [k \in Table |-> IF k \in Writes[x] THEN db[k] \union {x} ELSE db[k]]
      /\ x \notin committed /\ committed' = committed \union {x}
      /\ UNCHANGED <<enforced, files, made, job, now, jobs>>
  BY DEF Commit, disk
<1>2. TypeOK'
  <2>1. db' \in Database
    BY <1>1 DEF TypeOK, Database
  <2>2. torn' \subseteq committed' /\ exposed' \subseteq committed' /\ committed' \subseteq Txn
    BY <1>1 DEF TypeOK, Commit
  <2> QED BY <1>1, <2>1, <2>2 DEF TypeOK
<1>3. NothingIsInvented'
  BY <1>1 DEF NothingIsInvented, Within
<1>4. OneRestores'
  BY <1>1 DEF OneRestores, InTransaction, Wiping
<1>5. /\ \A k \in Table : x \notin db[k]
      /\ \A d \in made : \A k \in Table : x \notin d[k]
      /\ \A u \in Thread : \A k \in Table :
           x \notin job[u].got[k] /\ x \notin job[u].removed[k] /\ x \notin job[u].source[k]
  BY <1>1, Facts DEF NothingIsInvented, Within
<1>6. Whole(db', x) /\ \A y \in Txn : Whole(db, y) => Whole(db', y)
  BY <1>1, Facts DEF Whole
<1>7. \A y \in Txn : y # x => \A k \in Table : y \in db'[k] <=> y \in db[k]
  BY <1>1
<1>8. WholeInv'
  <2> SUFFICES ASSUME NEW y \in Txn \ torn'
               PROVE  /\ Complete(db', y) /\ \A d \in made : Complete(d, y)
                      /\ \A u \in Thread : SeenIsWhole(u, y)'
    BY <1>1 DEF WholeInv
  <2>1. y \notin torn /\ (y = x => \A u \in Thread : ~Reading(u) /\ ~Wiping(u))
    BY DEF Commit
  <2>2. CASE y # x
    BY <1>1, <1>6, <1>7, <2>1, <2>2, Facts DEF WholeInv, SeenIsWhole, Complete, Whole, InTransaction, Wiping
  <2>3. CASE y = x
    <3>1. Complete(db', y) /\ \A d \in made : Complete(d, y)
      BY <1>5, <1>6, <2>3 DEF Complete
    <3>2. ASSUME NEW u \in Thread
          PROVE  SeenIsWhole(u, y)'
      <4>1. job[u].at = "export" => job[u].k = 1
        BY <2>1, <2>3, Facts DEF Reading, TypeOK
      <4>2. Complete(job[u].got, y)
        BY <1>5, <2>3 DEF Complete
      <4> QED BY <1>1, <1>5, <1>6, <2>1, <2>3, <4>1, <4>2, Facts
              DEF SeenIsWhole, InTransaction, Wiping, Complete, Whole
    <3> QED BY <3>1, <3>2
  <2> QED BY <2>2, <2>3
<1>9. KeptInv'
  <2> SUFFICES ASSUME NEW y \in committed' \ exposed'
               PROVE  Kept(y)' \/ (Whole(db', y) /\ \A u \in Thread : Safe(u, y)')
    BY DEF KeptInv
  <2>1. y \notin exposed /\ (y = x => \A u \in Thread : ~Settled(u))
    BY DEF Commit
  <2>2. CASE y # x
    BY <1>1, <1>6, <2>1, <2>2 DEF KeptInv, Kept, Safe, Whole, TypeOK
  <2>3. CASE y = x
    <3>1. ASSUME NEW u \in Thread
          PROVE  Safe(u, y)'
      BY <1>1, <1>5, <2>1, <2>3, Facts DEF Safe, Settled, Reading, TypeOK
    <3> QED BY <1>6, <2>3, <3>1
  <2> QED BY <2>2, <2>3
<1> QED BY <1>2, <1>3, <1>4, <1>8, <1>9

-----------------------------------------------------------------------------
(* A backup or restore begins, having read nothing.                        *)
LEMMA BeginKeeps ==
  ASSUME BackupsInv, NEW t \in Thread, NEW op \in {"backup", "scheduled", "restore"},
         NEW a \in made \union {Empty}, Begin(t, op, a), op = "restore" => a \in made,
         (enforced /\ op = "restore") => \A u \in Thread : job[u].op # "restore"
  PROVE  BackupsInv'
<1> USE DEF BackupsInv
<1> DEFINE w == [at |-> "export", op |-> op, k |-> 1, got |-> Empty,
                 source |-> a, removed |-> Empty]
<1>1. /\ job' = [job EXCEPT ![t] = w] /\ jobs' = jobs + 1 /\ jobs < MaxJobs
      /\ UNCHANGED <<enforced, db, files, made, now, committed, torn, exposed>>
  BY DEF Begin, disk, history
<1>2. w \in Job
  BY Facts DEF TypeOK, Job, Stage
<1>3. /\ job'[t] = w /\ \A u \in Thread : u # t => job'[u] = job[u]
      /\ job' \in [Thread -> Job]
  BY <1>1, <1>2 DEF TypeOK
<1>4. /\ w.at = "export" /\ w.op = op /\ w.k = 1 /\ w.got = Empty /\ w.removed = Empty
      /\ w.source = a
  OBVIOUS
<1> HIDE DEF w
<1>5. TypeOK'
  <2>1. jobs' \in 0..MaxJobs
    BY <1>1, BackupsAssumption DEF TypeOK
  <2> QED BY <1>1, <1>3, <1>4, <2>1, Facts DEF TypeOK
<1>6. NothingIsInvented'
  BY <1>1, <1>3, <1>4, Facts DEF NothingIsInvented, Within
<1>7. OneRestores'
  BY <1>1, <1>3, <1>4 DEF OneRestores, InTransaction, Wiping
<1>8. WholeInv'
  BY <1>1, <1>3, <1>4, Facts DEF WholeInv, SeenIsWhole, InTransaction, Wiping, Complete, Whole
<1>9. KeptInv'
  BY <1>1, <1>3, <1>4, Facts DEF KeptInv, Kept, Safe, Whole, TypeOK
<1> QED BY <1>5, <1>6, <1>7, <1>8, <1>9

(* An export reads the next table, as it is now.                           *)
LEMMA ExportTableKeeps ==
  ASSUME BackupsInv, NEW t \in Thread, ExportTable(t)
  PROVE  BackupsInv'
<1> USE DEF BackupsInv
<1> DEFINE k == job[t].k
           got == [job[t].got EXCEPT ![k] = db[k]]
           w == [at |-> IF k = Tables THEN "write" ELSE "export", op |-> job[t].op,
                 k |-> k + 1, got |-> got, source |-> job[t].source, removed |-> Empty]
<1>1. /\ job[t].at = "export" /\ job' = [job EXCEPT ![t] = w]
      /\ UNCHANGED <<enforced, db, files, made, now, jobs, committed, torn, exposed>>
  BY DEF ExportTable, disk, history
<1>2. k \in Table /\ job[t] \in Job /\ db \in Database /\ job[t].got \in Database
  BY <1>1 DEF TypeOK, Job
<1>3. got \in Database /\ got[k] = db[k] /\ \A i \in Table : i # k => got[i] = job[t].got[i]
  BY <1>2 DEF Database
<1> HIDE DEF got
<1>4. w \in Job
  BY <1>2, <1>3, Facts DEF Job, Stage
<1>5. /\ job'[t] = w /\ \A u \in Thread : u # t => job'[u] = job[u]
      /\ job' \in [Thread -> Job]
  BY <1>1, <1>4 DEF TypeOK
<1>6. /\ w.at = IF k = Tables THEN "write" ELSE "export"
      /\ w.op = job[t].op /\ w.k = k + 1 /\ w.got = got
      /\ w.source = job[t].source /\ w.removed = Empty
  OBVIOUS
<1> HIDE DEF w
<1>7. TypeOK'
  BY <1>1, <1>2, <1>5, <1>6, Facts DEF TypeOK
<1>8. NothingIsInvented'
  <2>1. Within(got, committed)
    BY <1>2, <1>3 DEF NothingIsInvented, Within
  <2> QED BY <1>1, <1>5, <1>6, <2>1, Facts DEF NothingIsInvented, Within
<1>9. OneRestores'
  BY <1>1, <1>5, <1>6 DEF OneRestores, InTransaction, Wiping
<1>10. WholeInv'
  <2> SUFFICES ASSUME NEW x \in Txn \ torn
               PROVE  \A u \in Thread : SeenIsWhole(u, x)'
    BY <1>1 DEF WholeInv, Complete, Whole
  <2>1. \A i \in Table : i < k + 1 => (x \in got[i] <=> x \in db[i])
    BY <1>1, <1>2, <1>3, Facts DEF WholeInv, SeenIsWhole
  <2>2. k = Tables => Complete(got, x)
    <3>1. ASSUME k = Tables
          PROVE  \A i \in Table : x \in got[i] <=> x \in db[i]
      BY <2>1, <3>1, Facts
    <3> QED BY <3>1, Facts DEF WholeInv, Complete, Whole
  <2>3. SeenIsWhole(t, x)'
    BY <1>1, <1>5, <1>6, <2>1, <2>2 DEF SeenIsWhole, InTransaction, Wiping, Complete, Whole
  <2> QED BY <1>1, <1>5, <2>3 DEF WholeInv, SeenIsWhole, InTransaction, Wiping, Complete, Whole
<1>11. KeptInv'
  <2> SUFFICES ASSUME NEW x \in committed \ exposed
               PROVE  Kept(x) \/ (Whole(db, x) /\ \A u \in Thread : Safe(u, x)')
    BY <1>1 DEF KeptInv, Kept, Whole
  <2> SUFFICES ASSUME Whole(db, x), \A u \in Thread : Safe(u, x)
               PROVE  \A u \in Thread : Safe(u, x)'
    BY DEF KeptInv
  <2>1. x \in Txn
    BY DEF TypeOK
  <2>2. w.op = "restore" => \A i \in Writes[x] : i < k + 1 => x \in got[i]
    <3> SUFFICES ASSUME w.op = "restore", NEW i \in Writes[x], i < k + 1
                 PROVE  x \in got[i]
      OBVIOUS
    <3>1. i \in Table
      BY <2>1, Facts
    <3>2. CASE i = k
      BY <1>3, <3>2 DEF Whole
    <3>3. CASE i # k
      <4>1. i < k
        BY <1>2, <3>1, <3>3, Facts
      <4> QED BY <1>1, <1>3, <1>6, <3>1, <3>3, <4>1 DEF Safe
    <3> QED BY <3>2, <3>3
  <2>3. k = Tables => \A i \in Writes[x] : i < k + 1
    BY <2>1, Facts
  <2>4. Safe(t, x)'
    BY <1>1, <1>5, <1>6, <2>2, <2>3 DEF Safe, Whole
  <2> QED BY <1>5, <2>4 DEF Safe
<1> QED BY <1>7, <1>8, <1>9, <1>10, <1>11

(* An archive is written.                                                  *)
LEMMA WriteFileKeeps ==
  ASSUME BackupsInv, NEW t \in Thread, WriteFile(t)
  PROVE  BackupsInv'
<1> USE DEF BackupsInv
<1> DEFINE n == FileName(job[t].op)
           at == AfterWrite(job[t].op)
           got == job[t].got
           w == IF at = "idle" THEN Idle
                ELSE [at |-> at, op |-> job[t].op, k |-> Tables, got |-> Empty,
                      source |-> job[t].source, removed |-> Empty]
<1>1. /\ job[t].at = "write" /\ job' = [job EXCEPT ![t] = w]
      /\ files' = [files EXCEPT ![n] = got] /\ made' = made \union {got}
      /\ exposed' = exposed \union Forgotten(n, got)
      /\ UNCHANGED <<enforced, db, now, jobs, committed, torn>>
  BY DEF WriteFile
<1>2. /\ job[t] \in Job /\ db \in Database /\ got \in Database
      /\ files \in [Name -> Database \union {NoFile}] /\ got # NoFile
  BY BackupsAssumption DEF TypeOK, Job
<1>3. /\ n \in Name /\ n.prefix = IF job[t].op = "restore" THEN "pre-restore" ELSE "backup"
  BY DEF FileName, Name, TypeOK
<1> HIDE DEF n
<1>4. /\ at = "idle" \/ (at = "sweep" /\ job[t].op = "scheduled")
                      \/ (at = "wipe" /\ job[t].op = "restore")
      /\ job[t].op = "restore" => at = "wipe"
  BY DEF AfterWrite
<1> HIDE DEF at
<1>5. w \in Job
  BY <1>2, <1>4, Facts DEF Job, Stage
<1>6. /\ job'[t] = w /\ \A u \in Thread : u # t => job'[u] = job[u]
      /\ job' \in [Thread -> Job]
  BY <1>1, <1>5 DEF TypeOK
<1>7. /\ at = "idle" => w = Idle
      /\ w.at = at /\ w.got = Empty /\ w.removed = Empty
      /\ w.source \in {job[t].source, Empty}
      /\ at # "idle" => w.op = job[t].op /\ w.k = Tables /\ w.source = job[t].source
      /\ w.op = IF at = "idle" THEN "none" ELSE job[t].op
  BY Facts
<1> HIDE DEF w
<1>8. TypeOK'
  <2>1. files' \in [Name -> Database \union {NoFile}] /\ made' \subseteq Database
    BY <1>1, <1>2 DEF TypeOK
  <2>2. exposed' \subseteq committed'
    <3>1. \A x \in Txn : Whole(got, x) => x \in committed
      BY <1>2, Facts DEF NothingIsInvented, Within, Whole
    <3>2. \A x \in Txn : files[n] # NoFile /\ Whole(files[n], x) => x \in committed
      BY <1>3, Facts DEF NothingIsInvented, Within, Whole
    <3> QED BY <1>1, <3>2 DEF Forgotten, TypeOK
  <2> QED BY <1>1, <1>4, <1>6, <1>7, <2>1, <2>2, Facts DEF TypeOK
<1>9. NothingIsInvented'
  <2>1. \A m \in Name : files'[m] \in made' \union {NoFile}
    BY <1>1, <1>2 DEF NothingIsInvented
  <2> QED BY <1>1, <1>6, <1>7, <2>1, Facts DEF NothingIsInvented, Within
<1>10. OneRestores'
  BY <1>1, <1>4, <1>6, <1>7, Facts DEF OneRestores, InTransaction, Wiping
<1>11. WholeInv'
  <2> SUFFICES ASSUME NEW x \in Txn \ torn
               PROVE  /\ \A d \in made' : Complete(d, x)
                      /\ \A u \in Thread : SeenIsWhole(u, x)'
    BY <1>1 DEF WholeInv, Complete, Whole
  <2>1. Complete(got, x)
    BY <1>1 DEF WholeInv, SeenIsWhole
  <2>2. \A d \in made' : Complete(d, x)
    BY <1>1, <2>1 DEF WholeInv
  <2>3. SeenIsWhole(t, x)'
    BY <1>4, <1>6, <1>7, Facts DEF SeenIsWhole, InTransaction, Wiping
  <2>4. ASSUME NEW u \in Thread, u # t
        PROVE  SeenIsWhole(u, x)'
    BY <1>1, <1>6, <2>4 DEF WholeInv, SeenIsWhole, InTransaction, Wiping, Complete, Whole
  <2> QED BY <2>2, <2>3, <2>4
<1>12. KeptInv'
  <2> SUFFICES ASSUME NEW x \in committed \ exposed, x \notin Forgotten(n, got)
               PROVE  Kept(x)' \/ (Whole(db, x) /\ \A u \in Thread : Safe(u, x)')
    BY <1>1 DEF KeptInv, Whole
  <2>1. x \in Txn
    BY DEF TypeOK
  <2>2. CASE Kept(x)
    <3>1. PICK m \in Name : m.prefix = "pre-restore" /\ files[m] # NoFile /\ Whole(files[m], x)
      BY <2>2 DEF Kept
    <3>2. CASE m = n
      <4>1. Whole(got, x)
        BY <2>1, <3>1, <3>2 DEF Forgotten
      <4> QED BY <1>1, <1>2, <1>3, <3>1, <3>2, <4>1 DEF Kept, Whole
    <3>3. CASE m # n
      BY <1>1, <1>2, <1>3, <3>1, <3>3 DEF Kept, Whole
    <3> QED BY <3>2, <3>3
  <2>3. CASE Whole(db, x) /\ \A u \in Thread : Safe(u, x)
    <3>1. CASE job[t].op = "restore"
      <4>1. Whole(got, x)
        BY <1>1, <2>3, <3>1 DEF Safe
      <4> QED BY <1>1, <1>2, <1>3, <3>1, <4>1 DEF Kept, Whole
    <3>2. CASE job[t].op # "restore"
      <4>1. Safe(t, x)'
        BY <1>6, <1>7, <3>2 DEF Safe
      <4> QED BY <1>6, <2>3, <4>1 DEF Safe, Whole
    <3> QED BY <3>1, <3>2
  <2> QED BY <2>2, <2>3 DEF KeptInv
<1> QED BY <1>8, <1>9, <1>10, <1>11, <1>12

-----------------------------------------------------------------------------
(* A restore empties the next table.                                       *)
LEMMA DeleteTableKeeps ==
  ASSUME BackupsInv, NEW t \in Thread, DeleteTable(t)
  PROVE  BackupsInv'
<1> USE DEF BackupsInv
<1> DEFINE k == job[t].k
           removed == [job[t].removed EXCEPT ![k] = db[k]]
           w == [at |-> IF k = 1 THEN "load" ELSE "wipe", op |-> job[t].op, k |-> k - 1,
                 got |-> job[t].got, source |-> job[t].source, removed |-> removed]
<1>1. CASE Rollback(t)
  <2>1. UNCHANGED <<files, made>>
    BY DEF DeleteTable, disk
  <2>2. UNCHANGED <<enforced, db, made, now, jobs, history>>
    BY <1>1, <2>1 DEF DeleteTable, Rollback, history
  <2> QED BY <1>1, <2>1, <2>2, RollbackKeeps DEF Rollback, TypeOK
<1>2. CASE job' = [job EXCEPT ![t] = w] /\ UNCHANGED <<db, torn>>
  <2>1. /\ job[t].at = "wipe" /\ (Wiping(t) \/ ~Locked)
        /\ UNCHANGED <<enforced, db, files, made, now, jobs, committed, torn, exposed>>
    BY <1>2 DEF DeleteTable, disk
  <2>2. /\ k \in Table /\ job[t] \in Job /\ db \in Database /\ job[t].removed \in Database
        /\ job[t].op = "restore"
    BY <2>1 DEF TypeOK, Job
  <2>3. /\ removed \in Database /\ removed[k] = db[k]
        /\ \A i \in Table : i # k => removed[i] = job[t].removed[i]
    BY <2>2 DEF Database
  <2> HIDE DEF removed
  <2>4. w \in Job
    BY <2>2, <2>3, Facts DEF Job, Stage
  <2>5. /\ job'[t] = w /\ \A u \in Thread : u # t => job'[u] = job[u]
        /\ job' \in [Thread -> Job]
    BY <1>2, <2>4 DEF TypeOK
  <2>6. /\ w.at = IF k = 1 THEN "load" ELSE "wipe"
        /\ w.op = job[t].op /\ w.k = k - 1 /\ w.got = job[t].got
        /\ w.source = job[t].source /\ w.removed = removed
    OBVIOUS
  <2> HIDE DEF w
  <2>7. TypeOK'
    BY <2>1, <2>2, <2>5, <2>6, Facts DEF TypeOK
  <2>8. NothingIsInvented'
    <3>1. Within(removed, committed)
      BY <2>2, <2>3 DEF NothingIsInvented, Within
    <3> QED BY <2>1, <2>5, <2>6, <3>1 DEF NothingIsInvented, Within
  <2>9. OneRestores'
    <3>1. \A u \in Thread : u # t => ~InTransaction(u)
      <4> SUFFICES ASSUME NEW u \in Thread, u # t, InTransaction(u)
                   PROVE  FALSE
        OBVIOUS
      <4>1. job[u].op = "restore"
        BY DEF InTransaction, Wiping, TypeOK
      <4>2. ~enforced
        BY <2>2, <4>1 DEF OneRestores
      <4>3. Wiping(t)
        BY <2>1, <4>2 DEF Locked
      <4> QED BY <4>3 DEF OneRestores, InTransaction
    <3> QED BY <2>1, <2>2, <2>5, <2>6, <3>1 DEF OneRestores, InTransaction, Wiping
  <2>10. WholeInv'
    <3> SUFFICES ASSUME NEW x \in Txn \ torn
                 PROVE  \A u \in Thread : SeenIsWhole(u, x)'
      BY <2>1 DEF WholeInv, Complete, Whole
    <3>1. \A i \in Table : i > k => (x \in job[t].removed[i] <=> x \in db[i])
      <4>1. CASE k < Tables
        BY <2>1, <4>1 DEF WholeInv, SeenIsWhole, InTransaction, Wiping
      <4>2. CASE k = Tables
        BY <4>2, Facts
      <4> QED BY <2>2, <4>1, <4>2, Facts
    <3>2. \A i \in Table : i > k - 1 => (x \in removed[i] <=> x \in db[i])
      BY <2>2, <2>3, <3>1, Facts
    <3>3. SeenIsWhole(t, x)'
      BY <2>1, <2>5, <2>6, <3>2 DEF SeenIsWhole
    <3> QED BY <2>1, <2>5, <3>3 DEF WholeInv, SeenIsWhole, InTransaction, Wiping, Complete, Whole
  <2>11. KeptInv'
    <3> SUFFICES ASSUME NEW x \in committed \ exposed
                 PROVE  Kept(x)
      BY <2>1 DEF KeptInv, Kept, Whole
    <3> QED BY <2>1, <2>2 DEF KeptInv, Safe
  <2> QED BY <2>7, <2>8, <2>9, <2>10, <2>11
<1> QED BY <1>1, <1>2 DEF DeleteTable

(* A restore loads its archive and commits.                                *)
LEMMA LoadTablesKeeps ==
  ASSUME BackupsInv, NEW t \in Thread, LoadTables(t)
  PROVE  BackupsInv'
<1> USE DEF BackupsInv
<1> DEFINE d == Restored(job[t].removed, job[t].source)
<1>1. CASE Rollback(t)
  <2>1. UNCHANGED <<files, made>>
    BY DEF LoadTables, disk
  <2>2. UNCHANGED <<enforced, db, made, now, jobs, history>>
    BY <1>1, <2>1 DEF LoadTables, Rollback, history
  <2> QED BY <1>1, <2>1, <2>2, RollbackKeeps DEF Rollback, TypeOK
<1>2. CASE /\ db' = d /\ job' = [job EXCEPT ![t] = Idle]
           /\ torn' = torn \union {x \in Txn : /\ \E u \in Thread : Reading(u)
                                               /\ \E k \in Table : ~(x \in db[k] <=> x \in d[k])}
  <2>1. /\ job[t].at = "load" /\ UNCHANGED <<enforced, files, made, now, jobs, committed, exposed>>
    BY DEF LoadTables, disk
  <2>2. /\ job[t] \in Job /\ db \in Database /\ job[t].removed \in Database
        /\ job[t].source \in Database /\ job[t].op = "restore" /\ job[t].k = 0
    BY <2>1 DEF TypeOK, Job
  <2>3. /\ d \in Database
        /\ \A k \in Table : d[k] = (db[k] \ job[t].removed[k]) \union job[t].source[k]
    BY <2>2 DEF Restored, Database
  <2> HIDE DEF d
  <2>4. /\ job'[t] = Idle /\ \A u \in Thread : u # t => job'[u] = job[u]
        /\ job' \in [Thread -> Job]
    BY <1>2, Facts DEF TypeOK
  <2>5. Within(d, committed)
    <3>1. Within(job[t].source, committed)
      BY Facts DEF NothingIsInvented, Within
    <3> QED BY <2>3, <3>1 DEF NothingIsInvented, Within
  <2>6. TypeOK'
    <3>1. torn' \subseteq committed'
      BY <1>2, <2>1, <2>5 DEF TypeOK, NothingIsInvented, Within
    <3> QED BY <1>2, <2>1, <2>3, <2>4, <3>1, Facts DEF TypeOK
  <2>7. NothingIsInvented'
    BY <1>2, <2>1, <2>4, <2>5, Facts DEF NothingIsInvented, Within
  <2>8. OneRestores'
    BY <1>2, <2>1, <2>4, Facts DEF OneRestores, InTransaction, Wiping
  <2>9. WholeInv'
    <3> SUFFICES ASSUME NEW x \in Txn \ torn'
                 PROVE  /\ Complete(d, x) /\ \A e \in made : Complete(e, x)
                        /\ \A u \in Thread : SeenIsWhole(u, x)'
      BY <1>2, <2>1 DEF WholeInv
    <3>1. /\ x \notin torn
          /\ (\E u \in Thread : Reading(u)) => \A k \in Table : x \in db[k] <=> x \in d[k]
      BY <1>2
    <3>2. Complete(job[t].source, x)
      BY <3>1, EmptyHasNone DEF WholeInv, NothingIsInvented
    <3>3. \/ \A k \in Table : k > 0 => (x \in job[t].removed[k] <=> x \in db[k])
          \/ /\ Whole(db, x)
             /\ \A k \in Table : x \notin job[t].removed[k] /\ x \notin job[t].source[k]
      BY <2>1, <2>2, <3>1 DEF WholeInv, SeenIsWhole, InTransaction
    <3>4. Complete(d, x)
      <4>1. CASE \A k \in Table : k > 0 => (x \in job[t].removed[k] <=> x \in db[k])
        <5>1. \A k \in Table : x \in d[k] <=> x \in job[t].source[k]
          BY <2>3, <4>1, Facts
        <5> QED BY <3>2, <5>1, Facts DEF Complete, Whole
      <4>2. CASE /\ Whole(db, x)
                 /\ \A k \in Table : x \notin job[t].removed[k] /\ x \notin job[t].source[k]
        BY <2>3, <4>2, Facts DEF Complete, Whole
      <4> QED BY <3>3, <4>1, <4>2
    <3>5. ASSUME NEW u \in Thread
          PROVE  SeenIsWhole(u, x)'
      <4>1. CASE u = t
        BY <2>4, <4>1, Facts DEF SeenIsWhole, InTransaction, Wiping
      <4>2. CASE u # t
        <5>1. SeenIsWhole(u, x) /\ job'[u] = job[u] /\ ~InTransaction(u)
          BY <2>1, <2>4, <3>1, <4>2 DEF WholeInv, OneRestores, InTransaction
        <5>2. CASE job[u].at = "export"
          <6>1. job[u].k > 1 => \A k \in Table : x \in db[k] <=> x \in d[k]
            BY <3>1, <5>2 DEF Reading
          <6>2. job[u].k \in Table
            BY <5>2 DEF TypeOK
          <6> QED BY <1>2, <5>1, <5>2, <6>1, <6>2, Facts
                  DEF SeenIsWhole, InTransaction, Wiping
        <5>3. CASE job[u].at # "export"
          BY <5>1, <5>3 DEF SeenIsWhole, InTransaction, Wiping, Complete, Whole
        <5> QED BY <5>2, <5>3
      <4> QED BY <4>1, <4>2
    <3> QED BY <3>1, <3>4, <3>5 DEF WholeInv
  <2>10. KeptInv'
    <3> SUFFICES ASSUME NEW x \in committed \ exposed
                 PROVE  Kept(x) \/ (Whole(d, x) /\ \A u \in Thread : Safe(u, x)')
      BY <1>2, <2>1 DEF KeptInv, Kept, Whole
    <3> SUFFICES ASSUME Whole(db, x), \A u \in Thread : Safe(u, x)
                 PROVE  Whole(d, x) /\ \A u \in Thread : Safe(u, x)'
      BY DEF KeptInv
    <3>1. x \in Txn
      BY DEF TypeOK
    <3>2. Whole(d, x)
      BY <2>1, <2>2, <2>3, <3>1, Facts DEF Safe, Whole
    <3>3. \A u \in Thread : Safe(u, x)'
      BY <2>4, Facts DEF Safe, Whole
    <3> QED BY <3>2, <3>3
  <2> QED BY <2>6, <2>7, <2>8, <2>9, <2>10
<1> QED BY <1>1, <1>2 DEF LoadTables

-----------------------------------------------------------------------------
(* An admin deletes an archive.                                            *)
LEMMA DeleteFileKeeps ==
  ASSUME BackupsInv, NEW n \in Name, DeleteFile(n)
  PROVE  BackupsInv'
<1> USE DEF BackupsInv
<1>1. /\ files' = [files EXCEPT ![n] = NoFile]
      /\ exposed' = exposed \union Forgotten(n, Empty) /\ files[n] # NoFile
      /\ UNCHANGED <<enforced, db, made, job, now, jobs, committed, torn>>
  BY DEF DeleteFile
<1>2. Forgotten(n, Empty) \subseteq committed
  BY <1>1, Facts DEF Forgotten, NothingIsInvented, Within, Whole
<1>3. TypeOK'
  BY <1>1, <1>2 DEF TypeOK
<1>4. NothingIsInvented'
  BY <1>1 DEF NothingIsInvented, Within, TypeOK
<1>5. OneRestores' /\ WholeInv'
  BY <1>1 DEF OneRestores, WholeInv, SeenIsWhole, InTransaction, Wiping, Complete, Whole
<1>6. KeptInv'
  <2> SUFFICES ASSUME NEW x \in committed \ exposed, x \notin Forgotten(n, Empty)
               PROVE  Kept(x)' \/ (Whole(db, x) /\ \A u \in Thread : Safe(u, x))
    BY <1>1 DEF KeptInv, Whole, Safe
  <2>1. x \in Txn /\ ~Whole(Empty, x)
    BY EmptyHasNone DEF TypeOK
  <2>2. Kept(x) => Kept(x)'
    BY <1>1, <2>1 DEF Kept, Forgotten, Whole, TypeOK
  <2> QED BY <2>2 DEF KeptInv
<1> QED BY <1>3, <1>4, <1>5, <1>6

(* Time passes, or nothing happens.                                        *)
LEMMA TickKeeps ==
  ASSUME BackupsInv, now' \in 0..MaxTime,
         UNCHANGED <<enforced, db, disk, job, jobs, history>>
  PROVE  BackupsInv'
BY DEF BackupsInv, disk, history, TypeOK, NothingIsInvented, Within, OneRestores, WholeInv,
       SeenIsWhole, InTransaction, Wiping, Complete, Whole, KeptInv, Kept, Safe

-----------------------------------------------------------------------------
LEMMA InitBackups == Init => BackupsInv
<1> SUFFICES ASSUME Init
             PROVE  BackupsInv
  OBVIOUS
<1>1. db = Empty /\ made = {} /\ committed = {} /\ torn = {} /\ \A t \in Thread : job[t] = Idle
  BY DEF Init
<1>2. TypeOK
  BY <1>1, BackupsAssumption, Facts DEF Init, TypeOK
<1>3. NothingIsInvented
  BY <1>1, Facts DEF Init, NothingIsInvented, Within
<1>4. OneRestores
  BY <1>1, Facts DEF OneRestores, InTransaction, Wiping
<1>5. WholeInv
  BY <1>1, Facts, EmptyHasNone DEF WholeInv, SeenIsWhole, InTransaction, Wiping
<1>6. KeptInv
  BY <1>1 DEF KeptInv
<1> QED BY <1>2, <1>3, <1>4, <1>5, <1>6 DEF BackupsInv

LEMMA StepBackups == BackupsInv /\ [Next]_vars => BackupsInv'
<1> SUFFICES ASSUME BackupsInv, [Next]_vars
             PROVE  BackupsInv'
  OBVIOUS
<1>1. ASSUME NEW x \in Txn, Commit(x)
      PROVE  BackupsInv'
  BY <1>1, CommitKeeps
<1>2. ASSUME NEW t \in Thread, BackupCreate(t) \/ RunBackup(t) \/ RestoreBackup(t)
      PROVE  BackupsInv'
  <2>1. CASE BackupCreate(t)
    BY <2>1, BeginKeeps DEF BackupCreate
  <2>2. CASE RunBackup(t)
    BY <2>2, BeginKeeps DEF RunBackup
  <2>3. CASE RestoreBackup(t)
    <3>1. PICK a \in made : Begin(t, "restore", a)
      BY <2>3 DEF RestoreBackup
    <3> QED BY <2>3, <3>1, BeginKeeps DEF RestoreBackup
  <2> QED BY <1>2, <2>1, <2>2, <2>3
<1>3. ASSUME NEW t \in Thread, ExportTable(t)
      PROVE  BackupsInv'
  BY <1>3, ExportTableKeeps
<1>4. ASSUME NEW t \in Thread, WriteFile(t)
      PROVE  BackupsInv'
  BY <1>4, WriteFileKeeps
<1>5. ASSUME NEW t \in Thread, Sweep(t)
      PROVE  BackupsInv'
  <2> DEFINE gone == Dropped({n \in Name : files[n] # NoFile})
  <2>1. /\ files' = [n \in Name |-> IF n \in gone THEN NoFile ELSE files[n]]
        /\ job' = [job EXCEPT ![t] = Idle]
        /\ UNCHANGED <<enforced, db, made, now, jobs, history>>
    BY <1>5 DEF Sweep
  <2>2. \A n \in gone : n.prefix = "backup"
    BY DEF Dropped
  <2> HIDE DEF gone
  <2>3. files' \in [Name -> Database \union {NoFile}]
    BY <2>1 DEF BackupsInv, TypeOK
  <2>4. \A n \in Name : /\ files'[n] \in {files[n], NoFile}
                        /\ n.prefix = "pre-restore" => files'[n] = files[n]
    BY <2>1, <2>2
  <2> QED BY <2>1, <2>3, <2>4, RollbackKeeps
<1>6. ASSUME NEW t \in Thread, DeleteTable(t)
      PROVE  BackupsInv'
  BY <1>6, DeleteTableKeeps
<1>7. ASSUME NEW t \in Thread, LoadTables(t)
      PROVE  BackupsInv'
  BY <1>7, LoadTablesKeeps
<1>8. ASSUME NEW t \in Thread, Crash(t)
      PROVE  BackupsInv'
  <2>1. /\ job' = [job EXCEPT ![t] = Idle]
        /\ UNCHANGED <<enforced, db, files, made, now, jobs, history>>
    BY <1>8 DEF Crash, Rollback, disk, history
  <2> QED BY <2>1, RollbackKeeps DEF BackupsInv, TypeOK
<1>9. ASSUME NEW n \in Name, DeleteFile(n)
      PROVE  BackupsInv'
  BY <1>9, DeleteFileKeeps
<1>10. CASE Tick
  <2>1. now' \in 0..MaxTime
    BY <1>10, BackupsAssumption DEF Tick, BackupsInv, TypeOK
  <2> QED BY <1>10, <2>1, TickKeeps DEF Tick
<1>11. CASE UNCHANGED vars
  BY <1>11, TickKeeps DEF vars, BackupsInv, TypeOK
<1> QED BY <1>1, <1>2, <1>3, <1>4, <1>5, <1>6, <1>7, <1>8, <1>9, <1>10, <1>11 DEF Next

-----------------------------------------------------------------------------
(* The inductive invariant of tables, archives and the threads that copy   *)
(* one into the other, whatever is committed, dies or is deleted meanwhile.*)
THEOREM BackupsInvariant == Spec => []BackupsInv
<1> QED BY InitBackups, StepBackups, PTL DEF Spec

(* A database that was restored, however often, has each transaction with  *)
(* all its rows or none, but those an export or a wipe saw half of.        *)
THEOREM RestoresAreConsistent == Spec => []TransactionsStayWhole
<1>1. BackupsInv => TransactionsStayWhole
  BY DEF BackupsInv, WholeInv, TransactionsStayWhole
<1> QED BY <1>1, BackupsInvariant, PTL

(* "A bad restore is one more restore away from undone": what was there    *)
(* when a restore began is in the database or in a safety snapshot, until  *)
(* an admin deletes the snapshot or one of the same second replaces it.    *)
THEOREM RestoresCanBeUndone == Spec => []NothingIsLost
<1>1. BackupsInv => NothingIsLost
  BY DEF BackupsInv, KeptInv, NothingIsLost
<1> QED BY <1>1, BackupsInvariant, PTL

(* Tables, archives, snapshots and what the threads hold keep their types. *)
THEOREM TypeCorrect == Spec => []TypeOK
<1>1. BackupsInv => TypeOK
  BY DEF BackupsInv
<1> QED BY <1>1, BackupsInvariant, PTL

-----------------------------------------------------------------------------
(* The store that backups and restores implement.                          *)

(* A transaction that is not torn is sound where it has a row at all.      *)
LEMMA SoundIsWhole ==
  \A d, bad : \A x \in Txn : x \in Sound(d, bad) <=> x \notin bad /\ Whole(d, x)
BY DEF Sound

LEMMA SoundIsStruck ==
  ASSUME NEW d, NEW bad, NEW X
  PROVE  Sound(d, bad \union X) = Sound(d, bad) \ X
BY DEF Sound

(* Two sets of tables that have the same rows are as sound.                *)
LEMMA SameIsAsSound ==
  ASSUME BackupsAssumption, NEW d, NEW e, NEW bad,
         \A x \in Txn \ bad : \A k \in Table : x \in d[k] <=> x \in e[k]
  PROVE  Sound(d, bad) = Sound(e, bad)
BY Facts DEF Sound, Whole

(* A thread that is done, dies or is refused drops what it holds.          *)
LEMMA StoreAbort ==
  ASSUME BackupsInv, NEW t \in Thread, job' = [job EXCEPT ![t] = Idle],
         UNCHANGED <<db, made, committed, torn>>
  PROVE  Store!Abort(t)
<1>1. /\ job'[t] = Idle /\ \A u \in Thread : u # t => job'[u] = job[u]
  BY DEF BackupsInv, TypeOK
<1>2. ~Reading(t)' /\ ~Wiping(t)' /\ \A u \in Thread : u # t => (Reading(u)' <=> Reading(u)) /\ (Wiping(u)' <=> Wiping(u))
  BY <1>1, Facts DEF Reading, Wiping
<1>3. Sound(db, torn)' = Sound(db, torn) /\ {Sound(d, torn) : d \in made}' = {Sound(d, torn) : d \in made}
  OBVIOUS
<1> QED BY <1>1, <1>2, <1>3, Facts DEF Store!Abort

(* What has no row of a transaction does not notice that it is torn.       *)
LEMMA NewcomerIsNowhere ==
  ASSUME NEW d, NEW x \in Txn, Within(d, committed), x \notin committed
  PROVE  ~Whole(d, x) /\ Sound(d, torn \union {x}) = Sound(d, torn)
<1>1. ~Whole(d, x)
  BY Facts DEF Whole, Within
<1> QED BY <1>1 DEF Sound

LEMMA StoreCommit ==
  ASSUME BackupsInv, NEW x \in Txn, Commit(x)
  PROVE  Store!Commit(x)
<1> DEFINE readers == {u \in Thread : Reading(u) \/ Wiping(u)}
<1>1. /\ db' = [k \in Table |-> IF k \in Writes[x] THEN db[k] \union {x} ELSE db[k]]
      /\ x \notin committed /\ committed' = committed \union {x}
      /\ torn' = IF readers = {} THEN torn ELSE torn \union {x}
      /\ UNCHANGED <<made, job>>
  BY DEF Commit, disk
<1>2. /\ x \notin torn /\ Within(db, committed) /\ \A d \in made : Within(d, committed)
      /\ \A u \in Thread : /\ Within(job[u].got, committed) /\ Within(job[u].removed, committed)
                           /\ Within(job[u].source, committed)
  BY <1>1, Facts DEF BackupsInv, TypeOK, NothingIsInvented, Within
<1>3. /\ \A d \in made : Sound(d, torn') = Sound(d, torn)
      /\ \A u \in Thread : /\ Sound(job[u].got, torn') = Sound(job[u].got, torn)
                           /\ Sound(job[u].removed, torn') = Sound(job[u].removed, torn)
                           /\ Sound(job[u].source, torn') = Sound(job[u].source, torn)
  BY <1>1, <1>2, NewcomerIsNowhere
<1>4. Sound(db', torn') = IF readers = {} THEN Sound(db, torn) \union {x} ELSE Sound(db, torn)
  <2>1. Whole(db', x) /\ \A y \in Txn : y # x => (Whole(db', y) <=> Whole(db, y))
    BY <1>1, Facts DEF Whole
  <2>2. ~Whole(db, x)
    BY <1>1, <1>2, NewcomerIsNowhere
  <2>3. CASE readers = {}
    BY <1>1, <1>2, <2>1, <2>3 DEF Sound
  <2>4. CASE readers # {}
    BY <1>1, <1>2, <2>1, <2>2, <2>4 DEF Sound
  <2> QED BY <2>3, <2>4
<1>5. {Sound(d, torn) : d \in made}' = {Sound(d, torn) : d \in made}
  BY <1>1, <1>3
<1>6. readers' = readers
  BY <1>1 DEF Reading, Wiping
<1> HIDE DEF readers
<1>7. Store!Commit(x) <=>
        /\ x \notin committed
        /\ committed' = committed \union {x}
        /\ IF readers = {}
             THEN Sound(db, torn)' = Sound(db, torn) \union {x} /\ UNCHANGED torn
             ELSE torn' = torn \union {x} /\ UNCHANGED Sound(db, torn)
        /\ {Sound(d, torn) : d \in made}' = {Sound(d, torn) : d \in made}
        /\ readers' = readers
        /\ UNCHANGED [u \in Thread |->
              IF job[u].op = "restore" THEN {Sound(job[u].source, torn)} ELSE {}]
        /\ UNCHANGED [u \in Thread |->
              IF job[u].at = "write" THEN {Sound(job[u].got, torn)} ELSE {}]
        /\ UNCHANGED [u \in Thread |->
              IF job[u].at = "load" THEN {Sound(job[u].removed, torn)} ELSE {}]
  BY DEF Store!Commit, readers
<1>8. /\ UNCHANGED [u \in Thread |->
              IF job[u].op = "restore" THEN {Sound(job[u].source, torn)} ELSE {}]
      /\ UNCHANGED [u \in Thread |->
              IF job[u].at = "write" THEN {Sound(job[u].got, torn)} ELSE {}]
      /\ UNCHANGED [u \in Thread |->
              IF job[u].at = "load" THEN {Sound(job[u].removed, torn)} ELSE {}]
  BY <1>1, <1>3
<1> QED BY <1>1, <1>4, <1>5, <1>6, <1>7, <1>8

LEMMA StoreBegin ==
  ASSUME BackupsInv, NEW t \in Thread, NEW op \in {"backup", "scheduled", "restore"},
         NEW a, NEW s, s = Sound(a, torn), Begin(t, op, a), op = "restore" => a \in made
  PROVE  IF op = "restore" THEN Store!Ask(t, s) ELSE UNCHANGED Store!vars
<1> DEFINE w == [at |-> "export", op |-> op, k |-> 1, got |-> Empty,
                 source |-> a, removed |-> Empty]
<1>1. /\ job' = [job EXCEPT ![t] = w] /\ job[t] = Idle
      /\ UNCHANGED <<db, made, committed, torn>>
  BY DEF Begin, disk, history
<1>2. /\ job'[t] = w /\ \A u \in Thread : u # t => job'[u] = job[u]
  BY <1>1 DEF BackupsInv, TypeOK
<1>3. w.at = "export" /\ w.op = op /\ w.k = 1 /\ w.source = a
  OBVIOUS
<1> HIDE DEF w
<1>4. \A u \in Thread : (Reading(u)' <=> Reading(u)) /\ (Wiping(u)' <=> Wiping(u))
  BY <1>1, <1>2, <1>3, Facts DEF Reading, Wiping
<1>5. CASE op = "restore"
  <2>1. Store!Ask(t, s)
    BY <1>1, <1>2, <1>3, <1>4, <1>5, Facts DEF Store!Ask
  <2> QED BY <1>5, <2>1
<1>6. CASE op # "restore"
  BY <1>1, <1>2, <1>3, <1>4, <1>6, Facts DEF Store!vars
<1> QED BY <1>5, <1>6

LEMMA StoreExport ==
  ASSUME BackupsInv, BackupsInv', NEW t \in Thread, ExportTable(t)
  PROVE  Store!Start(t) \/ Store!Copy(t)
<1> DEFINE k == job[t].k
           got == [job[t].got EXCEPT ![k] = db[k]]
           w == [at |-> IF k = Tables THEN "write" ELSE "export", op |-> job[t].op,
                 k |-> k + 1, got |-> got, source |-> job[t].source, removed |-> Empty]
<1>1. /\ job[t].at = "export" /\ job' = [job EXCEPT ![t] = w]
      /\ UNCHANGED <<db, made, committed, torn>>
  BY DEF ExportTable, disk, history
<1>2. k \in Table /\ job[t] \in Job /\ db \in Database /\ job[t].got \in Database
  BY <1>1 DEF BackupsInv, TypeOK, Job
<1>3. got[k] = db[k] /\ \A i \in Table : i # k => got[i] = job[t].got[i]
  BY <1>2 DEF Database
<1>4. /\ job'[t] = w /\ \A u \in Thread : u # t => job'[u] = job[u]
  BY <1>1 DEF BackupsInv, TypeOK
<1> HIDE DEF got
<1>5. /\ w.at = IF k = Tables THEN "write" ELSE "export"
      /\ w.op = job[t].op /\ w.k = k + 1 /\ w.got = got /\ w.source = job[t].source
  OBVIOUS
<1> HIDE DEF w
<1>6. \A u \in Thread : u # t => (Reading(u)' <=> Reading(u)) /\ (Wiping(u)' <=> Wiping(u))
  BY <1>4 DEF Reading, Wiping
<1>7. ~Wiping(t) /\ ~Wiping(t)' /\ (Reading(t)' <=> k # Tables)
  BY <1>1, <1>2, <1>4, <1>5, Facts DEF Reading, Wiping
<1>8. CASE k # Tables
  BY <1>1, <1>4, <1>5, <1>6, <1>7, <1>8 DEF Store!Start
<1>9. CASE k = Tables
  <2>1. ASSUME NEW x \in Txn \ torn, NEW i \in Table
        PROVE  x \in got[i] <=> x \in db[i]
    <3>1. i < k \/ i = k
      BY <1>9, Facts
    <3> QED BY <1>1, <1>3, <3>1, Facts DEF BackupsInv, WholeInv, SeenIsWhole
  <2>2. Sound(got, torn) = Sound(db, torn)
    BY <2>1, SameIsAsSound, BackupsAssumption
  <2> QED BY <1>1, <1>4, <1>5, <1>6, <1>7, <1>9, <2>2 DEF Store!Copy
<1> QED BY <1>8, <1>9

(* A file that is written stores the copy its thread holds.                *)
LEMMA StoreWrite ==
  ASSUME BackupsInv, BackupsInv', NEW t \in Thread, WriteFile(t)
  PROVE  Store!Store(t)
<1> DEFINE at == AfterWrite(job[t].op)
           w == IF at = "idle" THEN Idle
                ELSE [at |-> at, op |-> job[t].op, k |-> Tables, got |-> Empty,
                      source |-> job[t].source, removed |-> Empty]
<1>1. /\ job[t].at = "write" /\ job' = [job EXCEPT ![t] = w]
      /\ made' = made \union {job[t].got}
      /\ UNCHANGED <<db, committed, torn>>
  BY DEF WriteFile
<1>2. /\ job'[t] = w /\ \A u \in Thread : u # t => job'[u] = job[u]
  BY <1>1 DEF BackupsInv, TypeOK
<1>3. /\ at \in {"idle", "sweep", "wipe"} /\ (job[t].op = "restore" => at = "wipe")
      /\ at = "wipe" => job[t].op = "restore"
  BY DEF AfterWrite
<1> HIDE DEF at
<1>4. /\ w.at = at /\ (w.op = "restore" <=> job[t].op = "restore")
      /\ w.op = "restore" => w.source = job[t].source
      /\ at # "idle" => w.k = Tables
  BY <1>3, Facts
<1> HIDE DEF w
<1>5. \A u \in Thread : u # t => (Reading(u)' <=> Reading(u)) /\ (Wiping(u)' <=> Wiping(u))
  BY <1>2 DEF Reading, Wiping
<1>6. ~Reading(t) /\ ~Wiping(t) /\ ~Reading(t)' /\ ~Wiping(t)'
  BY <1>1, <1>2, <1>3, <1>4, Facts DEF Reading, Wiping
<1>7. {Sound(d, torn) : d \in made}' = {Sound(d, torn) : d \in made} \union {Sound(job[t].got, torn)}
  BY <1>1
<1> QED BY <1>1, <1>2, <1>3, <1>4, <1>5, <1>6, <1>7 DEF Store!Store

(* The wipe that empties the last table has removed what the database has. *)
LEMMA StoreDelete ==
  ASSUME BackupsInv, BackupsInv', NEW t \in Thread, DeleteTable(t)
  PROVE  Store!Start(t) \/ Store!Clear(t) \/ Store!Abort(t)
<1> DEFINE k == job[t].k
           removed == [job[t].removed EXCEPT ![k] = db[k]]
           w == [at |-> IF k = 1 THEN "load" ELSE "wipe", op |-> job[t].op, k |-> k - 1,
                 got |-> job[t].got, source |-> job[t].source, removed |-> removed]
<1>1. CASE Rollback(t)
  <2>1. UNCHANGED <<made, committed, torn, db>> /\ job' = [job EXCEPT ![t] = Idle]
    BY <1>1 DEF DeleteTable, disk, Rollback
  <2> QED BY <2>1, StoreAbort
<1>2. CASE job' = [job EXCEPT ![t] = w] /\ UNCHANGED <<db, torn>>
  <2>1. /\ job[t].at = "wipe" /\ job[t].op = "restore" /\ k \in Table
        /\ UNCHANGED <<db, made, committed, torn>>
    BY <1>2 DEF DeleteTable, disk, BackupsInv, TypeOK
  <2>2. /\ job'[t] = w /\ \A u \in Thread : u # t => job'[u] = job[u]
    BY <1>2 DEF BackupsInv, TypeOK
  <2> HIDE DEF removed
  <2>3. /\ w.at = IF k = 1 THEN "load" ELSE "wipe"
        /\ w.op = job[t].op /\ w.k = k - 1 /\ w.source = job[t].source /\ w.removed = removed
    OBVIOUS
  <2> HIDE DEF w
  <2>4. \A u \in Thread : u # t => (Reading(u)' <=> Reading(u)) /\ (Wiping(u)' <=> Wiping(u))
    BY <2>2 DEF Reading, Wiping
  <2>5. ~Reading(t) /\ ~Reading(t)' /\ (Wiping(t)' <=> k # 1)
    BY <2>1, <2>2, <2>3, Facts DEF Reading, Wiping
  <2>6. CASE k # 1
    BY <1>2, <2>1, <2>2, <2>3, <2>4, <2>5, <2>6 DEF Store!Start
  <2>7. CASE k = 1
    <3>1. ASSUME NEW x \in Txn \ torn, NEW i \in Table
          PROVE  x \in removed[i] <=> x \in db[i]
      <4>1. CASE k < Tables
        <5>1. \A j \in Table : j > k => (x \in job[t].removed[j] <=> x \in db[j])
          BY <2>1, <4>1 DEF BackupsInv, WholeInv, SeenIsWhole, InTransaction, Wiping
        <5> QED BY <2>1, <2>7, <5>1, Facts DEF removed, BackupsInv, TypeOK, Job, Database
      <4>2. CASE k = Tables
        BY <2>1, <2>7, <4>2, Facts DEF removed, BackupsInv, TypeOK, Job, Database
      <4> QED BY <2>1, <4>1, <4>2, Facts
    <3>2. Sound(removed, torn) = Sound(db, torn)
      BY <3>1, SameIsAsSound, BackupsAssumption
    <3> QED BY <1>2, <2>1, <2>2, <2>3, <2>4, <2>5, <2>7, <3>2 DEF Store!Clear
  <2> QED BY <2>6, <2>7
<1> QED BY <1>1, <1>2 DEF DeleteTable

(* A load leaves what was committed since the wipe and what it loads.      *)
LEMMA LoadIsSound ==
  ASSUME BackupsInv, NEW t \in Thread, job[t].at = "load", NEW x \in Txn \ torn
  PROVE  LET d == Restored(job[t].removed, job[t].source) IN
         /\ Complete(d, x)
         /\ Whole(d, x) <=> \/ Whole(db, x) /\ ~Whole(job[t].removed, x)
                            \/ Whole(job[t].source, x)
<1> DEFINE d == Restored(job[t].removed, job[t].source)
<1>1. /\ job[t] \in Job /\ db \in Database /\ job[t].k = 0
      /\ \A k \in Table : d[k] = (db[k] \ job[t].removed[k]) \union job[t].source[k]
  BY DEF BackupsInv, TypeOK, Job, Restored
<1> HIDE DEF d
<1>2. Complete(job[t].source, x) /\ Complete(db, x)
  BY EmptyHasNone DEF BackupsInv, WholeInv, NothingIsInvented
<1>3. CASE \A k \in Table : k > 0 => (x \in job[t].removed[k] <=> x \in db[k])
  <2>1. \A k \in Table : (x \in d[k] <=> x \in job[t].source[k]) /\ (x \in job[t].removed[k] <=> x \in db[k])
    BY <1>1, <1>3, Facts
  <2>2. Whole(job[t].removed, x) <=> Whole(db, x)
    BY <2>1, Facts DEF Whole
  <2>3. Whole(d, x) <=> Whole(job[t].source, x)
    BY <2>1, Facts DEF Whole
  <2>4. Complete(d, x)
    BY <1>2, <2>1, <2>3 DEF Complete
  <2> QED BY <2>2, <2>3, <2>4 DEF d
<1>4. CASE /\ Whole(db, x)
           /\ \A k \in Table : x \notin job[t].removed[k] /\ x \notin job[t].source[k]
  <2>1. Whole(d, x) /\ ~Whole(job[t].removed, x)
    BY <1>1, <1>4, Facts DEF Whole
  <2> QED BY <1>4, <2>1 DEF Complete, d
<1>5. SeenIsWhole(t, x)
  BY DEF BackupsInv, WholeInv
<1> QED BY <1>1, <1>3, <1>4, <1>5 DEF SeenIsWhole, InTransaction

(* A restore that commits swaps what it emptied for what it was asked for. *)
LEMMA StoreLoad ==
  ASSUME BackupsInv, BackupsInv', NEW t \in Thread, LoadTables(t)
  PROVE  Store!Load(t) \/ Store!Abort(t)
<1> DEFINE d == Restored(job[t].removed, job[t].source)
           torn1 == {x \in Txn : /\ \E u \in Thread : Reading(u)
                                 /\ \E k \in Table : ~(x \in db[k] <=> x \in d[k])}
           readers == {u \in Thread : Reading(u) \/ Wiping(u)}
           present == Sound(db, torn)
           gone == Sound(job[t].removed, torn)
           a == Sound(job[t].source, torn)
           new == (present \ gone) \union a
           X == IF readers = {} THEN {} ELSE (present \ new) \union (new \ present)
<1>1. CASE Rollback(t)
  <2>1. UNCHANGED <<made, committed, torn, db>> /\ job' = [job EXCEPT ![t] = Idle]
    BY <1>1 DEF LoadTables, disk, Rollback
  <2> QED BY <2>1, StoreAbort
<1>2. CASE db' = d /\ job' = [job EXCEPT ![t] = Idle] /\ torn' = torn \union torn1
  <2>1. /\ job[t].at = "load" /\ job[t].op = "restore" /\ UNCHANGED <<made, committed>>
    BY <1>2 DEF LoadTables, disk, BackupsInv, TypeOK
  <2>2. /\ job'[t] = Idle /\ \A u \in Thread : u # t => job'[u] = job[u]
    BY <1>2 DEF BackupsInv, TypeOK
  <2>3. ~Reading(t) /\ ~Wiping(t) /\ ~Reading(t)' /\ ~Wiping(t)'
    BY <2>1, <2>2, Facts DEF Reading, Wiping
  <2>4. \A u \in Thread : u # t => (Reading(u)' <=> Reading(u)) /\ (Wiping(u)' <=> Wiping(u))
    BY <2>2 DEF Reading, Wiping
  <2>5. readers = {} <=> \A u \in Thread : ~Reading(u)
    BY <2>1 DEF BackupsInv, OneRestores, InTransaction, Wiping
  <2>6. Sound(d, torn) = new
    BY <2>1, LoadIsSound DEF Sound
  <2> HIDE DEF d
  <2>7. torn1 = IF readers = {} THEN {}
                ELSE {x \in Txn : \E k \in Table : ~(x \in db[k] <=> x \in d[k])}
    BY <2>5
  <2>8. \A x \in Txn \ torn :
          (\E k \in Table : ~(x \in db[k] <=> x \in d[k])) <=> (Whole(db, x) <=> ~Whole(d, x))
    <3> SUFFICES ASSUME NEW x \in Txn \ torn
                 PROVE  (\E k \in Table : ~(x \in db[k] <=> x \in d[k]))
                          <=> (Whole(db, x) <=> ~Whole(d, x))
      OBVIOUS
    <3>1. Complete(db, x) /\ Complete(d, x)
      BY <2>1, LoadIsSound DEF BackupsInv, WholeInv, d
    <3>6. Within(db, committed) /\ Within(d, committed)
      BY <1>2, <2>1 DEF BackupsInv, NothingIsInvented, Within
    <3>2. Whole(db, x) /\ Whole(d, x) => \A k \in Table : x \in db[k] <=> x \in d[k]
      BY <3>6 DEF Whole, Within
    <3>3. Whole(db, x) /\ ~Whole(d, x) => \E k \in Table : x \in db[k] /\ x \notin d[k]
      BY <3>1, Facts DEF Complete, Whole
    <3>4. ~Whole(db, x) /\ Whole(d, x) => \E k \in Table : x \notin db[k] /\ x \in d[k]
      BY <3>1, Facts DEF Complete, Whole
    <3>5. ~Whole(db, x) /\ ~Whole(d, x) => \A k \in Table : x \notin db[k] /\ x \notin d[k]
      BY <3>1, Facts DEF Complete, Whole
    <3> QED BY <3>2, <3>3, <3>4, <3>5
  <2>9. torn' = torn \union X
    <3>1. CASE readers = {}
      BY <1>2, <2>7, <3>1
    <3>2. CASE readers # {}
      <4>1. \A x \in Txn \ torn : x \in torn1 <=> x \in X
        BY <2>6, <2>7, <2>8, <3>2 DEF Sound
      <4>2. torn1 \subseteq Txn /\ X \subseteq Txn \ torn
        BY DEF Sound
      <4> QED BY <1>2, <4>1, <4>2
    <3> QED BY <3>1, <3>2
  <2> HIDE DEF X, torn1, new
  <2>10. \A e : Sound(e, torn') = Sound(e, torn) \ X
    BY <2>9, SoundIsStruck
  <2>11. Sound(db', torn') = new \ X
    BY <1>2, <2>6, <2>10
  <2>12. readers' = readers
    BY <2>3, <2>4
  <2>13. {Sound(e, torn) : e \in made}' = {s \ X : s \in {Sound(e, torn) : e \in made}}
    BY <2>1, <2>10
  <2> DEFINE asked == [u \in Thread |->
               IF job[u].op = "restore" THEN {Sound(job[u].source, torn)} ELSE {}]
             held == [u \in Thread |->
               IF job[u].at = "write" THEN {Sound(job[u].got, torn)} ELSE {}]
             taken == [u \in Thread |->
               IF job[u].at = "load" THEN {Sound(job[u].removed, torn)} ELSE {}]
  <2>14. asked' = [u \in Thread |-> IF u = t THEN {} ELSE {s \ X : s \in asked[u]}]
    BY <2>2, <2>10, Facts
  <2>15. held' = [u \in Thread |-> {s \ X : s \in held[u]}]
    BY <2>1, <2>2, <2>10, Facts
  <2>16. taken' = [u \in Thread |-> IF u = t THEN {} ELSE {s \ X : s \in taken[u]}]
    BY <2>2, <2>10, Facts
  <2>17. a \in asked[t] /\ gone \in taken[t]
    BY <2>1
  <2>18. Store!Load(t) <=>
           \E b \in asked[t], g \in taken[t] :
             LET new1 == (present \ g) \union b
                 X1 == IF readers = {} THEN {} ELSE (present \ new1) \union (new1 \ present)
             IN
             /\ present' = new1 \ X1
             /\ torn' = torn \union X1
             /\ {Sound(e, torn) : e \in made}' = {s \ X1 : s \in {Sound(e, torn) : e \in made}}
             /\ asked' = [u \in Thread |-> IF u = t THEN {} ELSE {s \ X1 : s \in asked[u]}]
             /\ held' = [u \in Thread |-> {s \ X1 : s \in held[u]}]
             /\ taken' = [u \in Thread |-> IF u = t THEN {} ELSE {s \ X1 : s \in taken[u]}]
             /\ UNCHANGED <<committed, readers>>
    BY DEF Store!Load, Store!Strike
  <2> HIDE DEF readers, asked, held, taken, present, gone, a
  <2>19. present' = new \ X
    BY <2>11 DEF present
  <2> QED BY <2>1, <2>9, <2>12, <2>13, <2>14, <2>15, <2>16, <2>17, <2>18, <2>19 DEF new, X
<1> QED BY <1>1, <1>2 DEF LoadTables, Rollback

LEMMA StoreStep ==
  ASSUME BackupsInv, BackupsInv', [Next]_vars
  PROVE  [Store!Next]_(Store!vars)
<1>1. ASSUME NEW x \in Txn, Commit(x)
      PROVE  Store!Next
  BY <1>1, StoreCommit DEF Store!Next
<1>2. ASSUME NEW t \in Thread, BackupCreate(t) \/ RunBackup(t)
      PROVE  UNCHANGED Store!vars
  BY <1>2, StoreBegin DEF BackupCreate, RunBackup
<1>3. ASSUME NEW t \in Thread, RestoreBackup(t)
      PROVE  Store!Next
  <2>1. PICK a \in made : Begin(t, "restore", a)
    BY <1>3 DEF RestoreBackup
  <2>2. PICK s \in {Sound(d, torn) : d \in made} : s = Sound(a, torn)
    BY <2>1
  <2>3. Store!Ask(t, s)
    BY <2>1, <2>2, StoreBegin
  <2> QED BY <2>3 DEF Store!Next
<1>4. ASSUME NEW t \in Thread, ExportTable(t) \/ WriteFile(t) \/ DeleteTable(t) \/ LoadTables(t)
      PROVE  Store!Next
  BY <1>4, StoreExport, StoreWrite, StoreDelete, StoreLoad DEF Store!Next
<1>5. ASSUME NEW t \in Thread, Sweep(t) \/ Crash(t)
      PROVE  Store!Next
  <2>1. job' = [job EXCEPT ![t] = Idle] /\ UNCHANGED <<db, made, committed, torn>>
    BY <1>5 DEF Sweep, Crash, Rollback, disk, history
  <2> QED BY <2>1, StoreAbort DEF Store!Next
<1>6. ASSUME UNCHANGED <<db, made, job, committed, torn>>
      PROVE  UNCHANGED Store!vars
  BY <1>6 DEF Store!vars, Reading, Wiping
<1> QED BY <1>1, <1>2, <1>3, <1>4, <1>5, <1>6 DEF Next, DeleteFile, Tick, vars, history, disk

LEMMA StoreInit == Init => Store!Init
<1> SUFFICES ASSUME Init
             PROVE  Store!Init
  OBVIOUS
<1>1. db = Empty /\ made = {} /\ committed = {} /\ torn = {} /\ \A t \in Thread : job[t] = Idle
  BY DEF Init
<1>2. Sound(db, torn) = {}
  BY <1>1, EmptyHasNone DEF Sound
<1>3. \A t \in Thread : ~Reading(t) /\ ~Wiping(t)
  BY <1>1, Facts DEF Reading, Wiping
<1> QED BY <1>1, <1>2, <1>3, Facts DEF Store!Init

(* Backups and restores, table by table, next to commits, crashes and      *)
(* refused loads, implement a store of whole copies: a backup is what the  *)
(* database was at one moment, a restore swaps what it emptied for what it *)
(* was asked for, and keeps what was committed in between.                 *)
THEOREM BackupsImplementStore == Spec => ImplementsStore
<1>1. BackupsInv /\ BackupsInv' /\ [Next]_vars => [Store!Next]_(Store!vars)
  BY StoreStep
<1> QED BY <1>1, StoreInit, BackupsInvariant, PTL DEF Spec, ImplementsStore, Store!Spec

=============================================================================
