-------------------------------- MODULE Backups --------------------------------
(***************************************************************************)
(* Backup, restore and retention (app/backup.py, app/services/backups.py,  *)
(* scripts/run_backup.py, routers/admin_ui/backups.py), next to handlers   *)
(* that go on committing.                                                  *)
(*                                                                         *)
(* The database is what matters of it here: which rows of which committed  *)
(* transaction each table holds.  An export reads one table after the      *)
(* other, each as it is at that moment.  A restore takes an export of the  *)
(* present state first, then empties and loads the tables in a transaction *)
(* of its own.  Archives are named by kind and second, so that two of one  *)
(* second and kind are one file.                                           *)
(***************************************************************************)
EXTENDS Integers, FiniteSets

CONSTANTS Txn,        \* transactions that other handlers commit
          Tables,     \* number of tables; 1..Tables is sorted_tables, parents first
          Writes,     \* the tables a transaction inserts a row into
          Refs,       \* <<k, j>>: a row of k refers to the row of j of its transaction
          Thread,     \* handlers and scripts that may back up or restore
          Databases,  \* whether foreign keys are checked: {TRUE}, {FALSE} or both
          Keep,       \* backup_retention_count; 0 keeps all
          MaxAge,     \* backup_retention_days; 0 keeps for ever
          MaxTime, MaxJobs,  \* bounds: the clock, and backups and restores
          NoFile

Table == 1..Tables
Database == [Table -> SUBSET Txn]
Name == [prefix : {"backup", "pre-restore"}, second : 0..MaxTime]
Empty == [k \in Table |-> {}]

ASSUME BackupsAssumption ==
  /\ Tables \in Nat \ {0} /\ Writes \in [Txn -> (SUBSET Table) \ {{}}]
  /\ Refs \subseteq {r \in Table \X Table : r[2] < r[1]}
  /\ Databases \subseteq BOOLEAN
  /\ Keep \in Nat /\ MaxAge \in Nat /\ MaxTime \in Nat /\ MaxJobs \in Nat
  /\ NoFile \notin Database

VARIABLES
  enforced,   \* whether this database checks foreign keys
  db,         \* the tables
  files,      \* the archive under each name in BACKUP_DIR
  made,       \* archives ever written: any may come back as an upload
  job,        \* what each thread is at
  now,
  jobs,       \* backups and restores started
  committed,  \* history: transactions that were committed
  torn,       \* history: transactions that an export or a wipe saw half of
  exposed     \* history: transactions that no safety snapshot need have

disk == <<files, made>>
history == <<committed, torn, exposed>>
vars == <<enforced, db, disk, job, now, jobs, history>>

(* k is the table that is next; got what the export has read; source the   *)
(* archive to restore; removed the rows the wipe has deleted.              *)
Stage == {"idle", "export", "write", "sweep", "wipe", "load"}
Job == [at : Stage, op : {"none", "backup", "scheduled", "restore"}, k : Nat,
        got : Database, source : Database, removed : Database]
Idle == [at |-> "idle", op |-> "none", k |-> 0, got |-> Empty, source |-> Empty,
         removed |-> Empty]

(* t has read some tables; t has emptied some, or all; what t has in its   *)
(* safety snapshot, or will have, is settled and is going to be deleted.   *)
Reading(t) == job[t].at = "export" /\ job[t].k > 1
Wiping(t) == job[t].at = "wipe" /\ job[t].k < Tables
InTransaction(t) == Wiping(t) \/ job[t].at = "load"
Settled(t) == job[t].op = "restore" /\ (Reading(t) \/ job[t].at \in {"write", "wipe"})

(* All rows of the transaction x are in the tables d; all are or none is.  *)
Whole(d, x) == \A k \in Writes[x] : x \in d[k]
Complete(d, x) == Whole(d, x) \/ \A k \in Table : x \notin d[k]

Init ==
  /\ enforced \in Databases
  /\ db = Empty
  /\ files = [n \in Name |-> NoFile] /\ made = {}
  /\ job = [t \in Thread |-> Idle]
  /\ now = 0 /\ jobs = 0
  /\ committed = {} /\ torn = {} /\ exposed = {}

-----------------------------------------------------------------------------
(* SQLite gives one transaction the write lock, at its first DELETE.       *)
Locked == ~enforced /\ \E t \in Thread : InTransaction(t)

(* Another handler commits.                                                *)
Commit(x) ==
  /\ x \notin committed /\ ~Locked
  /\ db' = [k \in Table |-> IF k \in Writes[x] THEN db[k] \union {x} ELSE db[k]]
  /\ committed' = committed \union {x}
  /\ torn' = torn \union {y \in {x} : \E t \in Thread : Reading(t) \/ Wiping(t)}
  /\ exposed' = exposed \union {y \in {x} : \E t \in Thread : Settled(t)}
  /\ UNCHANGED <<enforced, disk, job, now, jobs>>

Begin(t, op, source) ==
  /\ job[t] = Idle /\ jobs < MaxJobs
  /\ job' = [job EXCEPT ![t] = [at |-> "export", op |-> op, k |-> 1, got |-> Empty,
                                source |-> source, removed |-> Empty]]
  /\ jobs' = jobs + 1
  /\ UNCHANGED <<enforced, db, disk, now, history>>

(* "Back Up Now"; the daily unit, of which one runs at a time; and a       *)
(* restore of a stored or uploaded archive (on Postgres one at a time).    *)
BackupCreate(t) == Begin(t, "backup", Empty)
RunBackup(t) == (\A u \in Thread : job[u].op # "scheduled") /\ Begin(t, "scheduled", Empty)
RestoreBackup(t) ==
  /\ enforced => \A u \in Thread : job[u].op # "restore"
  /\ \E a \in made : Begin(t, "restore", a)

(* export_archive: one SELECT per table.                                   *)
ExportTable(t) ==
  LET k == job[t].k IN
  /\ job[t].at = "export"
  /\ job' = [job EXCEPT ![t] = [at |-> IF k = Tables THEN "write" ELSE "export",
                                op |-> @.op, k |-> k + 1, got |-> [@.got EXCEPT ![k] = db[k]],
                                source |-> @.source, removed |-> Empty]]
  /\ UNCHANGED <<enforced, db, disk, now, jobs, history>>

(* make_filename and write_bytes, which replaces a file of the same second *)
(* and kind.  A copy goes to S3 if that works, which changes nothing here. *)
(* Mutant: safety snapshots are named like backups.                        *)
FileNameAlike(op) == [prefix |-> "backup", second |-> now]
FileName(op) == [prefix |-> IF op = "restore" THEN "pre-restore" ELSE "backup", second |-> now]
Forgotten(n, new) ==
  {x \in Txn : n.prefix = "pre-restore" /\ files[n] # NoFile /\ Whole(files[n], x) /\ ~Whole(new, x)}

(* What is next for the thread.                                            *)
AfterWrite(op) ==
  CASE op = "restore" -> "wipe" [] op = "scheduled" -> "sweep" [] OTHER -> "idle"

WriteFile(t) ==
  LET n == FileName(job[t].op)
      at == AfterWrite(job[t].op)
  IN
  /\ job[t].at = "write"
  /\ files' = [files EXCEPT ![n] = job[t].got]
  /\ made' = made \union {job[t].got}
  /\ exposed' = exposed \union Forgotten(n, job[t].got)
  /\ job' = [job EXCEPT ![t] =
               IF at = "idle" THEN Idle
               ELSE [at |-> at, op |-> @.op, k |-> Tables, got |-> Empty,
                     source |-> @.source, removed |-> Empty]]
  /\ UNCHANGED <<enforced, db, now, jobs, committed, torn>>

(* What apply_local_retention deletes.  Mutant: safety snapshots as well.  *)
DroppedOfAny(names) ==
  {n \in names : \/ Keep > 0 /\ Cardinality({m \in names : m.second > n.second}) >= Keep
                 \/ MaxAge > 0 /\ now - n.second > MaxAge}
Dropped(names) ==
  LET backups == {n \in names : n.prefix = "backup"} IN
  {n \in backups : \/ Keep > 0 /\ Cardinality({m \in backups : m.second > n.second}) >= Keep
                   \/ MaxAge > 0 /\ now - n.second > MaxAge}

Sweep(t) ==
  LET stored == {n \in Name : files[n] # NoFile} IN
  /\ job[t].at = "sweep"
  /\ files' = [n \in Name |-> IF n \in Dropped(stored) THEN NoFile ELSE files[n]]
  /\ job' = [job EXCEPT ![t] = Idle]
  /\ UNCHANGED <<enforced, db, made, now, jobs, history>>

Rollback(t) ==
  /\ job' = [job EXCEPT ![t] = Idle]
  /\ UNCHANGED <<db, torn>>

(* import_archive: one DELETE per table, children first.  Postgres refuses *)
(* to delete what a row inserted meanwhile refers to.                      *)
DeleteTable(t) ==
  LET k == job[t].k
      removed == job[t].removed
  IN
  /\ job[t].at = "wipe" /\ (Wiping(t) \/ ~Locked)
  /\ IF enforced /\ \E r \in Refs : r[2] = k /\ (db[r[1]] \ removed[r[1]]) \intersect db[k] # {}
     THEN Rollback(t)
     ELSE /\ job' = [job EXCEPT ![t] = [at |-> IF k = 1 THEN "load" ELSE "wipe", op |-> @.op,
                                        k |-> k - 1, got |-> @.got, source |-> @.source,
                                        removed |-> [removed EXCEPT ![k] = db[k]]]]
          /\ UNCHANGED <<db, torn>>
  /\ UNCHANGED <<enforced, disk, now, jobs, committed, exposed>>

(* Mutant: tables the archive has no rows of are left alone.  Mutant: the  *)
(* tables are emptied again before they are loaded.                        *)
RestoredAlone(removed, source) == source
RestoredWhereAny(removed, source) ==
  [k \in Table |-> IF source[k] = {} THEN db[k] ELSE (db[k] \ removed[k]) \union source[k]]
(* The INSERTs, parents first, next to rows committed since the DELETE.    *)
Restored(removed, source) == [k \in Table |-> (db[k] \ removed[k]) \union source[k]]

Refers(x, r) == r[1] \in Writes[x] /\ r[2] \in Writes[x]
Orphaned(d) == \E r \in Refs : \E x \in d[r[1]] : Refers(x, r) /\ x \notin d[r[2]]

LoadTables(t) ==
  LET d == Restored(job[t].removed, job[t].source) IN
  /\ job[t].at = "load"
  /\ IF enforced /\ Orphaned(d)
     THEN Rollback(t)
     ELSE /\ db' = d
          /\ torn' = torn \union {x \in Txn : /\ \E u \in Thread : Reading(u)
                                              /\ \E k \in Table : ~(x \in db[k] <=> x \in d[k])}
          /\ job' = [job EXCEPT ![t] = Idle]
  /\ UNCHANGED <<enforced, disk, now, jobs, committed, exposed>>

-----------------------------------------------------------------------------
(* The thread's process dies; an open transaction is rolled back.          *)
Crash(t) ==
  /\ job[t].at # "idle"
  /\ Rollback(t)
  /\ UNCHANGED <<enforced, disk, now, jobs, committed, exposed>>

(* An admin deletes an archive.                                            *)
DeleteFile(n) ==
  /\ files[n] # NoFile
  /\ files' = [files EXCEPT ![n] = NoFile]
  /\ exposed' = exposed \union Forgotten(n, Empty)
  /\ UNCHANGED <<enforced, db, made, job, now, jobs, committed, torn>>

Tick ==
  /\ now < MaxTime
  /\ now' = now + 1
  /\ UNCHANGED <<enforced, db, disk, job, jobs, history>>

Next ==
  \/ \E x \in Txn : Commit(x)
  \/ \E t \in Thread : \/ BackupCreate(t) \/ RunBackup(t) \/ RestoreBackup(t)
                       \/ ExportTable(t) \/ WriteFile(t) \/ Sweep(t)
                       \/ DeleteTable(t) \/ LoadTables(t) \/ Crash(t)
  \/ \E n \in Name : DeleteFile(n)
  \/ Tick

Spec == Init /\ [][Next]_vars

-----------------------------------------------------------------------------
(* Tables, files and what the threads hold are of their types, and only    *)
(* restores wipe and load, only the daily unit sweeps.                     *)
TypeOK ==
  /\ enforced \in BOOLEAN
  /\ db \in Database
  /\ files \in [Name -> Database \union {NoFile}]
  /\ made \subseteq Database
  /\ job \in [Thread -> Job]
  /\ \A t \in Thread :
       /\ job[t].at = "idle" => job[t] = Idle
       /\ job[t].at = "sweep" => job[t].op = "scheduled"
       /\ job[t].at \in {"wipe", "load"} => job[t].op = "restore"
       /\ job[t].at \in {"export", "wipe"} => job[t].k \in Table
       /\ job[t].at = "load" => job[t].k = 0
  /\ now \in 0..MaxTime /\ jobs \in 0..MaxJobs
  /\ committed \subseteq Txn /\ torn \subseteq committed /\ exposed \subseteq committed

(* backup.py, import_archive: "wipe every table, load the archive's rows,  *)
(* one transaction".  Through any chain of backups and restores, crashes   *)
(* and refused loads, a transaction is in the database with all its rows   *)
(* or not at all, unless it was committed, or a restore brought it or took *)
(* it away, while an export or a wipe was between two tables.              *)
TransactionsStayWhole == \A x \in Txn \ torn : Complete(db, x)

(* services/backups.py: "a bad restore is one more restore away from       *)
(* undone".  Whatever is restored, however often, by whom, and whatever    *)
(* the sweep deletes, what was once committed is in the database or in a   *)
(* safety snapshot, unless it was committed between the reading of that    *)
(* snapshot and the wipe, or an admin deleted the snapshot, or one of the  *)
(* same second replaced it.                                                *)
Kept(x) == \E n \in Name : n.prefix = "pre-restore" /\ files[n] # NoFile /\ Whole(files[n], x)
NothingIsLost == \A x \in committed \ exposed : Whole(db, x) \/ Kept(x)

-----------------------------------------------------------------------------
(* The inductive strengthening of the two.                                 *)

(* What is not committed is nowhere, and nothing where it does not write.  *)
Within(d, S) == \A k \in Table : d[k] \subseteq {x \in S : k \in Writes[x]}
NothingIsInvented ==
  /\ Within(db, committed) /\ \A d \in made : Within(d, committed)
  /\ \A n \in Name : files[n] \in made \union {NoFile}
  /\ \A t \in Thread : /\ Within(job[t].got, committed) /\ Within(job[t].removed, committed)
                       /\ job[t].source \in made \union {Empty}
                       /\ job[t].op = "restore" => job[t].source \in made

(* On SQLite by the lock, on Postgres because one admin restores.          *)
OneRestores ==
  \A t, u \in Thread : t # u =>
    /\ ~(InTransaction(t) /\ InTransaction(u))
    /\ ~(enforced /\ job[t].op = "restore" /\ job[u].op = "restore")

(* What an export has read and a wipe has removed of a transaction is what *)
(* the tables have of it, but for what was committed after the wipe.       *)
SeenIsWhole(t, x) ==
  LET j == job[t] IN
  /\ j.at = "export" => \A k \in Table : k < j.k => (x \in j.got[k] <=> x \in db[k])
  /\ j.at = "write" => Complete(j.got, x)
  /\ InTransaction(t) =>
       \/ \A k \in Table : k > j.k => (x \in j.removed[k] <=> x \in db[k])
       \/ /\ j.at = "load" /\ Whole(db, x)
          /\ \A k \in Table : x \notin j.removed[k] /\ x \notin j.source[k]
WholeInv ==
  \A x \in Txn \ torn : /\ Complete(db, x) /\ \A d \in made : Complete(d, x)
                        /\ \A t \in Thread : SeenIsWhole(t, x)

(* No restore that runs can take x away: its snapshot is going to have x,  *)
(* or x was committed after its wipe.                                      *)
Safe(t, x) ==
  LET j == job[t] IN
  j.op = "restore" =>
    /\ j.at = "export" => \A k \in Writes[x] : k < j.k => x \in j.got[k]
    /\ j.at = "write" => Whole(j.got, x)
    /\ j.at # "wipe"
    /\ j.at = "load" => \A k \in Table : x \notin j.removed[k]
KeptInv ==
  \A x \in committed \ exposed : Kept(x) \/ (Whole(db, x) /\ \A t \in Thread : Safe(t, x))

(* Whatever backs up, restores, commits, dies and is deleted, in any order.*)
BackupsInv == TypeOK /\ NothingIsInvented /\ OneRestores /\ WholeInv /\ KeptInv

-----------------------------------------------------------------------------
(* The transactions an archive, or the database, has all rows of.          *)
Sound(d, bad) == {x \in Txn \ bad : Whole(d, x)}

(* Copies are what their thread holds of them, at the stages it holds any. *)
Store == INSTANCE SnapshotStore WITH
  present <- Sound(db, torn), void <- torn,
  archives <- {Sound(d, torn) : d \in made},
  busy <- {t \in Thread : Reading(t) \/ Wiping(t)},
  asked <- [t \in Thread |->
              IF job[t].op = "restore" THEN {Sound(job[t].source, torn)} ELSE {}],
  held <- [t \in Thread |->
             IF job[t].at = "write" THEN {Sound(job[t].got, torn)} ELSE {}],
  taken <- [t \in Thread |->
              IF job[t].at = "load" THEN {Sound(job[t].removed, torn)} ELSE {}]

(* Exports that read table after table, and restores that empty and load   *)
(* table after table next to handlers that commit, implement a store whose *)
(* backups are the database at one moment and whose restores put back the  *)
(* archive they were asked for and take away nothing committed since the   *)
(* wipe (backup.py, import_archive: "one transaction").                    *)
ImplementsStore == Store!Spec

=============================================================================
