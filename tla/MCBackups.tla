------------------------------- MODULE MCBackups -------------------------------
(* Instances of Backups for TLC.                                           *)
EXTENDS Backups, TLC

CONSTANTS x1, x2, t1, t2

\* customers, licenses, processed_stripe_events: x1 is a first invoice, x2 a
\* license an admin issues.  A license refers to its customer.
MCTxn == {x1, x2}
MCWrites == [x \in Txn |-> IF x = x1 THEN 1..3 ELSE 1..2]
MCRefs == {<<2, 1>>}
MCThread == {t1, t2}
MCBoth == BOOLEAN

ThreadSymmetry == Permutations(Thread)
=============================================================================
