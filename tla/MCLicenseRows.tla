----------------------------- MODULE MCLicenseRows -----------------------------
(* Instances of LicenseRows for TLC.                                       *)
EXTENDS LicenseRows, TLC

CONSTANTS l1, l2, i1, t1, t2

MCLicense == {l1, l2}
MCLicense1 == {l1}
MCInstall == {i1}
MCThread == {t1, t2}
MCThread1 == {t1}
MCHooked == {l1}
MCDays == {0, 4}
MCBoth == BOOLEAN
MCPostgres == {TRUE}

ThreadSymmetry == Permutations(Thread)
=============================================================================
