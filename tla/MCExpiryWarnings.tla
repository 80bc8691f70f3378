---------------------------- MODULE MCExpiryWarnings ----------------------------
(* Instances of ExpiryWarnings for TLC.                                    *)
EXTENDS ExpiryWarnings, TLC

CONSTANTS l1, l2, timer, hand

MCLicense == {l1, l2}
MCThresholds == {1, 3}
MCCloseThresholds == {1, 2}
MCRunner == {timer, hand}
MCOneLicense == {l1}
MCTimerAlone == {timer}
MCBoth == BOOLEAN

LicenseSymmetry == Permutations(License)
=============================================================================
