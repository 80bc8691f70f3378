---------------------------- MODULE MCWebhookQueue ----------------------------
(* Instances of WebhookQueue for TLC.                                      *)
EXTENDS WebhookQueue

CONSTANTS r1, r2, r3, t1, q1

\* Healthy rows, one whose URL makes every send raise, a probe.
MCPoison == {r3}
MCTest == {t1}
MCRows == {r1, r2} \union MCPoison \union MCTest
MCRowAndPoison == {r1} \union MCPoison

MCRequest == {q1}
=============================================================================
