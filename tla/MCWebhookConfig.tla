---------------------------- MODULE MCWebhookConfig ----------------------------
(* The instance of WebhookConfig for TLC.                                  *)
EXTENDS WebhookConfig

CONSTANTS i1, i2, a1, s1, h1

MCInstall == {i1, i2}
MCAdmin == {a1}

\* s1 is an https URL, h1 an http one.
MCUrl == {s1, h1}
MCHttp == {h1}

\* A URL registered before secrets were minted, and one that the migration
\* ascribed to an admin.
MCLegacy == {[url |-> s1, secret |-> 0, source |-> src, http |-> FALSE] :
               src \in {"self", "admin"}}
=============================================================================
