------------------------------ MODULE KekRotation ------------------------------
(***************************************************************************)
(* The rotation of the key-encryption key: deploy.ps1 -RotateSecrets puts  *)
(* a new KEK into the env file and keeps the old one as PREV, the server   *)
(* is restarted, scripts/rewrap_secrets.py --migrate-from-prev rewraps the *)
(* secrets of the products in one transaction, and when it says so the     *)
(* operator takes PREV out (.env.prod.example).  Products are created and  *)
(* deleted at any time.  A product's private key and Stripe secrets are    *)
(* written together and rewrapped together, so one value stands for them.  *)
(*                                                                         *)
(* The operator is one person, who waits for a command to end before the   *)
(* next one and restarts the server before running the script.             *)
(***************************************************************************)
EXTENDS Keystore

CONSTANTS Product,   \* ids of product rows; one that is deleted never returns
          Unborn,    \* no row yet
          Gone       \* deleted

ASSUME ProductAssumption == Unborn \notin Nat /\ Gone \notin Nat /\ Unborn # Gone

VARIABLES
  env,         \* KEK and PREV in the installed env file
  product,     \* the KEK each product's secrets are encrypted under
  script,      \* the run of rewrap_secrets.py and what it loaded
  told,        \* the last run said "KEK rotation complete. Remove ..._PREV"
  overwritten  \* PREVs that a further rotation has overwritten

rotationVars == <<env, product, script, told, overwritten>>

Idle == [at |-> "idle", migrate |-> FALSE, read |-> [p \in Product |-> Unborn]]

Column == Wrapping \union {Unborn, Gone}
Present(p) == product[p] \in Wrapping

\* A deployment with a KEK, or one that has none yet.
RotationInit ==
  /\ env \in {[kek |-> k, prev |-> NoKek] : k \in {NoKek, 1}}
  /\ server = env.kek
  /\ product = [p \in Product |-> Unborn]
  /\ script = Idle
  /\ told = FALSE
  /\ overwritten = {}

-----------------------------------------------------------------------------
(* create_product, under the key of the server.                            *)
CreateProduct(p) ==
  /\ product[p] = Unborn
  /\ product' = [product EXCEPT ![p] = EncryptSecret(server)]
  /\ UNCHANGED <<server, env, script, told, overwritten>>

DeleteProduct(p) ==
  /\ Present(p)
  /\ product' = [product EXCEPT ![p] = Gone]
  /\ UNCHANGED <<server, env, script, told, overwritten>>

-----------------------------------------------------------------------------
(* deploy.ps1 -RotateSecrets: PREV is overwritten whether or not it is     *)
(* still needed, and left alone when there was no KEK.                     *)
RotateSecrets ==
  /\ script.at = "idle" /\ env.kek < MaxKeys
  /\ env' = [kek |-> env.kek + 1,
             prev |-> IF env.kek = NoKek THEN env.prev ELSE env.kek]
  /\ overwritten' = IF env.kek = NoKek THEN overwritten
                    ELSE overwritten \union ({env.prev} \ {NoKek})
  /\ told' = FALSE
  /\ UNCHANGED <<server, product, script>>

(* systemctl restart: the settings are read once per process.              *)
Restart ==
  /\ server # env.kek
  /\ server' = env.kek
  /\ UNCHANGED rotationVars

-----------------------------------------------------------------------------
(* rewrap_secrets.run up to the loaded rows.  Without a KEK, or with       *)
(* --migrate-from-prev without a PREV, it refuses to run.                  *)
StartRewrap(migrate) ==
  /\ script.at = "idle" /\ server = env.kek
  /\ env.kek # NoKek
  /\ migrate => env.prev \notin {NoKek, env.kek}
  /\ script' = [at |-> "loaded", migrate |-> migrate, read |-> product]
  /\ UNCHANGED <<server, env, product, told, overwritten>>

(* _rewrap_field and _rewrap_field_migrate: which of the loaded rows       *)
(* change, and whether every value that has to be decrypted can be.        *)
Changed ==
  {p \in Product : /\ script.read[p] \in Wrapping
                   /\ script.migrate \/ ~IsEncrypted(script.read[p])}
Migratable == \A p \in Changed : Decrypts(env.prev, script.read[p])

(* Mutant: either mode ends with the message. *)
SaysAnyComplete(migrate) == TRUE
SaysComplete(migrate) == migrate

(* One transaction for all rows, which fails when one of them was deleted  *)
(* since.  Its last message may get lost.                                  *)
RewrapCommits ==
  /\ script.at = "loaded" /\ Migratable
  /\ \A p \in Changed : Present(p)
  /\ product' = [p \in Product |-> IF p \in Changed THEN EncryptSecret(env.kek) ELSE product[p]]
  /\ told' \in {told, told \/ (SaysComplete(script.migrate) /\ Changed # {})}
  /\ script' = Idle
  /\ UNCHANGED <<server, env, overwritten>>

(* The rollback after an exception, and the death of the script. *)
RewrapRollsBack ==
  /\ script.at = "loaded"
  /\ script' = Idle
  /\ UNCHANGED <<server, env, product, told, overwritten>>

(* "Remove LICENSE_KEY_ENCRYPTION_KEY_PREV from your env and redeploy."    *)
ClearPrev ==
  /\ told /\ script.at = "idle"
  /\ env' = [env EXCEPT !.prev = NoKek]
  /\ told' = FALSE
  /\ UNCHANGED <<server, product, script, overwritten>>

-----------------------------------------------------------------------------
(* readyz: it tries the first product with an encrypted key, in no         *)
(* particular order, so any key the server cannot decrypt may turn it red. *)
Degraded == \E p \in Product : Present(p) /\ ~Decrypts(server, product[p])

-----------------------------------------------------------------------------
(* Keys that the operator has, or that a rotation took from him.           *)
HeldKeys == {Plain, env.kek, env.prev} \union overwritten

(* The server and the products have one of them.  While the script runs, a *)
(* product is as the script read it, deleted, or new and under the present *)
(* key.                                                                    *)
RotationInv ==
  /\ server \in HeldKeys /\ server <= env.kek
  /\ \A p \in Product : Present(p) => product[p] \in HeldKeys
  /\ told \/ script.at = "loaded" => server = env.kek
  /\ script.at = "loaded" =>
       \A p \in Product : \/ product[p] \in {script.read[p], Gone}
                          \/ script.read[p] = Unborn /\ product[p] = EncryptSecret(env.kek)
  /\ told => \A p \in Product : Present(p) => product[p] \in {Plain, env.kek}

RotationRequest ==
  \/ \E p \in Product : CreateProduct(p) \/ DeleteProduct(p)
  \/ RotateSecrets \/ ClearPrev
  \/ \E migrate \in BOOLEAN : StartRewrap(migrate)

RotationWork == RewrapCommits \/ RewrapRollsBack

=============================================================================
