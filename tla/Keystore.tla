------------------------------- MODULE Keystore -------------------------------
(***************************************************************************)
(* keystore.py: secrets are stored encrypted under the key-encryption key  *)
(* (KEK) of the process that writes them, or as they are when it has none. *)
(* Keys are numbered in the order deploy.ps1 generates them.               *)
(***************************************************************************)
EXTENDS Naturals

CONSTANT MaxKeys   \* KEKs generated at most

ASSUME KeystoreAssumption == MaxKeys \in Nat \ {0}

VARIABLE server   \* the KEK the running server read at its start

Kek == 1..MaxKeys
NoKek == 0
Plain == 0        \* no enc:v1: prefix
Wrapping == Kek \union {Plain}

IsEncrypted(stored) == stored # Plain

(* encrypt_secret: the value itself when there is no KEK.                  *)
EncryptSecret(kek) == IF kek = NoKek THEN Plain ELSE kek

(* decrypt_secret returns, instead of raising. *)
Decrypts(kek, stored) == ~IsEncrypted(stored) \/ (kek # NoKek /\ stored = kek)

=============================================================================
