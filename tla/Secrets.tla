-------------------------------- MODULE Secrets --------------------------------
(***************************************************************************)
(* The secrets at rest: the products' and the admin's second factor,       *)
(* encrypted under the KEK of one server, while the operator rotates that  *)
(* KEK together with the secret that signs the cookies.                    *)
(***************************************************************************)
EXTENDS KekRotation, AdminMfa

CONSTANT MaxOps   \* requests and commands considered

ASSUME SecretsAssumption == MaxOps \in Nat

VARIABLE ops

vars == <<server, rotationVars, mfaVars, ops>>

Init == RotationInit /\ MfaInit /\ ops = 0

Requests ==
  /\ ops < MaxOps
  /\ ops' = ops + 1
  /\ \/ RotationRequest /\ UNCHANGED mfaVars
     \/ MfaRequest /\ UNCHANGED <<server, rotationVars>>

Work ==
  /\ UNCHANGED ops
  /\ \/ RotationWork /\ UNCHANGED mfaVars
     \/ MfaWork /\ UNCHANGED <<server, rotationVars>>
     \/ Restart /\ MfaRestart

Next == Requests \/ Work

Spec == Init /\ [][Next]_vars

-----------------------------------------------------------------------------
(* Every column, handler and setting holds a value of its type.            *)
TypeOK ==
  /\ server \in Wrapping
  /\ env \in [kek : Wrapping, prev : Wrapping]
  /\ product \in [Product -> Column]
  /\ script \in [at : {"idle", "loaded"}, migrate : BOOLEAN, read : [Product -> Column]]
  /\ told \in BOOLEAN /\ overwritten \subseteq Kek
  /\ mfa \in Row
  /\ session \in [Request -> [at : {"idle", "store", "admit", "verified", "clear"},
                              op : Operation \union {"none"}, loaded : Row, new : Row,
                              ends : SUBSET RecoveryCode]]
  /\ secrets \in 0..MaxSecrets /\ sets \in 0..MaxSets
  /\ proven \subseteq 1..MaxSecrets /\ spent \subseteq RecoveryCode
  /\ lost \subseteq {"codes", "factor"}
  /\ loggedIn \in BOOLEAN /\ preMfa \in BOOLEAN
  /\ ops \in 0..MaxOps

(* .env.prod.example and the script's last message: an operator who takes  *)
(* PREV out when he is told to, and starts no rotation before the last one *)
(* is through, holds the key of every product's secrets.  While he is told *)
(* so, the server itself can decrypt all of them and readyz stays green.   *)
KeysAreHeld ==
  /\ \A p \in Product : Present(p) => product[p] \in HeldKeys
  /\ told => ~Degraded

(* mfa.py: the factor is enabled after a code of its secret was typed, so  *)
(* an admin who has to enter a code has an authenticator for it, and the   *)
(* server can tell: unless two enrolments or a disable overlapped, or the  *)
(* KEK was rotated since, because the script leaves this secret out.       *)
AdminHasTheFactor ==
  mfa.enabled = "on" /\ "factor" \notin lost =>
    /\ mfa.secret.id \in proven
    /\ Decrypts(server, mfa.secret.kek) \/ mfa.secret.kek < server

(* mfa.py: "redeemed codes are removed from the stored list" and "Old      *)
(* codes are invalidated": no later sequence of requests makes one valid   *)
(* again, unless the list changed between the load and the commit of a     *)
(* request that redeems a code.                                            *)
CodesWorkOnce == mfa.codes \intersect spent # {} => "codes" \in lost

(* The factor is enabled, a rotation took the key of its secret away, and   *)
(* the browser has no session; no handler of the time before is under way.  *)
LockedOut ==
  /\ mfa.enabled = "on" /\ mfa.secret # NoSecret /\ ~Decrypts(server, mfa.secret.kek)
  /\ ~loggedIn /\ \A s \in Request : session[s].at = "idle"

(* auth.py: "The pre-MFA cookie is NOT a session".  A factor that can no    *)
(* longer be checked stays closed: no sequence of logins, recovery codes,   *)
(* restarts, rewraps and further rotations lets anybody in or switches the  *)
(* factor off, the admin who holds the token and a right code included.     *)
FactorFailsClosed == [][LockedOut => LockedOut']_vars

(* The inductive invariant of both parts and of the key they share.        *)
SecretsInv == TypeOK /\ RotationInv /\ MfaInv

=============================================================================
