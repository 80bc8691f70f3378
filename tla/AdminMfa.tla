------------------------------- MODULE AdminMfa -------------------------------
(***************************************************************************)
(* The admin's second factor (services/mfa.py and the routes of            *)
(* admin_ui/mfa.py and admin_ui/auth.py): one row with a TOTP secret,      *)
(* encrypted under the server's KEK, and a list of recovery codes.  A      *)
(* handler loads the row and decides; at its commit it writes the columns  *)
(* that differ from what it loaded.  Handlers run in the thread pool and   *)
(* lock nothing.  A request that is refused changes nothing and is no      *)
(* action.  There is one browser, which holds the session cookie and the   *)
(* short-lived one between the two factors.                                *)
(***************************************************************************)
EXTENDS Keystore, FiniteSets

CONSTANTS Request,      \* handlers that may run at once
          CodeIndex,    \* the recovery codes of one set
          MaxSecrets,   \* enrolments started at most
          MaxSets       \* sets of recovery codes generated at most

ASSUME MfaAssumption == MaxSecrets \in Nat /\ MaxSets \in Nat

VARIABLES
  mfa,       \* the row: enabled ("absent" without a row), secret, codes
  session,   \* what each handler loaded and what it will write
  secrets,   \* TOTP secrets generated so far
  sets,      \* sets of recovery codes generated so far
  proven,    \* TOTP secrets of which a valid code was typed at enrolment
  spent,     \* recovery codes that were redeemed or replaced
  lost,      \* columns a handler has written over a change it had not loaded
  loggedIn,  \* the browser has a valid session cookie
  preMfa     \* the browser has a valid pre-MFA cookie

mfaVars == <<mfa, session, secrets, sets, proven, spent, lost, loggedIn, preMfa>>

RecoveryCode == (1..MaxSets) \X CodeIndex
NewSet(n) == {n} \X CodeIndex
NoSecret == [id |-> 0, kek |-> Plain]
Secret == {NoSecret} \union [id : 1..MaxSecrets, kek : Wrapping]
Row == [enabled : {"absent", "off", "on"}, secret : Secret, codes : SUBSET RecoveryCode]
NoRow == [enabled |-> "absent", secret |-> NoSecret, codes |-> {}]
Done == [at |-> "idle", op |-> "none", loaded |-> NoRow, new |-> NoRow, ends |-> {}]
Operation == {"enrol", "verify", "login", "redeem", "regen", "clear"}

MfaInit ==
  /\ mfa = NoRow
  /\ session = [s \in Request |-> Done]
  /\ secrets = 0 /\ sets = 0
  /\ proven = {} /\ spent = {} /\ lost = {}
  /\ loggedIn = FALSE /\ preMfa = FALSE

-----------------------------------------------------------------------------
(* A handler loads the row, decides what to write and which recovery codes *)
(* are no longer to be accepted, and then commits.                         *)
Load(s, stage, op, new, ends) ==
  session' = [session EXCEPT ![s] = [at |-> stage, op |-> op, loaded |-> mfa,
                                     new |-> new, ends |-> ends]]

WithCodes(codes) == [enabled |-> mfa.enabled, secret |-> mfa.secret, codes |-> codes]

(* verify_login and regen_recovery decrypt the secret before they look at  *)
(* the code, and raise when the server has another KEK.                    *)
FactorIsUsable ==
  mfa.enabled = "on" /\ mfa.secret # NoSecret /\ Decrypts(server, mfa.secret.kek)

(* start_enrol.  Mutant: an enabled factor stays so. *)
RestartedEnabled(enc) == [enabled |-> IF mfa.enabled = "on" THEN "on" ELSE "off",
                          secret |-> enc, codes |-> {}]
Restarted(enc) == [enabled |-> "off", secret |-> enc, codes |-> {}]

StartEnrol(s) ==
  /\ session[s].at = "idle" /\ loggedIn /\ secrets < MaxSecrets
  /\ secrets' = secrets + 1
  /\ Load(s, "store", "enrol",
          Restarted([id |-> secrets', kek |-> EncryptSecret(server)]),
          mfa.codes)
  /\ UNCHANGED <<mfa, sets, proven, spent, lost, loggedIn, preMfa>>

(* verify_enrol, with a code of the stored secret. *)
VerifyEnrol(s) ==
  /\ session[s].at = "idle" /\ loggedIn /\ sets < MaxSets
  /\ mfa.enabled = "off" /\ mfa.secret # NoSecret /\ Decrypts(server, mfa.secret.kek)
  /\ sets' = sets + 1
  /\ proven' = proven \union {mfa.secret.id}
  /\ Load(s, "store", "verify",
          [enabled |-> "on", secret |-> mfa.secret, codes |-> NewSet(sets')], mfa.codes)
  /\ UNCHANGED <<mfa, secrets, spent, lost, loggedIn, preMfa>>

(* What redeeming a recovery code leaves.  Mutant: all of them.            *)
KeepAll(codes, c) == codes
Remaining(codes, c) == codes \ {c}

(* verify_login with a TOTP code, which writes last_used_at only, or with  *)
(* a recovery code; stage tells login from disable, which goes on.         *)
VerifyLogin(s, stage) ==
  /\ session[s].at = "idle" /\ FactorIsUsable
  /\ \/ Load(s, stage, "login", mfa, {})
     \/ \E c \in mfa.codes :
          Load(s, stage, "redeem", WithCodes(Remaining(mfa.codes, c)), {c})
  /\ UNCHANGED <<mfa, secrets, sets, proven, spent, lost, loggedIn, preMfa>>

LoginMfa(s) == preMfa /\ VerifyLogin(s, "admit")
Disable(s) == loggedIn /\ VerifyLogin(s, "verified")

(* The second transaction of disable, which reads the row again. *)
Clear(s) ==
  /\ session[s].at = "clear"
  /\ Load(s, "store", "clear",
          [enabled |-> "off", secret |-> NoSecret, codes |-> {}], mfa.codes)
  /\ UNCHANGED <<mfa, secrets, sets, proven, spent, lost, loggedIn, preMfa>>

(* regen_recovery.  Mutant: the new codes are added to the old ones.       *)
AddedTo(codes, n) == codes \union NewSet(n)
Regenerated(codes, n) == NewSet(n)

RegenRecovery(s) ==
  /\ session[s].at = "idle" /\ loggedIn /\ sets < MaxSets /\ FactorIsUsable
  /\ sets' = sets + 1
  /\ Load(s, "store", "regen", WithCodes(Regenerated(mfa.codes, sets')), mfa.codes)
  /\ UNCHANGED <<mfa, secrets, proven, spent, lost, loggedIn, preMfa>>

-----------------------------------------------------------------------------
(* The commit writes the columns that changed.  The insert of a second row *)
(* breaks the primary key.                                                 *)
Merged(loaded, new, stored) == IF new = loaded THEN stored ELSE new
Written(s) ==
  LET l == session[s].loaded
      n == session[s].new
  IN [enabled |-> Merged(l.enabled, n.enabled, mfa.enabled),
      secret  |-> Merged(l.secret, n.secret, mfa.secret),
      codes   |-> Merged(l.codes, n.codes, mfa.codes)]

(* Columns that are decided by a value this handler has not loaded.        *)
Overwrites(s) ==
  (IF session[s].op = "redeem" /\ session[s].loaded.codes # mfa.codes
   THEN {"codes"} ELSE {})
  \union
  (IF session[s].op \in {"enrol", "verify", "clear"}
      /\ <<session[s].loaded.enabled, session[s].loaded.secret>> # <<mfa.enabled, mfa.secret>>
   THEN {"factor"} ELSE {})

Commit(s) ==
  /\ session[s].at \in {"store", "admit", "verified"}
  /\ ~(session[s].loaded = NoRow /\ mfa # NoRow)
  /\ mfa' = Written(s)
  /\ spent' = spent \union session[s].ends \union (mfa.codes \ mfa'.codes)
  /\ lost' = lost \union Overwrites(s)
  /\ session' = [session EXCEPT ![s] =
                   IF @.at = "verified" THEN [Done EXCEPT !.at = "clear"] ELSE Done]
  /\ loggedIn' = (loggedIn \/ session[s].at = "admit")
  /\ preMfa' = (preMfa /\ session[s].at # "admit")
  /\ UNCHANGED <<secrets, sets, proven>>

(* The request dies: an insert that fails, or a server that is stopped.    *)
Die(s) ==
  /\ session[s].at # "idle"
  /\ session' = [session EXCEPT ![s] = Done]
  /\ UNCHANGED <<mfa, secrets, sets, proven, spent, lost, loggedIn, preMfa>>

-----------------------------------------------------------------------------
(* POST /admin/login with the right token.  Mutant: a factor that cannot be *)
(* checked is not asked for.                                               *)
LoginFailingOpen ==
  /\ IF FactorIsUsable THEN preMfa' = TRUE /\ UNCHANGED loggedIn
                       ELSE loggedIn' = TRUE /\ UNCHANGED preMfa
  /\ UNCHANGED <<mfa, session, secrets, sets, proven, spent, lost>>
Login ==
  /\ IF mfa.enabled = "on" THEN preMfa' = TRUE /\ UNCHANGED loggedIn
                           ELSE loggedIn' = TRUE /\ UNCHANGED preMfa
  /\ UNCHANGED <<mfa, session, secrets, sets, proven, spent, lost>>

(* A cookie is refused once it is older than its max age.                  *)
CookieExpires ==
  /\ \/ loggedIn' = FALSE /\ UNCHANGED preMfa
     \/ preMfa' = FALSE /\ UNCHANGED loggedIn
  /\ UNCHANGED <<mfa, session, secrets, sets, proven, spent, lost>>

Logout ==
  /\ loggedIn
  /\ loggedIn' = FALSE /\ preMfa' = FALSE
  /\ UNCHANGED <<mfa, session, secrets, sets, proven, spent, lost>>

(* A server that starts with the secrets of a rotation: the handlers of    *)
(* the old process are gone, and no cookie it signed is valid any more.    *)
MfaRestart ==
  /\ session' = [s \in Request |-> Done]
  /\ loggedIn' = FALSE /\ preMfa' = FALSE
  /\ UNCHANGED <<mfa, secrets, sets, proven, spent, lost>>

-----------------------------------------------------------------------------
(* What a handler will write, and what it ends, is decided by what it has  *)
(* loaded; a secret it makes the factor was proven.                        *)
Decided(s) ==
  LET j == session[s]
      keepsFactor == j.new.enabled = j.loaded.enabled /\ j.new.secret = j.loaded.secret
  IN
  /\ j.at \in {"idle", "clear"} <=> j.op = "none"
  /\ j.op \in {"enrol", "clear"} => j.new.enabled = "off" /\ j.new.codes = {}
  /\ j.op = "verify" => j.new.secret = j.loaded.secret /\ j.new.secret.id \in proven
  /\ j.op \in {"login", "redeem", "regen"} => keepsFactor
  /\ j.op \in {"enrol", "clear", "verify", "regen"} => j.ends = j.loaded.codes
  /\ j.op = "redeem" => \E c \in j.loaded.codes : j.new.codes = j.loaded.codes \ {c} /\ j.ends = {c}
  /\ j.op = "login" => j.new.codes = j.loaded.codes /\ j.ends = {}

(* Recovery codes that were generated and are not committed yet.           *)
Fresh(s) == IF session[s].op \in {"verify", "regen"} THEN session[s].new.codes ELSE {}

(* They are in no other place.                                             *)
FreshIsNew ==
  \A s \in Request :
    /\ Fresh(s) \intersect (mfa.codes \union spent \union session[s].loaded.codes) = {}
    /\ \A t \in Request \ {s} :
         Fresh(s) \intersect (session[t].loaded.codes \union session[t].new.codes
                               \union session[t].ends) = {}

(* All codes are of sets generated so far.                                 *)
Generated == (1..sets) \X CodeIndex
CodesAreGenerated ==
  /\ mfa.codes \subseteq Generated /\ spent \subseteq Generated
  /\ \A s \in Request : /\ session[s].loaded.codes \subseteq Generated
                         /\ session[s].new.codes \subseteq Generated
                         /\ session[s].ends \subseteq Generated

(* No secret is under a key that came after the server's.                  *)
KeysArePast ==
  /\ mfa.secret.kek <= server
  /\ \A s \in Request : /\ session[s].loaded.secret.kek <= server
                         /\ session[s].new.secret.kek <= server

MfaInv ==
  /\ \A s \in Request : Decided(s)
  /\ FreshIsNew /\ CodesAreGenerated /\ KeysArePast
  /\ mfa.enabled = "on" /\ "factor" \notin lost => mfa.secret.id \in proven
  /\ "codes" \notin lost => mfa.codes \intersect spent = {}

MfaRequest ==
  \E s \in Request : \/ StartEnrol(s) \/ VerifyEnrol(s) \/ RegenRecovery(s)
                     \/ LoginMfa(s) \/ Disable(s)

MfaWork ==
  \/ \E s \in Request : Commit(s) \/ Clear(s) \/ Die(s)
  \/ Login \/ CookieExpires \/ Logout

=============================================================================
