----------------------------- MODULE WebhookConfig -----------------------------
(***************************************************************************)
(* The webhook settings of one license: the URL, the signing secret, who   *)
(* set the URL, and whether http:// is allowed (models.py License), with   *)
(* every handler that writes them: the heartbeat of an install             *)
(* (services/check.py), and the edit form, the webhook form, the JSON API  *)
(* and "convert to self" of the admins (services/licenses.py).             *)
(*                                                                         *)
(* A handler loads the row, computes, and at its commit writes the columns *)
(* that differ from the loaded ones.  Handlers run in the thread pool and  *)
(* lock nothing, so that two of them may overlap; overlapped says whether  *)
(* any two ever did.                                                       *)
(***************************************************************************)
EXTENDS Integers, FiniteSets

CONSTANTS Install,    \* installs that send heartbeats for the license
          Admin,      \* request handlers of the admins
          Url,        \* URLs that pass is_safe_url_shape with http allowed
          HttpUrl,    \* those with the http scheme
          NoUrl,      \* NULL, an empty field, or no public_url in a heartbeat
          ClientUrl,  \* what the installs send as public_url
          Legacy,     \* rows written before secrets were minted, whoever set the URL
          Threads,    \* size of the thread pool
          MaxOps      \* admin requests considered

Settings == [url : Url \union {NoUrl}, secret : Nat, source : {"admin", "self"},
             http : BOOLEAN]

ASSUME ConfigAssumption ==
  /\ IsFiniteSet(Install) /\ IsFiniteSet(Admin) /\ Install \intersect Admin = {}
  /\ HttpUrl \subseteq Url /\ NoUrl \notin Url
  /\ ClientUrl \subseteq Url \union {NoUrl}
  /\ Legacy \subseteq Settings
  /\ \A r \in Legacy : /\ r.secret = 0 /\ (r.url \in HttpUrl => r.http)
                       /\ r.source = "admin" => r.url # NoUrl
  /\ Threads \in Nat \ {0} /\ MaxOps \in Nat

VARIABLES
  row,       \* the webhook columns of the license
  minted,    \* secrets generated so far; secret n is the n-th, 0 is NULL
  session,   \* what each handler loaded and what it will write
  form,      \* the URL and http box in an edit form some admin has open
  echoed,    \* the secret each install got with its last heartbeat
  adminHeld, \* secrets the row has had while its URL was admin-managed
  overlapped, \* history: two handlers have been under way at once
  ops

vars == <<row, minted, session, form, echoed, adminHeld, overlapped, ops>>

Session == Install \union Admin
Stage == {"idle", "commit", "echo"}
Cleared == [url |-> NoUrl, secret |-> 0, source |-> "self", http |-> FALSE]
Idle == [at |-> "idle", loaded |-> Cleared, new |-> Cleared, plain |-> FALSE]
Form == [url : Url \union {NoUrl}, http : BOOLEAN]

(* issue_license, with a URL given or not. *)
Issued == {[url |-> NoUrl, secret |-> 0, source |-> "self", http |-> b] : b \in BOOLEAN}
          \union {[url |-> u, secret |-> 1, source |-> "admin", http |-> TRUE] : u \in Url}
          \union {[url |-> u, secret |-> 1, source |-> "admin", http |-> FALSE] :
                     u \in Url \ HttpUrl}

Init ==
  /\ row \in Issued \union Legacy
  /\ minted = 1
  /\ session = [s \in Session |-> Idle]
  /\ form = [url |-> row.url, http |-> row.http]
  /\ echoed = [i \in Install |-> 0]
  /\ adminHeld = IF row.source = "admin" THEN {row.secret} \ {0} ELSE {}
  /\ overlapped = FALSE
  /\ ops = 0

-----------------------------------------------------------------------------
Fresh == minted + 1
IsSafe(u, http) == u \in HttpUrl => http

(* allow_http of a request: None keeps the flag of the row. *)
Flag(l, allow) == IF allow = "keep" THEN l.http ELSE allow = "yes"

(* Mutant: a secret is minted on request only. *)
ApplyWebhookConfigLoose(l, u, rotate, mintOnChange, source, allow) ==
  IF u = NoUrl THEN Cleared
  ELSE [url |-> u, secret |-> IF rotate THEN Fresh ELSE l.secret,
        source |-> source, http |-> Flag(l, allow)]

(* apply_webhook_config on the loaded row l, for a URL that is safe. *)
ApplyWebhookConfig(l, u, rotate, mintOnChange, source, allow) ==
  IF u = NoUrl THEN Cleared
  ELSE [url    |-> u,
        secret |-> IF rotate \/ l.secret = 0 \/ (mintOnChange /\ l.url # u)
                   THEN Fresh ELSE l.secret,
        source |-> source,
        http   |-> Flag(l, allow)]

(* Mutant: every save writes the webhook settings.                         *)
EditLicenseAlways(l, u, rotate, allow) ==
  ApplyWebhookConfig(l, u, rotate, TRUE, "admin", allow)

(* edit_license: the webhook is touched only when the posted URL differs   *)
(* from the loaded one or a rotation is asked for; otherwise a missing     *)
(* secret is healed and the http box applied.                              *)
EditLicense(l, u, rotate, allow) ==
  IF u # l.url \/ rotate
  THEN ApplyWebhookConfig(l, u, rotate, TRUE, IF u # l.url THEN "admin" ELSE l.source, allow)
  ELSE [url |-> u, secret |-> IF u # NoUrl /\ l.secret = 0 THEN Fresh ELSE l.secret,
        source |-> l.source, http |-> Flag(l, allow)]

(* The URL is validated against the flag the row will have, except by an   *)
(* edit that changes neither.  Mutant: only a changed URL is validated.    *)
EditIsValidOnChangeOnly(l, u, rotate, allow) ==
  u # l.url => IsSafe(u, Flag(l, allow))
EditIsValid(l, u, rotate, allow) ==
  (u # l.url \/ rotate \/ Flag(l, allow) # l.http) => IsSafe(u, Flag(l, allow))

(* convert_webhook_to_self; mutant: the secret survives. *)
ConvertKeepingSecret(l) == [l EXCEPT !.source = "self"]
ConvertToSelf(l) == [url |-> l.url, secret |-> Fresh, source |-> "self", http |-> l.http]

(* check_license with public_url u: an admin-managed URL is kept, a        *)
(* self-managed one replaced, and a missing secret minted, for a new URL   *)
(* as for an unchanged one.  Mutants: a missing lock, a missing auto-heal, *)
(* a secret of its own for every new URL, as the admins' forms have it.    *)
SelfRegisterUnlocked(l, u) ==
  IF u = NoUrl THEN l
  ELSE [l EXCEPT !.url = u, !.secret = IF @ = 0 THEN Fresh ELSE @]
SelfRegisterOnChangeOnly(l, u) ==
  IF u = NoUrl \/ l.source = "admin" \/ u = l.url THEN l
  ELSE [l EXCEPT !.url = u, !.secret = IF @ = 0 THEN Fresh ELSE @]
SelfRegisterMintOnChange(l, u) ==
  IF u = NoUrl \/ l.source = "admin" THEN l
  ELSE [l EXCEPT !.url = u, !.secret = IF @ = 0 \/ u # l.url THEN Fresh ELSE @]
SelfRegister(l, u) ==
  IF u = NoUrl \/ l.source = "admin" THEN l
  ELSE [url |-> u, secret |-> IF l.secret = 0 THEN Fresh ELSE l.secret,
        source |-> l.source, http |-> l.http]

-----------------------------------------------------------------------------
Busy == {t \in Session : session[t].at # "idle"}

(* A handler gets a thread and loads the row; new is what it makes of it.  *)
Start(s, new, plain) ==
  /\ session[s].at = "idle"
  /\ Cardinality(Busy) < Threads
  /\ overlapped' = (overlapped \/ Busy # {})
  /\ session' = [session EXCEPT ![s] =
                   [at |-> "commit", loaded |-> row, new |-> new, plain |-> plain]]
  /\ minted' = IF new.secret = Fresh THEN Fresh ELSE minted

StartAdmin(a, new, plain) ==
  /\ ops < MaxOps
  /\ Start(a, new, plain)
  /\ ops' = ops + 1
  /\ UNCHANGED <<row, form, echoed, adminHeld>>

Check(i, u) ==
  /\ IsSafe(u, row.http)
  /\ Start(i, SelfRegister(row, u), FALSE)
  /\ UNCHANGED <<row, form, echoed, adminHeld, ops>>

(* The edit form is rendered with the settings of the row, by a handler of *)
(* its own.                                                                *)
OpenForm ==
  /\ Cardinality(Busy) < Threads
  /\ form # [url |-> row.url, http |-> row.http]
  /\ form' = [url |-> row.url, http |-> row.http]
  /\ overlapped' = (overlapped \/ Busy # {})
  /\ UNCHANGED <<row, minted, session, echoed, adminHeld, ops>>

Allow(b) == IF b THEN "yes" ELSE "no"

(* The form is posted with its webhook fields as they were rendered ...    *)
SavePlain(a) ==
  /\ EditIsValid(row, form.url, FALSE, Allow(form.http))
  /\ StartAdmin(a, EditLicense(row, form.url, FALSE, Allow(form.http)), TRUE)

(* ... or with some of them changed. *)
Save(a, u, rotate, allow) ==
  /\ EditIsValid(row, u, rotate, allow)
  /\ StartAdmin(a, EditLicense(row, u, rotate, allow), FALSE)

(* The webhook form mints on a changed URL and posts an explicit flag; the *)
(* JSON API does not mint and may keep the flag.                           *)
Configure(a, u, rotate, mintOnChange, allow) ==
  /\ IsSafe(u, Flag(row, allow))
  /\ StartAdmin(a, ApplyWebhookConfig(row, u, rotate, mintOnChange, "admin", allow), FALSE)

Convert(a) ==
  /\ row.url # NoUrl /\ row.source = "admin"
  /\ StartAdmin(a, ConvertToSelf(row), FALSE)

(* The commit of a handler: changed columns only. *)
Commit(s) ==
  LET l == session[s].loaded
      n == session[s].new
  IN
  /\ session[s].at = "commit"
  /\ row' = [c \in DOMAIN row |-> IF n[c] = l[c] THEN row[c] ELSE n[c]]
  /\ adminHeld' = IF row'.source = "admin" THEN adminHeld \union ({row'.secret} \ {0}) ELSE adminHeld
  /\ session' = [session EXCEPT ![s] =
                   IF s \in Install THEN [Idle EXCEPT !.at = "echo"] ELSE Idle]
  /\ UNCHANGED <<minted, form, echoed, overlapped, ops>>

(* The response of /v1/check, from the row as it is read again: the secret *)
(* goes to the client only when the URL is self-registered.                *)
Echo(i) ==
  /\ session[i].at = "echo"
  /\ echoed' = [echoed EXCEPT ![i] = IF row.source = "self" THEN row.secret ELSE 0]
  /\ session' = [session EXCEPT ![i] = Idle]
  /\ UNCHANGED <<row, minted, form, adminHeld, overlapped, ops>>

Heartbeat(i) ==
  \/ \E u \in ClientUrl : Check(i, u)
  \/ Commit(i)
  \/ Echo(i)

AdminRequest(a) ==
  \/ SavePlain(a)
  \/ \E u \in Url \union {NoUrl}, rotate \in BOOLEAN :
       \/ \E allow \in {"yes", "no"} : Save(a, u, rotate, allow)
       \/ \E allow \in {"yes", "no"} : Configure(a, u, rotate, TRUE, allow)
       \/ \E allow \in {"yes", "no", "keep"} : Configure(a, u, rotate, FALSE, allow)
  \/ Convert(a)

Next ==
  \/ \E i \in Install : Heartbeat(i)
  \/ \E a \in Admin : AdminRequest(a) \/ Commit(a)
  \/ OpenForm

Spec == Init /\ [][Next]_vars

(* Installs send heartbeats for ever, and a handler that runs goes on. *)
FairSpec ==
  /\ Spec
  /\ \A i \in Install : WF_vars(Heartbeat(i))
  /\ \A a \in Admin : WF_vars(Commit(a))

-----------------------------------------------------------------------------
(* Every column and every handler holds a value of its type. *)
TypeOK ==
  /\ row \in Settings
  /\ minted \in Nat \ {0}
  /\ session \in [Session -> [at : Stage, loaded : Settings, new : Settings, plain : BOOLEAN]]
  /\ form \in Form
  /\ echoed \in [Install -> Nat]
  /\ adminHeld \subseteq Nat
  /\ overlapped \in BOOLEAN
  /\ ops \in 0..MaxOps

(* As long as no two handlers overlapped, a license that has a URL has a    *)
(* secret, but for a row no handler has written since secrets were          *)
(* introduced (heartbeats do not heal the URL of an admin): no order of     *)
(* requests leaves a channel that drops every event without a word, for     *)
(* set_status and the others enqueue only with both there.                  *)
ChannelIsComplete ==
  ~overlapped => (row.url # NoUrl => row.secret # 0 \/ row \in Legacy)

(* As long as no two handlers overlapped, an http:// URL is stored only     *)
(* while the license allows http, whichever of the handlers wrote the URL   *)
(* and whichever the flag.                                                  *)
HttpNeedsOptIn == ~overlapped => (row.url \in HttpUrl => row.http)

(* api.py: the secret of an admin-managed receiver is disclosed to the      *)
(* owner only.  Once a secret has signed for an admin-managed URL, no       *)
(* sequence of conversions, rotations and clearings makes it the secret of  *)
(* a self-managed one, which heartbeats are told, unless handlers overlap.  *)
AdminSecretsRetire ==
  ~overlapped => (row.source = "self" => row.secret \notin adminHeld)

(* What every row a handler is about to write satisfies. *)
Sound(r) ==
  /\ r \in Settings
  /\ r.source = "admin" => r.url # NoUrl
  /\ r.url # NoUrl => r.secret # 0 \/ r \in Legacy
  /\ r.url \in HttpUrl => r.http
  /\ r.source = "self" => r.secret \notin adminHeld
  /\ r.secret <= minted

(* What a handler loaded is still the row when it commits, what it will    *)
(* commit is sound, and a heartbeat commits the URL of an admin-managed    *)
(* row unchanged.                                                          *)
Serial ==
  /\ Sound(row)
  /\ adminHeld \subseteq 1..minted
  /\ \A s, t \in Busy : s = t
  /\ \A s \in Session : session[s].at = "commit" =>
       /\ session[s].loaded = row /\ Sound(session[s].new)
       /\ s \in Install /\ row.source = "admin" => session[s].new.url = row.url

(* The inductive invariant: Serial holds until two handlers overlap. *)
ConfigInv == TypeOK /\ (~overlapped => Serial)

(* check.py: "Admin-managed URLs are locked against /v1/check overrides".   *)
(* True of every heartbeat as long as no two handlers overlapped.           *)
AdminUrlIsLocked ==
  [][\A i \in Install :
       ~overlapped /\ session[i].at = "commit" /\ session'[i].at = "echo"
       => (row.source = "admin" => row'.url = row.url)]_vars

(* Whatever the admins did, at whatever overlap: when they stop, either    *)
(* the URL stays theirs or the license ends up with the URL the installs   *)
(* announce, a secret, and that secret known to every install.             *)
ChannelHeals ==
  <>[](\/ row.source = "admin"
       \/ /\ row.url \in ClientUrl /\ row.secret # 0
          /\ \A i \in Install : echoed[i] = row.secret)

(* licenses.py, edit_license: "a plain 'Save Changes' (editing             *)
(* plan/features/etc.) must NOT re-write the webhook config".  This holds  *)
(* of a form that shows the URL the row has, except that a missing secret  *)
(* is healed and no handlers overlap; an older form puts the old URL back. *)
PlainSaveKeepsWebhook ==
  [][\A a \in Admin :
       /\ session[a].at = "commit" /\ session[a].plain /\ session'[a].at = "idle"
       /\ form.url = session[a].loaded.url /\ ~overlapped
       => /\ row'.url = row.url /\ row'.source = row.source
          /\ row.secret # 0 => row'.secret = row.secret]_vars

(* A self-registered channel that no admin is at work on: it is complete,   *)
(* and the heartbeats under way loaded it with that secret.                 *)
Settled ==
  /\ row.source = "self" /\ row.url # NoUrl /\ row.secret # 0
  /\ \A a \in Admin : session[a].at = "idle"
  /\ \A i \in Install : session[i].at = "commit" =>
       session[i].loaded.source = "self" /\ session[i].loaded.secret = row.secret

(* check.py, "Auto-heal": heartbeats mint a secret for a channel that has   *)
(* none.  A settled channel stays settled, with the one secret, until an    *)
(* admin's request: no number of heartbeats, from whatever installs with    *)
(* whatever URLs, mints another one or loses the URL, although they overlap *)
(* and commit columns they loaded long ago; and an install that is told a   *)
(* secret is told that one.                                                 *)
SettledStaysSettled ==
  [][Settled /\ (\A a \in Admin : session'[a].at = "idle")
     => /\ Settled' /\ row'.secret = row.secret
        /\ \A i \in Install : echoed'[i] \in {echoed[i], row.secret}]_vars

=============================================================================
