-------------------------- MODULE WebhookConfigProofs --------------------------
(***************************************************************************)
(* Proofs about WebhookConfig for any number of installs, admins, URLs,    *)
(* threads and requests.                                                   *)
(*                                                                         *)
(* Types hold whatever overlaps.  As long as no two handlers overlapped, a *)
(* handler commits exactly the row it computed, because what it loaded is  *)
(* still there; and what a handler makes of a sound row is sound, which is *)
(* one lemma for each of the functions that compute a row.                 *)
(***************************************************************************)
EXTENDS WebhookConfig, TLAPS

(* A row as the functions below compute it: sound, but for a fresh secret. *)
Writable(r) ==
  /\ r \in Settings
  /\ r.source = "admin" => r.url # NoUrl
  /\ r.url # NoUrl => r.secret # 0 \/ r \in Legacy
  /\ r.url \in HttpUrl => r.http
  /\ r.source = "self" => r.secret \notin adminHeld
  /\ r.secret <= Fresh

(* What is assumed of the rows that predate secrets.                       *)
LEMMA LegacyFacts ==
  \A r \in Legacy : /\ r \in Settings /\ r.secret = 0
                    /\ r.source = "admin" => r.url # NoUrl
                    /\ r.url \in HttpUrl => r.http
BY ConfigAssumption

Counted == minted \in Nat \ {0} /\ adminHeld \subseteq 1..minted

(* A cleared row is sound. *)
LEMMA ClearedWritable ==
  ASSUME Counted PROVE Writable(Cleared)
BY ConfigAssumption DEF Counted, Writable, Cleared, Settings, Fresh

(* apply_webhook_config on a sound row, for a URL that was validated.      *)
LEMMA ApplyWritable ==
  ASSUME Counted, NEW l, Sound(l), NEW u \in Url \union {NoUrl},
         NEW rotate \in BOOLEAN, NEW mintOnChange \in BOOLEAN,
         NEW source \in {"admin", "self"}, NEW allow \in {"yes", "no", "keep"},
         IsSafe(u, Flag(l, allow)), rotate \/ source = "admin"
  PROVE  Writable(ApplyWebhookConfig(l, u, rotate, mintOnChange, source, allow))
<1>1. CASE u = NoUrl
  BY <1>1, ClearedWritable DEF ApplyWebhookConfig
<1>2. CASE u # NoUrl
  <2> DEFINE r == ApplyWebhookConfig(l, u, rotate, mintOnChange, source, allow)
  <2>1. /\ r = [url |-> u, secret |-> r.secret, source |-> source, http |-> Flag(l, allow)]
        /\ r.secret = Fresh \/ (r.secret = l.secret /\ l.secret # 0 /\ ~rotate)
    BY <1>2 DEF ApplyWebhookConfig
  <2>2. l.secret \in Nat /\ l.secret <= minted /\ l.http \in BOOLEAN
    BY DEF Sound, Settings
  <2>3. Flag(l, allow) \in BOOLEAN
    BY <2>2 DEF Flag
  <2>4. r.secret \in Nat \ {0} /\ r.secret <= Fresh /\ (rotate => r.secret \notin adminHeld)
    BY <2>1, <2>2 DEF Counted, Fresh
  <2> QED
    BY <1>2, <2>1, <2>3, <2>4 DEF Writable, Settings, IsSafe
<1> QED BY <1>1, <1>2

(* edit_license on a sound row, for fields that were validated.            *)
LEMMA EditWritable ==
  ASSUME Counted, NEW l, Sound(l), NEW u \in Url \union {NoUrl},
         NEW rotate \in BOOLEAN, NEW allow \in {"yes", "no", "keep"},
         EditIsValid(l, u, rotate, allow)
  PROVE  Writable(EditLicense(l, u, rotate, allow))
<1>1. CASE u # l.url \/ rotate
  <2>1. l.source \in {"admin", "self"}
    BY DEF Sound, Settings
  <2>2. IsSafe(u, Flag(l, allow))
    BY <1>1 DEF EditIsValid
  <2> QED BY <1>1, <2>1, <2>2, ApplyWritable DEF EditLicense
<1>2. CASE u = l.url /\ ~rotate
  <2> DEFINE r == EditLicense(l, u, rotate, allow)
  <2>1. l \in Settings /\ l.secret # 0 => l.secret <= minted
    BY DEF Sound
  <2>3. /\ l = [url |-> l.url, secret |-> l.secret, source |-> l.source, http |-> l.http]
        /\ l.secret \in Nat /\ l.http \in BOOLEAN
    BY DEF Sound, Settings
  <2> DEFINE k == IF u # NoUrl /\ l.secret = 0 THEN Fresh ELSE l.secret
  <2>2. r = [url |-> l.url, secret |-> k, source |-> l.source, http |-> Flag(l, allow)]
    BY <1>2 DEF EditLicense
  <2>5. Flag(l, allow) \in BOOLEAN
    BY <2>3 DEF Flag
  <2>6. l.url \in HttpUrl => Flag(l, allow)
    BY <1>2, <2>3, <2>5 DEF EditIsValid, IsSafe, Sound
  <2>7. /\ k \in Nat /\ k <= Fresh /\ (l.url # NoUrl => k # 0)
        /\ k \notin adminHeld \/ k = l.secret
    BY <1>2, <2>3 DEF Sound, Counted, Fresh
  <2>8. l.source \in {"admin", "self"} /\ l.url \in Url \union {NoUrl}
        /\ (l.source = "admin" => l.url # NoUrl)
        /\ (l.source = "self" => l.secret \notin adminHeld)
    BY DEF Sound, Settings
  <2> HIDE DEF k, r
  <2>9. Writable(r)
    BY <2>2, <2>5, <2>6, <2>7, <2>8 DEF Writable, Settings
  <2> QED BY <2>9 DEF r
<1> QED BY <1>1, <1>2

(* convert_webhook_to_self: the fresh secret is none an admin-managed row had. *)
LEMMA ConvertWritable ==
  ASSUME Counted, NEW l, Sound(l)
  PROVE  Writable(ConvertToSelf(l))
<1>1. /\ ConvertToSelf(l) = [url |-> l.url, secret |-> Fresh, source |-> "self", http |-> l.http]
      /\ l.url \in Url \union {NoUrl} /\ l.http \in BOOLEAN
  BY DEF ConvertToSelf, Sound, Settings
<1>2. Fresh \in Nat \ {0} /\ Fresh \notin adminHeld
  BY DEF Counted, Fresh
<1> QED BY <1>1, <1>2 DEF Writable, Sound, Settings

(* check_license: the row of a heartbeat, and an admin-managed one as it was. *)
LEMMA RegisterWritable ==
  ASSUME Counted, NEW l, Sound(l), NEW u \in Url \union {NoUrl}, IsSafe(u, l.http)
  PROVE  /\ Writable(SelfRegister(l, u))
         /\ l.source = "admin" => SelfRegister(l, u) = l
<1>1. l.source = "admin" => SelfRegister(l, u) = l
  BY DEF SelfRegister
<1>2. CASE SelfRegister(l, u) = l
  BY <1>1, <1>2 DEF Sound, Writable, Settings, Counted, Fresh
<1>3. CASE u # NoUrl /\ l.source # "admin"
  <2> DEFINE r == SelfRegister(l, u)
  <2>1. /\ l \in Settings
        /\ l.source = "self"
        /\ l.secret \in Nat /\ l.secret <= minted /\ l.secret \notin adminHeld
    BY <1>3 DEF Sound, Settings
  <2>2. r = [url |-> u, secret |-> IF l.secret = 0 THEN Fresh ELSE l.secret,
             source |-> "self", http |-> l.http]
    BY <1>3, <2>1 DEF SelfRegister, Settings
  <2>3. r.secret \in Nat \ {0} /\ r.secret <= Fresh /\ r.secret \notin adminHeld
    BY <2>1, <2>2 DEF Counted, Fresh
  <2> QED BY <1>1, <2>1, <2>2, <2>3 DEF Writable, Settings, IsSafe
<1> QED BY <1>1, <1>2, <1>3 DEF SelfRegister

-----------------------------------------------------------------------------
(* Each of the functions returns settings, whatever the row it is given.   *)
LEMMA FunctionsTyped ==
  ASSUME NEW l \in Settings, minted \in Nat
  PROVE  /\ \A u \in Url \union {NoUrl}, rotate, mintOnChange \in BOOLEAN,
               source \in {"admin", "self"}, allow \in {"yes", "no", "keep"} :
              ApplyWebhookConfig(l, u, rotate, mintOnChange, source, allow) \in Settings
         /\ \A u \in Url \union {NoUrl}, rotate \in BOOLEAN, allow \in {"yes", "no", "keep"} :
              EditLicense(l, u, rotate, allow) \in Settings
         /\ ConvertToSelf(l) \in Settings
         /\ \A u \in Url \union {NoUrl} : SelfRegister(l, u) \in Settings
<1>1. /\ l.url \in Url \union {NoUrl} /\ l.secret \in Nat /\ l.http \in BOOLEAN
      /\ l.source \in {"admin", "self"} /\ Fresh \in Nat
      /\ l = [url |-> l.url, secret |-> l.secret, source |-> l.source, http |-> l.http]
  BY DEF Settings, Fresh
<1>2. Cleared \in Settings
  BY DEF Cleared, Settings
<1>3. \A allow \in {"yes", "no", "keep"} : Flag(l, allow) \in BOOLEAN
  BY <1>1 DEF Flag
<1>4. ASSUME NEW u \in Url \union {NoUrl}, NEW rotate \in BOOLEAN, NEW mintOnChange \in BOOLEAN,
             NEW source \in {"admin", "self"}, NEW allow \in {"yes", "no", "keep"}
      PROVE  ApplyWebhookConfig(l, u, rotate, mintOnChange, source, allow) \in Settings
  <2> DEFINE k == IF rotate \/ l.secret = 0 \/ (mintOnChange /\ l.url # u)
                  THEN Fresh ELSE l.secret
  <2>1. k \in Nat
    BY <1>1
  <2>2. [url |-> u, secret |-> k, source |-> source, http |-> Flag(l, allow)] \in Settings
    BY <1>3, <2>1 DEF Settings
  <2> QED BY <1>2, <2>2 DEF ApplyWebhookConfig
<1>5. ASSUME NEW u \in Url \union {NoUrl}, NEW rotate \in BOOLEAN,
             NEW allow \in {"yes", "no", "keep"}
      PROVE  EditLicense(l, u, rotate, allow) \in Settings
  <2> DEFINE k == IF u # NoUrl /\ l.secret = 0 THEN Fresh ELSE l.secret
  <2>1. [url |-> u, secret |-> k, source |-> l.source, http |-> Flag(l, allow)] \in Settings
    BY <1>1, <1>3 DEF Settings
  <2> QED BY <1>1, <1>4, <2>1 DEF EditLicense
<1>6. ConvertToSelf(l) \in Settings
  BY <1>1 DEF ConvertToSelf, Settings
<1>7. ASSUME NEW u \in Url \union {NoUrl} PROVE SelfRegister(l, u) \in Settings
  BY <1>1 DEF SelfRegister, Settings
<1> QED BY <1>4, <1>5, <1>6, <1>7

(* A handler that starts, at whatever overlap, keeps the types.            *)
LEMMA StartKeepsTypes ==
  ASSUME TypeOK, NEW s \in Session, NEW new \in Settings, NEW plain \in BOOLEAN,
         Start(s, new, plain), UNCHANGED <<row, form, echoed, adminHeld>>, ops' \in 0..MaxOps
  PROVE  TypeOK'
<1> DEFINE job == [at |-> "commit", loaded |-> row, new |-> new, plain |-> plain]
<1>1. session' = [session EXCEPT ![s] = job] /\ minted' \in Nat \ {0} /\ overlapped' \in BOOLEAN
  BY DEF Start, TypeOK, Fresh
<1>2. job \in [at : Stage, loaded : Settings, new : Settings, plain : BOOLEAN]
  BY DEF TypeOK, Stage
<1> QED BY <1>1, <1>2 DEF TypeOK

(* A handler that starts while no other runs: what it will commit was      *)
(* computed from the row as it is.                                         *)
LEMMA StartKeepsSerial ==
  ASSUME TypeOK, Serial, NEW s \in Session, NEW new, Writable(new),
         NEW plain \in BOOLEAN, Start(s, new, plain), ~overlapped',
         s \in Install /\ row.source = "admin" => new.url = row.url,
         UNCHANGED <<row, form, echoed, adminHeld>>
  PROVE  Serial'
<1> DEFINE job == [at |-> "commit", loaded |-> row, new |-> new, plain |-> plain]
<1>1. Busy = {} /\ session' = [session EXCEPT ![s] = job]
  BY DEF Start
<1>2. /\ minted' \in Nat \ {0} /\ minted <= minted' /\ minted \in Nat
      /\ new.secret <= minted'
  BY DEF Start, TypeOK, Writable, Settings, Fresh
<1>3. row' = row /\ adminHeld' = adminHeld
  OBVIOUS
<1>4. Sound(row)'
  <2>1. row.secret \in Nat /\ row.secret <= minted
    BY DEF Serial, Sound, Settings
  <2> QED BY <1>2, <1>3, <2>1 DEF Serial, Sound
<1>5. (adminHeld \subseteq 1..minted)'
  BY <1>2, <1>3 DEF Serial
<1>6. \A t \in Session : t # s => session'[t].at = "idle"
  BY <1>1 DEF Busy, TypeOK
<1>7. session'[s] = job
  BY <1>1 DEF TypeOK
<1>8. Sound(new)'
  BY <1>2, <1>3 DEF Sound, Writable
<1> QED
  BY <1>3, <1>4, <1>5, <1>6, <1>7, <1>8 DEF Serial, Busy

(* Both together. *)
LEMMA StartKeepsInv ==
  ASSUME ConfigInv, NEW s \in Session, NEW new \in Settings,
         ~overlapped => Writable(new), NEW plain \in BOOLEAN, Start(s, new, plain),
         ~overlapped => (s \in Install /\ row.source = "admin" => new.url = row.url),
         UNCHANGED <<row, form, echoed, adminHeld>>, ops' \in 0..MaxOps
  PROVE  ConfigInv'
<1>1. TypeOK'
  BY StartKeepsTypes DEF ConfigInv
<1>2. ASSUME ~overlapped' PROVE Serial'
  <2>1. ~overlapped
    BY <1>2 DEF Start
  <2> QED BY <1>2, <2>1, StartKeepsSerial DEF ConfigInv
<1> QED BY <1>1, <1>2 DEF ConfigInv

(* The commit of a handler that was alone writes the row it computed.      *)
LEMMA CommitWritesNew ==
  ASSUME TypeOK, Serial, NEW s \in Session, Commit(s)
  PROVE  row' = session[s].new /\ Sound(session[s].new)
<1>1. session[s].at = "commit" /\ session[s].loaded = row /\ Sound(session[s].new)
  BY DEF Commit, Serial
<1>2. row \in Settings /\ session[s].new \in Settings
  BY <1>1 DEF TypeOK, Sound
<1>3. row' = [c \in DOMAIN row |-> IF session[s].new[c] = row[c] THEN row[c]
                                   ELSE session[s].new[c]]
  BY <1>1 DEF Commit
<1>4. row' = [c \in DOMAIN row |-> session[s].new[c]]
  BY <1>3
<1>5. session[s].new = [c \in DOMAIN row |-> session[s].new[c]]
  BY <1>2 DEF Settings
<1> QED BY <1>1, <1>4, <1>5

(* Columns merged from three rows are settings again. *)
LEMMA MergeTyped ==
  ASSUME NEW r \in Settings, NEW l \in Settings, NEW n \in Settings
  PROVE  [c \in DOMAIN r |-> IF n[c] = l[c] THEN r[c] ELSE n[c]] \in Settings
<1> DEFINE m == [c \in DOMAIN r |-> IF n[c] = l[c] THEN r[c] ELSE n[c]]
<1>1. DOMAIN r = {"url", "secret", "source", "http"}
  BY DEF Settings
<1>2. /\ m.url = (IF n.url = l.url THEN r.url ELSE n.url)
      /\ m.secret = (IF n.secret = l.secret THEN r.secret ELSE n.secret)
      /\ m.source = (IF n.source = l.source THEN r.source ELSE n.source)
      /\ m.http = (IF n.http = l.http THEN r.http ELSE n.http)
  BY <1>1
<1>3. /\ m.url \in Url \union {NoUrl} /\ m.secret \in Nat
      /\ m.source \in {"admin", "self"} /\ m.http \in BOOLEAN
  BY <1>2 DEF Settings
<1>4. m = [url |-> m.url, secret |-> m.secret, source |-> m.source, http |-> m.http]
  BY <1>1
<1> HIDE DEF m
<1>5. m \in Settings
  BY <1>3, <1>4 DEF Settings
<1> QED BY <1>5 DEF m

LEMMA CommitKeepsInv ==
  ASSUME ConfigInv, NEW s \in Session, Commit(s)
  PROVE  ConfigInv'
<1> DEFINE n == session[s].new
           after == IF s \in Install THEN [Idle EXCEPT !.at = "echo"] ELSE Idle
<1>1. session[s].at = "commit" /\ session' = [session EXCEPT ![s] = after]
      /\ minted' = minted /\ form' = form /\ echoed' = echoed /\ ops' = ops
      /\ overlapped' = overlapped
      /\ adminHeld' = IF row'.source = "admin" THEN adminHeld \union ({row'.secret} \ {0})
                       ELSE adminHeld
  BY DEF Commit
<1>2. after \in [at : Stage, loaded : Settings, new : Settings, plain : BOOLEAN]
      /\ after.at # "commit"
  BY DEF Idle, Cleared, Settings, Stage
<1>3. row' \in Settings
  <2>1. row \in Settings /\ session[s].loaded \in Settings /\ n \in Settings
    BY DEF ConfigInv, TypeOK
  <2> QED BY <2>1, MergeTyped DEF Commit
<1>4. adminHeld' \subseteq Nat
  BY <1>1, <1>3 DEF ConfigInv, TypeOK, Settings
<1>5. TypeOK'
  BY <1>1, <1>2, <1>3, <1>4 DEF ConfigInv, TypeOK
<1>6. ASSUME ~overlapped' PROVE Serial'
  <2>1. Serial /\ TypeOK
    BY <1>1, <1>6 DEF ConfigInv
  <2>2. row' = n /\ Sound(n)
    BY <2>1, CommitWritesNew
  <2>3. n \in Settings /\ n.secret \in Nat /\ n.source \in {"admin", "self"}
    BY <2>2 DEF Sound, Settings
  <2>4. {n.secret} \ {0} \subseteq 1..minted
    BY <2>1, <2>2, <2>3 DEF Sound, TypeOK
  <2>5. (adminHeld \subseteq 1..minted)'
    BY <1>1, <2>1, <2>2, <2>4 DEF Serial
  <2>6. Sound(row)'
    BY <1>1, <2>2, <2>3 DEF Sound
  <2>7. \A t \in Session : t # s => session'[t] = session[t] /\ session[t].at = "idle"
    BY <1>1, <2>1 DEF Serial, Busy, TypeOK
  <2>8. session'[s] = after
    BY <1>1, <2>1 DEF TypeOK
  <2>9. \A t \in Session : session'[t].at # "commit"
    BY <1>2, <2>7, <2>8
  <2> QED
    BY <2>5, <2>6, <2>7, <2>8, <2>9 DEF Serial, Busy
<1> QED BY <1>5, <1>6 DEF ConfigInv

-----------------------------------------------------------------------------
LEMMA InitInv == Init => ConfigInv
<1> SUFFICES ASSUME Init PROVE ConfigInv
  OBVIOUS
<1>1. row \in Issued \union Legacy /\ minted = 1 /\ session = [s \in Session |-> Idle]
      /\ adminHeld = IF row.source = "admin" THEN {row.secret} \ {0} ELSE {}
  BY DEF Init
<1>2. row \in Settings /\ Sound(row) /\ adminHeld \subseteq 1..minted
  <2>1. CASE \E b \in BOOLEAN :
               row = [url |-> NoUrl, secret |-> 0, source |-> "self", http |-> b]
    <3>1. row.url = NoUrl /\ row.secret = 0 /\ row.source = "self" /\ row \in Settings
      BY <2>1 DEF Settings
    <3> QED BY <1>1, <3>1, ConfigAssumption DEF Sound
  <2>2. CASE \E u \in Url, b \in BOOLEAN :
               /\ row = [url |-> u, secret |-> 1, source |-> "admin", http |-> b]
               /\ u \in HttpUrl => b
    <3>1. /\ row.url \in Url /\ row.secret = 1 /\ row.source = "admin" /\ row \in Settings
          /\ row.url \in HttpUrl => row.http
      BY <2>2 DEF Settings
    <3> QED BY <1>1, <3>1, ConfigAssumption DEF Sound
  <2>3. CASE row \in Legacy
    <3>1. /\ row \in Settings /\ row.secret = 0
          /\ row.source = "admin" => row.url # NoUrl
          /\ row.url \in HttpUrl => row.http
      BY <2>3, LegacyFacts
    <3>2. adminHeld = {}
      BY <1>1, <3>1
    <3> QED BY <1>1, <2>3, <3>1, <3>2 DEF Sound
  <2> QED BY <1>1, <2>1, <2>2, <2>3 DEF Issued
<1>3. Idle \in [at : Stage, loaded : Settings, new : Settings, plain : BOOLEAN]
      /\ Idle.at = "idle"
  BY DEF Idle, Cleared, Settings, Stage
<1>4. form \in Form /\ echoed \in [Install -> Nat] /\ ops \in 0..MaxOps
      /\ overlapped = FALSE
  <2>1. row.url \in Url \union {NoUrl} /\ row.http \in BOOLEAN
    BY <1>2 DEF Settings
  <2>2. MaxOps \in Nat
    BY ConfigAssumption
  <2>3. form \in Form
    BY <2>1 DEF Init, Form
  <2> QED BY <2>2, <2>3 DEF Init
<1>5. TypeOK
  <2>1. minted \in Nat \ {0} /\ adminHeld \subseteq Nat
    BY <1>1, <1>2
  <2>3. overlapped \in BOOLEAN
    BY <1>4
  <2>2. session \in [Session -> [at : Stage, loaded : Settings, new : Settings, plain : BOOLEAN]]
    BY <1>1, <1>3
  <2> QED BY <1>2, <1>4, <2>1, <2>2, <2>3 DEF TypeOK
<1>6. Serial
  BY <1>1, <1>2, <1>3 DEF Serial, Busy
<1> QED BY <1>5, <1>6 DEF ConfigInv

LEMMA InvGivesCounted == TypeOK /\ Serial => Counted /\ Sound(row)
BY DEF Serial, Counted, TypeOK

LEMMA NextInv ==
  ASSUME ConfigInv, [Next]_vars
  PROVE  ConfigInv'
<1>0. /\ ~overlapped => Counted /\ Sound(row)
      /\ row.http \in BOOLEAN /\ row \in Settings /\ minted \in Nat
  BY InvGivesCounted DEF ConfigInv, TypeOK, Settings
<1>1. ASSUME NEW i \in Install, NEW u \in ClientUrl, Check(i, u) PROVE ConfigInv'
  <2>1. u \in Url \union {NoUrl} /\ i \in Session
    BY ConfigAssumption DEF Session
  <2>2. IsSafe(u, row.http) /\ Start(i, SelfRegister(row, u), FALSE)
        /\ UNCHANGED <<row, form, echoed, adminHeld>> /\ ops' \in 0..MaxOps
    BY <1>1 DEF Check, ConfigInv, TypeOK
  <2>3. ~overlapped =>
          Writable(SelfRegister(row, u)) /\ (row.source = "admin" => SelfRegister(row, u) = row)
    BY <1>0, <2>1, <2>2, RegisterWritable
  <2>4. SelfRegister(row, u) \in Settings
    BY <1>0, <2>1, FunctionsTyped
  <2> QED BY <2>1, <2>2, <2>3, <2>4, StartKeepsInv
<1>2. ASSUME NEW a \in Admin, NEW new \in Settings, ~overlapped => Writable(new),
             NEW plain \in BOOLEAN, StartAdmin(a, new, plain)
      PROVE ConfigInv'
  <2>1. a \in Session /\ a \notin Install
    BY ConfigAssumption DEF Session
  <2>2. Start(a, new, plain) /\ UNCHANGED <<row, form, echoed, adminHeld>>
        /\ ops' \in 0..MaxOps
    BY <1>2, ConfigAssumption DEF StartAdmin, ConfigInv, TypeOK
  <2> QED BY <1>2, <2>1, <2>2, StartKeepsInv
<1>3. ASSUME NEW a \in Admin, SavePlain(a) PROVE ConfigInv'
  <2>1. /\ form.url \in Url \union {NoUrl} /\ Allow(form.http) \in {"yes", "no", "keep"}
        /\ EditIsValid(row, form.url, FALSE, Allow(form.http))
    BY <1>3 DEF SavePlain, ConfigInv, TypeOK, Form, Allow
  <2>2. ~overlapped => Writable(EditLicense(row, form.url, FALSE, Allow(form.http)))
    BY <1>0, <2>1, EditWritable
  <2>3. EditLicense(row, form.url, FALSE, Allow(form.http)) \in Settings
    BY <1>0, <2>1, FunctionsTyped
  <2> QED BY <1>2, <1>3, <2>2, <2>3 DEF SavePlain
<1>4. ASSUME NEW a \in Admin, NEW u \in Url \union {NoUrl}, NEW rotate \in BOOLEAN,
             NEW allow \in {"yes", "no"}, Save(a, u, rotate, allow)
      PROVE ConfigInv'
  <2>1. ~overlapped => Writable(EditLicense(row, u, rotate, allow))
    BY <1>0, <1>4, EditWritable DEF Save
  <2>2. EditLicense(row, u, rotate, allow) \in Settings
    BY <1>0, FunctionsTyped
  <2> QED BY <1>2, <1>4, <2>1, <2>2 DEF Save
<1>5. ASSUME NEW a \in Admin, NEW u \in Url \union {NoUrl}, NEW rotate \in BOOLEAN,
             NEW mintOnChange \in BOOLEAN, NEW allow \in {"yes", "no", "keep"},
             Configure(a, u, rotate, mintOnChange, allow)
      PROVE ConfigInv'
  <2>1. ~overlapped =>
          Writable(ApplyWebhookConfig(row, u, rotate, mintOnChange, "admin", allow))
    BY <1>0, <1>5, ApplyWritable DEF Configure
  <2>2. ApplyWebhookConfig(row, u, rotate, mintOnChange, "admin", allow) \in Settings
    BY <1>0, FunctionsTyped
  <2> QED BY <1>2, <1>5, <2>1, <2>2 DEF Configure
<1>6. ASSUME NEW a \in Admin, Convert(a) PROVE ConfigInv'
  <2>1. ConvertToSelf(row) \in Settings /\ (~overlapped => Writable(ConvertToSelf(row)))
    BY <1>0, ConvertWritable, FunctionsTyped
  <2> QED BY <1>2, <1>6, <2>1 DEF Convert
<1>7. ASSUME NEW s \in Session, Commit(s) PROVE ConfigInv'
  BY <1>7, CommitKeepsInv
<1>8. ASSUME NEW i \in Install, Echo(i) PROVE ConfigInv'
  <2>1. i \in Session /\ session[i].at = "echo" /\ session' = [session EXCEPT ![i] = Idle]
        /\ UNCHANGED <<row, minted, form, adminHeld, overlapped, ops>>
    BY <1>8 DEF Echo, Session
  <2>2. Idle \in [at : Stage, loaded : Settings, new : Settings, plain : BOOLEAN]
        /\ Idle.at = "idle"
    BY DEF Idle, Cleared, Settings, Stage
  <2>3. echoed' \in [Install -> Nat]
    BY <1>0, <1>8 DEF Echo, ConfigInv, TypeOK, Settings
  <2>4. TypeOK'
    BY <2>1, <2>2, <2>3 DEF ConfigInv, TypeOK
  <2>5. \A t \in Session : session'[t] = IF t = i THEN Idle ELSE session[t]
    BY <2>1 DEF ConfigInv, TypeOK
  <2>6. ASSUME ~overlapped PROVE Serial'
    <3>1. Serial
      BY <2>6 DEF ConfigInv
    <3>2. Sound(row)' /\ (adminHeld \subseteq 1..minted)'
      BY <2>1, <3>1 DEF Serial, Sound
    <3>3. \A s \in Session : session'[s].at # "commit"
      BY <2>1, <2>2, <2>5, <3>1 DEF Serial, Busy
    <3>4. \A s, t \in Busy' : s = t
      BY <2>2, <2>5, <3>1 DEF Serial, Busy
    <3> QED BY <3>2, <3>3, <3>4 DEF Serial
  <2> QED BY <2>1, <2>4, <2>6 DEF ConfigInv
<1>9. CASE OpenForm
  <2>1. form' \in Form /\ overlapped' \in BOOLEAN
    BY <1>0, <1>9 DEF OpenForm, Form, Settings
  <2>2. UNCHANGED <<row, minted, session, echoed, adminHeld, ops>>
        /\ (~overlapped' => ~overlapped)
    BY <1>9 DEF OpenForm
  <2> QED BY <2>1, <2>2 DEF ConfigInv, TypeOK, Serial, Sound, Busy
<1>10. CASE UNCHANGED vars
  BY <1>10 DEF vars, ConfigInv, TypeOK, Serial, Sound, Busy
<1> QED
  BY <1>1, <1>3, <1>4, <1>5, <1>6, <1>7, <1>8, <1>9, <1>10
  DEF Next, Heartbeat, AdminRequest, Session

-----------------------------------------------------------------------------
(* The invariant of services/licenses.py and services/check.py.            *)
THEOREM ConfigInvariant == Spec => []ConfigInv
<1>1. Init => ConfigInv
  BY InitInv
<1>2. ConfigInv /\ [Next]_vars => ConfigInv'
  BY NextInv
<1> QED BY <1>1, <1>2, PTL DEF Spec

(* At whatever overlap, the columns keep their types: the loaded, computed *)
(* and stored settings mix column by column.                               *)
THEOREM TypeCorrect == Spec => []TypeOK
<1>1. ConfigInv => TypeOK
  BY DEF ConfigInv
<1> QED BY <1>1, ConfigInvariant, PTL

(* No sequence of requests and heartbeats without an overlap leaves a URL  *)
(* without a secret, so no event is dropped for want of one.               *)
THEOREM ChannelsStayComplete == Spec => []ChannelIsComplete
<1>1. ConfigInv => ChannelIsComplete
  BY DEF ConfigInv, Serial, Sound, ChannelIsComplete
<1> QED BY <1>1, ConfigInvariant, PTL

(* No sequence of requests and heartbeats without an overlap leaves an     *)
(* http:// URL on a license that does not allow http.                      *)
THEOREM HttpStaysOptIn == Spec => []HttpNeedsOptIn
<1>1. ConfigInv => HttpNeedsOptIn
  BY DEF ConfigInv, Serial, Sound, HttpNeedsOptIn
<1> QED BY <1>1, ConfigInvariant, PTL

(* A secret that signed for an admin's receiver is never echoed later, as  *)
(* long as no handlers overlap.                                            *)
THEOREM SecretsRetire == Spec => []AdminSecretsRetire
<1>1. ConfigInv => AdminSecretsRetire
  BY DEF ConfigInv, Serial, Sound, AdminSecretsRetire
<1> QED BY <1>1, ConfigInvariant, PTL

(* A heartbeat never changes the URL of an admin-managed row, as long as   *)
(* no handlers overlap.                                                    *)
THEOREM AdminUrlsAreLocked == Spec => AdminUrlIsLocked
<1> DEFINE Locked ==
      \A i \in Install :
        ~overlapped /\ session[i].at = "commit" /\ session'[i].at = "echo"
        => (row.source = "admin" => row'.url = row.url)
<1>1. ASSUME ConfigInv, [Next]_vars PROVE [Locked]_vars
  <2>1. SUFFICES ASSUME NEW i \in Install, ~overlapped,
                        session[i].at = "commit", session'[i].at = "echo",
                        row.source = "admin", Next
                 PROVE  row'.url = row.url
    BY <1>1
  <2>2. TypeOK /\ Serial /\ i \in Session
    BY <1>1, <2>1 DEF Session, ConfigInv
  <2>3. session[i].new.url = row.url
    BY <2>1, <2>2 DEF Serial
  <2>4. ASSUME NEW s \in Session, NEW new, NEW plain, Start(s, new, plain) PROVE FALSE
    BY <2>1, <2>2, <2>4 DEF Start, TypeOK
  <2>5. ASSUME NEW s \in Session, Commit(s) PROVE row'.url = row.url
    <3>1. s = i
      BY <2>1, <2>2, <2>5 DEF Commit, Serial, Busy
    <3> QED BY <2>2, <2>3, <2>5, <3>1, CommitWritesNew
  <2>6. ASSUME NEW j \in Install, Echo(j) PROVE FALSE
    BY <2>1, <2>2, <2>6 DEF Echo, TypeOK, Session, Idle
  <2>7. CASE OpenForm
    BY <2>7 DEF OpenForm
  <2>8. ASSUME NEW a \in Admin, AdminRequest(a) PROVE FALSE
    BY <2>4, <2>8 DEF AdminRequest, SavePlain, Save, Configure, Convert, StartAdmin, Session
  <2>9. ASSUME NEW j \in Install, NEW u \in ClientUrl, Check(j, u) PROVE FALSE
    BY <2>4, <2>9 DEF Check, Session
  <2> QED BY <2>1, <2>5, <2>6, <2>7, <2>8, <2>9 DEF Next, Heartbeat, Session
<1> QED BY <1>1, ConfigInvariant, PTL DEF Spec, AdminUrlIsLocked

-----------------------------------------------------------------------------
(* What a plain save of a form that shows the loaded URL is going to write *)
(* has that URL, its source and, if there is one, its secret.              *)
KeepsWebhook(l, n) ==
  n.url = l.url /\ n.source = l.source /\ (l.secret # 0 => n.secret = l.secret)

PlainIsPlain ==
  ~overlapped =>
    \A s \in Session :
      session[s].at = "commit" /\ session[s].plain /\ form.url = session[s].loaded.url
      => KeepsWebhook(session[s].loaded, session[s].new)

(* A handler starts: the others keep what they hold, and a plain one has   *)
(* computed what it holds by edit_license from the form.                   *)
LEMMA StartKeepsPlain ==
  ASSUME TypeOK, PlainIsPlain,
         NEW s \in Session, NEW new, NEW plain, Start(s, new, plain), UNCHANGED form,
         plain /\ form.url = row.url => KeepsWebhook(row, new)
  PROVE  PlainIsPlain'
<1>1. \A t \in Session :
        session'[t] = IF t = s
                      THEN [at |-> "commit", loaded |-> row, new |-> new, plain |-> plain]
                      ELSE session[t]
  BY DEF Start, TypeOK
<1>2. ~overlapped' => ~overlapped
  BY DEF Start
<1> QED BY <1>1, <1>2 DEF PlainIsPlain

(* Handlers start, end, or open a form while another one is under way.     *)
LEMMA NextKeepsPlain ==
  ASSUME TypeOK, PlainIsPlain, [Next]_vars
  PROVE  PlainIsPlain'
<1>1. ASSUME NEW s \in Session, NEW new, Start(s, new, FALSE), UNCHANGED form
      PROVE  PlainIsPlain'
  BY <1>1, StartKeepsPlain
<1>2. ASSUME NEW i \in Install, NEW u \in ClientUrl, Check(i, u) PROVE PlainIsPlain'
  BY <1>1, <1>2 DEF Check, Session
<1>3. ASSUME NEW a \in Admin, AdminRequest(a) PROVE PlainIsPlain'
  <2>1. CASE SavePlain(a)
    <3> DEFINE allow == Allow(form.http)
               new == EditLicense(row, form.url, FALSE, allow)
    <3>1. form.url = row.url => KeepsWebhook(row, new)
      BY DEF EditLicense, KeepsWebhook
    <3>2. a \in Session /\ Start(a, new, TRUE) /\ UNCHANGED form
      BY <2>1 DEF SavePlain, StartAdmin, Session
    <3> HIDE DEF new
    <3> QED BY <3>1, <3>2, StartKeepsPlain
  <2>2. ASSUME NEW u, NEW rotate, NEW allow, Save(a, u, rotate, allow)
        PROVE  PlainIsPlain'
    BY <1>1, <2>2 DEF Save, StartAdmin, Session
  <2>3. ASSUME NEW u, NEW rotate, NEW mint, NEW allow, Configure(a, u, rotate, mint, allow)
        PROVE  PlainIsPlain'
    BY <1>1, <2>3 DEF Configure, StartAdmin, Session
  <2>4. CASE Convert(a)
    BY <1>1, <2>4 DEF Convert, StartAdmin, Session
  <2> QED BY <1>3, <2>1, <2>2, <2>3, <2>4 DEF AdminRequest
<1>4. ASSUME NEW s \in Session, NEW ended,
             ended.at # "commit", session' = [session EXCEPT ![s] = ended],
             UNCHANGED <<form, overlapped>>
      PROVE  PlainIsPlain'
  BY <1>4 DEF PlainIsPlain, TypeOK
<1>5. ASSUME NEW s \in Session, Commit(s) PROVE PlainIsPlain'
  <2>1. (IF s \in Install THEN [Idle EXCEPT !.at = "echo"] ELSE Idle).at # "commit"
    BY DEF Idle
  <2> QED BY <1>4, <1>5, <2>1 DEF Commit
<1>6. ASSUME NEW i \in Install, Echo(i) PROVE PlainIsPlain'
  <2>1. Idle.at # "commit"
    BY DEF Idle
  <2> QED BY <1>4, <1>6, <2>1 DEF Echo, Session
<1>7. CASE OpenForm
  <2>1. overlapped' = (overlapped \/ Busy # {}) /\ session' = session
    BY <1>7 DEF OpenForm
  <2>2. ~overlapped' => \A s \in Session : session[s].at = "idle"
    BY <2>1 DEF Busy
  <2> QED BY <2>1, <2>2 DEF PlainIsPlain
<1>8. CASE UNCHANGED vars
  BY <1>8 DEF vars, PlainIsPlain
<1> QED
  BY <1>2, <1>3, <1>5, <1>6, <1>7, <1>8 DEF Next, Heartbeat, Session

(* The plain save of a form that shows the URL of the row never writes the *)
(* webhook settings, but for a missing secret, as long as no handlers      *)
(* overlap.                                                                *)
THEOREM PlainSavesKeepChannel == Spec => PlainSaveKeepsWebhook
<1> DEFINE Kept ==
      \A a \in Admin :
        /\ session[a].at = "commit" /\ session[a].plain /\ session'[a].at = "idle"
        /\ form.url = session[a].loaded.url /\ ~overlapped
        => /\ row'.url = row.url /\ row'.source = row.source
           /\ row.secret # 0 => row'.secret = row.secret
<1>1. Init => PlainIsPlain
  BY DEF Init, PlainIsPlain, Idle
<1>2. ConfigInv /\ PlainIsPlain /\ [Next]_vars => PlainIsPlain'
  BY NextKeepsPlain DEF ConfigInv
<1>3. ASSUME ConfigInv, PlainIsPlain, [Next]_vars PROVE [Kept]_vars
  <2>1. SUFFICES ASSUME NEW a \in Admin, ~overlapped, session[a].at = "commit",
                        session[a].plain, session'[a].at = "idle",
                        form.url = session[a].loaded.url, Next
                 PROVE  KeepsWebhook(row, row')
    BY <1>3 DEF KeepsWebhook
  <2>2. TypeOK /\ Serial /\ a \in Session
    BY <1>3, <2>1 DEF Session, ConfigInv
  <2>3. session[a].loaded = row /\ KeepsWebhook(row, session[a].new)
    BY <1>3, <2>1, <2>2 DEF Serial, PlainIsPlain
  <2>4. ASSUME NEW s \in Session, NEW new, NEW plain, Start(s, new, plain) PROVE FALSE
    BY <2>1, <2>2, <2>4 DEF Start, TypeOK
  <2>5. ASSUME NEW s \in Session, Commit(s) PROVE KeepsWebhook(row, row')
    <3>1. s = a
      BY <2>1, <2>2, <2>5 DEF Commit, Serial, Busy
    <3>2. row' = session[a].new
      BY <2>2, <2>5, <3>1, CommitWritesNew
    <3> QED BY <2>3, <3>2
  <2>6. ASSUME NEW j \in Install, Echo(j) PROVE FALSE
    BY <2>1, <2>2, <2>6, ConfigAssumption DEF Echo, TypeOK, Session
  <2>7. CASE OpenForm
    BY <2>1, <2>7 DEF OpenForm
  <2>8. ASSUME NEW b \in Admin, AdminRequest(b) PROVE FALSE
    BY <2>4, <2>8 DEF AdminRequest, SavePlain, Save, Configure, Convert, StartAdmin, Session
  <2>9. ASSUME NEW j \in Install, NEW u \in ClientUrl, Check(j, u) PROVE FALSE
    BY <2>4, <2>9 DEF Check, Session
  <2> QED BY <2>1, <2>5, <2>6, <2>7, <2>8, <2>9 DEF Next, Heartbeat, Session
<1> QED BY <1>1, <1>2, <1>3, ConfigInvariant, PTL DEF Spec, PlainSaveKeepsWebhook

-----------------------------------------------------------------------------
(* What a heartbeat is going to write, whatever it loaded: it leaves the    *)
(* source and a secret alone and never writes NULL as the URL.              *)
Registers(l, n) ==
  /\ n.source = l.source
  /\ l.secret # 0 => n.secret = l.secret
  /\ n.url = l.url \/ n.url # NoUrl

HeartbeatsRegister ==
  \A i \in Install :
    session[i].at = "commit" => Registers(session[i].loaded, session[i].new)

LEMMA RegisterKeeps ==
  ASSUME NEW l \in Settings, NEW u PROVE Registers(l, SelfRegister(l, u))
BY DEF Registers, SelfRegister, Settings

(* An admin's handler is none of the installs'. *)
LEMMA AdminsAreNoInstalls ==
  ASSUME NEW a \in Admin PROVE a \in Session /\ a \notin Install
BY ConfigAssumption DEF Session

LEMMA NextKeepsRegister ==
  ASSUME TypeOK, HeartbeatsRegister, [Next]_vars
  PROVE  HeartbeatsRegister'
<1>1. ASSUME NEW i \in Install, NEW u \in ClientUrl, Check(i, u) PROVE HeartbeatsRegister'
  <2>1. Registers(row, SelfRegister(row, u))
    BY RegisterKeeps DEF TypeOK
  <2>2. session' = [session EXCEPT ![i] =
                      [at |-> "commit", loaded |-> row, new |-> SelfRegister(row, u),
                       plain |-> FALSE]]
    BY <1>1 DEF Check, Start
  <2> QED BY <2>1, <2>2 DEF HeartbeatsRegister, TypeOK, Session
<1>2. ASSUME NEW a \in Admin, NEW job, session' = [session EXCEPT ![a] = job]
      PROVE  HeartbeatsRegister'
  BY <1>2, AdminsAreNoInstalls DEF HeartbeatsRegister, TypeOK
<1>3. ASSUME NEW a \in Admin, AdminRequest(a) PROVE HeartbeatsRegister'
  BY <1>2, <1>3 DEF AdminRequest, SavePlain, Save, Configure, Convert, StartAdmin, Start
<1>4. ASSUME NEW s \in Session, Commit(s) PROVE HeartbeatsRegister'
  <2>1. (IF s \in Install THEN [Idle EXCEPT !.at = "echo"] ELSE Idle).at # "commit"
    BY DEF Idle
  <2> QED BY <1>4, <2>1 DEF Commit, HeartbeatsRegister, TypeOK, Session
<1>5. ASSUME NEW i \in Install, Echo(i) PROVE HeartbeatsRegister'
  <2>1. Idle.at # "commit"
    BY DEF Idle
  <2> QED BY <1>5, <2>1 DEF Echo, HeartbeatsRegister, TypeOK, Session
<1>6. CASE OpenForm
  BY <1>6 DEF OpenForm, HeartbeatsRegister
<1>7. CASE UNCHANGED vars
  BY <1>7 DEF vars, HeartbeatsRegister
<1> QED
  BY <1>1, <1>3, <1>4, <1>5, <1>6, <1>7 DEF Next, Heartbeat, Session

(* The commit of a heartbeat that loaded the row with its present secret,   *)
(* however long ago: source and secret are as they were, and the URL is one. *)
LEMMA LateHeartbeatsKeepTheChannel ==
  ASSUME TypeOK, HeartbeatsRegister, Settled, NEW i \in Install, Commit(i)
  PROVE  row'.source = row.source /\ row'.secret = row.secret /\ row'.url # NoUrl
<1> DEFINE l == session[i].loaded
           n == session[i].new
<1>1. Registers(l, n) /\ l.source = "self" /\ l.secret = row.secret /\ row.secret # 0
  BY DEF Commit, HeartbeatsRegister, Settled
<1>2. DOMAIN row = {"url", "secret", "source", "http"}
  BY DEF TypeOK, Settings
<1>3. row' = [c \in DOMAIN row |-> IF n[c] = l[c] THEN row[c] ELSE n[c]]
  BY DEF Commit
<1>4. /\ row'.url = IF n.url = l.url THEN row.url ELSE n.url
      /\ row'.secret = IF n.secret = l.secret THEN row.secret ELSE n.secret
      /\ row'.source = IF n.source = l.source THEN row.source ELSE n.source
  BY <1>2, <1>3
<1> QED BY <1>1, <1>4 DEF Settled, Registers

(* Once a self-registered channel is complete, heartbeats leave it so and   *)
(* share its one secret, at whatever overlap, until an admin's request.     *)
THEOREM ChannelsStaySettled == Spec => SettledStaysSettled
<1> DEFINE Kept ==
      Settled /\ (\A a \in Admin : session'[a].at = "idle")
      => /\ Settled' /\ row'.secret = row.secret
         /\ \A i \in Install : echoed'[i] \in {echoed[i], row.secret}
<1>1. Init => HeartbeatsRegister
  BY DEF Init, HeartbeatsRegister, Idle, Session
<1>2. ConfigInv /\ HeartbeatsRegister /\ [Next]_vars => HeartbeatsRegister'
  BY NextKeepsRegister DEF ConfigInv
<1>3. ASSUME ConfigInv, HeartbeatsRegister, [Next]_vars PROVE [Kept]_vars
  <2>1. SUFFICES ASSUME Settled, \A a \in Admin : session'[a].at = "idle", Next
                 PROVE  /\ Settled' /\ row'.secret = row.secret
                        /\ \A i \in Install : echoed'[i] \in {echoed[i], row.secret}
    BY <1>3
  <2>2. TypeOK
    BY <1>3 DEF ConfigInv
  <2>3. ASSUME NEW i \in Install, NEW u \in ClientUrl, Check(i, u)
        PROVE  /\ Settled' /\ row'.secret = row.secret
               /\ \A j \in Install : echoed'[j] \in {echoed[j], row.secret}
    <3>1. /\ row' = row /\ echoed' = echoed
          /\ \E new : session' = [session EXCEPT ![i] =
                        [at |-> "commit", loaded |-> row, new |-> new, plain |-> FALSE]]
      BY <2>3 DEF Check, Start
    <3> QED BY <2>1, <2>2, <3>1 DEF Settled, TypeOK, Session
  <2>4. ASSUME NEW i \in Install, Commit(i)
        PROVE  /\ Settled' /\ row'.secret = row.secret
               /\ \A j \in Install : echoed'[j] \in {echoed[j], row.secret}
    <3>1. row'.source = row.source /\ row'.secret = row.secret /\ row'.url # NoUrl
      BY <1>3, <2>1, <2>2, <2>4, LateHeartbeatsKeepTheChannel
    <3>2. echoed' = echoed /\ session' = [session EXCEPT ![i] = [Idle EXCEPT !.at = "echo"]]
          /\ [Idle EXCEPT !.at = "echo"].at = "echo"
      BY <2>4 DEF Commit, Idle
    <3> QED BY <2>1, <2>2, <3>1, <3>2 DEF Settled, TypeOK, Session
  <2>5. ASSUME NEW i \in Install, Echo(i)
        PROVE  /\ Settled' /\ row'.secret = row.secret
               /\ \A j \in Install : echoed'[j] \in {echoed[j], row.secret}
    <3>1. /\ row' = row /\ session' = [session EXCEPT ![i] = Idle] /\ Idle.at = "idle"
          /\ echoed' = [echoed EXCEPT ![i] = row.secret]
      BY <2>1, <2>5 DEF Echo, Idle, Settled
    <3> QED BY <2>1, <2>2, <3>1 DEF Settled, TypeOK, Session
  <2>6. ASSUME NEW a \in Admin, AdminRequest(a) PROVE FALSE
    <3>1. ASSUME NEW new, NEW plain, Start(a, new, plain) PROVE FALSE
      BY <2>1, <2>2, <3>1, AdminsAreNoInstalls DEF Start, TypeOK
    <3> QED
      BY <2>6, <3>1 DEF AdminRequest, SavePlain, Save, Configure, Convert, StartAdmin
  <2>7. ASSUME NEW a \in Admin, Commit(a) PROVE FALSE
    BY <2>1, <2>7 DEF Commit, Settled
  <2>8. CASE OpenForm
    BY <2>1, <2>2, <2>8 DEF OpenForm, Settled, TypeOK
  <2> QED BY <2>1, <2>3, <2>4, <2>5, <2>6, <2>7, <2>8 DEF Next, Heartbeat
<1> QED
  BY <1>1, <1>2, <1>3, ConfigInvariant, PTL DEF Spec, SettledStaysSettled

=============================================================================
