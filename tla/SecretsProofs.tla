----------------------------- MODULE SecretsProofs -----------------------------
(***************************************************************************)
(* Proofs about the rotation of the KEK and the admin's second factor.     *)
(***************************************************************************)
EXTENDS Secrets, TLAPS

(* The types of the two parts.                                             *)
RotationTypes ==
  /\ server \in Wrapping
  /\ env \in [kek : Wrapping, prev : Wrapping]
  /\ product \in [Product -> Column]
  /\ script \in [at : {"idle", "loaded"}, migrate : BOOLEAN, read : [Product -> Column]]
  /\ told \in BOOLEAN /\ overwritten \subseteq Kek

Session == [at : {"idle", "store", "admit", "verified", "clear"},
            op : Operation \union {"none"}, loaded : Row, new : Row,
            ends : SUBSET RecoveryCode]

MfaTypes ==
  /\ mfa \in Row /\ session \in [Request -> Session]
  /\ secrets \in 0..MaxSecrets /\ sets \in 0..MaxSets
  /\ proven \subseteq 1..MaxSecrets /\ spent \subseteq RecoveryCode
  /\ lost \subseteq {"codes", "factor"}
  /\ loggedIn \in BOOLEAN /\ preMfa \in BOOLEAN

LEMMA TypesSplit ==
  TypeOK <=> RotationTypes /\ MfaTypes /\ ops \in 0..MaxOps
BY DEF TypeOK, RotationTypes, MfaTypes, Session

LEMMA Wrapped == \A k \in Wrapping : EncryptSecret(k) = k /\ k \in Nat /\ k >= 0 /\ k <= MaxKeys
BY KeystoreAssumption DEF EncryptSecret, Wrapping, Kek, NoKek, Plain

-----------------------------------------------------------------------------
(* Rotation: one lemma per action.                                         *)

RotationHolds == RotationTypes /\ RotationInv

LEMMA InitRotation == RotationInit => RotationHolds
<1> SUFFICES ASSUME RotationInit PROVE RotationHolds
  OBVIOUS
<1>1. 0 \in Wrapping /\ 1 \in Wrapping
  BY KeystoreAssumption DEF Wrapping, Kek, Plain
<1>2. env \in [kek : Wrapping, prev : Wrapping]
  BY <1>1 DEF RotationInit, NoKek
<1>3. RotationTypes
  BY <1>1, <1>2 DEF RotationInit, RotationTypes, Column, Idle
<1>4. \A p \in Product : ~Present(p)
  BY ProductAssumption, Wrapped DEF RotationInit, Present
<1>5. server = env.kek /\ env.kek \in Nat /\ ~told /\ script.at = "idle"
  BY <1>3, Wrapped DEF RotationInit, RotationTypes, Idle
<1> QED BY <1>3, <1>4, <1>5 DEF RotationHolds, RotationInv, HeldKeys

LEMMA CreateKeeps ==
  ASSUME RotationHolds, NEW p \in Product, CreateProduct(p)
  PROVE  RotationHolds'
<1> USE DEF RotationHolds
<1>1. /\ product' = [product EXCEPT ![p] = server] /\ product[p] = Unborn
      /\ UNCHANGED <<server, env, script, told, overwritten>>
  BY Wrapped DEF CreateProduct, RotationTypes
<1>2. RotationTypes'
  BY <1>1 DEF RotationTypes, Column
<1>3. \A q \in Product : product'[q] = IF q = p THEN server ELSE product[q]
  BY <1>1 DEF RotationTypes
<1>4. UNCHANGED HeldKeys
  BY <1>1 DEF HeldKeys
<1>5. \A q \in Product : Present(q)' => product'[q] \in HeldKeys
  BY <1>3 DEF RotationInv, Present
<1>6. ASSUME script.at = "loaded", NEW q \in Product
      PROVE  \/ product'[q] \in {script.read[q], Gone}
             \/ script.read[q] = Unborn /\ product'[q] = EncryptSecret(env.kek)
  <2>1. server = env.kek /\ EncryptSecret(env.kek) = env.kek
    BY <1>6, Wrapped DEF RotationInv, RotationTypes
  <2>2. script.read[p] = Unborn
    BY <1>1, <1>6, ProductAssumption DEF RotationInv
  <2> QED BY <1>3, <1>6, <2>1, <2>2 DEF RotationInv
<1>7. ASSUME told, NEW q \in Product, Present(q)' PROVE product'[q] \in {Plain, env.kek}
  BY <1>7, <1>3 DEF RotationInv, Present
<1> QED BY <1>1, <1>2, <1>4, <1>5, <1>6, <1>7 DEF RotationInv

LEMMA DeleteKeeps ==
  ASSUME RotationHolds, NEW p \in Product, DeleteProduct(p)
  PROVE  RotationHolds'
<1> USE DEF RotationHolds
<1>1. /\ product' = [product EXCEPT ![p] = Gone]
      /\ UNCHANGED <<server, env, script, told, overwritten>>
  BY DEF DeleteProduct
<1>2. RotationTypes'
  BY <1>1 DEF RotationTypes, Column
<1>3. \A q \in Product : product'[q] = IF q = p THEN Gone ELSE product[q]
  BY <1>1 DEF RotationTypes
<1>4. UNCHANGED HeldKeys
  BY <1>1 DEF HeldKeys
<1>5. \A q \in Product : Present(q)' => Present(q) /\ product'[q] = product[q]
  BY <1>3, Wrapped, ProductAssumption DEF Present
<1>6. \A q \in Product : product'[q] \in {product[q], Gone}
  BY <1>3
<1> QED BY <1>1, <1>2, <1>4, <1>5, <1>6 DEF RotationInv

LEMMA RotateKeeps ==
  ASSUME RotationHolds, RotateSecrets
  PROVE  RotationHolds'
<1> USE DEF RotationHolds
<1>1. /\ script.at = "idle" /\ told' = FALSE /\ UNCHANGED <<server, product, script>>
      /\ env.kek < MaxKeys /\ env.kek \in Nat /\ env.prev \in Wrapping
      /\ env' = [kek |-> env.kek + 1,
                 prev |-> IF env.kek = NoKek THEN env.prev ELSE env.kek]
      /\ overwritten' = IF env.kek = NoKek THEN overwritten
                        ELSE overwritten \union ({env.prev} \ {NoKek})
  BY Wrapped DEF RotateSecrets, RotationTypes
<1>2. env.kek + 1 \in Wrapping
  BY <1>1, KeystoreAssumption DEF Wrapping, Kek
<1>3. env' \in [kek : Wrapping, prev : Wrapping] /\ env'.kek = env.kek + 1
  BY <1>1, <1>2 DEF RotationTypes
<1>4. overwritten' \subseteq Kek
  BY <1>1 DEF RotationTypes, Wrapping, Plain, NoKek
<1>5. HeldKeys \subseteq HeldKeys'
  BY <1>1 DEF HeldKeys, Plain, NoKek
<1>6. server' <= env'.kek
  BY <1>1, <1>3, Wrapped DEF RotationInv, RotationTypes
<1>7. RotationTypes'
  BY <1>1, <1>3, <1>4 DEF RotationTypes
<1> QED BY <1>1, <1>5, <1>6, <1>7 DEF RotationInv, Present

LEMMA RestartKeeps ==
  ASSUME RotationHolds, Restart
  PROVE  RotationHolds' /\ server <= server' /\ server' \in Wrapping
<1> USE DEF RotationHolds
<1>1. server' = env.kek /\ UNCHANGED <<env, product, script, told, overwritten>>
  BY DEF Restart, rotationVars
<1>2. UNCHANGED HeldKeys /\ env.kek \in HeldKeys /\ env.kek \in Wrapping
  BY <1>1 DEF HeldKeys, RotationTypes
<1>3. env.kek <= env.kek
  BY <1>2, Wrapped
<1>4. RotationTypes'
  BY <1>1, <1>2 DEF RotationTypes
<1> QED BY <1>1, <1>2, <1>3, <1>4 DEF RotationInv, Present

LEMMA StartKeeps ==
  ASSUME RotationHolds, NEW migrate \in BOOLEAN, StartRewrap(migrate)
  PROVE  RotationHolds'
<1> USE DEF RotationHolds
<1>1. /\ server = env.kek /\ UNCHANGED <<server, env, product, told, overwritten>>
      /\ script' = [at |-> "loaded", migrate |-> migrate, read |-> product]
  BY DEF StartRewrap
<1>2. UNCHANGED HeldKeys
  BY <1>1 DEF HeldKeys
<1>3. RotationTypes' /\ script'.read = product
  BY <1>1 DEF RotationTypes
<1> QED BY <1>1, <1>2, <1>3 DEF RotationInv, Present

LEMMA ClearKeeps ==
  ASSUME RotationHolds, ClearPrev
  PROVE  RotationHolds'
<1> USE DEF RotationHolds
<1>1. /\ told /\ script.at = "idle" /\ UNCHANGED <<server, product, script, overwritten>>
      /\ env' = [env EXCEPT !.prev = NoKek] /\ told' = FALSE
  BY DEF ClearPrev
<1>2. env' \in [kek : Wrapping, prev : Wrapping] /\ env'.kek = env.kek
  BY <1>1 DEF RotationTypes, Wrapping, NoKek, Plain
<1>3. {Plain, env.kek} \subseteq HeldKeys'
  BY <1>2 DEF HeldKeys
<1>4. RotationTypes'
  BY <1>1, <1>2 DEF RotationTypes
<1> QED BY <1>1, <1>2, <1>3, <1>4 DEF RotationInv, Present

(* The rows the script changes are those it read, or the commit fails; the *)
(* others are deleted, new, or have nothing to change.                     *)
LEMMA CommitsKeeps ==
  ASSUME RotationHolds, RewrapCommits
  PROVE  RotationHolds'
<1> USE DEF RotationHolds
<1>1. /\ script.at = "loaded" /\ script' = Idle /\ UNCHANGED <<server, env, overwritten>>
      /\ env.kek \in Wrapping /\ EncryptSecret(env.kek) = env.kek
      /\ product' = [p \in Product |-> IF p \in Changed THEN env.kek ELSE product[p]]
      /\ told' \in {told, told \/ (SaysComplete(script.migrate) /\ Changed # {})}
  BY Wrapped DEF RewrapCommits, RotationTypes
<1>2. told' \in BOOLEAN /\ (told' => told \/ script.migrate)
  BY <1>1 DEF SaysComplete, RotationTypes
<1>3. RotationTypes'
  <2>1. product' \in [Product -> Column]
    BY <1>1 DEF RotationTypes, Column
  <2>2. script' \in [at : {"idle", "loaded"}, migrate : BOOLEAN, read : [Product -> Column]]
    BY <1>1 DEF Idle, Column
  <2> QED BY <1>1, <1>2, <2>1, <2>2 DEF RotationTypes
<1>4. UNCHANGED HeldKeys /\ env.kek \in HeldKeys
  BY <1>1 DEF HeldKeys
<1>5. \A p \in Product : product'[p] = IF p \in Changed THEN env.kek ELSE product[p]
  BY <1>1
<1>6. script'.at = "idle"
  BY <1>1 DEF Idle
<1>7. server = env.kek
  BY <1>1 DEF RotationInv
<1>8. ASSUME told', NEW p \in Product, Present(p)' PROVE product'[p] \in {Plain, env.kek}
  <2>1. CASE p \in Changed
    BY <2>1, <1>5
  <2>2. CASE p \notin Changed /\ told
    BY <2>2, <1>5, <1>8 DEF RotationInv, Present
  <2>3. CASE p \notin Changed /\ script.migrate
    <3>1. script.read[p] \notin Wrapping /\ product[p] \in Wrapping
      BY <2>3, <1>5, <1>8 DEF Changed, Present
    <3>2. product[p] # Gone
      BY <3>1, Wrapped, ProductAssumption
    <3>3. product[p] = EncryptSecret(env.kek)
      BY <3>1, <3>2, <1>1 DEF RotationInv
    <3> QED BY <3>3, <2>3, <1>1, <1>5
  <2> QED BY <2>1, <2>2, <2>3, <1>2, <1>8
<1>9. \A p \in Product : Present(p)' => product'[p] \in HeldKeys
  BY <1>4, <1>5 DEF RotationInv, Present
<1> QED BY <1>1, <1>3, <1>4, <1>6, <1>7, <1>8, <1>9 DEF RotationInv

LEMMA RollsBackKeeps ==
  ASSUME RotationHolds, RewrapRollsBack
  PROVE  RotationHolds'
<1> USE DEF RotationHolds
<1>1. script' = Idle /\ UNCHANGED <<server, env, product, told, overwritten>>
  BY DEF RewrapRollsBack
<1>2. UNCHANGED HeldKeys /\ script'.at = "idle"
  BY <1>1 DEF HeldKeys, Idle
<1>3. RotationTypes'
  BY <1>1 DEF RotationTypes, Idle, Column
<1> QED BY <1>1, <1>2, <1>3 DEF RotationInv, Present

-----------------------------------------------------------------------------
(* The second factor. *)

MfaHolds == MfaTypes /\ MfaInv /\ server \in Wrapping

LEMMA SecretsAreTyped ==
  /\ NoSecret \in Secret /\ \A x \in Secret : x.kek \in Wrapping
  /\ \A r \in Row : r.secret \in Secret /\ r.secret.kek \in Nat
  /\ NoRow \in Row /\ NoRow.codes = {} /\ NoRow.secret.kek = 0 /\ NoRow.enabled = "absent"
<1>1. NoSecret \in Secret /\ NoSecret.kek = 0
  BY DEF NoSecret, Secret, Plain
<1>2. \A x \in Secret : x.kek \in Wrapping
  BY DEF NoSecret, Secret, Wrapping
<1>3. NoRow \in Row /\ NoRow.codes = {} /\ NoRow.secret.kek = 0 /\ NoRow.enabled = "absent"
  BY <1>1 DEF NoRow, Row
<1>4. \A r \in Row : r.secret \in Secret
  BY DEF Row
<1> QED BY <1>1, <1>2, <1>3, <1>4, Wrapped

(* A handler that has ended or is between its two transactions.            *)
Blank == {Done, [Done EXCEPT !.at = "clear"]}

LEMMA BlankIsEmpty ==
  \A j \in Blank : /\ j \in Session /\ j.op = "none" /\ j.at \in {"idle", "clear"}
                   /\ j.loaded = NoRow /\ j.new = NoRow /\ j.ends = {}
BY SecretsAreTyped DEF Blank, Done, Session

(* One handler takes a value; what was generated before stays so.          *)
LEMMA GeneratedGrows ==
  ASSUME sets \in Nat, sets' \in Nat, sets <= sets'
  PROVE  Generated \subseteq Generated'
BY DEF Generated

(* A load: what the handler will write is decided by the row it reads and  *)
(* by a set of codes that was not generated before.                        *)
LEMMA LoadKeeps ==
  ASSUME MfaHolds, NEW s \in Request, NEW j \in Session,
         session[s].op = "none", session' = [session EXCEPT ![s] = j], j.loaded = mfa,
         UNCHANGED <<server, mfa, spent, lost, loggedIn, preMfa>>,
         sets' \in 0..MaxSets, sets <= sets', secrets' \in 0..MaxSecrets,
         proven \subseteq proven', proven' \subseteq 1..MaxSecrets,
         Decided(s)', j.ends \subseteq mfa.codes, j.new.secret.kek <= server,
         IF j.op \in {"verify", "regen"}
         THEN j.new.codes \intersect Generated = {} /\ j.new.codes \subseteq Generated'
         ELSE j.new.codes \subseteq mfa.codes
  PROVE  MfaHolds'
<1> USE DEF MfaHolds
<1>1. /\ session' \in [Request -> Session] /\ session'[s] = j
      /\ \A t \in Request : t # s => session'[t] = session[t]
  BY DEF MfaTypes
<1>2. MfaTypes'
  BY <1>1 DEF MfaTypes
<1>3. Generated \subseteq Generated'
  BY GeneratedGrows, MfaAssumption DEF MfaTypes
<1>4. \A t \in Request : Decided(t)'
  <2> SUFFICES ASSUME NEW t \in Request, t # s PROVE Decided(t)'
    OBVIOUS
  <2> QED BY <1>1 DEF MfaInv, Decided
<1>5. CodesAreGenerated'
  BY <1>1, <1>3 DEF MfaInv, CodesAreGenerated
<1>6. KeysArePast'
  BY <1>1 DEF MfaInv, KeysArePast
<1>7. /\ Fresh(s)' \subseteq j.new.codes
      /\ Fresh(s)' \intersect Generated = {}
      /\ \A t \in Request : t # s => Fresh(t)' = Fresh(t) /\ Fresh(t) \subseteq session[t].new.codes
  BY <1>1 DEF Fresh
<1>8. FreshIsNew'
  <2> SUFFICES ASSUME NEW t \in Request
               PROVE  /\ Fresh(t)' \intersect (mfa.codes \union spent \union session'[t].loaded.codes) = {}
                      /\ \A u \in Request \ {t} :
                           Fresh(t)' \intersect (session'[u].loaded.codes \union session'[u].new.codes
                                                 \union session'[u].ends) = {}
    BY DEF FreshIsNew
  <2>1. CASE t = s
    <3>1. mfa.codes \union spent \union session'[s].loaded.codes \subseteq Generated
      BY <1>1 DEF MfaInv, CodesAreGenerated
    <3>2. \A u \in Request \ {s} :
             session'[u].loaded.codes \union session'[u].new.codes \union session'[u].ends \subseteq Generated
      BY <1>1 DEF MfaInv, CodesAreGenerated
    <3> QED BY <2>1, <3>1, <3>2, <1>7
  <2>2. CASE t # s
    <3>1. Fresh(t)' \intersect (mfa.codes \union spent \union session'[t].loaded.codes) = {}
      BY <2>2, <1>1, <1>7 DEF MfaInv, FreshIsNew
    <3>2. Fresh(t)' \intersect j.new.codes = {}
      <4>1. CASE j.op \in {"verify", "regen"}
        <5>1. Fresh(t)' \subseteq Generated
          BY <2>2, <1>7 DEF MfaInv, CodesAreGenerated
        <5> QED BY <4>1, <5>1
      <4>2. CASE j.op \notin {"verify", "regen"}
        BY <4>2, <3>1
      <4> QED BY <4>1, <4>2
    <3>3. ASSUME NEW u \in Request \ {t}
          PROVE  Fresh(t)' \intersect (session'[u].loaded.codes \union session'[u].new.codes
                                       \union session'[u].ends) = {}
      <4>1. CASE u = s
        BY <4>1, <3>1, <3>2, <1>1
      <4>2. CASE u # s
        BY <4>2, <2>2, <1>1, <1>7 DEF MfaInv, FreshIsNew
      <4> QED BY <4>1, <4>2
    <3> QED BY <3>1, <3>3
  <2> QED BY <2>1, <2>2
<1>9. mfa'.enabled = "on" /\ "factor" \notin lost' => mfa'.secret.id \in proven'
  BY DEF MfaInv
<1>10. "codes" \notin lost' => mfa'.codes \intersect spent' = {}
  BY DEF MfaInv
<1> QED BY <1>2, <1>4, <1>5, <1>6, <1>8, <1>9, <1>10 DEF MfaInv

(* Handlers that die, cookies that come and go, another key.               *)
LEMMA ResetKeeps ==
  ASSUME MfaHolds, session' \in [Request -> Session],
         \A s \in Request : session'[s] \in Blank \union {session[s]},
         UNCHANGED <<mfa, secrets, sets, proven, spent, lost>>,
         loggedIn' \in BOOLEAN, preMfa' \in BOOLEAN,
         server' \in Wrapping, server <= server'
  PROVE  MfaHolds'
<1> USE DEF MfaHolds
<1>1. MfaTypes'
  BY DEF MfaTypes
<1>2. \A s \in Request : Decided(s)'
  BY BlankIsEmpty DEF MfaInv, Decided
<1>3. UNCHANGED Generated
  BY DEF Generated
<1>4. \A s \in Request : /\ session'[s].loaded.codes \in {{}, session[s].loaded.codes}
                         /\ session'[s].new.codes \in {{}, session[s].new.codes}
                         /\ session'[s].ends \in {{}, session[s].ends}
                         /\ Fresh(s)' \in {{}, Fresh(s)}
  BY BlankIsEmpty, SecretsAreTyped DEF Fresh
<1>5. CodesAreGenerated'
  BY <1>3, <1>4 DEF MfaInv, CodesAreGenerated
<1>6. FreshIsNew'
  <2>1. \A s \in Request : Fresh(s)' # {} => Fresh(s)' = Fresh(s) /\ session'[s] = session[s]
    BY <1>4, BlankIsEmpty DEF Fresh
  <2> QED BY <1>4, <2>1 DEF MfaInv, FreshIsNew
<1>7. KeysArePast'
  <2>1. ASSUME NEW k \in Nat, k <= server PROVE k <= server'
    BY <2>1, Wrapped
  <2>2. mfa.secret.kek \in Nat
    BY SecretsAreTyped DEF MfaTypes
  <2>3. \A s \in Request : session[s].loaded.secret.kek \in Nat /\ session[s].new.secret.kek \in Nat
    BY SecretsAreTyped DEF MfaTypes, Session
  <2>4. 0 <= server'
    BY Wrapped
  <2>5. mfa.secret.kek <= server'
    BY <2>1, <2>2 DEF MfaInv, KeysArePast
  <2>6. ASSUME NEW s \in Request
        PROVE  session'[s].loaded.secret.kek <= server' /\ session'[s].new.secret.kek <= server'
    <3>1. CASE session'[s] = session[s]
      BY <3>1, <2>1, <2>3 DEF MfaInv, KeysArePast
    <3>2. CASE session'[s] \in Blank
      BY <3>2, <2>4, BlankIsEmpty, SecretsAreTyped
    <3> QED BY <3>1, <3>2
  <2> QED BY <2>5, <2>6 DEF KeysArePast
<1> QED BY <1>1, <1>2, <1>5, <1>6, <1>7 DEF MfaInv

(* Sets of codes are numbered: a new one has nothing that was there.       *)
LEMMA NewSetIsNew ==
  ASSUME sets \in Nat, sets < MaxSets, sets' = sets + 1
  PROVE  /\ sets' \in 0..MaxSets /\ sets <= sets'
         /\ NewSet(sets') \subseteq Generated' /\ NewSet(sets') \subseteq RecoveryCode
         /\ NewSet(sets') \intersect Generated = {}
BY MfaAssumption DEF NewSet, Generated, RecoveryCode

LEMMA EnrolKeeps ==
  ASSUME MfaHolds, UNCHANGED server, NEW s \in Request, StartEnrol(s)
  PROVE  MfaHolds'
<1> USE DEF MfaHolds
<1> DEFINE enc == [id |-> secrets', kek |-> EncryptSecret(server)]
           j == [at |-> "store", op |-> "enrol", loaded |-> mfa,
                 new |-> [enabled |-> "off", secret |-> enc, codes |-> {}], ends |-> mfa.codes]
<1>1. /\ session[s].at = "idle" /\ secrets' = secrets + 1 /\ secrets < MaxSecrets
      /\ session' = [session EXCEPT ![s] = j]
      /\ UNCHANGED <<mfa, sets, proven, spent, lost, loggedIn, preMfa>>
  BY DEF StartEnrol, Load, Restarted
<1>2. secrets' \in 1..MaxSecrets /\ secrets' \in 0..MaxSecrets
  BY <1>1, MfaAssumption DEF MfaTypes
<1>3. enc \in Secret /\ enc.kek <= server
  BY <1>2, Wrapped DEF Secret
<1>4. j.new \in Row /\ mfa.codes \subseteq RecoveryCode
  BY <1>3 DEF Row, MfaTypes
<1>5. j \in Session
  BY <1>4 DEF Session, Operation, MfaTypes
<1>6. session'[s] = j
  BY <1>1 DEF MfaTypes
<1>7. /\ j.at = "store" /\ j.op = "enrol" /\ j.loaded = mfa /\ j.ends = mfa.codes
      /\ j.new.enabled = "off" /\ j.new.codes = {} /\ j.new.secret = enc
  OBVIOUS
<1> HIDE DEF j, enc
<1>8. Decided(s)'
  BY <1>6, <1>7 DEF Decided
<1>9. session[s].op = "none"
  BY <1>1 DEF MfaInv, Decided
<1>10. sets' \in 0..MaxSets /\ sets <= sets' /\ proven \subseteq proven' /\ proven' \subseteq 1..MaxSecrets
  BY <1>1, MfaAssumption DEF MfaTypes
<1> QED BY <1>1, <1>2, <1>3, <1>5, <1>7, <1>8, <1>9, <1>10, LoadKeeps

LEMMA VerifyKeeps ==
  ASSUME MfaHolds, UNCHANGED server, NEW s \in Request, VerifyEnrol(s)
  PROVE  MfaHolds'
<1> USE DEF MfaHolds
<1> DEFINE j == [at |-> "store", op |-> "verify", loaded |-> mfa,
                 new |-> [enabled |-> "on", secret |-> mfa.secret, codes |-> NewSet(sets')],
                 ends |-> mfa.codes]
<1>1. /\ session[s].at = "idle" /\ sets' = sets + 1 /\ sets < MaxSets /\ mfa.secret # NoSecret
      /\ proven' = proven \union {mfa.secret.id} /\ session' = [session EXCEPT ![s] = j]
      /\ UNCHANGED <<mfa, secrets, spent, lost, loggedIn, preMfa>>
  BY DEF VerifyEnrol, Load
<1>2. /\ sets' \in 0..MaxSets /\ sets <= sets' /\ NewSet(sets') \subseteq Generated'
      /\ NewSet(sets') \intersect Generated = {} /\ NewSet(sets') \subseteq RecoveryCode
  BY <1>1, NewSetIsNew, MfaAssumption DEF MfaTypes
<1>3. mfa.secret \in Secret /\ mfa.codes \subseteq RecoveryCode
  BY DEF MfaTypes, Row
<1>4. mfa.secret.id \in 1..MaxSecrets
  BY <1>1, <1>3 DEF Secret
<1>5. j.new \in Row
  BY <1>2, <1>3 DEF Row
<1>6. j \in Session
  BY <1>3, <1>5 DEF Session, Operation, MfaTypes
<1>7. session'[s] = j
  BY <1>1 DEF MfaTypes
<1>8. /\ j.at = "store" /\ j.op = "verify" /\ j.loaded = mfa /\ j.ends = mfa.codes
      /\ j.new.codes = NewSet(sets') /\ j.new.secret = mfa.secret
  OBVIOUS
<1> HIDE DEF j
<1>9. Decided(s)'
  BY <1>1, <1>7, <1>8 DEF Decided
<1>10. session[s].op = "none" /\ mfa.secret.kek <= server
  BY <1>1 DEF MfaInv, Decided, KeysArePast
<1>11. /\ secrets' \in 0..MaxSecrets
       /\ proven \subseteq proven' /\ proven' \subseteq 1..MaxSecrets
  BY <1>1, <1>4 DEF MfaTypes
<1> QED BY <1>1, <1>2, <1>6, <1>8, <1>9, <1>10, <1>11, LoadKeeps

LEMMA RegenKeeps ==
  ASSUME MfaHolds, UNCHANGED server, NEW s \in Request, RegenRecovery(s)
  PROVE  MfaHolds'
<1> USE DEF MfaHolds
<1> DEFINE j == [at |-> "store", op |-> "regen", loaded |-> mfa,
                 new |-> [enabled |-> mfa.enabled, secret |-> mfa.secret, codes |-> NewSet(sets')],
                 ends |-> mfa.codes]
<1>1. /\ session[s].at = "idle" /\ sets' = sets + 1 /\ sets < MaxSets
      /\ session' = [session EXCEPT ![s] = j]
      /\ UNCHANGED <<mfa, secrets, proven, spent, lost, loggedIn, preMfa>>
  BY DEF RegenRecovery, Load, WithCodes, Regenerated
<1>2. /\ sets' \in 0..MaxSets /\ sets <= sets' /\ NewSet(sets') \subseteq Generated'
      /\ NewSet(sets') \intersect Generated = {} /\ NewSet(sets') \subseteq RecoveryCode
  BY <1>1, NewSetIsNew, MfaAssumption DEF MfaTypes
<1>3. /\ mfa.secret \in Secret /\ mfa.codes \subseteq RecoveryCode
      /\ mfa.enabled \in {"absent", "off", "on"}
  BY DEF MfaTypes, Row
<1>4. j.new \in Row
  BY <1>2, <1>3 DEF Row
<1>5. j \in Session
  BY <1>3, <1>4 DEF Session, Operation, MfaTypes
<1>6. session'[s] = j
  BY <1>1 DEF MfaTypes
<1>7. /\ j.at = "store" /\ j.op = "regen" /\ j.loaded = mfa /\ j.ends = mfa.codes
      /\ j.new.codes = NewSet(sets') /\ j.new.secret = mfa.secret /\ j.new.enabled = mfa.enabled
  OBVIOUS
<1> HIDE DEF j
<1>8. Decided(s)'
  BY <1>6, <1>7 DEF Decided
<1>9. session[s].op = "none" /\ mfa.secret.kek <= server
  BY <1>1 DEF MfaInv, Decided, KeysArePast
<1>10. secrets' \in 0..MaxSecrets /\ proven \subseteq proven' /\ proven' \subseteq 1..MaxSecrets
  BY <1>1 DEF MfaTypes
<1> QED BY <1>1, <1>2, <1>5, <1>7, <1>8, <1>9, <1>10, LoadKeeps

LEMMA ClearFactorKeeps ==
  ASSUME MfaHolds, UNCHANGED server, NEW s \in Request, Clear(s)
  PROVE  MfaHolds'
<1> USE DEF MfaHolds
<1> DEFINE j == [at |-> "store", op |-> "clear", loaded |-> mfa,
                 new |-> [enabled |-> "off", secret |-> NoSecret, codes |-> {}],
                 ends |-> mfa.codes]
<1>1. /\ session[s].at = "clear" /\ session' = [session EXCEPT ![s] = j]
      /\ UNCHANGED <<mfa, secrets, sets, proven, spent, lost, loggedIn, preMfa>>
  BY DEF Clear, Load
<1>2. j.new \in Row /\ mfa.codes \subseteq RecoveryCode
  BY SecretsAreTyped DEF MfaTypes, Row
<1>3. j \in Session
  BY <1>2 DEF Session, Operation, MfaTypes
<1>4. session'[s] = j
  BY <1>1 DEF MfaTypes
<1>5. /\ j.at = "store" /\ j.op = "clear" /\ j.loaded = mfa /\ j.ends = mfa.codes
      /\ j.new.enabled = "off" /\ j.new.codes = {} /\ j.new.secret = NoSecret
  OBVIOUS
<1> HIDE DEF j
<1>6. Decided(s)'
  BY <1>4, <1>5 DEF Decided
<1>7. session[s].op = "none"
  BY <1>1 DEF MfaInv, Decided
<1>8. NoSecret.kek <= server
  BY Wrapped DEF NoSecret, Plain
<1>9. /\ sets' \in 0..MaxSets /\ sets <= sets' /\ secrets' \in 0..MaxSecrets
      /\ proven \subseteq proven' /\ proven' \subseteq 1..MaxSecrets
  BY <1>1, MfaAssumption DEF MfaTypes
<1> QED BY <1>1, <1>3, <1>5, <1>6, <1>7, <1>8, <1>9, LoadKeeps

LEMMA LoginKeeps ==
  ASSUME MfaHolds, UNCHANGED server, NEW s \in Request, NEW stage \in {"admit", "verified"},
         VerifyLogin(s, stage)
  PROVE  MfaHolds'
<1> USE DEF MfaHolds
<1>1. /\ session[s].at = "idle"
      /\ UNCHANGED <<mfa, secrets, sets, proven, spent, lost, loggedIn, preMfa>>
  BY DEF VerifyLogin
<1>2. session[s].op = "none" /\ mfa.secret.kek <= server /\ mfa \in Row
  BY <1>1 DEF MfaInv, Decided, KeysArePast, MfaTypes
<1>3. /\ sets' \in 0..MaxSets /\ sets <= sets' /\ secrets' \in 0..MaxSecrets
      /\ proven \subseteq proven' /\ proven' \subseteq 1..MaxSecrets
  BY <1>1, MfaAssumption DEF MfaTypes
<1>4. CASE Load(s, stage, "login", mfa, {})
  <2> DEFINE j == [at |-> stage, op |-> "login", loaded |-> mfa, new |-> mfa, ends |-> {}]
  <2>1. session' = [session EXCEPT ![s] = j] /\ session'[s] = j
    BY <1>4 DEF Load, MfaTypes
  <2>2. j \in Session
    BY <1>2 DEF Session, Operation
  <2>3. j.at = stage /\ j.op = "login" /\ j.loaded = mfa /\ j.new = mfa /\ j.ends = {}
    OBVIOUS
  <2> HIDE DEF j
  <2>4. Decided(s)'
    BY <2>1, <2>3 DEF Decided
  <2> QED BY <1>1, <1>2, <1>3, <2>1, <2>2, <2>3, <2>4, LoadKeeps
<1>5. ASSUME NEW c \in mfa.codes,
             Load(s, stage, "redeem", WithCodes(Remaining(mfa.codes, c)), {c})
      PROVE  MfaHolds'
  <2> DEFINE j == [at |-> stage, op |-> "redeem", loaded |-> mfa,
                   new |-> [enabled |-> mfa.enabled, secret |-> mfa.secret, codes |-> mfa.codes \ {c}],
                   ends |-> {c}]
  <2>1. session' = [session EXCEPT ![s] = j] /\ session'[s] = j
    BY <1>5 DEF Load, MfaTypes, WithCodes, Remaining
  <2>2. j.new \in Row /\ c \in RecoveryCode
    BY <1>2, <1>5 DEF Row
  <2>3. j \in Session
    BY <1>2, <2>2 DEF Session, Operation
  <2>4. /\ j.at = stage /\ j.op = "redeem" /\ j.loaded = mfa /\ j.ends = {c}
        /\ j.new.enabled = mfa.enabled /\ j.new.secret = mfa.secret /\ j.new.codes = mfa.codes \ {c}
    OBVIOUS
  <2> HIDE DEF j
  <2>5. Decided(s)'
    BY <2>1, <2>4 DEF Decided
  <2> QED BY <1>1, <1>2, <1>3, <2>1, <2>3, <2>4, <2>5, LoadKeeps
<1> QED BY <1>4, <1>5 DEF VerifyLogin

(* A commit: its columns are the handler's or the stored ones, and what    *)
(* the handler was to end is ended, unless somebody's change is lost.      *)
LEMMA CommitKeeps ==
  ASSUME MfaHolds, UNCHANGED server, NEW s \in Request, Commit(s)
  PROVE  MfaHolds'
<1> USE DEF MfaHolds
<1> DEFINE j == session[s]
           b == IF j.at = "verified" THEN [Done EXCEPT !.at = "clear"] ELSE Done
<1>1. /\ j.at \in {"store", "admit", "verified"} /\ mfa' = Written(s)
      /\ spent' = spent \union j.ends \union (mfa.codes \ mfa'.codes)
      /\ lost' = lost \union Overwrites(s)
      /\ session' = [session EXCEPT ![s] = b]
      /\ UNCHANGED <<secrets, sets, proven>>
  BY DEF Commit
<1>2. loggedIn' \in BOOLEAN /\ preMfa' \in BOOLEAN
  BY DEF Commit, MfaTypes
<1>3. b \in Blank
  BY DEF Blank
<1>4. j \in Session /\ Decided(s) /\ j.op \in Operation
  BY <1>1 DEF MfaTypes, MfaInv, Decided, Session, Operation
<1>5. /\ j.loaded \in Row /\ j.new \in Row /\ mfa \in Row /\ j.ends \subseteq RecoveryCode
  BY <1>4 DEF Session, MfaTypes
<1>6. /\ mfa'.enabled = IF j.new.enabled = j.loaded.enabled THEN mfa.enabled ELSE j.new.enabled
      /\ mfa'.secret = IF j.new.secret = j.loaded.secret THEN mfa.secret ELSE j.new.secret
      /\ mfa'.codes = IF j.new.codes = j.loaded.codes THEN mfa.codes ELSE j.new.codes
  BY <1>1 DEF Written, Merged
<1>7. mfa' \in Row
  BY <1>1, <1>5 DEF Written, Merged, Row
<1>8. /\ session' \in [Request -> Session] /\ session'[s] = b
      /\ \A t \in Request : t # s => session'[t] = session[t]
  BY <1>1, <1>3, BlankIsEmpty DEF MfaTypes
<1> HIDE DEF b
<1>9. MfaTypes'
  <2>1. spent' \subseteq RecoveryCode
    BY <1>1, <1>5 DEF MfaTypes, Row
  <2>2. lost' \subseteq {"codes", "factor"}
    BY <1>1 DEF Overwrites, MfaTypes
  <2> QED BY <1>1, <1>2, <1>7, <1>8, <2>1, <2>2 DEF MfaTypes
<1>10. \A t \in Request : Decided(t)'
  <2>1. Decided(s)'
    BY <1>3, <1>8, BlankIsEmpty DEF Decided
  <2>2. ASSUME NEW t \in Request, t # s PROVE Decided(t)'
    BY <2>2, <1>1, <1>8 DEF MfaInv, Decided
  <2> QED BY <2>1, <2>2
<1>11. /\ session'[s].loaded.codes = {} /\ session'[s].new.codes = {} /\ session'[s].ends = {}
       /\ Fresh(s)' = {} /\ \A t \in Request : t # s => Fresh(t)' = Fresh(t)
  BY <1>3, <1>8, BlankIsEmpty, SecretsAreTyped DEF Fresh
<1>12. UNCHANGED Generated
  BY <1>1 DEF Generated
<1>13. mfa'.codes \subseteq mfa.codes \union j.new.codes /\ spent' \subseteq spent \union j.ends \union mfa.codes
  BY <1>1, <1>6
<1>14. CodesAreGenerated'
  <2>1. mfa'.codes \subseteq Generated /\ spent' \subseteq Generated
    BY <1>13 DEF MfaInv, CodesAreGenerated
  <2>2. ASSUME NEW t \in Request
        PROVE  /\ session'[t].loaded.codes \subseteq Generated
               /\ session'[t].new.codes \subseteq Generated /\ session'[t].ends \subseteq Generated
    BY <1>8, <1>11 DEF MfaInv, CodesAreGenerated
  <2> QED BY <1>12, <2>1, <2>2 DEF CodesAreGenerated
<1>15. FreshIsNew'
  <2> SUFFICES ASSUME NEW t \in Request, t # s
               PROVE  /\ Fresh(t) \intersect (mfa'.codes \union spent' \union session[t].loaded.codes) = {}
                      /\ \A u \in Request \ {t} :
                           Fresh(t) \intersect (session'[u].loaded.codes \union session'[u].new.codes
                                                \union session'[u].ends) = {}
    BY <1>8, <1>11 DEF FreshIsNew
  <2>1. /\ Fresh(t) \intersect (mfa.codes \union spent \union session[t].loaded.codes) = {}
        /\ \A u \in Request \ {t} :
             Fresh(t) \intersect (session[u].loaded.codes \union session[u].new.codes
                                  \union session[u].ends) = {}
    BY DEF MfaInv, FreshIsNew
  <2>2. Fresh(t) \intersect (j.new.codes \union j.ends) = {}
    BY <2>1
  <2>3. Fresh(t) \intersect (mfa'.codes \union spent' \union session[t].loaded.codes) = {}
    BY <1>13, <2>1, <2>2
  <2>4. ASSUME NEW u \in Request \ {t}
        PROVE  Fresh(t) \intersect (session'[u].loaded.codes \union session'[u].new.codes
                                    \union session'[u].ends) = {}
    BY <2>1, <1>8, <1>11
  <2> QED BY <2>3, <2>4
<1>16. KeysArePast'
  <2>1. mfa'.secret.kek <= server
    BY <1>6 DEF MfaInv, KeysArePast
  <2>2. 0 <= server
    BY Wrapped
  <2>3. ASSUME NEW t \in Request
        PROVE  session'[t].loaded.secret.kek <= server /\ session'[t].new.secret.kek <= server
    <3>1. CASE t = s
      BY <3>1, <2>2, <1>3, <1>8, BlankIsEmpty, SecretsAreTyped
    <3>2. CASE t # s
      BY <3>2, <1>8 DEF MfaInv, KeysArePast
    <3> QED BY <3>1, <3>2
  <2> QED BY <2>1, <2>3 DEF KeysArePast
<1>17. ASSUME mfa'.enabled = "on", "factor" \notin lost' PROVE mfa'.secret.id \in proven
  <2>1. /\ "factor" \notin lost
        /\ j.op \in {"enrol", "verify", "clear"} =>
             j.loaded.enabled = mfa.enabled /\ j.loaded.secret = mfa.secret
    BY <1>1, <1>17 DEF Overwrites
  <2>2. mfa.enabled = "on" => mfa.secret.id \in proven
    BY <2>1 DEF MfaInv
  <2>3. CASE j.op \in {"enrol", "clear"}
    BY <2>1, <2>3, <1>4, <1>6, <1>17 DEF Decided
  <2>4. CASE j.op = "verify"
    BY <2>1, <2>4, <1>4, <1>6 DEF Decided
  <2>5. CASE j.op \in {"login", "redeem", "regen"}
    BY <2>2, <2>5, <1>4, <1>6, <1>17 DEF Decided
  <2> QED BY <2>3, <2>4, <2>5, <1>4 DEF Operation
<1>18. ASSUME "codes" \notin lost' PROVE mfa'.codes \intersect spent' = {}
  <2>1. /\ "codes" \notin lost
        /\ j.op = "redeem" => j.loaded.codes = mfa.codes
    BY <1>1, <1>18 DEF Overwrites
  <2>2. mfa.codes \intersect spent = {}
    BY <2>1 DEF MfaInv
  <2>3. mfa'.codes \intersect (spent \union j.ends) = {}
    <3>1. CASE j.op \in {"enrol", "clear"}
      BY <2>2, <3>1, <1>4, <1>6 DEF Decided
    <3>2. CASE j.op \in {"verify", "regen"}
      <4>1. j.new.codes \intersect (mfa.codes \union spent \union j.loaded.codes) = {} /\ j.ends = j.loaded.codes
        BY <3>2, <1>4 DEF MfaInv, FreshIsNew, Fresh, Decided
      <4>2. CASE j.new.codes = j.loaded.codes
        BY <4>1, <4>2, <2>2, <1>6
      <4>3. CASE j.new.codes # j.loaded.codes
        BY <4>1, <4>3, <1>6
      <4> QED BY <4>2, <4>3
    <3>3. CASE j.op = "redeem"
      BY <2>1, <2>2, <3>3, <1>4, <1>6 DEF Decided
    <3>4. CASE j.op = "login"
      BY <2>2, <3>4, <1>4, <1>6 DEF Decided
    <3> QED BY <3>1, <3>2, <3>3, <3>4, <1>4 DEF Operation
  <2> QED BY <2>3, <1>1
<1> QED BY <1>1, <1>9, <1>10, <1>14, <1>15, <1>16, <1>17, <1>18 DEF MfaInv

LEMMA DieKeeps ==
  ASSUME MfaHolds, UNCHANGED server, NEW s \in Request, Die(s)
  PROVE  MfaHolds'
<1>1. /\ session' = [session EXCEPT ![s] = Done]
      /\ UNCHANGED <<mfa, secrets, sets, proven, spent, lost, loggedIn, preMfa>>
  BY DEF Die
<1>2. Done \in Blank /\ Done \in Session
  BY BlankIsEmpty DEF Blank
<1>3. /\ session' \in [Request -> Session]
      /\ \A t \in Request : session'[t] \in Blank \union {session[t]}
  BY <1>1, <1>2 DEF MfaHolds, MfaTypes
<1>4. server' \in Wrapping /\ server <= server'
  BY Wrapped DEF MfaHolds
<1>5. loggedIn' \in BOOLEAN /\ preMfa' \in BOOLEAN
  BY <1>1 DEF MfaHolds, MfaTypes
<1> QED BY <1>1, <1>3, <1>4, <1>5, ResetKeeps

LEMMA CookiesKeep ==
  ASSUME MfaHolds, UNCHANGED server, Login \/ CookieExpires \/ Logout
  PROVE  MfaHolds'
<1>1. /\ UNCHANGED <<mfa, session, secrets, sets, proven, spent, lost>>
      /\ loggedIn' \in BOOLEAN /\ preMfa' \in BOOLEAN
  BY DEF Login, CookieExpires, Logout, MfaHolds, MfaTypes
<1>2. /\ session' \in [Request -> Session]
      /\ \A t \in Request : session'[t] \in Blank \union {session[t]}
  BY <1>1 DEF MfaHolds, MfaTypes
<1>3. server' \in Wrapping /\ server <= server'
  BY Wrapped DEF MfaHolds
<1> QED BY <1>1, <1>2, <1>3, ResetKeeps

LEMMA MfaRestartKeeps ==
  ASSUME MfaHolds, MfaRestart, server' \in Wrapping, server <= server'
  PROVE  MfaHolds'
<1>1. /\ session' = [s \in Request |-> Done] /\ loggedIn' = FALSE /\ preMfa' = FALSE
      /\ UNCHANGED <<mfa, secrets, sets, proven, spent, lost>>
  BY DEF MfaRestart
<1>2. Done \in Blank /\ Done \in Session
  BY BlankIsEmpty DEF Blank
<1>3. /\ session' \in [Request -> Session]
      /\ \A t \in Request : session'[t] \in Blank \union {session[t]}
  BY <1>1, <1>2
<1> QED BY <1>1, <1>3, ResetKeeps

LEMMA InitMfa == RotationInit /\ MfaInit => MfaHolds
<1> SUFFICES ASSUME RotationInit, MfaInit PROVE MfaHolds
  OBVIOUS
<1>1. server \in Wrapping
  BY InitRotation DEF RotationHolds, RotationTypes
<1>2. Done \in Session /\ Done \in Blank
  BY BlankIsEmpty DEF Blank
<1>3. /\ mfa = NoRow /\ \A s \in Request : session[s] = Done
      /\ secrets = 0 /\ sets = 0 /\ proven = {} /\ spent = {} /\ lost = {}
  BY DEF MfaInit
<1>4. MfaTypes
  <2>1. mfa \in Row
    BY <1>3, SecretsAreTyped
  <2>2. session \in [Request -> Session]
    BY <1>2 DEF MfaInit
  <2>3. secrets \in 0..MaxSecrets /\ sets \in 0..MaxSets
    BY <1>3, MfaAssumption
  <2>4. loggedIn \in BOOLEAN /\ preMfa \in BOOLEAN
    BY DEF MfaInit
  <2> QED BY <1>3, <2>1, <2>2, <2>3, <2>4 DEF MfaTypes
<1>5. \A s \in Request : Decided(s)
  BY <1>2, <1>3, BlankIsEmpty DEF Decided
<1>6. FreshIsNew /\ CodesAreGenerated
  BY <1>2, <1>3, BlankIsEmpty, SecretsAreTyped DEF FreshIsNew, Fresh, CodesAreGenerated
<1>7. KeysArePast
  BY <1>1, <1>2, <1>3, BlankIsEmpty, SecretsAreTyped, Wrapped DEF KeysArePast
<1> QED BY <1>1, <1>3, <1>4, <1>5, <1>6, <1>7, SecretsAreTyped DEF MfaHolds, MfaInv

LEMMA MfaStutters ==
  ASSUME MfaHolds, UNCHANGED <<server, mfaVars>>
  PROVE  MfaHolds'
<1>1. /\ UNCHANGED <<mfa, session, secrets, sets, proven, spent, lost>>
      /\ loggedIn' \in BOOLEAN /\ preMfa' \in BOOLEAN
  BY DEF mfaVars, MfaHolds, MfaTypes
<1>2. /\ session' \in [Request -> Session]
      /\ \A t \in Request : session'[t] \in Blank \union {session[t]}
  BY <1>1 DEF MfaHolds, MfaTypes
<1>3. server' \in Wrapping /\ server <= server'
  BY Wrapped DEF MfaHolds
<1> QED BY <1>1, <1>2, <1>3, ResetKeeps

LEMMA RotationStutters ==
  ASSUME RotationHolds, UNCHANGED <<server, rotationVars>>
  PROVE  RotationHolds'
BY DEF rotationVars, RotationHolds, RotationTypes, RotationInv, HeldKeys, Present

-----------------------------------------------------------------------------
(* The composition. *)

LEMMA InvSplits == SecretsInv <=> RotationHolds /\ MfaHolds /\ ops \in 0..MaxOps
BY TypesSplit DEF SecretsInv, RotationHolds, MfaHolds, RotationTypes

LEMMA InitSecrets == Init => SecretsInv
BY InitRotation, InitMfa, InvSplits, SecretsAssumption DEF Init

LEMMA StepSecrets == SecretsInv /\ [Next]_vars => SecretsInv'
<1> SUFFICES ASSUME SecretsInv, [Next]_vars PROVE SecretsInv'
  OBVIOUS
<1>a. RotationHolds /\ MfaHolds /\ ops \in 0..MaxOps
  BY InvSplits
<1> SUFFICES RotationHolds' /\ MfaHolds' /\ ops' \in 0..MaxOps
  <2> SUFFICES ASSUME RotationHolds', MfaHolds', ops' \in 0..MaxOps PROVE SecretsInv'
    OBVIOUS
  <2>1. TypeOK'
    BY DEF TypeOK, RotationHolds, RotationTypes, MfaHolds, MfaTypes, Session
  <2> QED BY <2>1 DEF SecretsInv, RotationHolds, MfaHolds
<1>1. CASE Requests
  <2>1. ops' \in 0..MaxOps
    BY <1>1, <1>a, SecretsAssumption DEF Requests
  <2>2. CASE RotationRequest /\ UNCHANGED mfaVars
    <3>1. RotationHolds' /\ UNCHANGED server
      BY <1>a, <2>2, CreateKeeps, DeleteKeeps, RotateKeeps, ClearKeeps, StartKeeps
      DEF RotationRequest, CreateProduct, DeleteProduct, RotateSecrets, ClearPrev, StartRewrap
    <3> QED BY <2>1, <2>2, <3>1, <1>a, MfaStutters
  <2>3. CASE MfaRequest /\ UNCHANGED <<server, rotationVars>>
    <3>1. MfaHolds'
      BY <1>a, <2>3, EnrolKeeps, VerifyKeeps, RegenKeeps, LoginKeeps DEF MfaRequest, LoginMfa, Disable
    <3> QED BY <2>1, <2>3, <3>1, <1>a, RotationStutters
  <2> QED BY <1>1, <2>2, <2>3 DEF Requests
<1>2. CASE Work
  <2>1. ops' \in 0..MaxOps
    BY <1>2, <1>a DEF Work
  <2>2. CASE RotationWork /\ UNCHANGED mfaVars
    <3>1. RotationHolds' /\ UNCHANGED server
      BY <1>a, <2>2, CommitsKeeps, RollsBackKeeps DEF RotationWork, RewrapCommits, RewrapRollsBack
    <3> QED BY <2>1, <2>2, <3>1, <1>a, MfaStutters
  <2>3. CASE MfaWork /\ UNCHANGED <<server, rotationVars>>
    <3>1. MfaHolds'
      BY <1>a, <2>3, CommitKeeps, ClearFactorKeeps, DieKeeps, CookiesKeep DEF MfaWork
    <3> QED BY <2>1, <2>3, <3>1, <1>a, RotationStutters
  <2>4. CASE Restart /\ MfaRestart
    BY <1>a, <2>1, <2>4, RestartKeeps, MfaRestartKeeps
  <2> QED BY <1>2, <2>2, <2>3, <2>4 DEF Work
<1>3. CASE UNCHANGED vars
  BY <1>a, <1>3, RotationStutters, MfaStutters DEF vars
<1> QED BY <1>1, <1>2, <1>3 DEF Next

-----------------------------------------------------------------------------
(* The inductive invariant, for any number of products, handlers, keys,    *)
(* enrolments, sets of codes and requests.                                 *)
THEOREM SecretsInvariant == Spec => []SecretsInv
<1> QED BY InitSecrets, StepSecrets, PTL DEF Spec

(* Columns merged from loaded, computed and stored values keep their types.*)
THEOREM TypeCorrect == Spec => []TypeOK
<1>1. SecretsInv => TypeOK
  BY DEF SecretsInv
<1> QED BY <1>1, SecretsInvariant, PTL

(* keystore.py, rewrap_secrets.py: no product's secret outlives the key it *)
(* is under, and a rotation that is reported complete is complete.         *)
THEOREM ProductKeysAreHeld == Spec => []KeysAreHeld
<1>1. SecretsInv => KeysAreHeld
  <2> SUFFICES ASSUME SecretsInv PROVE KeysAreHeld
    OBVIOUS
  <2>1. RotationTypes /\ RotationInv
    BY TypesSplit DEF SecretsInv
  <2>2. ASSUME told, NEW p \in Product, Present(p) PROVE Decrypts(server, product[p])
    <3>1. server = env.kek /\ product[p] \in {Plain, env.kek}
      BY <2>1, <2>2 DEF RotationInv
    <3> QED BY <3>1 DEF Decrypts, IsEncrypted, Plain, NoKek
  <2> QED BY <2>1, <2>2 DEF KeysAreHeld, RotationInv, Degraded
<1> QED BY <1>1, SecretsInvariant, PTL

(* mfa.py: an enabled factor is one whose code was typed at enrolment, and *)
(* the server can read it unless the KEK was rotated since.                *)
THEOREM EnabledFactorIsProven == Spec => []AdminHasTheFactor
<1>1. SecretsInv => AdminHasTheFactor
  <2> SUFFICES ASSUME SecretsInv PROVE AdminHasTheFactor
    OBVIOUS
  <2>1. MfaTypes /\ MfaInv /\ server \in Wrapping
    BY TypesSplit DEF SecretsInv, RotationTypes
  <2>2. mfa.secret.kek \in Nat /\ server \in Nat /\ mfa.secret.kek <= server
    BY <2>1, SecretsAreTyped, Wrapped DEF MfaTypes, MfaInv, KeysArePast
  <2>3. Decrypts(server, mfa.secret.kek) \/ mfa.secret.kek < server
    BY <2>2 DEF Decrypts, IsEncrypted, Plain, NoKek
  <2> QED BY <2>1, <2>3 DEF AdminHasTheFactor, MfaInv
<1> QED BY <1>1, SecretsInvariant, PTL

(* mfa.py: a recovery code that was redeemed or replaced never becomes     *)
(* valid again, unless a redemption overlapped another change of the list. *)
THEOREM RecoveryCodesAreSingleUse == Spec => []CodesWorkOnce
<1>1. SecretsInv => CodesWorkOnce
  BY DEF SecretsInv, MfaInv, CodesWorkOnce
<1> QED BY <1>1, SecretsInvariant, PTL

-----------------------------------------------------------------------------
(* A secret the server cannot decrypt is under an older key, and no later   *)
(* key brings it back.                                                      *)
LEMMA KeysNeverReturn ==
  ASSUME NEW kek, kek \in Nat, server \in Nat, server' \in Nat,
         kek <= server, server <= server', ~Decrypts(server, kek)
  PROVE  ~Decrypts(server', kek)
BY DEF Decrypts, IsEncrypted, Plain, NoKek

LEMMA LockedOutStays ==
  ASSUME SecretsInv, [Next]_vars, LockedOut
  PROVE  LockedOut'
<1>1. /\ mfa.enabled = "on" /\ mfa.secret # NoSecret /\ ~Decrypts(server, mfa.secret.kek)
      /\ ~loggedIn /\ \A s \in Request : session[s].at = "idle"
  BY DEF LockedOut
<1>2. /\ RotationHolds /\ MfaHolds /\ server \in Wrapping
      /\ mfa.secret.kek \in Nat /\ server \in Nat /\ mfa.secret.kek <= server
  <2>1. RotationHolds /\ MfaHolds /\ server \in Wrapping
    BY InvSplits DEF RotationHolds, RotationTypes
  <2> QED BY <2>1, SecretsAreTyped, Wrapped DEF MfaHolds, MfaTypes, MfaInv, KeysArePast
<1>3. ASSUME UNCHANGED <<server, mfa, loggedIn, session>> PROVE LockedOut'
  BY <1>1, <1>3 DEF LockedOut
<1>4. CASE Requests
  <2>1. CASE RotationRequest /\ UNCHANGED mfaVars
    <3>1. UNCHANGED server
      BY <2>1
      DEF RotationRequest, CreateProduct, DeleteProduct, RotateSecrets, ClearPrev, StartRewrap
    <3> QED BY <1>3, <2>1, <3>1 DEF mfaVars
  <2>2. ASSUME MfaRequest PROVE FALSE
    <3>1. ~FactorIsUsable /\ mfa.enabled # "off"
      BY <1>1 DEF FactorIsUsable
    <3> QED
      BY <1>1, <2>2, <3>1
      DEF MfaRequest, StartEnrol, VerifyEnrol, RegenRecovery, LoginMfa, Disable, VerifyLogin
  <2> QED BY <1>4, <2>1, <2>2 DEF Requests
<1>5. CASE Work
  <2>1. CASE RotationWork /\ UNCHANGED mfaVars
    <3>1. UNCHANGED server
      BY <2>1 DEF RotationWork, RewrapCommits, RewrapRollsBack
    <3> QED BY <1>3, <2>1, <3>1 DEF mfaVars
  <2>2. CASE MfaWork /\ UNCHANGED <<server, rotationVars>>
    <3>1. ASSUME NEW s \in Request, Commit(s) \/ Clear(s) \/ Die(s) PROVE FALSE
      BY <1>1, <3>1 DEF Commit, Clear, Die
    <3>2. ASSUME Login \/ CookieExpires \/ Logout
          PROVE  UNCHANGED <<mfa, session>> /\ ~loggedIn'
      BY <1>1, <3>2 DEF Login, CookieExpires, Logout
    <3> QED BY <1>1, <2>2, <3>1, <3>2 DEF MfaWork, LockedOut
  <2>3. CASE Restart /\ MfaRestart
    <3>1. server' \in Nat /\ server <= server'
      BY <1>2, <2>3, Wrapped DEF Restart, RotationHolds, RotationTypes, RotationInv
    <3>2. ~Decrypts(server', mfa.secret.kek)
      BY <1>1, <1>2, <3>1, KeysNeverReturn
    <3>3. mfa' = mfa /\ ~loggedIn' /\ \A s \in Request : session'[s].at = "idle"
      BY <2>3 DEF MfaRestart, Done
    <3> QED BY <1>1, <3>2, <3>3 DEF LockedOut
  <2> QED BY <1>5, <2>1, <2>2, <2>3 DEF Work
<1>6. CASE UNCHANGED vars
  BY <1>3, <1>6 DEF vars, mfaVars
<1> QED BY <1>4, <1>5, <1>6 DEF Next

(* mfa.py, auth.py: an enabled factor whose key a rotation took away admits *)
(* nobody and cannot be switched off, whatever is tried and rotated later.  *)
THEOREM FactorStaysClosed == Spec => FactorFailsClosed
<1>1. SecretsInv /\ [Next]_vars => [LockedOut => LockedOut']_vars
  BY LockedOutStays
<1> QED BY <1>1, SecretsInvariant, PTL DEF Spec, FactorFailsClosed

=============================================================================
