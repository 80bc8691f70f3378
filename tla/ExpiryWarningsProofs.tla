-------------------------- MODULE ExpiryWarningsProofs --------------------------
(***************************************************************************)
(* Proofs about ExpiryWarnings, for any licenses, thresholds and runners.  *)
(*                                                                         *)
(* A mail is either recorded or held by the one pass that is about to      *)
(* record it; and what a license's days left have picked was mailed, or is *)
(* still ahead of the timer's pass.                                        *)
(***************************************************************************)
EXTENDS ExpiryWarnings, TLAPS

LEMMA Facts ==
  /\ Day \subseteq Nat /\ MaxTime \in Day /\ MaxTime \in Nat /\ MaxUpsets \in Nat
  /\ \A t \in Thresholds : t \in Nat /\ t >= 1
  /\ Timer \in Runner
BY ExpiryAssumption DEF Day

(* The days left pick one threshold at most.                               *)
LEMMA OneIsPicked ==
  ASSUME NEW days \in Int
  PROVE  /\ PickThreshold(days) \subseteq Thresholds
         /\ \A s, t \in PickThreshold(days) : s = t
<1>1. PickThreshold(days) \subseteq Thresholds
  BY DEF PickThreshold
<1>2. ASSUME NEW s \in PickThreshold(days), NEW t \in PickThreshold(days) PROVE s = t
  <2>1. s \in Nat /\ t \in Nat
    BY <1>1, Facts
  <2>2. s <= t /\ t <= s
    BY DEF PickThreshold
  <2> QED BY <2>1, <2>2
<1> QED BY <1>1, <1>2

(* So a turn has one mail to send at most.                                 *)
LEMMA OneIsUnsent ==
  ASSUME NEW l \in License, NEW days \in Int
  PROVE  /\ Unsent({l} \X PickThreshold(days)) \in {{}} \union {{w} : w \in Warning}
         /\ \A w \in Unsent({l} \X PickThreshold(days)) :
              w \in Warning /\ w[1] = l /\ w \notin events
         /\ \A t \in PickThreshold(days) :
              <<l, t>> \in Unsent({l} \X PickThreshold(days)) \/ <<l, t>> \in events
<1> DEFINE U == Unsent({l} \X PickThreshold(days))
<1>1. \A w \in U : w \in Warning /\ w[1] = l /\ w \notin events /\ w = <<l, w[2]>> /\ w[2] \in PickThreshold(days)
  BY OneIsPicked DEF Unsent, Warning
<1>2. \A w, v \in U : w = v
  BY <1>1, OneIsPicked
<1>3. U \in {{}} \union {{w} : w \in Warning}
  <2>1. CASE U = {}
    BY <2>1
  <2>2. CASE U # {}
    <3>1. PICK w \in U : TRUE
      BY <2>2
    <3>2. U = {w}
      BY <1>2, <3>1
    <3> QED BY <1>1, <3>1, <3>2
  <2> QED BY <2>1, <2>2
<1>4. \A t \in PickThreshold(days) : <<l, t>> \in U \/ <<l, t>> \in events
  BY DEF Unsent
<1> QED BY <1>1, <1>3, <1>4

LEMMA Typed ==
  ASSUME TypeOK
  PROVE  /\ pass \in [Runner -> Pass] /\ row \in [License -> Row]
         /\ now \in Nat /\ now <= MaxTime /\ due \in BOOLEAN /\ upsets \in Nat
         /\ \A l \in License : since[l] \in Nat /\ row[l].until \in Nat /\ row[l].until <= MaxTime
                               /\ row[l].status \in {"active", "other", "gone"}
         /\ \A w \in Warning : sent[w] \in Nat
         /\ \A p \in Runner : /\ pass[p].today \in Nat /\ pass[p].todo \subseteq License
                              /\ pass[p].warning \subseteq Warning
                              /\ \A l \in License : pass[p].seen[l] \in Nat
<1>1. /\ pass \in [Runner -> Pass] /\ row \in [License -> Row]
      /\ now \in Nat /\ now <= MaxTime /\ due \in BOOLEAN /\ upsets \in Nat
  BY Facts DEF TypeOK, Day
<1>2. ASSUME NEW l \in License
      PROVE  /\ since[l] \in Nat /\ row[l].until \in Nat /\ row[l].until <= MaxTime
             /\ row[l].status \in {"active", "other", "gone"}
  <2>1. row[l] \in Row
    BY <1>1
  <2>2. row[l].until \in Day /\ row[l].status \in {"active", "other", "gone"}
    BY <2>1 DEF Row
  <2> QED BY <2>2, Facts DEF TypeOK, Day
<1>3. \A w \in Warning : sent[w] \in Nat
  BY DEF TypeOK
<1>4. ASSUME NEW p \in Runner
      PROVE  /\ pass[p].today \in Nat /\ pass[p].todo \subseteq License
             /\ pass[p].warning \subseteq Warning
             /\ \A l \in License : pass[p].seen[l] \in Nat
  <2>1. pass[p] \in Pass
    BY <1>1
  <2>2. /\ pass[p].today \in Day /\ pass[p].todo \subseteq License
        /\ pass[p].seen \in [License -> Day]
        /\ pass[p].warning \in {{}} \union {{w} : w \in Warning}
    BY <2>1 DEF Pass
  <2> QED BY <2>2, Facts
<1> QED BY <1>1, <1>2, <1>3, <1>4

LEMMA IdleIsTyped ==
  Idle \in Pass /\ Idle.at = "idle" /\ Idle.todo = {} /\ Idle.warning = {}
<1>1. 0 \in Day
  BY Facts DEF Day
<1>2. [l \in License |-> 0] \in [License -> Day]
  BY <1>1
<1> QED BY <1>1, <1>2 DEF Idle, Pass

-----------------------------------------------------------------------------
(* What the steps of a pass have in common.                                *)

LEMMA PassMoves ==
  ASSUME TypeOK, NEW p \in Runner, NEW x \in Pass, pass' = [pass EXCEPT ![p] = x],
         x.at = "idle" => x = Idle,
         x.at \in {"send", "record"} <=> x.warning # {}
  PROVE  /\ pass' \in [Runner -> Pass]
         /\ \A q \in Runner : /\ pass'[q].at = "idle" => pass'[q] = Idle
                              /\ pass'[q].at \in {"send", "record"} <=> pass'[q].warning # {}
         /\ pass'[p] = x /\ \A q \in Runner \ {p} : pass'[q] = pass[q]
<1>1. pass \in [Runner -> Pass]
  BY DEF TypeOK
<1>2. pass' \in [Runner -> Pass] /\ pass'[p] = x /\ \A q \in Runner \ {p} : pass'[q] = pass[q]
  BY <1>1
<1> QED BY <1>2 DEF TypeOK

LEMMA GoesMoves ==
  ASSUME TypeOK, NEW p \in Runner, NEW at, NEW todo, NEW fresh, NEW warning,
         Goes(p, at, todo, fresh, warning),
         at \in {"loop", "send", "record"}, todo \subseteq pass[p].todo, fresh \in BOOLEAN,
         warning \in {{}} \union {{w} : w \in Warning},
         at \in {"send", "record"} <=> warning # {}
  PROVE  /\ pass' \in [Runner -> Pass]
         /\ \A q \in Runner : /\ pass'[q].at = "idle" => pass'[q] = Idle
                              /\ pass'[q].at \in {"send", "record"} <=> pass'[q].warning # {}
         /\ pass'[p] = [at |-> at, today |-> pass[p].today, todo |-> todo,
                        seen |-> pass[p].seen, fresh |-> fresh, warning |-> warning]
         /\ \A q \in Runner \ {p} : pass'[q] = pass[q]
<1> DEFINE x == [at |-> at, today |-> pass[p].today, todo |-> todo,
                 seen |-> pass[p].seen, fresh |-> fresh, warning |-> warning]
<1>1. pass[p] \in Pass
  BY DEF TypeOK
<1>2. todo \subseteq License /\ pass[p].today \in Day /\ pass[p].seen \in [License -> Day]
  BY <1>1 DEF Pass
<1>3. x \in Pass
  BY <1>2 DEF Pass
<1>4. pass' = [pass EXCEPT ![p] = x]
  BY DEF Goes
<1>5. x.at # "idle" /\ x.at = at /\ x.warning = warning
  OBVIOUS
<1> HIDE DEF x
<1>6. /\ pass' \in [Runner -> Pass]
      /\ \A q \in Runner : /\ pass'[q].at = "idle" => pass'[q] = Idle
                           /\ pass'[q].at \in {"send", "record"} <=> pass'[q].warning # {}
      /\ pass'[p] = x /\ \A q \in Runner \ {p} : pass'[q] = pass[q]
  BY <1>3, <1>4, <1>5, PassMoves
<1> QED BY <1>6 DEF x

(* The timer's pass stays current when it keeps what it knows.             *)
LEMMA StaysCurrent ==
  ASSUME TypeOK, TimerIsCurrent, UNCHANGED <<row, now, due, since>>,
         \/ pass'[Timer].at = "idle"
         \/ /\ pass[Timer].at # "idle"
            /\ pass'[Timer].today = pass[Timer].today /\ pass'[Timer].seen = pass[Timer].seen
            /\ pass'[Timer].todo \subseteq pass[Timer].todo
            /\ \A w \in pass'[Timer].warning :
                 w \in pass[Timer].warning \/ (since[w[1]] <= now => row[w[1]].until > now)
  PROVE  TimerIsCurrent'
BY DEF TimerIsCurrent

(* What was picked stays mailed, ahead, missed or spent.                   *)
LEMMA StaysMailed ==
  ASSUME TypeOK, PickedAreMailed, UNCHANGED <<row, now, due, since>>,
         sent' \in [Warning -> 0..2], \A w \in Warning : sent'[w] >= sent[w],
         missed \subseteq missed', spent \subseteq spent',
         \A l \in License, t \in Thresholds :
           <<l, t>> \in Ahead(Timer) /\ row[l].status = "active" /\ since[l] <= now =>
             sent'[<<l, t>>] > 0 \/ <<l, t>> \in missed' \union spent' \union Ahead(Timer)'
  PROVE  PickedAreMailed'
<1> SUFFICES ASSUME NEW l \in License, NEW d \in Day, NEW t \in PickThreshold(row[l].until - d),
                    row[l].status = "active", since[l] <= d, d < row[l].until,
                    d < now \/ (d = now /\ ~due)
             PROVE  sent'[<<l, t>>] > 0 \/ <<l, t>> \in missed' \union spent' \union Ahead(Timer)'
  BY DEF PickedAreMailed
<1>1. t \in Thresholds /\ <<l, t>> \in Warning
  BY DEF PickThreshold, Warning
<1>2. sent[<<l, t>>] > 0 \/ <<l, t>> \in missed \union spent \union Ahead(Timer)
  BY DEF PickedAreMailed
<1>3. since[l] <= now
  BY Typed, Facts
<1>4. sent[<<l, t>>] \in Nat /\ sent'[<<l, t>>] \in Nat /\ sent'[<<l, t>>] >= sent[<<l, t>>]
  BY <1>1, Typed
<1>5. CASE sent[<<l, t>>] > 0
  BY <1>4, <1>5
<1>6. CASE <<l, t>> \in missed \union spent
  BY <1>6
<1>7. CASE <<l, t>> \in Ahead(Timer)
  BY <1>1, <1>3, <1>7
<1> QED BY <1>2, <1>5, <1>6, <1>7

-----------------------------------------------------------------------------
(* A pass ends: at its end, for a license that is gone, or by a crash.     *)
LEMMA AbortKeeps ==
  ASSUME ExpiryInv, NEW p \in Runner, Abort(p),
         UNCHANGED <<enforced, row, events, now, due, sent, spent, since>>,
         upsets' \in 0..MaxUpsets, again \subseteq again', again' \subseteq Warning,
         pass[p].at = "record" => pass[p].warning \subseteq again'
  PROVE  ExpiryInv'
<1> USE DEF ExpiryInv
<1>1. /\ pass' \in [Runner -> Pass]
      /\ \A q \in Runner : /\ pass'[q].at = "idle" => pass'[q] = Idle
                           /\ pass'[q].at \in {"send", "record"} <=> pass'[q].warning # {}
      /\ pass'[p] = Idle /\ \A q \in Runner \ {p} : pass'[q] = pass[q]
  BY IdleIsTyped, PassMoves DEF Abort
<1>2. Ahead(p) \subseteq Warning
  <2>1. ASSUME NEW l \in pass[p].todo
        PROVE  {l} \X PickThreshold(pass[p].seen[l] - pass[p].today) \subseteq Warning
    <3>1. l \in License /\ pass[p].seen[l] - pass[p].today \in Int
      BY Typed
    <3> QED BY <3>1, OneIsPicked DEF Warning
  <2>2. pass[p].warning \subseteq Warning
    BY Typed
  <2> QED BY <2>1, <2>2 DEF Ahead, Picked
<1>3. missed \subseteq missed' /\ missed' \subseteq Warning /\ (p = Timer => Ahead(Timer) \subseteq missed')
  BY <1>2 DEF Abort, TypeOK
<1>4. TypeOK'
  BY <1>1, <1>3 DEF TypeOK
<1>5. MailsAreRecorded'
  <2>1. ASSUME NEW w \in Warning \ again'
        PROVE  w \in Warning \ again /\ ~(pass[p].at = "record" /\ w \in pass[p].warning)
    BY <2>1
  <2>2. \A q \in Runner : pass'[q].warning # {} => q # p /\ pass'[q] = pass[q]
    BY <1>1, IdleIsTyped
  <2> QED BY <1>1, <2>1, <2>2 DEF MailsAreRecorded, MailIsRecorded, Alive
<1>6. RecordsAreMailed'
  <2>1. \A q \in Runner : pass'[q].warning # {} => pass'[q] = pass[q]
    BY <1>1, IdleIsTyped
  <2> QED BY <2>1 DEF RecordsAreMailed, Alive
<1>7. TimerIsCurrent'
  <2>1. CASE p = Timer
    BY <1>1, <2>1, IdleIsTyped, StaysCurrent
  <2>2. CASE p # Timer
    <3>1. pass'[Timer] = pass[Timer]
      BY <1>1, <2>2, Facts
    <3> QED BY <3>1 DEF TimerIsCurrent
  <2> QED BY <2>1, <2>2
<1>8. PickedAreMailed'
  <2>1. p # Timer => Ahead(Timer)' = Ahead(Timer)
    BY <1>1, Facts DEF Ahead, Picked
  <2>2. \A w \in Warning : sent'[w] >= sent[w]
    BY Typed
  <2>3. sent' \in [Warning -> 0..2] /\ spent \subseteq spent'
    BY DEF TypeOK
  <2>4. Ahead(Timer) \subseteq missed' \union Ahead(Timer)'
    BY <1>3, <2>1
  <2> QED BY <1>3, <2>2, <2>3, <2>4, StaysMailed
<1> QED BY <1>4, <1>5, <1>6, <1>7, <1>8

LEMMA FinishKeeps ==
  ASSUME ExpiryInv, NEW p \in Runner, Finish(p)
  PROVE  ExpiryInv'
<1>1. pass[p].todo = {} /\ pass[p].warning = {} /\ pass[p].at = "loop"
  BY DEF Finish, ExpiryInv, TypeOK
<1>2. Ahead(p) = {}
  BY <1>1 DEF Ahead, Picked
<1>3. Abort(p) /\ UNCHANGED <<enforced, row, events, now, due, sent, spent, since, upsets, again>>
  BY <1>2 DEF Finish, Abort, history
<1>4. upsets' \in 0..MaxUpsets /\ again' \subseteq Warning
  BY <1>3 DEF ExpiryInv, TypeOK
<1> QED BY <1>1, <1>3, <1>4, AbortKeeps

LEMMA Bounded ==
  ASSUME TypeOK, NEW n \in Nat, Upset(n)
  PROVE  upsets' \in 0..MaxUpsets
BY Facts DEF TypeOK, Upset

LEMMA CrashKeeps ==
  ASSUME ExpiryInv, NEW p \in Runner, Crash(p)
  PROVE  ExpiryInv'
<1>1. /\ Abort(p) /\ UNCHANGED <<enforced, row, events, now, due, sent, spent, since>>
      /\ again' = again \union {w \in pass[p].warning : pass[p].at = "record"}
      /\ Upset(1)
  BY DEF Crash
<1>2. upsets' \in 0..MaxUpsets
  BY <1>1, Bounded DEF ExpiryInv
<1>3. again \subseteq again' /\ again' \subseteq Warning
  BY <1>1, Typed DEF ExpiryInv, TypeOK
<1>4. pass[p].at = "record" => pass[p].warning \subseteq again'
  BY <1>1
<1> QED BY <1>1, <1>2, <1>3, <1>4, AbortKeeps

-----------------------------------------------------------------------------
(* The mail.                                                               *)
LEMMA CountedOnce ==
  ASSUME TypeOK, NEW ws \in SUBSET Warning
  PROVE  /\ Counted(ws) \in [Warning -> 0..2]
         /\ \A w \in Warning : /\ Counted(ws)[w] >= sent[w]
                               /\ w \in ws => Counted(ws)[w] > 0
                               /\ w \in ws /\ sent[w] = 0 => Counted(ws)[w] = 1
                               /\ w \notin ws => Counted(ws)[w] = sent[w]
<1>1. \A w \in Warning : sent[w] \in 0..2
  BY DEF TypeOK
<1> QED BY <1>1 DEF Counted

LEMMA DispatchKeeps ==
  ASSUME ExpiryInv, NEW p \in Runner, Dispatch(p)
  PROVE  ExpiryInv'
<1> USE DEF ExpiryInv
<1> DEFINE ws == pass[p].warning
<1>1. /\ pass[p].at = "send" /\ sent' = Counted(ws)
      /\ Goes(p, "record", pass[p].todo, pass[p].fresh, ws)
      /\ UNCHANGED <<enforced, row, events, now, upsets, due, again, missed, spent, since>>
  BY DEF Dispatch
<1>2. /\ pass[p].fresh \in BOOLEAN /\ ws \in {{}} \union {{w} : w \in Warning} /\ ws # {}
      /\ ws \subseteq Warning
  <2>1. pass[p] \in Pass
    BY Typed
  <2> QED BY <2>1, <1>1 DEF Pass, TypeOK
<1>3. /\ pass' \in [Runner -> Pass]
      /\ \A q \in Runner : /\ pass'[q].at = "idle" => pass'[q] = Idle
                           /\ pass'[q].at \in {"send", "record"} <=> pass'[q].warning # {}
      /\ pass'[p] = [at |-> "record", today |-> pass[p].today, todo |-> pass[p].todo,
                     seen |-> pass[p].seen, fresh |-> pass[p].fresh, warning |-> ws]
      /\ \A q \in Runner \ {p} : pass'[q] = pass[q]
  <2>1. pass[p].todo \subseteq pass[p].todo
    OBVIOUS
  <2>2. "record" \in {"loop", "send", "record"} /\ ("record" \in {"send", "record"} <=> ws # {})
    BY <1>2
  <2>3. TypeOK /\ Goes(p, "record", pass[p].todo, pass[p].fresh, ws)
    BY <1>1
  <2> HIDE DEF ws
  <2> QED BY <1>2, <2>1, <2>2, <2>3, GoesMoves
<1>4. \A q \in Runner : /\ pass'[q].warning = pass[q].warning /\ pass'[q].todo = pass[q].todo
                        /\ pass'[q].seen = pass[q].seen /\ pass'[q].today = pass[q].today
                        /\ q # p => pass'[q].at = pass[q].at
  BY <1>3
<1>5. pass'[p].at = "record"
  BY <1>3
<1>6. /\ sent' \in [Warning -> 0..2]
      /\ \A w \in Warning : /\ sent'[w] >= sent[w]
                            /\ w \in ws => sent'[w] > 0
                            /\ w \in ws /\ sent[w] = 0 => sent'[w] = 1
                            /\ w \notin ws => sent'[w] = sent[w]
  BY <1>1, <1>2, CountedOnce
<1>7. TypeOK'
  BY <1>1, <1>3, <1>6 DEF TypeOK
<1>8. MailsAreRecorded'
  <2> SUFFICES ASSUME NEW w \in Warning \ again
               PROVE  MailIsRecorded(w)'
    BY <1>1 DEF MailsAreRecorded
  <2>1. \A q, r \in Runner : w \in pass'[q].warning /\ w \in pass'[r].warning => q = r
    BY <1>4 DEF MailsAreRecorded, MailIsRecorded
  <2>2. CASE w \in ws
    <3>1. Alive(w) => sent[w] = 0
      BY <1>1, <2>2 DEF MailsAreRecorded, MailIsRecorded
    <3>2. Alive(w) => sent'[w] = 1
      BY <1>6, <2>2, <3>1
    <3>3. \A q \in Runner : w \in pass'[q].warning => q = p
      BY <1>4, <2>1, <2>2
    <3>4. w \in pass'[p].warning
      BY <1>4, <2>2
    <3> QED BY <1>1, <1>5, <2>1, <3>2, <3>3, <3>4 DEF MailIsRecorded, Alive
  <2>3. CASE w \notin ws
    <3>1. sent'[w] = sent[w] /\ w \notin pass'[p].warning
      BY <1>4, <1>6, <2>3
    <3>2. \A q \in Runner : w \in pass'[q].warning => w \in pass[q].warning /\ pass'[q].at = pass[q].at
      BY <1>4, <3>1
    <3>3. \A q \in Runner : w \in pass[q].warning => w \in pass'[q].warning /\ pass'[q].at = pass[q].at
      BY <1>4, <2>3
    <3> QED BY <1>1, <2>1, <3>1, <3>2, <3>3 DEF MailsAreRecorded, MailIsRecorded, Alive
  <2> QED BY <2>2, <2>3
<1>9. RecordsAreMailed'
  <2> SUFFICES ASSUME NEW w \in Warning, Alive(w),
                      w \in events \/ \E q \in Runner : w \in pass'[q].warning /\ pass'[q].at = "record"
               PROVE  sent'[w] > 0 \/ w \in spent
    BY <1>1 DEF RecordsAreMailed, Alive
  <2>1. CASE w \in ws
    BY <1>6, <2>1
  <2>2. CASE w \notin ws
    BY <1>4, <1>6, <2>2 DEF RecordsAreMailed
  <2> QED BY <2>1, <2>2
<1>10. TimerIsCurrent'
  <2>1. pass[Timer].at = "idle" => pass'[Timer].at = "idle"
    BY <1>1, <1>4, Facts
  <2>2. /\ pass'[Timer].today = pass[Timer].today /\ pass'[Timer].seen = pass[Timer].seen
        /\ pass'[Timer].todo \subseteq pass[Timer].todo /\ pass'[Timer].warning = pass[Timer].warning
    BY <1>4, Facts
  <2> QED BY <1>1, <2>1, <2>2, StaysCurrent
<1>11. PickedAreMailed'
  <2>1. Ahead(Timer)' = Ahead(Timer)
    BY <1>4, Facts DEF Ahead, Picked
  <2> QED BY <1>1, <1>6, <2>1, StaysMailed
<1> QED BY <1>7, <1>8, <1>9, <1>10, <1>11

-----------------------------------------------------------------------------
(* The two ways on from a mail: a failure, and the record.                 *)
LEMMA LoopsMoves ==
  ASSUME TypeOK, NEW p \in Runner, NEW fresh, fresh \in BOOLEAN,
         Goes(p, "loop", pass[p].todo, fresh, {})
  PROVE  /\ pass' \in [Runner -> Pass]
         /\ \A q \in Runner : /\ pass'[q].at = "idle" => pass'[q] = Idle
                              /\ pass'[q].at \in {"send", "record"} <=> pass'[q].warning # {}
         /\ pass'[p].at = "loop" /\ pass'[p].warning = {}
         /\ \A q \in Runner : /\ pass'[q].todo = pass[q].todo
                              /\ pass'[q].seen = pass[q].seen /\ pass'[q].today = pass[q].today
                              /\ q # p => pass'[q].at = pass[q].at /\ pass'[q].warning = pass[q].warning
<1>1. "loop" \in {"loop", "send", "record"} /\ ("loop" \in {"send", "record"} <=> {} # {})
  OBVIOUS
<1>2. pass[p].todo \subseteq pass[p].todo /\ {} \in {{}} \union {{w} : w \in Warning}
  OBVIOUS
<1>3. /\ pass' \in [Runner -> Pass]
      /\ \A q \in Runner : /\ pass'[q].at = "idle" => pass'[q] = Idle
                           /\ pass'[q].at \in {"send", "record"} <=> pass'[q].warning # {}
      /\ pass'[p] = [at |-> "loop", today |-> pass[p].today, todo |-> pass[p].todo,
                     seen |-> pass[p].seen, fresh |-> fresh, warning |-> {}]
      /\ \A q \in Runner \ {p} : pass'[q] = pass[q]
  BY <1>1, <1>2, GoesMoves
<1> QED BY <1>3

LEMMA SendFailsKeeps ==
  ASSUME ExpiryInv, NEW p \in Runner, NEW lost \in BOOLEAN, SendFails(p, lost)
  PROVE  ExpiryInv'
<1> USE DEF ExpiryInv
<1> DEFINE ws == pass[p].warning
<1>1. /\ pass[p].at = "send" /\ Upset(1)
      /\ Goes(p, "loop", pass[p].todo, pass[p].fresh, {})
      /\ UNCHANGED <<enforced, row, events, now, due, spent, since>>
  BY DEF SendFails
<1>2. /\ lost => sent' = Counted(ws) /\ again' = again \union ws /\ UNCHANGED missed
      /\ ~lost => missed' = (IF p = Timer THEN missed \union ws ELSE missed) /\ UNCHANGED <<sent, again>>
  BY DEF SendFails
<1>3. pass[p].fresh \in BOOLEAN /\ ws \subseteq Warning
  BY Typed DEF Pass
<1>4. /\ pass' \in [Runner -> Pass]
      /\ \A q \in Runner : /\ pass'[q].at = "idle" => pass'[q] = Idle
                           /\ pass'[q].at \in {"send", "record"} <=> pass'[q].warning # {}
      /\ pass'[p].at = "loop" /\ pass'[p].warning = {}
      /\ \A q \in Runner : /\ pass'[q].todo = pass[q].todo
                           /\ pass'[q].seen = pass[q].seen /\ pass'[q].today = pass[q].today
                           /\ q # p => pass'[q].at = pass[q].at /\ pass'[q].warning = pass[q].warning
  BY <1>1, <1>3, LoopsMoves
<1>5. /\ sent' \in [Warning -> 0..2]
      /\ \A w \in Warning : sent'[w] >= sent[w] /\ (w \notin ws \/ ~lost => sent'[w] = sent[w])
      /\ lost => \A w \in ws : sent'[w] > 0
  <2>1. CASE lost
    BY <1>2, <1>3, <2>1, CountedOnce
  <2>2. CASE ~lost
    BY <1>2, <2>2, Typed DEF TypeOK
  <2> QED BY <2>1, <2>2
<1>6. /\ again \subseteq again' /\ again' \subseteq Warning /\ (lost => ws \subseteq again')
      /\ missed \subseteq missed' /\ missed' \subseteq Warning
      /\ ~lost /\ p = Timer => ws \subseteq missed'
  BY <1>2, <1>3 DEF TypeOK
<1>7. TypeOK'
  <2>1. upsets' \in 0..MaxUpsets
    BY <1>1, Bounded
  <2> QED BY <1>1, <1>4, <1>5, <1>6, <2>1 DEF TypeOK
<1>8. MailsAreRecorded'
  <2> SUFFICES ASSUME NEW w \in Warning \ again'
               PROVE  MailIsRecorded(w)'
    BY DEF MailsAreRecorded
  <2>1. MailIsRecorded(w) /\ sent'[w] = sent[w]
    BY <1>5, <1>6 DEF MailsAreRecorded
  <2>2. \A q \in Runner : w \in pass'[q].warning => w \in pass[q].warning /\ pass'[q].at = pass[q].at
    BY <1>4
  <2>3. \A q \in Runner : w \in pass[q].warning /\ pass[q].at = "record" =>
                            w \in pass'[q].warning /\ pass'[q].at = "record"
    BY <1>1, <1>4
  <2> QED BY <1>1, <2>1, <2>2, <2>3 DEF MailIsRecorded, Alive
<1>9. RecordsAreMailed'
  <2> SUFFICES ASSUME NEW w \in Warning, Alive(w),
                      w \in events \/ \E q \in Runner : w \in pass'[q].warning /\ pass'[q].at = "record"
               PROVE  sent'[w] > 0 \/ w \in spent
    BY <1>1 DEF RecordsAreMailed, Alive
  <2>1. w \in events \/ \E q \in Runner : w \in pass[q].warning /\ pass[q].at = "record"
    BY <1>4
  <2>2. sent[w] > 0 \/ w \in spent
    BY <2>1 DEF RecordsAreMailed
  <2> QED BY <1>5, <2>2, Typed
<1>10. TimerIsCurrent'
  <2>1. pass[Timer].at = "idle" => pass'[Timer].at = "idle"
    BY <1>1, <1>4, Facts
  <2>2. /\ pass'[Timer].today = pass[Timer].today /\ pass'[Timer].seen = pass[Timer].seen
        /\ pass'[Timer].todo \subseteq pass[Timer].todo /\ pass'[Timer].warning \subseteq pass[Timer].warning
    BY <1>4, Facts
  <2> QED BY <1>1, <2>1, <2>2, StaysCurrent
<1>11. PickedAreMailed'
  <2>1. Picked(pass[Timer].todo, pass[Timer].seen, pass[Timer].today)' =
          Picked(pass[Timer].todo, pass[Timer].seen, pass[Timer].today)
    BY <1>4, Facts DEF Picked
  <2>2. p # Timer => pass'[Timer].warning = pass[Timer].warning
    BY <1>4, Facts
  <2>3. \A w \in Ahead(Timer) : w \in Ahead(Timer)' \/ (p = Timer /\ w \in ws)
    BY <2>1, <2>2 DEF Ahead
  <2>4. ASSUME NEW l \in License, NEW t \in Thresholds, <<l, t>> \in Ahead(Timer)
        PROVE  sent'[<<l, t>>] > 0 \/ <<l, t>> \in missed' \union spent' \union Ahead(Timer)'
    BY <1>5, <1>6, <2>3, <2>4
  <2> QED BY <1>1, <1>5, <1>6, <2>4, StaysMailed
<1> QED BY <1>7, <1>8, <1>9, <1>10, <1>11

LEMMA RecordKeeps ==
  ASSUME ExpiryInv, NEW p \in Runner, Record(p)
  PROVE  ExpiryInv'
<1> USE DEF ExpiryInv
<1> DEFINE ws == pass[p].warning
           refused == enforced /\ \E w \in ws : row[w[1]].status = "gone"
<1>1. /\ pass[p].at = "record"
      /\ UNCHANGED <<enforced, row, now, upsets, due, sent, spent, since>>
      /\ refused => Abort(p) /\ again' = again \union ws /\ UNCHANGED events
      /\ ~refused => /\ events' = events \union ws /\ Goes(p, "loop", pass[p].todo, TRUE, {})
                     /\ UNCHANGED <<again, missed>>
  BY DEF Record
<1>2. ws \subseteq Warning
  BY Typed
<1>3. ASSUME refused PROVE ExpiryInv'
  <2>1. upsets' \in 0..MaxUpsets /\ again \subseteq again' /\ again' \subseteq Warning /\ ws \subseteq again'
    BY <1>1, <1>2, <1>3 DEF TypeOK
  <2> HIDE DEF ExpiryInv
  <2> QED BY <1>1, <1>3, <2>1, AbortKeeps
<1>4. ASSUME ~refused PROVE ExpiryInv'
  <2>1. /\ pass' \in [Runner -> Pass]
        /\ \A q \in Runner : /\ pass'[q].at = "idle" => pass'[q] = Idle
                             /\ pass'[q].at \in {"send", "record"} <=> pass'[q].warning # {}
        /\ pass'[p].at = "loop" /\ pass'[p].warning = {}
        /\ \A q \in Runner : /\ pass'[q].todo = pass[q].todo
                             /\ pass'[q].seen = pass[q].seen /\ pass'[q].today = pass[q].today
                             /\ q # p => pass'[q].at = pass[q].at /\ pass'[q].warning = pass[q].warning
    BY <1>1, <1>4, LoopsMoves
  <2>2. events' = events \union ws /\ UNCHANGED <<again, missed>>
    BY <1>1, <1>4
  <2>3. TypeOK'
    BY <1>1, <1>2, <2>1, <2>2 DEF TypeOK
  <2>4. MailsAreRecorded'
    <3> SUFFICES ASSUME NEW w \in Warning \ again
                 PROVE  MailIsRecorded(w)'
      BY <2>2 DEF MailsAreRecorded
    <3>1. MailIsRecorded(w)
      BY DEF MailsAreRecorded
    <3>2. \A q \in Runner : w \in pass'[q].warning => w \in pass[q].warning /\ pass'[q].at = pass[q].at
      BY <2>1
    <3>3. \A q \in Runner : w \in pass[q].warning =>
                              w \in events' \/ (w \in pass'[q].warning /\ pass'[q].at = pass[q].at)
      BY <2>1, <2>2
    <3>4. events \subseteq events'
      BY <2>2
    <3> HIDE DEF refused
    <3> QED BY <1>1, <3>1, <3>2, <3>3, <3>4 DEF MailIsRecorded, Alive
  <2>5. RecordsAreMailed'
    <3> SUFFICES ASSUME NEW w \in Warning, Alive(w),
                        w \in events' \/ \E q \in Runner : w \in pass'[q].warning /\ pass'[q].at = "record"
                 PROVE  sent[w] > 0 \/ w \in spent
      BY <1>1 DEF RecordsAreMailed, Alive
    <3>1. w \in events \/ \E q \in Runner : w \in pass[q].warning /\ pass[q].at = "record"
      BY <1>1, <2>1, <2>2
    <3> QED BY <3>1 DEF RecordsAreMailed
  <2>6. TimerIsCurrent'
    <3>1. pass[Timer].at = "idle" => pass'[Timer].at = "idle"
      BY <1>1, <2>1, Facts
    <3>2. /\ pass'[Timer].today = pass[Timer].today /\ pass'[Timer].seen = pass[Timer].seen
          /\ pass'[Timer].todo \subseteq pass[Timer].todo /\ pass'[Timer].warning \subseteq pass[Timer].warning
      BY <2>1, Facts
    <3> QED BY <1>1, <3>1, <3>2, StaysCurrent
  <2>7. PickedAreMailed'
    <3>1. Picked(pass[Timer].todo, pass[Timer].seen, pass[Timer].today)' =
            Picked(pass[Timer].todo, pass[Timer].seen, pass[Timer].today)
      BY <2>1, Facts DEF Picked
    <3>2. p # Timer => pass'[Timer].warning = pass[Timer].warning
      BY <2>1, Facts
    <3>3. \A w \in Ahead(Timer) : w \in Ahead(Timer)' \/ w \in ws
      BY <3>1, <3>2 DEF Ahead
    <3>4. ASSUME NEW l \in License, NEW t \in Thresholds, <<l, t>> \in Ahead(Timer), row[l].status = "active"
          PROVE  sent'[<<l, t>>] > 0 \/ <<l, t>> \in missed' \union spent' \union Ahead(Timer)'
      <4>1. Alive(<<l, t>>) /\ <<l, t>> \in Warning
        BY <3>4 DEF Alive, Warning
      <4> QED BY <1>1, <3>3, <3>4, <4>1 DEF RecordsAreMailed
    <3>5. sent' \in [Warning -> 0..2] /\ \A w \in Warning : sent'[w] >= sent[w]
      BY <1>1, Typed DEF TypeOK
    <3>6. missed \subseteq missed' /\ spent \subseteq spent'
      BY <1>1, <2>2
    <3> HIDE DEF refused
    <3> QED BY <1>1, <3>4, <3>5, <3>6, StaysMailed
  <2> QED BY <2>3, <2>4, <2>5, <2>6, <2>7
<1> QED BY <1>3, <1>4

-----------------------------------------------------------------------------
(* One turn of the loop.                                                   *)
LEMMA IsPicked ==
  ASSUME NEW ls, NEW until, NEW day, NEW m, NEW t
  PROVE  <<m, t>> \in Picked(ls, until, day) <=> m \in ls /\ t \in PickThreshold(until[m] - day)
BY DEF Picked

LEMMA TurnKeeps ==
  ASSUME ExpiryInv, NEW p \in Runner, NEW l \in License, Turn(p, l)
  PROVE  ExpiryInv'
<1> USE DEF ExpiryInv
<1> DEFINE j == pass[p]
           until == IF j.fresh THEN row[l].until ELSE j.seen[l]
           days == until - j.today
           unsent == Unsent({l} \X PickThreshold(days))
           at == IF unsent = {} THEN "loop" ELSE "send"
           gone == j.fresh /\ row[l].status = "gone"
<1>1. /\ j.at = "loop" /\ l \in j.todo
      /\ UNCHANGED <<enforced, row, events, now, upsets, due, sent, spent, since>>
      /\ gone => Abort(p) /\ UNCHANGED again
      /\ ~gone => /\ Goes(p, at, j.todo \ {l}, j.fresh, unsent)
                  /\ again' = again \union {w \in unsent : InFlight(w)} /\ UNCHANGED missed
  BY DEF Turn
<1>2. j.warning = {}
  BY <1>1 DEF TypeOK
<1>3. days \in Int /\ j.fresh \in BOOLEAN
  <2>1. until \in Nat /\ j.today \in Nat
    BY Typed
  <2>2. j \in Pass
    BY Typed
  <2> QED BY <2>1, <2>2 DEF Pass
<1>4. /\ unsent \in {{}} \union {{w} : w \in Warning}
      /\ \A w \in unsent : w \in Warning /\ w[1] = l /\ w \notin events
      /\ \A t \in PickThreshold(days) : <<l, t>> \in unsent \/ <<l, t>> \in events
  <2> HIDE DEF days
  <2> QED BY <1>3, OneIsUnsent
<1>5. p = Timer /\ since[l] <= now => days = j.seen[l] - j.today /\ row[l].until > now
  BY <1>1, Facts DEF TimerIsCurrent
<1>6. ASSUME gone PROVE ExpiryInv'
  <2>1. upsets' \in 0..MaxUpsets /\ again \subseteq again' /\ again' \subseteq Warning
    BY <1>1, <1>6 DEF TypeOK
  <2> HIDE DEF ExpiryInv, gone
  <2> QED BY <1>1, <1>6, <2>1, AbortKeeps
<1>7. ASSUME ~gone PROVE ExpiryInv'
  <2> HIDE DEF unsent, gone
  <2>1. /\ Goes(p, at, j.todo \ {l}, j.fresh, unsent)
        /\ again' = again \union {w \in unsent : InFlight(w)} /\ UNCHANGED missed
    BY <1>1, <1>7
  <2>2. /\ at \in {"loop", "send", "record"} /\ (at \in {"send", "record"} <=> unsent # {})
        /\ at # "record" /\ at # "idle"
    OBVIOUS
  <2> HIDE DEF at, j
  <2>3. /\ pass' \in [Runner -> Pass]
        /\ \A q \in Runner : /\ pass'[q].at = "idle" => pass'[q] = Idle
                             /\ pass'[q].at \in {"send", "record"} <=> pass'[q].warning # {}
        /\ pass'[p] = [at |-> at, today |-> pass[p].today, todo |-> pass[p].todo \ {l},
                       seen |-> pass[p].seen, fresh |-> pass[p].fresh, warning |-> unsent]
        /\ \A q \in Runner \ {p} : pass'[q] = pass[q]
    <3>1. Goes(p, at, pass[p].todo \ {l}, pass[p].fresh, unsent) /\ pass[p].fresh \in BOOLEAN
      BY <1>3, <2>1 DEF j
    <3>2. pass[p].todo \ {l} \subseteq pass[p].todo
      OBVIOUS
    <3> QED BY <1>4, <2>2, <3>1, <3>2, GoesMoves
  <2>4. /\ pass'[p].at = at /\ pass'[p].warning = unsent /\ pass'[p].todo = pass[p].todo \ {l}
        /\ pass'[p].seen = pass[p].seen /\ pass'[p].today = pass[p].today
    BY <2>3
  <2>5. pass[p].at = "loop" /\ pass[p].warning = {} /\ l \in pass[p].todo
    BY <1>1, <1>2 DEF j
  <2>6. TypeOK'
    <3>1. again' \union missed' \union spent' \subseteq Warning
      BY <1>1, <1>4, <2>1 DEF TypeOK
    <3> QED BY <1>1, <2>3, <3>1 DEF TypeOK
  <2>7. MailsAreRecorded'
    <3> SUFFICES ASSUME NEW w \in Warning \ again'
                 PROVE  MailIsRecorded(w)'
      BY DEF MailsAreRecorded
    <3>1. MailIsRecorded(w)
      BY <2>1 DEF MailsAreRecorded
    <3>2. CASE w \in unsent
      <4>1. w \notin events /\ \A q \in Runner : w \notin pass[q].warning
        BY <1>4, <2>1, <3>2 DEF InFlight
      <4>2. Alive(w) => sent[w] = 0
        BY <3>1, <4>1, Typed DEF MailIsRecorded
      <4>3. \A q \in Runner : w \in pass'[q].warning => q = p
        BY <2>3, <4>1
      <4> QED BY <1>1, <4>2, <4>3 DEF MailIsRecorded, Alive
    <3>3. CASE w \notin unsent
      <4>1. w \notin pass'[p].warning /\ w \notin pass[p].warning
        BY <2>4, <2>5, <3>3
      <4> QED BY <1>1, <2>3, <3>1, <4>1 DEF MailIsRecorded, Alive
    <3> QED BY <3>2, <3>3
  <2>8. RecordsAreMailed'
    <3>1. \A q \in Runner : pass'[q].at = "record" => pass'[q] = pass[q]
      BY <2>2, <2>3, <2>4
    <3> QED BY <1>1, <3>1 DEF RecordsAreMailed, Alive
  <2>9. TimerIsCurrent'
    <3>1. CASE p = Timer
      <4>1. \A w \in unsent : since[w[1]] <= now => row[w[1]].until > now
        BY <1>4, <1>5, <3>1
      <4> QED BY <1>1, <2>4, <2>5, <3>1, <4>1, StaysCurrent
    <3>2. CASE p # Timer
      <4>1. pass'[Timer] = pass[Timer]
        BY <2>3, <3>2, Facts
      <4> QED BY <1>1, <4>1 DEF TimerIsCurrent
    <3> QED BY <3>1, <3>2
  <2>10. PickedAreMailed'
    <3>1. sent' \in [Warning -> 0..2] /\ \A w \in Warning : sent'[w] >= sent[w]
      BY <1>1, Typed DEF TypeOK
    <3>2. missed \subseteq missed' /\ spent \subseteq spent'
      BY <1>1, <2>1
    <3>3. ASSUME NEW m \in License, NEW t \in Thresholds, <<m, t>> \in Ahead(Timer),
                 row[m].status = "active", since[m] <= now
          PROVE  sent'[<<m, t>>] > 0 \/ <<m, t>> \in missed' \union spent' \union Ahead(Timer)'
      <4>1. CASE p # Timer
        <5>1. pass'[Timer] = pass[Timer]
          BY <2>3, <4>1, Facts
        <5>2. Ahead(Timer)' = Ahead(Timer)
          BY <5>1 DEF Ahead, Picked
        <5> QED BY <3>3, <5>2
      <4>2. CASE p = Timer
        <5>1. m \in pass[Timer].todo /\ t \in PickThreshold(pass[Timer].seen[m] - pass[Timer].today)
          BY <2>5, <3>3, <4>2, IsPicked DEF Ahead
        <5>2. CASE m # l
          <6>1. m \in pass'[Timer].todo /\ t \in PickThreshold(pass'[Timer].seen[m] - pass'[Timer].today)
            BY <2>4, <4>2, <5>1, <5>2
          <6> QED BY <6>1, IsPicked DEF Ahead
        <5>3. CASE m = l
          <6>1. t \in PickThreshold(days)
            BY <1>5, <3>3, <4>2, <5>1, <5>3 DEF j
          <6>2. CASE <<l, t>> \in unsent
            BY <2>4, <4>2, <5>3, <6>2 DEF Ahead
          <6>3. CASE <<l, t>> \in events
            <7>1. Alive(<<l, t>>) /\ <<l, t>> \in Warning
              BY <3>3, <5>3 DEF Alive, Warning
            <7> QED BY <1>1, <5>3, <6>3, <7>1 DEF RecordsAreMailed
          <6> QED BY <1>4, <6>1, <6>2, <6>3
        <5> QED BY <5>2, <5>3
      <4> QED BY <4>1, <4>2
    <3> QED BY <1>1, <3>1, <3>2, <3>3, StaysMailed
  <2> QED BY <2>6, <2>7, <2>8, <2>9, <2>10
<1> QED BY <1>6, <1>7

-----------------------------------------------------------------------------
(* The query.                                                              *)
LEMMA StartKeeps ==
  ASSUME ExpiryInv, NEW p \in Runner, Start(p)
  PROVE  ExpiryInv'
<1> USE DEF ExpiryInv
<1> DEFINE ls == {l \in License : Ending(l)}
           until == [l \in License |-> row[l].until]
           x == [at |-> "loop", today |-> now, todo |-> ls, seen |-> until,
                 fresh |-> FALSE, warning |-> {}]
<1>1. /\ pass[p] = Idle /\ (p = Timer => due) /\ Upset(IF p = Timer THEN 0 ELSE 1)
      /\ pass' = [pass EXCEPT ![p] = x]
      /\ due' = (due /\ p # Timer)
      /\ missed' = IF p = Timer THEN missed \ Picked(ls, until, now) ELSE missed
      /\ UNCHANGED <<enforced, row, events, now, sent, again, spent, since>>
  BY DEF Start
<1>2. x \in Pass /\ x.at = "loop" /\ x.warning = {} /\ x.todo = ls /\ x.seen = until /\ x.today = now
  <2>1. until \in [License -> Day] /\ now \in Day
    BY DEF TypeOK, Row
  <2> HIDE DEF until
  <2> QED BY <2>1 DEF Pass
<1> HIDE DEF x
<1>3. /\ pass' \in [Runner -> Pass]
      /\ \A q \in Runner : /\ pass'[q].at = "idle" => pass'[q] = Idle
                           /\ pass'[q].at \in {"send", "record"} <=> pass'[q].warning # {}
      /\ pass'[p] = x /\ \A q \in Runner \ {p} : pass'[q] = pass[q]
  BY <1>1, <1>2, PassMoves
<1>4. \A q \in Runner : pass'[q].warning # {} => q # p /\ pass'[q] = pass[q]
  BY <1>2, <1>3
<1>5. \A q \in Runner : pass[q].warning # {} => pass'[q] = pass[q]
  BY <1>1, <1>3, IdleIsTyped
<1>6. TypeOK'
  <2>1. upsets' \in 0..MaxUpsets
    BY <1>1, Bounded
  <2> QED BY <1>1, <1>3, <2>1 DEF TypeOK
<1>7. MailsAreRecorded'
  BY <1>1, <1>4, <1>5 DEF MailsAreRecorded, MailIsRecorded, Alive
<1>8. RecordsAreMailed'
  BY <1>1, <1>4 DEF RecordsAreMailed, Alive
<1>9. CASE p # Timer
  <2>1. pass'[Timer] = pass[Timer] /\ due' = due /\ missed' = missed
    BY <1>1, <1>3, <1>9, Facts, Typed
  <2>2. TimerIsCurrent'
    BY <1>1, <2>1 DEF TimerIsCurrent
  <2>3. Ahead(Timer)' = Ahead(Timer)
    BY <2>1 DEF Ahead, Picked
  <2>4. PickedAreMailed'
    <3>1. /\ \A w \in Warning : sent'[w] >= sent[w]
          /\ sent' \in [Warning -> 0..2] /\ missed \subseteq missed' /\ spent \subseteq spent'
      BY <1>1, <2>1, Typed DEF TypeOK
    <3> QED BY <1>1, <2>1, <2>3, <3>1, StaysMailed
  <2> QED BY <1>6, <1>7, <1>8, <2>2, <2>4
<1>10. CASE p = Timer
  <2>1. /\ due /\ ~due' /\ missed' = missed \ Picked(ls, until, now)
        /\ pass[Timer] = Idle /\ pass'[Timer] = x
    BY <1>1, <1>3, <1>10
  <2>2. \A l \in License : until[l] = row[l].until
    OBVIOUS
  <2>3. \A l \in License :
          l \in ls <=> row[l].status = "active" /\ row[l].until > now /\ PickThreshold(row[l].until - now) # {}
    BY DEF Ending
  <2>4. TimerIsCurrent'
    <3> HIDE DEF ls, until
    <3>1. ls \subseteq License
      BY DEF ls
    <3> QED BY <1>1, <1>2, <2>1, <2>2, <2>3, <3>1 DEF TimerIsCurrent
  <2>5. Ahead(Timer) = {}
    BY <2>1, IdleIsTyped DEF Ahead, Picked
  <2>6. Ahead(Timer)' = Picked(ls, until, now)
    BY <1>2, <2>1 DEF Ahead, Picked
  <2>7. PickedAreMailed'
    <3> SUFFICES ASSUME NEW l \in License, NEW d \in Day, NEW t \in PickThreshold(row[l].until - d),
                        row[l].status = "active", since[l] <= d, d < row[l].until,
                        d < now \/ d = now
                 PROVE  sent[<<l, t>>] > 0 \/ <<l, t>> \in missed' \union spent \union Ahead(Timer)'
      BY <1>1, <2>1 DEF PickedAreMailed
    <3>1. CASE d < now
      <4>1. sent[<<l, t>>] > 0 \/ <<l, t>> \in missed \union spent
        BY <2>5, <3>1 DEF PickedAreMailed
      <4> QED BY <2>1, <2>6, <4>1
    <3>2. CASE d = now
      <4>1. l \in ls /\ t \in PickThreshold(until[l] - now)
        BY <2>2, <2>3, <3>2
      <4> QED BY <2>6, <4>1, IsPicked
    <3> QED BY <3>1, <3>2
  <2> QED BY <1>6, <1>7, <1>8, <2>4, <2>7
<1> QED BY <1>9, <1>10

-----------------------------------------------------------------------------
(* Other handlers.  The license they change is a new term to the timer.    *)
LEMMA ChangedTerm ==
  ASSUME TypeOK, NEW l \in License, Change(l)
  PROVE  /\ since' \in [License -> 0..MaxTime + 1] /\ upsets' \in 0..MaxUpsets
         /\ since'[l] = IF due THEN now ELSE now + 1
         /\ \A m \in License \ {l} : since'[m] = since[m]
         /\ row[l].status # "gone"
<1>1. (IF due THEN now ELSE now + 1) \in 0..MaxTime + 1
  BY Typed, Facts
<1> QED BY <1>1, Bounded DEF Change, TypeOK

LEMMA ChangeKeepsTimer ==
  ASSUME TypeOK, TimerIsCurrent, PickedAreMailed, NEW l \in License, Change(l),
         UNCHANGED <<pass, now, due>>, \A m \in License \ {l} : row'[m] = row[m],
         \A w \in Warning : w[1] # l => sent'[w] = sent[w] /\ (w \in missed => w \in missed'),
         spent \subseteq spent'
  PROVE  TimerIsCurrent' /\ PickedAreMailed'
<1>1. /\ since'[l] = IF due THEN now ELSE now + 1
      /\ \A m \in License \ {l} : since'[m] = since[m]
  BY ChangedTerm
<1>2. since'[l] > now \/ (due /\ since'[l] = now)
  BY <1>1, Typed
<1>3. TimerIsCurrent'
  <2>1. \A w \in pass[Timer].warning : w[1] \in License
    BY Typed, Facts DEF Warning
  <2> QED BY <1>1, <1>2, <2>1, Typed, Facts DEF TimerIsCurrent
<1>4. Ahead(Timer)' = Ahead(Timer)
  BY DEF Ahead, Picked
<1>5. PickedAreMailed'
  <2> SUFFICES ASSUME NEW m \in License, NEW d \in Day, NEW t \in PickThreshold(row'[m].until - d),
                      row'[m].status = "active", since'[m] <= d, d < row'[m].until,
                      d < now \/ (d = now /\ ~due)
               PROVE  sent'[<<m, t>>] > 0 \/ <<m, t>> \in missed' \union spent' \union Ahead(Timer)'
    BY DEF PickedAreMailed
  <2>1. m # l
    BY <1>1, <1>2, Typed, Facts
  <2>2. sent[<<m, t>>] > 0 \/ <<m, t>> \in missed \union spent \union Ahead(Timer)
    BY <1>1, <2>1 DEF PickedAreMailed
  <2>3. <<m, t>> \in Warning /\ <<m, t>>[1] = m
    BY DEF PickThreshold, Warning
  <2> QED BY <1>4, <2>1, <2>2, <2>3
<1> QED BY <1>3, <1>5

LEMMA SetUntilKeeps ==
  ASSUME ExpiryInv, NEW l \in License, NEW u \in Day, SetUntil(l, u)
  PROVE  ExpiryInv'
<1> USE DEF ExpiryInv
<1>1. /\ Change(l) /\ UNCHANGED <<enforced, events, pass, now, due, again>>
      /\ row' = [row EXCEPT ![l] = [status |-> row[l].status, until |-> u]]
      /\ sent' = [w \in Warning |-> IF w[1] = l THEN 0 ELSE sent[w]]
      /\ spent' = spent \union {w \in Warning : w[1] = l /\ (w \in events \/ \E p \in Runner : pass[p] # Idle)}
      /\ missed' = {w \in missed : w[1] # l}
  BY DEF SetUntil
<1>2. /\ row' \in [License -> Row]
      /\ \A m \in License : row'[m].status = row[m].status /\ (m # l => row'[m] = row[m])
  <2>1. row[l] \in Row
    BY Typed
  <2>2. [status |-> row[l].status, until |-> u] \in Row
    BY <2>1 DEF Row
  <2> QED BY <1>1, <2>2, Typed
<1>3. sent' \in [Warning -> 0..2] /\ \A w \in Warning : sent'[w] = IF w[1] = l THEN 0 ELSE sent[w]
  BY <1>1 DEF TypeOK
<1>4. spent' \subseteq Warning /\ missed' \subseteq Warning /\ spent \subseteq spent'
  BY <1>1 DEF TypeOK
<1>5. TypeOK'
  BY <1>1, <1>2, <1>3, <1>4, ChangedTerm DEF TypeOK
<1>6. \A w \in Warning : Alive(w)' <=> Alive(w)
  BY <1>2 DEF Alive, Warning
<1>7. MailsAreRecorded'
  <2> SUFFICES ASSUME NEW w \in Warning \ again
               PROVE  MailIsRecorded(w)'
    BY <1>1 DEF MailsAreRecorded
  <2>1. MailIsRecorded(w) /\ (sent'[w] = 0 \/ sent'[w] = sent[w])
    BY <1>3 DEF MailsAreRecorded
  <2> QED BY <1>1, <1>6, <2>1 DEF MailIsRecorded
<1>8. RecordsAreMailed'
  <2> SUFFICES ASSUME NEW w \in Warning, Alive(w),
                      w \in events \/ \E p \in Runner : w \in pass[p].warning /\ pass[p].at = "record"
               PROVE  sent'[w] > 0 \/ w \in spent'
    BY <1>1, <1>6 DEF RecordsAreMailed
  <2>1. CASE w[1] = l
    BY <1>1, <2>1, IdleIsTyped
  <2>2. CASE w[1] # l
    BY <1>3, <1>4, <2>2 DEF RecordsAreMailed
  <2> QED BY <2>1, <2>2
<1>9. TimerIsCurrent' /\ PickedAreMailed'
  <2>1. \A w \in Warning : w[1] # l => sent'[w] = sent[w] /\ (w \in missed => w \in missed')
    BY <1>1, <1>3
  <2> QED BY <1>1, <1>2, <1>4, <2>1, ChangeKeepsTimer
<1> QED BY <1>5, <1>7, <1>8, <1>9

LEMMA StatusKeeps ==
  ASSUME ExpiryInv, NEW l \in License, (\E st \in {"active", "other"} : SetStatus(l, st)) \/ Delete(l)
  PROVE  ExpiryInv'
<1> USE DEF ExpiryInv
<1>1. PICK st \in {"active", "other", "gone"} :
        /\ Change(l) /\ UNCHANGED <<enforced, pass, now, due, sent, again, missed, spent>>
        /\ row' = [row EXCEPT ![l] = [status |-> st, until |-> row[l].until]]
        /\ events' = IF st = "gone" THEN {w \in events : w[1] # l} ELSE events
  <2>1. CASE Delete(l)
    BY <2>1 DEF Delete
  <2>2. ASSUME NEW st \in {"active", "other"}, SetStatus(l, st)
        PROVE  /\ Change(l) /\ UNCHANGED <<enforced, pass, now, due, sent, again, missed, spent>>
               /\ row' = [row EXCEPT ![l] = [status |-> st, until |-> row[l].until]]
               /\ events' = events /\ st # "gone"
    BY <2>2 DEF SetStatus
  <2> QED BY <2>1, <2>2
<1>2. /\ row' \in [License -> Row] /\ row'[l].status = st
      /\ \A m \in License : m # l => row'[m] = row[m]
  <2>1. row[l] \in Row
    BY Typed
  <2>2. [status |-> st, until |-> row[l].until] \in Row
    BY <2>1 DEF Row
  <2> QED BY <1>1, <2>2, Typed
<1>3. TypeOK'
  BY <1>1, <1>2, ChangedTerm DEF TypeOK
<1>4. \A w \in Warning : Alive(w)' => Alive(w) /\ (w \in events' <=> w \in events)
  <2>1. row[l].status # "gone"
    BY <1>1, ChangedTerm
  <2> QED BY <1>1, <1>2, <2>1 DEF Alive, Warning
<1>5. MailsAreRecorded'
  BY <1>1, <1>4 DEF MailsAreRecorded, MailIsRecorded
<1>6. RecordsAreMailed'
  BY <1>1, <1>4 DEF RecordsAreMailed
<1>7. TimerIsCurrent' /\ PickedAreMailed'
  BY <1>1, <1>2, ChangeKeepsTimer
<1> QED BY <1>3, <1>5, <1>6, <1>7

(* Midnight: the timer has come to the day that ends.                      *)
LEMMA TickKeeps ==
  ASSUME ExpiryInv, Tick
  PROVE  ExpiryInv'
<1> USE DEF ExpiryInv
<1>1. /\ now < MaxTime /\ ~due /\ \A p \in Runner : pass[p] = Idle
      /\ now' = now + 1 /\ due' = TRUE
      /\ UNCHANGED <<enforced, row, events, pass, upsets, sent, again, missed, spent, since>>
  BY DEF Tick, history
<1>2. TypeOK'
  <2>1. now' \in Day
    BY <1>1, Typed, Facts DEF Day
  <2> QED BY <1>1, <2>1 DEF TypeOK
<1>3. MailsAreRecorded'
  BY <1>1 DEF MailsAreRecorded, MailIsRecorded, Alive
<1>4. RecordsAreMailed'
  BY <1>1 DEF RecordsAreMailed, Alive
<1>5. TimerIsCurrent'
  BY <1>1, IdleIsTyped, Facts DEF TimerIsCurrent
<1>6. PickedAreMailed'
  <2>1. Ahead(Timer)' = Ahead(Timer)
    BY <1>1 DEF Ahead, Picked
  <2>2. \A d \in Day : d < now' => d < now \/ d = now
    BY <1>1, Typed, Facts
  <2> QED BY <1>1, <2>1, <2>2, Facts, Typed DEF PickedAreMailed
<1> QED BY <1>2, <1>3, <1>4, <1>5, <1>6

-----------------------------------------------------------------------------
(* The whole specification.                                                *)
LEMMA InitHolds == Init => ExpiryInv
<1> SUFFICES ASSUME Init PROVE ExpiryInv
  OBVIOUS
<1>1. /\ enforced \in BOOLEAN /\ events = {} /\ again = {} /\ missed = {} /\ spent = {}
      /\ now = 0 /\ upsets = 0 /\ due
      /\ \A p \in Runner : pass[p] = Idle
      /\ \A w \in Warning : sent[w] = 0
  BY ExpiryAssumption DEF Init
<1>2. TypeOK
  <2>1. row \in [License -> Row] /\ pass \in [Runner -> Pass]
    BY IdleIsTyped DEF Init, Row
  <2>2. now \in Day /\ upsets \in 0..MaxUpsets
    BY <1>1, Facts DEF Day
  <2>3. sent \in [Warning -> 0..2] /\ since \in [License -> 0..MaxTime + 1]
    BY Facts DEF Init
  <2>4. \A p \in Runner : /\ pass[p].at = "idle" => pass[p] = Idle
                          /\ pass[p].at \in {"send", "record"} <=> pass[p].warning # {}
    BY <1>1, IdleIsTyped
  <2> QED BY <1>1, <2>1, <2>2, <2>3, <2>4 DEF TypeOK
<1>3. MailsAreRecorded /\ RecordsAreMailed
  BY <1>1, IdleIsTyped DEF MailsAreRecorded, MailIsRecorded, RecordsAreMailed
<1>4. TimerIsCurrent
  BY <1>1, Facts, IdleIsTyped DEF TimerIsCurrent
<1>5. PickedAreMailed
  BY <1>1, Facts DEF PickedAreMailed
<1> QED BY <1>2, <1>3, <1>4, <1>5 DEF ExpiryInv

LEMMA StutterKeeps == ExpiryInv /\ UNCHANGED vars => ExpiryInv'
<1> SUFFICES ASSUME ExpiryInv, UNCHANGED vars PROVE ExpiryInv'
  OBVIOUS
<1>1. UNCHANGED <<enforced, row, events, pass, now, upsets, due, sent, again, missed, spent, since>>
  BY DEF vars, history
<1>2. TypeOK'
  BY <1>1 DEF ExpiryInv, TypeOK
<1>3. MailsAreRecorded' /\ RecordsAreMailed'
  BY <1>1 DEF ExpiryInv, MailsAreRecorded, MailIsRecorded, RecordsAreMailed, Alive
<1>4. TimerIsCurrent'
  BY <1>1 DEF ExpiryInv, TimerIsCurrent
<1>5. PickedAreMailed'
  BY <1>1 DEF ExpiryInv, PickedAreMailed, Ahead, Picked
<1> QED BY <1>2, <1>3, <1>4, <1>5 DEF ExpiryInv

LEMMA StepHolds == ExpiryInv /\ [Next]_vars => ExpiryInv'
<1> SUFFICES ASSUME ExpiryInv, [Next]_vars PROVE ExpiryInv'
  OBVIOUS
<1>1. ASSUME NEW p \in Runner,
             \/ Start(p) \/ Dispatch(p) \/ Record(p) \/ Finish(p) \/ Crash(p)
             \/ \E l \in License : Turn(p, l)
             \/ \E lost \in BOOLEAN : SendFails(p, lost)
      PROVE  ExpiryInv'
  BY <1>1, StartKeeps, DispatchKeeps, RecordKeeps, FinishKeeps, CrashKeeps, TurnKeeps, SendFailsKeeps
<1>2. ASSUME NEW l \in License,
             \/ \E u \in Day : SetUntil(l, u)
             \/ \E st \in {"active", "other"} : SetStatus(l, st)
             \/ Delete(l)
      PROVE  ExpiryInv'
  BY <1>2, SetUntilKeeps, StatusKeeps
<1>3. CASE Tick
  BY <1>3, TickKeeps
<1>4. CASE UNCHANGED vars
  BY <1>4, StutterKeeps
<1> QED BY <1>1, <1>2, <1>3, <1>4 DEF Next

(* The inductive invariant, for any licenses, thresholds and runners.      *)
THEOREM ExpiryInvariant == Spec => []ExpiryInv
<1> QED BY InitHolds, StepHolds, PTL DEF Spec

(* A pass holds one warning at most, whatever the thresholds.              *)
THEOREM TypeCorrect == Spec => []TypeOK
<1>1. ExpiryInv => TypeOK
  BY DEF ExpiryInv
<1> QED BY <1>1, ExpiryInvariant, PTL

(* send_expiry_warnings.py, "Re-running is idempotent": one mail per       *)
(* threshold and term, but for mails whose event was not recorded.         *)
THEOREM RunsAreIdempotent == Spec => []WarnedOnce
<1>1. ExpiryInv => WarnedOnce
  BY DEF ExpiryInv, MailsAreRecorded, MailIsRecorded, WarnedOnce, Alive
<1> QED BY <1>1, ExpiryInvariant, PTL

(* A threshold that a term passes through is the smallest one on one of    *)
(* its days, on which the timer's pass picks it.                           *)
LEMMA RequiredIsPicked ==
  ASSUME TypeOK, NEW l \in License, NEW w \in Required(l)
  PROVE  \E t \in Thresholds, d \in Day :
           /\ w = <<l, t>> /\ t \in PickThreshold(row[l].until - d)
           /\ since[l] <= d /\ d < row[l].until
<1> DEFINE days == row[l].until - since[l]
<1>1. PICK t \in Thresholds : w = <<l, t>> /\ days > 0 /\ \A s \in Thresholds : s < t => s < days
  BY DEF Required
<1>2. /\ t \in Nat /\ t >= 1 /\ since[l] \in Nat /\ row[l].until \in Nat /\ row[l].until <= MaxTime
      /\ days \in Nat
  BY <1>1, Typed, Facts
<1> DEFINE left == IF days <= t THEN days ELSE t
           d == row[l].until - left
<1>3. left \in Nat /\ left >= 1 /\ left <= days /\ left <= t
  BY <1>1, <1>2
<1>4. d \in Day /\ since[l] <= d /\ d < row[l].until /\ row[l].until - d = left
  BY <1>2, <1>3, Facts DEF Day
<1>5. ASSUME NEW s \in Thresholds, left <= s PROVE t <= s
  <2>1. s \in Nat
    BY Facts
  <2>2. s < t => s < days
    BY <1>1
  <2> HIDE DEF days
  <2> QED BY <1>2, <1>5, <2>1, <2>2
<1>6. t \in PickThreshold(left)
  BY <1>3, <1>5 DEF PickThreshold
<1> QED BY <1>1, <1>4, <1>6

(* Of "three thresholds before their license lapses" those that no earlier *)
(* term used are kept: no order of passes, renewals, deletions and crashes *)
(* loses such a warning, unless the timer's last pass for it failed.       *)
THEOREM TermsAreWarned == Spec => []UnusedThresholdsAreWarned
<1>1. ExpiryInv => UnusedThresholdsAreWarned
  <2> SUFFICES ASSUME ExpiryInv, NEW l \in License, row[l].status = "active", row[l].until <= now,
                      NEW w \in Required(l)
               PROVE  sent[w] > 0 \/ w \in missed \union spent
    BY DEF UnusedThresholdsAreWarned, Lapsed
  <2>1. TypeOK
    BY DEF ExpiryInv
  <2>2. PICK t \in Thresholds, d \in Day :
          /\ w = <<l, t>> /\ t \in PickThreshold(row[l].until - d)
          /\ since[l] <= d /\ d < row[l].until
    BY <2>1, RequiredIsPicked
  <2>3. d < now /\ since[l] <= now /\ now \in Nat
    BY <2>1, <2>2, Typed, Facts
  <2>4. sent[w] > 0 \/ w \in missed \union spent \union Ahead(Timer)
    BY <2>2, <2>3 DEF ExpiryInv, PickedAreMailed
  <2>5. w \notin Ahead(Timer)
    <3>1. CASE pass[Timer].at = "idle"
      BY <2>1, <3>1, IdleIsTyped, Facts DEF Ahead, Picked, TypeOK
    <3>2. CASE pass[Timer].at # "idle"
      <4>1. /\ since[l] <= now => pass[Timer].seen[l] = row[l].until
            /\ \A m \in pass[Timer].todo : pass[Timer].seen[m] > now
            /\ \A v \in pass[Timer].warning : since[v[1]] <= now => row[v[1]].until > now
        BY <3>2 DEF ExpiryInv, TimerIsCurrent
      <4>2. ~(row[l].until > now)
        BY <2>1, <2>3, Typed
      <4>3. l \notin pass[Timer].todo
        BY <2>3, <4>1, <4>2
      <4>4. w \notin pass[Timer].warning
        BY <2>2, <2>3, <4>1, <4>2
      <4> QED BY <2>2, <4>3, <4>4, IsPicked DEF Ahead
    <3> QED BY <3>1, <3>2
  <2> QED BY <2>4, <2>5
<1> QED BY <1>1, ExpiryInvariant, PTL

-----------------------------------------------------------------------------
(* A recorded warning stays recorded when a pass goes on without it.        *)
LEMMA RecordedStays ==
  ASSUME TypeOK, NEW w \in Warning, Recorded(w), NEW p \in Runner, NEW x,
         pass' = [pass EXCEPT ![p] = x], w \notin x.warning, w \in events'
  PROVE  Recorded(w)'
BY DEF Recorded, TypeOK

LEMMA RecordedByGoes ==
  ASSUME TypeOK, NEW w \in Warning, Recorded(w), NEW p \in Runner,
         NEW at, NEW todo, NEW fresh, NEW ws, Goes(p, at, todo, fresh, ws),
         w \notin ws, w \in events'
  PROVE  Recorded(w)'
<1> DEFINE x == [at |-> at, today |-> pass[p].today, todo |-> todo,
                 seen |-> pass[p].seen, fresh |-> fresh, warning |-> ws]
<1>1. pass' = [pass EXCEPT ![p] = x] /\ w \notin x.warning
  BY DEF Goes
<1> HIDE DEF x
<1> QED BY <1>1, RecordedStays

LEMMA RecordedByAbort ==
  ASSUME TypeOK, NEW w \in Warning, Recorded(w), NEW p \in Runner,
         pass' = [pass EXCEPT ![p] = Idle], w \in events'
  PROVE  Recorded(w)'
BY IdleIsTyped, RecordedStays

LEMMA RecordIsFinal ==
  ASSUME ExpiryInv, [Next]_vars, NEW w \in Warning, Recorded(w)
  PROVE  sent'[w] <= sent[w] /\ (Recorded(w)' \/ row'[w[1]].status = "gone")
<1>0. /\ TypeOK /\ w \in events /\ sent[w] \in Nat /\ w[1] \in License
      /\ \A p \in Runner : w \notin pass[p].warning /\ pass[p].warning \subseteq Warning
  BY Typed DEF ExpiryInv, Recorded, Warning
<1> SUFFICES ASSUME Next
             PROVE  sent'[w] <= sent[w] /\ (Recorded(w)' \/ row'[w[1]].status = "gone")
  BY <1>0 DEF vars, history, Recorded
<1>1. ASSUME NEW p \in Runner, Start(p) PROVE sent' = sent /\ Recorded(w)'
  <2> DEFINE x == [at |-> "loop", today |-> now, todo |-> {l \in License : Ending(l)},
                   seen |-> [l \in License |-> row[l].until], fresh |-> FALSE, warning |-> {}]
  <2>1. pass' = [pass EXCEPT ![p] = x] /\ UNCHANGED <<events, sent>>
    BY <1>1 DEF Start
  <2>2. w \notin x.warning
    OBVIOUS
  <2> HIDE DEF x
  <2> QED BY <1>0, <2>1, <2>2, RecordedStays
<1>2. ASSUME NEW p \in Runner, NEW l \in License, Turn(p, l)
      PROVE  sent' = sent /\ Recorded(w)'
  <2>1. UNCHANGED <<events, sent>>
    BY <1>2 DEF Turn
  <2>2. CASE pass' = [pass EXCEPT ![p] = Idle]
    BY <1>0, <2>1, <2>2, RecordedByAbort
  <2>3. CASE ~(pass' = [pass EXCEPT ![p] = Idle])
    <3>1. PICK at, ts : Goes(p, at, pass[p].todo \ {l}, pass[p].fresh, Unsent(ts))
      BY <1>2, <2>3 DEF Turn, Abort
    <3>2. w \notin Unsent(ts)
      BY <1>0 DEF Unsent
    <3> QED BY <1>0, <2>1, <3>1, <3>2, RecordedByGoes
  <2> QED BY <2>1, <2>2, <2>3
<1>3. ASSUME NEW p \in Runner, Dispatch(p) PROVE sent'[w] = sent[w] /\ Recorded(w)'
  <2>1. sent'[w] = sent[w]
    BY <1>0, <1>3, CountedOnce DEF Dispatch
  <2>2. Goes(p, "record", pass[p].todo, pass[p].fresh, pass[p].warning) /\ events' = events
    BY <1>3 DEF Dispatch
  <2> QED BY <1>0, <2>1, <2>2, RecordedByGoes
<1>4. ASSUME NEW p \in Runner, NEW lost \in BOOLEAN, SendFails(p, lost)
      PROVE  sent'[w] = sent[w] /\ Recorded(w)'
  <2>1. sent'[w] = sent[w]
    BY <1>0, <1>4, CountedOnce DEF SendFails
  <2>2. Goes(p, "loop", pass[p].todo, pass[p].fresh, {}) /\ events' = events
    BY <1>4 DEF SendFails
  <2> QED BY <1>0, <2>1, <2>2, RecordedByGoes
<1>5. ASSUME NEW p \in Runner, Record(p) PROVE sent' = sent /\ Recorded(w)'
  <2>1. sent' = sent /\ w \in events'
    BY <1>0, <1>5 DEF Record
  <2>2. CASE pass' = [pass EXCEPT ![p] = Idle]
    BY <1>0, <2>1, <2>2, RecordedByAbort
  <2>3. CASE Goes(p, "loop", pass[p].todo, TRUE, {})
    BY <1>0, <2>1, <2>3, RecordedByGoes
  <2> QED BY <1>5, <2>1, <2>2, <2>3 DEF Record, Abort
<1>6. ASSUME NEW p \in Runner, Finish(p) \/ Crash(p) PROVE sent' = sent /\ Recorded(w)'
  <2>1. pass' = [pass EXCEPT ![p] = Idle] /\ UNCHANGED <<events, sent>>
    BY <1>6 DEF Finish, Crash, Abort, history
  <2> QED BY <1>0, <2>1, RecordedByAbort
<1>7. ASSUME NEW l \in License, NEW u \in Day, SetUntil(l, u)
      PROVE  sent'[w] <= sent[w] /\ Recorded(w)'
  BY <1>0, <1>7 DEF SetUntil, Recorded
<1>8. ASSUME NEW l \in License, NEW st, SetStatus(l, st) PROVE sent' = sent /\ Recorded(w)'
  BY <1>8 DEF SetStatus, Recorded
<1>9. ASSUME NEW l \in License, Delete(l)
      PROVE  sent' = sent /\ (Recorded(w)' \/ row'[w[1]].status = "gone")
  <2>1. sent' = sent /\ pass' = pass
    BY <1>9 DEF Delete
  <2>2. CASE w[1] = l
    BY <1>0, <1>9, <2>1, <2>2 DEF Delete, TypeOK
  <2>3. CASE w[1] # l
    BY <1>0, <1>9, <2>1, <2>3 DEF Delete, Recorded
  <2> QED BY <2>1, <2>2, <2>3
<1>10. CASE Tick
  BY <1>0, <1>10 DEF Tick, history, Recorded
<1> QED
  BY <1>0, <1>1, <1>2, <1>3, <1>4, <1>5, <1>6, <1>7, <1>8, <1>9, <1>10 DEF Next

(* "the dedup event is the source of truth": what is recorded is not mailed *)
(* again before the license is deleted, in whatever term.                   *)
THEOREM RecordedWarningsAreFinal == Spec => RecordsAreFinal
<1> DEFINE Kept ==
      \A w \in Warning :
        Recorded(w) => /\ sent'[w] <= sent[w]
                       /\ Recorded(w)' \/ row'[w[1]].status = "gone"
<1>1. ExpiryInv /\ [Next]_vars => [Kept]_vars
  BY RecordIsFinal
<1> QED BY <1>1, ExpiryInvariant, PTL DEF Spec, RecordsAreFinal

=============================================================================
