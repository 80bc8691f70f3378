----------------------------- MODULE ExpiryWarnings -----------------------------
(***************************************************************************)
(* The pass that warns customers of the end of their licenses              *)
(* (scripts/send_expiry_warnings.py), next to handlers that change, and    *)
(* delete, the licenses it has loaded.                                     *)
(*                                                                         *)
(* Time is counted in days.  A pass is started by its timer once a day, or *)
(* by hand at any time.  It loads the licenses it is about, mails and      *)
(* records one after the other, and from its first commit on loads each    *)
(* license again when it comes to it.                                      *)
(***************************************************************************)
EXTENDS Integers

CONSTANTS License,
          Thresholds,  \* days before the end at which to warn
          Runner,      \* processes that run the script
          Timer,       \* the one the systemd timer starts
          Databases,   \* whether foreign keys are checked: {TRUE}, {FALSE} or both
          MaxTime, MaxUpsets  \* bounds: the clock and valid_until; what is out of routine

Day == 0..MaxTime
Warning == License \X Thresholds

ASSUME ExpiryAssumption ==
  /\ Thresholds \subseteq Nat \ {0}
  /\ Timer \in Runner /\ Databases \subseteq BOOLEAN /\ MaxTime \in Nat /\ MaxUpsets \in Nat

VARIABLES
  enforced,  \* whether this database checks foreign keys
  row,       \* status and valid_until of each license
  events,    \* expiry_warning events
  pass,      \* what each runner is at
  now,
  upsets,    \* commits of other handlers, passes by hand, failed mails, crashes
  due,       \* the timer has not started today's pass yet
  sent,      \* history: mails of the license's present term, two standing for more
  again,     \* history: warnings that went out and were not recorded in time
  missed,    \* history: warnings the timer's last pass could not send
  spent,     \* history: warnings of an earlier term, or of one that changed under a pass
  since      \* history: day of the first pass of the timer to see the term

history == <<sent, again, missed, spent, since>>
vars == <<enforced, row, events, pass, now, upsets, due, history>>

Row == [status : {"active", "other", "gone"}, until : Day]
Pass == [at : {"idle", "loop", "send", "record"}, today : Day, todo : SUBSET License,
         seen : [License -> Day], fresh : BOOLEAN, warning : {{}} \union {{w} : w \in Warning}]
Idle == [at |-> "idle", today |-> 0, todo |-> {}, seen |-> [l \in License |-> 0],
         fresh |-> FALSE, warning |-> {}]

Init ==
  /\ enforced \in Databases
  /\ row \in [License -> [status : {"active"}, until : Day]]
  /\ events = {} /\ again = {} /\ missed = {} /\ spent = {}
  /\ pass = [p \in Runner |-> Idle]
  /\ now = 0 /\ upsets = 0 /\ due = TRUE
  /\ sent = [w \in Warning |-> 0] /\ since = [l \in License |-> 0]

-----------------------------------------------------------------------------
(* The smallest threshold the days left are within, as a set.              *)
(* Mutant: the largest.                                                    *)
PickLargest(days) == {t \in Thresholds : days <= t /\ \A s \in Thresholds : days <= s => s <= t}
PickThreshold(days) == {t \in Thresholds : days <= t /\ \A s \in Thresholds : days <= s => t <= s}

Ending(l) == row[l].status = "active" /\ row[l].until > now /\ PickThreshold(row[l].until - now) # {}
Picked(ls, until, day) == UNION {{l} \X PickThreshold(until[l] - day) : l \in ls}

Upset(n) == upsets + n <= MaxUpsets /\ upsets' = upsets + n

(* What a pass goes on to.                                                 *)
Goes(p, at, todo, fresh, warning) ==
  pass' = [pass EXCEPT ![p] = [at |-> at, today |-> pass[p].today, todo |-> todo,
                               seen |-> pass[p].seen, fresh |-> fresh, warning |-> warning]]

(* The query of a pass.                                                    *)
Start(p) ==
  LET ls == {l \in License : Ending(l)}
      until == [l \in License |-> row[l].until]
  IN
  /\ pass[p] = Idle /\ (p = Timer => due) /\ Upset(IF p = Timer THEN 0 ELSE 1)
  /\ pass' = [pass EXCEPT ![p] = [at |-> "loop", today |-> now, todo |-> ls, seen |-> until,
                                  fresh |-> FALSE, warning |-> {}]]
  /\ due' = (due /\ p # Timer)
  /\ missed' = IF p = Timer THEN missed \ Picked(ls, until, now) ELSE missed
  /\ UNCHANGED <<enforced, row, events, now, sent, again, spent, since>>

(* What a pass has still to send, and leaves unsent when it ends before    *)
(* its time.                                                               *)
Ahead(p) == pass[p].warning \union Picked(pass[p].todo, pass[p].seen, pass[p].today)
Abort(p) ==
  /\ pass' = [pass EXCEPT ![p] = Idle]
  /\ missed' = IF p = Timer THEN missed \union Ahead(p) ELSE missed

(* _already_warned.  Mutants: not asked; events of earlier terms left out.  *)
UnsentAsPicked(ws) == ws
UnsentInTerm(ws) == {w \in ws : w \notin events \/ sent[w] = 0}
Unsent(ws) == ws \ events

InFlight(w) == \E q \in Runner : w \in pass[q].warning

(* One turn of the loop up to the mail.  A deleted license raises when its *)
(* row is loaded again.                                                    *)
Turn(p, l) ==
  LET j == pass[p]
      until == IF j.fresh THEN row[l].until ELSE j.seen[l]
      unsent == Unsent({l} \X PickThreshold(until - j.today))
  IN
  /\ j.at = "loop" /\ l \in j.todo
  /\ IF j.fresh /\ row[l].status = "gone"
     THEN Abort(p) /\ UNCHANGED again
     ELSE /\ Goes(p, IF unsent = {} THEN "loop" ELSE "send", j.todo \ {l}, j.fresh, unsent)
          /\ again' = again \union {w \in unsent : InFlight(w)}
          /\ UNCHANGED missed
  /\ UNCHANGED <<enforced, row, events, now, upsets, due, sent, spent, since>>

Counted(ws) == [w \in Warning |-> IF w \in ws /\ sent[w] < 2 THEN sent[w] + 1 ELSE sent[w]]

(* send_expiry_warning_email: dispatched; not; or so, but not known to be. *)
Dispatch(p) ==
  /\ pass[p].at = "send"
  /\ Goes(p, "record", pass[p].todo, pass[p].fresh, pass[p].warning)
  /\ sent' = Counted(pass[p].warning)
  /\ UNCHANGED <<enforced, row, events, now, upsets, due, again, missed, spent, since>>

SendFails(p, lost) ==
  LET ws == pass[p].warning IN
  /\ pass[p].at = "send" /\ Upset(1)
  /\ Goes(p, "loop", pass[p].todo, pass[p].fresh, {})
  /\ IF lost
     THEN sent' = Counted(ws) /\ again' = again \union ws /\ UNCHANGED missed
     ELSE missed' = (IF p = Timer THEN missed \union ws ELSE missed) /\ UNCHANGED <<sent, again>>
  /\ UNCHANGED <<enforced, row, events, now, due, spent, since>>

(* The event and its commit, after which every license is loaded again.    *)
Record(p) ==
  LET ws == pass[p].warning IN
  /\ pass[p].at = "record"
  /\ IF enforced /\ \E w \in ws : row[w[1]].status = "gone"
     THEN Abort(p) /\ again' = again \union ws /\ UNCHANGED events
     ELSE /\ events' = events \union ws
          /\ Goes(p, "loop", pass[p].todo, TRUE, {})
          /\ UNCHANGED <<again, missed>>
  /\ UNCHANGED <<enforced, row, now, upsets, due, sent, spent, since>>

Finish(p) ==
  /\ pass[p].at = "loop" /\ pass[p].todo = {}
  /\ pass' = [pass EXCEPT ![p] = Idle]
  /\ UNCHANGED <<enforced, row, events, now, upsets, due, history>>

(* The process dies, or a commit is refused.                               *)
Crash(p) ==
  /\ pass[p].at # "idle" /\ Upset(1) /\ Abort(p)
  /\ again' = again \union {w \in pass[p].warning : pass[p].at = "record"}
  /\ UNCHANGED <<enforced, row, events, now, due, sent, spent, since>>

-----------------------------------------------------------------------------
(* Another handler renews, shortens or edits a license, which makes it a   *)
(* term the timer sees from its next pass on; or deletes it.               *)
Change(l) ==
  /\ row[l].status # "gone" /\ Upset(1)
  /\ since' = [since EXCEPT ![l] = IF due THEN now ELSE now + 1]

SetUntil(l, u) ==
  /\ Change(l) /\ row[l].until # u
  /\ row' = [row EXCEPT ![l] = [status |-> row[l].status, until |-> u]]
  /\ sent' = [w \in Warning |-> IF w[1] = l THEN 0 ELSE sent[w]]
  /\ spent' = spent \union {w \in Warning : w[1] = l /\ (w \in events \/ \E p \in Runner : pass[p] # Idle)}
  /\ missed' = {w \in missed : w[1] # l}
  /\ UNCHANGED <<enforced, events, pass, now, due, again>>

SetStatus(l, st) ==
  /\ Change(l) /\ row[l].status # st
  /\ row' = [row EXCEPT ![l] = [status |-> st, until |-> row[l].until]]
  /\ UNCHANGED <<enforced, events, pass, now, due, sent, again, missed, spent>>

Delete(l) ==
  /\ Change(l)
  /\ row' = [row EXCEPT ![l] = [status |-> "gone", until |-> row[l].until]]
  /\ events' = {w \in events : w[1] # l}
  /\ UNCHANGED <<enforced, pass, now, due, sent, again, missed, spent>>

(* Passes end on the day they began.                                       *)
Tick ==
  /\ now < MaxTime /\ ~due /\ \A p \in Runner : pass[p] = Idle
  /\ now' = now + 1 /\ due' = TRUE
  /\ UNCHANGED <<enforced, row, events, pass, upsets, history>>

Next ==
  \/ \E p \in Runner : \/ Start(p) \/ Dispatch(p) \/ Record(p) \/ Finish(p) \/ Crash(p)
                       \/ \E l \in License : Turn(p, l)
                       \/ \E lost \in BOOLEAN : SendFails(p, lost)
  \/ \E l \in License : \/ \E u \in Day : SetUntil(l, u)
                        \/ \E st \in {"active", "other"} : SetStatus(l, st)
                        \/ Delete(l)
  \/ Tick

Spec == Init /\ [][Next]_vars

-----------------------------------------------------------------------------
(* Rows, events and what the runners hold are of their types.              *)
TypeOK ==
  /\ enforced \in BOOLEAN /\ row \in [License -> Row] /\ events \subseteq Warning
  /\ now \in Day /\ upsets \in 0..MaxUpsets /\ due \in BOOLEAN
  /\ pass \in [Runner -> Pass]
  /\ \A p \in Runner :
       /\ pass[p].at = "idle" => pass[p] = Idle
       /\ pass[p].at \in {"send", "record"} <=> pass[p].warning # {}
  /\ sent \in [Warning -> 0..2] /\ again \cup missed \cup spent \subseteq Warning
  /\ since \in [License -> 0..MaxTime + 1]

(* "Re-running is idempotent": a customer is warned of a term once for     *)
(* each threshold (until the license is deleted, which unlinks the         *)
(* events), unless the mail went out and the event was not recorded before *)
(* another look: a crash, a lost answer, two passes at a time.             *)
WarnedOnce == \A w \in Warning \ again : row[w[1]].status # "gone" => sent[w] <= 1

(* The thresholds a license's present term passes through on days that a   *)
(* pass of the timer has seen.                                             *)
Required(l) ==
  LET days == row[l].until - since[l] IN
  {l} \X {t \in Thresholds : days > 0 /\ \A s \in Thresholds : s < t => s < days}
Lapsed(l) == row[l].status = "active" /\ row[l].until <= now

(* overnight-handoff.md: the script "emails customers at three thresholds  *)
(* before their license lapses".  An active license that has lapsed, and   *)
(* whose term was longer than every threshold, was warned at each of them  *)
(* in that term, unless the timer's last pass for it failed.  The events   *)
(* are those of a license and not of a term, so the code breaks this: a    *)
(* license that was warned, was renewed in place and lapses after all is   *)
(* not warned again.                                                       *)
EveryTermIsWarned ==
  \A l \in License :
    Lapsed(l) /\ (\A t \in Thresholds : row[l].until - since[l] > t) =>
      \A t \in Thresholds : sent[<<l, t>>] > 0 \/ <<l, t>> \in missed

(* What is left of it: every threshold that no earlier term has used is    *)
(* warned at, through renewals, deletions, crashes and passes by hand.     *)
UnusedThresholdsAreWarned ==
  \A l \in License : Lapsed(l) =>
    \A w \in Required(l) : sent[w] > 0 \/ w \in missed \union spent

(* A warning whose event is there, and that no pass had picked before it    *)
(* was.                                                                     *)
Recorded(w) == w \in events /\ \A p \in Runner : w \notin pass[p].warning

(* "the dedup event is the source of truth": once the event is there no     *)
(* pass mails that warning again, in this term or a later one, by whatever  *)
(* renewals, failures, crashes and passes by hand, until the license is     *)
(* deleted, which unlinks its events.                                       *)
RecordsAreFinal ==
  [][\A w \in Warning :
       Recorded(w) => /\ sent'[w] <= sent[w]
                      /\ Recorded(w)' \/ row'[w[1]].status = "gone"]_vars

-----------------------------------------------------------------------------
(* Parts of the inductive invariant.                                       *)

Alive(w) == row[w[1]].status # "gone"

(* A warning outside again is held by one pass, has not been mailed before *)
(* that pass does, and once mailed is recorded or about to be.             *)
MailIsRecorded(w) ==
  /\ \A p, q \in Runner : w \in pass[p].warning /\ w \in pass[q].warning => p = q
  /\ Alive(w) =>
       /\ sent[w] <= 1
       /\ \A p \in Runner : w \in pass[p].warning /\ pass[p].at = "send" => sent[w] = 0
       /\ sent[w] = 1 => \/ w \in events
                         \/ \E p \in Runner : w \in pass[p].warning /\ pass[p].at = "record"
MailsAreRecorded == \A w \in Warning \ again : MailIsRecorded(w)

(* What is recorded was mailed in this term or is spent.                   *)
RecordsAreMailed ==
  \A w \in Warning :
    Alive(w) /\ (w \in events \/ \E p \in Runner : w \in pass[p].warning /\ pass[p].at = "record") =>
      sent[w] > 0 \/ w \in spent

(* The timer's pass is today's, and knows every license that has not       *)
(* changed since it began.                                                 *)
TimerIsCurrent ==
  pass[Timer].at # "idle" =>
    /\ ~due /\ pass[Timer].today = now
    /\ \A l \in License : since[l] <= now => pass[Timer].seen[l] = row[l].until
    /\ \A l \in pass[Timer].todo : pass[Timer].seen[l] > now
    /\ \A w \in pass[Timer].warning : since[w[1]] <= now => row[w[1]].until > now

(* What an active license's term picked on a day the timer has come to was *)
(* mailed, unless the timer's pass is yet to, has missed it or could not.  *)
PickedAreMailed ==
  \A l \in License, d \in Day :
    row[l].status = "active" /\ since[l] <= d /\ d < row[l].until /\ (d < now \/ (d = now /\ ~due)) =>
      \A t \in PickThreshold(row[l].until - d) :
         sent[<<l, t>>] > 0 \/ <<l, t>> \in missed \union spent \union Ahead(Timer)

ExpiryInv == TypeOK /\ MailsAreRecorded /\ RecordsAreMailed /\ TimerIsCurrent /\ PickedAreMailed

=============================================================================
