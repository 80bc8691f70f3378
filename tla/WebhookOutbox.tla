---------------------------- MODULE WebhookOutbox ----------------------------
(***************************************************************************)
(* What the durable webhook queue promises its callers, without sessions,  *)
(* timers or rows: an event accepted with a committed transaction is owed  *)
(* to its receiver until the receiver has it or the retry schedule is      *)
(* used up, and an operator may put a settled event back.                  *)
(***************************************************************************)
EXTENDS Integers

CONSTANTS Event,        \* webhook events that may be enqueued
          MaxAttempts   \* sends after which the schedule is used up

VARIABLES accepted,  \* events whose transaction committed
          owed,      \* accepted events the server still has to deliver
          got,       \* events the receiver has seen at least once
          tries      \* sends of each event, counted up to MaxAttempts

vars == <<accepted, owed, got, tries>>

Init ==
  /\ accepted = {}
  /\ owed = {}
  /\ got = {}
  /\ tries = [e \in Event |-> 0]

Accept(e) ==
  /\ e \notin accepted
  /\ accepted' = accepted \union {e}
  /\ owed' = owed \union {e}
  /\ UNCHANGED <<got, tries>>

(* A send that was under way when the event was settled still goes out, so *)
(* the receiver may see an event more than once, even after the server     *)
(* stopped owing it.                                                       *)
Try(e) ==
  /\ e \in accepted
  /\ tries' = [tries EXCEPT ![e] = IF @ < MaxAttempts THEN @ + 1 ELSE @]
  /\ got' \in {got, got \union {e}}
  /\ UNCHANGED <<accepted, owed>>

Settle(e) ==
  /\ e \in owed
  /\ e \in got \/ tries[e] = MaxAttempts
  /\ owed' = owed \ {e}
  /\ UNCHANGED <<accepted, got, tries>>

Reopen(e) ==
  /\ e \in accepted \ owed
  /\ owed' = owed \union {e}
  /\ UNCHANGED <<accepted, got, tries>>

Next == \E e \in Event : Accept(e) \/ Try(e) \/ Settle(e) \/ Reopen(e)

Spec == Init /\ [][Next]_vars

(* Every event that is owed is eventually settled: no committed event      *)
(* stays pending for ever.                                                 *)
EveryEventSettles == \A e \in Event : e \in owed ~> e \notin owed

=============================================================================
