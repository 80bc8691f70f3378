----------------------------- MODULE PaymentLedger -----------------------------
(***************************************************************************)
(* What the Stripe webhook promises a customer who pays, without handlers, *)
(* reads, crashes or repeats.  Each event is booked once.  An invoice adds *)
(* one period to the term of the one license that the customer's invoices  *)
(* alone have paid for; nobody else's event changes that term, and nothing *)
(* shortens it, until an admin has a hand in the license.                  *)
(***************************************************************************)
EXTENDS Integers

CONSTANTS Event, Paid, Customer, Payer, Period

VARIABLES booked,  \* events whose effect is final
          term,    \* the day up to which each customer has paid
          now

vars == <<booked, term, now>>

Unpaid == -1    \* the customer has nothing yet: the next invoice opens a term
NoTerm == -2    \* an admin, or another customer of the address, has a hand in it

Init ==
  /\ booked = {}
  /\ term = [c \in Customer |-> Unpaid]
  /\ now = 0

InvoicesOf(c) == {e \in booked \intersect Paid : Payer[e] = c}

(* Where a payment takes a term.  A booking may be decided some days before *)
(* it is final, and a term that has lapsed starts again.                    *)
After(t) ==
  CASE t = NoTerm -> {NoTerm}
    [] t = Unpaid -> {day + Period : day \in 0..now}
    [] OTHER      -> {day + Period : day \in {t} \union t..now}

Book(e) ==
  /\ e \notin booked
  /\ booked' = booked \union {e}
  /\ term' \in [Customer -> Int]
  /\ e \notin Paid => UNCHANGED term
  /\ e \in Paid =>
       /\ term'[Payer[e]] \in After(term[Payer[e]])
       /\ \A c \in Customer \ {Payer[e]} :
            term'[c] = term[c] \/ (term[c] = Unpaid /\ term'[c] = NoTerm)
  /\ UNCHANGED now

(* An admin issues, edits or relinks licenses of customers, which ends     *)
(* their terms, or leaves one without a license as if he were new.         *)
Interfere ==
  /\ term' \in [Customer -> Int]
  /\ \A c \in Customer : \/ term'[c] \in {term[c], NoTerm}
                         \/ term'[c] = Unpaid /\ InvoicesOf(c) = {}
  /\ UNCHANGED <<booked, now>>

NewDay == now' = now + 1 /\ UNCHANGED <<booked, term>>

Next == (\E e \in Event : Book(e)) \/ Interfere \/ NewDay

Spec == Init /\ [][Next]_vars

=============================================================================
