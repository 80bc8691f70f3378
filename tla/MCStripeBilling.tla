---------------------------- MODULE MCStripeBilling ----------------------------
(* Instances of StripeBilling for TLC.                                     *)
EXTENDS StripeBilling

CONSTANTS p1, p2, d1, c1, c2, m1, m2

\* A customer who pays twice and cancels.  The other Stripe id enters when
\* an admin sets it.
MCEvent == {p1, p2, d1}
MCEventOne == {p1}
MCPaidOne == {p1}
MCPaid == {p1, p2}
MCDeleted == {d1}
MCNone == {}
MCCustomer == {c1, c2}
MCPayer == [e \in Event |-> c1]
MCEmail == {m1, m2}
MCMailOf == [c \in Customer |-> IF c = c1 THEN m1 ELSE m2]
MCAdminEmail == {m1}
=============================================================================
