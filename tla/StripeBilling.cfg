\* One paying customer, three events in any order, two licenses, an admin who
\* issues and edits, a crash, two days with a period of one.
SPECIFICATION FairSpec
CONSTANTS
  p1 = p1
  p2 = p2
  d1 = d1
  c1 = c1
  c2 = c2
  m1 = m1
  m2 = m2
  Unlinked = unlinked
  NoRow = norow
  Event <- MCEvent
  Paid <- MCPaid
  Failed <- MCNone
  Deleted <- MCDeleted
  Customer <- MCCustomer
  Payer <- MCPayer
  Email <- MCEmail
  MailOf <- MCMailOf
  AdminEmail <- MCAdminEmail
  Period = 1
  MaxTime = 2
  MaxLicenses = 2
  MaxEdits = 1
  MaxCrashes = 1
CHECK_DEADLOCK FALSE
INVARIANTS
  PaidForExactly
  RenewalsPreserveKeys
  MailedKeysExist
PROPERTIES
  ImplementsLedger
  OnlyAdminsUnblock
  UnblockedPaymentsAreApplied
