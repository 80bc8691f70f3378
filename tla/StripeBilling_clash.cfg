\* One invoice, and an admin who may issue a license to the same address.
SPECIFICATION FairSpec
CONSTANTS
  p1 = p1
  p2 = p2
  d1 = d1
  c1 = c1
  c2 = c2
  m1 = m1
  m2 = m2
  Unlinked = unlinked
  NoRow = norow
  Event <- MCEventOne
  Paid <- MCPaidOne
  Failed <- MCNone
  Deleted <- MCNone
  Customer <- MCCustomer
  Payer <- MCPayer
  Email <- MCEmail
  MailOf <- MCMailOf
  AdminEmail <- MCAdminEmail
  Period = 1
  MaxTime = 1
  MaxLicenses = 2
  MaxEdits = 0
  MaxCrashes = 0
CHECK_DEADLOCK FALSE
PROPERTIES
  PaymentsAreApplied
