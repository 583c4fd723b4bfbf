SPECIFICATION LedgerSpec
CONSTANTS
  Short1 = s1
  Short2 = s2
  Short3 = s3
  Long1 = l1
  Attempts = {s1, s2, s3, l1}
  LedgerSegments <- MCLedgerSegments
  LedgerAllowance = 7
  Nobody = Nobody
  Sessions = 2
INVARIANTS AlertsAreComplete
CHECK_DEADLOCK FALSE
