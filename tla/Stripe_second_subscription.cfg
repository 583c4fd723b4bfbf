SPECIFICATION BillingSpec
CONSTANTS
  Attempts = {a1, a2}
  Null = Null
  StrictClock = TRUE
  LastSecond = 1
  MaxEvents = 6
INVARIANTS OwnEventsAreRecordable
CHECK_DEADLOCK FALSE
