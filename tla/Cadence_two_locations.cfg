SPECIFICATION Spec
CONSTANTS
  Home = Home
  Branch = Branch
  Ann = Ann
  First = r1
  Second = r2
  Requests = {r1, r2}
  Locations = {Home, Branch}
  Destinations = {Ann}
  LocationOf <- TwoLocations
  DestinationOf <- SameCustomer
  MaxMessages <- NoFollowUp
  HourlyLimit = 2
  FrequencyMax = 1
  Hour = 1
  Gap = 1
  Window = 2
  Closed = {}
  PayloadLife = 4
  Horizon = 1
  LockWait = 1
  NoLocation = NoLocation
INVARIANTS DestinationCapKept
CHECK_DEADLOCK FALSE
