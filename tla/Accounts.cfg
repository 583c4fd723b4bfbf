SPECIFICATION MCSpec
CONSTANTS
  Attempts = {a1, a2}
  Null = Null
  StrictClock = TRUE
  LastSecond = 1
  MaxEvents = 5
  Revokers = {v1, v2}
  Retired = {t1}
  MaxRevocations = 2
  RevocationLimit = 2
  NoRevoker = NoRevoker
  NoToken = NoToken
  None = None
  Olga = Olga
  Anna = Anna
  Here = Here
  There = There
  Front = Front
  Back = Back
  Away = Away
  Accounts = {Olga, Anna}
  RoleOf <- MCRoleOf
  OwnBusiness <- MCOwnBusiness
  Clients = {Here, There}
  Places = {Front, Back, Away}
  PlaceOf <- MCPlaceOf
  MainPlace <- MCMainPlace
  Links <- MCLinks
  Returns <- MCReturns
  Earlier <- MCEarlier
  MaxMoves = 2
  MaxSupport = 2
INVARIANTS ActiveIsPaid StaleUpdatesAreFenced
  DeletedIsRevoked
  TenantWasGranted
PROPERTIES PayingGetsActive
  RevocationIsDecided
  LoadsServeTheRoute RoutesSettle
CHECK_DEADLOCK FALSE
