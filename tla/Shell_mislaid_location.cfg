SPECIFICATION FairShellSpec
CONSTANTS
  None = None
  Olga = Olga
  Anna = Anna
  Here = Here
  There = There
  Front = Front
  Back = Back
  Away = Away
  Accounts = {Olga, Anna}
  RoleOf <- MCRoleOf
  OwnBusiness <- MCOwnBusiness
  Clients = {Here, There}
  Places = {Front, Back, Away}
  PlaceOf <- MCPlaceOf
  MainPlace <- MCMainPlace
  Links <- MCMislaid
  Returns = {}
  Earlier <- NoEarlier
  MaxMoves = 1
  MaxSupport = 2
PROPERTIES OpeningEnds
CHECK_DEADLOCK FALSE
