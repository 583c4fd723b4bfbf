SPECIFICATION MCSpec
CONSTANTS
  Home = Home
  Branch = Branch
  Ann = Ann
  First = r1
  Second = r2
  Requests = {r1, r2}
  Locations = {Home}
  Destinations = {Ann}
  LocationOf <- OneLocation
  DestinationOf <- SameCustomer
  MaxMessages <- OneFollowUp
  HourlyLimit = 2
  FrequencyMax = 1
  Hour = 2
  Gap = 2
  Window = 2
  Closed = {1}
  PayloadLife = 3
  Horizon = 3
  LockWait = 1
  NoLocation = NoLocation
  SyncWorkers = {w1, w2}
  Shop = Shop
  Other = Other
  Old = v1
  Profiles = {Shop, Other}
  Reviews = {v1}
  ReviewsOf <- MCReviewsOf
  Grants = {g1, g2}
  NoProfile = NoProfile
  NoGrant = NoGrant
  NoWorker = NoWorker
  Salon = Salon
  Olga = Olga
  Otto = Otto
  Amy = Amy
  Users = {Olga, Otto, Amy}
  Businesses = {Salon}
  Places = {Home, Branch}
  BusinessOf <- MCBusinessOf
  Owners <- MCOwners
  AgencyStaff = {Amy}
  AgencyManagers = {Amy}
  ClientGrants = {k1, k2}
  Claims = {c1}
  Tabs = {"first", "second"}
  UserOf <- MCUserOf
  MaxChanges = 2
  NoUser = NoUser
  NoPlace = NoPlace
  NotGranted = NotGranted
  NoClaim = NoClaim
  NoBusiness = NoBusiness
  Addresses = {a1}
  Intents = {i1, i2, i3}
  MailLimit = 2
INVARIANTS OneMessageAtATime LiveRequestsHaveWork DestinationCapKept GapKept
  DisconnectErases SecretsAreOfOneGrant
  BusinessKeepsAnOwner ClaimGivesAccessOnce MailsAreLimited OneAccountPerAddress
PROPERTIES SuccessIsTheListing HintsSurviveSuccess ReconnectNeedsConsent
CHECK_DEADLOCK FALSE
