SPECIFICATION MCSpec
CONSTANTS
  Short = j1
  Long = j2
  Email = j3
  Jobs = {j1, j2, j3}
  SmsJobs = {j1, j2}
  Worker1 = w1
  Workers = {w1, w2}
  Tokens = {t1, t2, t3}
  NoToken = NoToken
  NoJob = NoJob
  NoLease = NoLease
  MaxAttempts = 2
  BatchLimit = 2
  Responses = {"network_failure", "accepted", "accepted_unexpected"}
  Segments <- MCSegments
  Allowance = 2
  LastPeriod = 2
  Short1 = s1
  Short2 = s2
  Short3 = s3
  Long1 = l1
  Attempts = {s1, s2, s3, l1}
  LedgerSegments <- MCLedgerSegments
  LedgerAllowance = 7
  Nobody = Nobody
  Sessions = 2
  Processes = {p1, p2, p3, p4}
  Fourth = p4
  Mortal = {p1, p2, p3}
  NoProcess = NoProcess
  MaxClaimants = 5
  Kept = Kept
  Environment = Environment
  OriginConfigs = {application}
  SecretFiles = {jobs}
  Generations = {2, 3}
  MaxRuns = 3
  Bindings = {"AUTH_DB", "WORKER_DB"}
  Configs = {"application", "jobs"}
  ConfigOf <- MCConfigOf
  MaxResources = 3
INVARIANTS ReservationsFollowOutbox DeliveredIsCharged DeliveredOnceUnderLease
  DeadLetterNeverArrived
  NeverOvercommitted HoldersOwnTheLock TwoDeathsAreRecovered
  SuccessorIsNamed NothingIsInTheWay
  NothingLeftBehind AtMostOneCreate CleanupIsOwn
PROPERTIES FencedByLease RotatesAtomically ClaimIsHandedOver
CHECK_DEADLOCK FALSE
