SPECIFICATION LivelySpec
CONSTANTS
  Jobs = {j1, j2}
  SmsJobs = {j2}
  Workers = {w1}
  Tokens = {t1, t2}
  NoToken = NoToken
  NoJob = NoJob
  NoLease = NoLease
  MaxAttempts = 2
  BatchLimit = 2
  Responses = {"network_failure", "accepted", "accepted_unreadable", "server_error", "rejected"}
INVARIANTS CompletedWasDelivered
PROPERTIES LivesTheLifecycle SendingIsDecided EventuallySettled
