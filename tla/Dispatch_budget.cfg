SPECIFICATION Spec
CONSTANTS
  Jobs = {j1}
  SmsJobs = {j1}
  Workers = {w1}
  Tokens = {t1, t2}
  NoToken = NoToken
  NoJob = NoJob
  NoLease = NoLease
  MaxAttempts = 1
  BatchLimit = 1
  Responses = {"network_failure", "accepted", "accepted_unreadable", "server_error", "rejected"}
INVARIANTS RetryHasBudget
