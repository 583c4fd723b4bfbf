SPECIFICATION TransactionSpec
CONSTANTS
  Kept = Kept
  Environment = Environment
  OriginConfigs = {application}
  SecretFiles = {jobs}
  Generations = {2, 3}
  MaxRuns = 1
INVARIANTS ReportsTruthfully
CHECK_DEADLOCK FALSE
