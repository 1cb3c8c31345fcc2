\* Lost bumps, lost responses, merged runtimes.
SPECIFICATION FairClaimSpec
CONSTANTS
  Rows = {t1}
  Runtimes = {r1, r2}
  Claims = {c1}
  None = None
  MayLoseBump = TRUE
  MayMerge = TRUE
PROPERTY QueuedIsDelivered
CHECK_DEADLOCK FALSE
