\* Two claims and two enqueues on two runtimes; failed reads, no lost bump, no merge.
SPECIFICATION ClaimSpec
CONSTANTS
  Rows = {t1, t2}
  Runtimes = {r1, r2}
  Claims = {c1, c2}
  None = None
  MayLoseBump = FALSE
  MayMerge = FALSE
SYMMETRY Symm
INVARIANTS ClaimTypeOK QueuedIsClaimable VerdictSound
CHECK_DEADLOCK FALSE
