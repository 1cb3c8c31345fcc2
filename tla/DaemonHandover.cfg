\* The promise of the logout handler, without exceptions.
SPECIFICATION DaemonSpec
CONSTANTS
  Users = {ua, ub}
  None = None
  Owner = ua
  MaxCalls = 2
  MaxEvents = 2
  MayFail = FALSE
INVARIANT NoInheritedCredentials
CHECK_DEADLOCK FALSE
