\* Two calls in flight besides the daemon; two logins, clicks, faults or tasks.
SPECIFICATION DaemonSpec
CONSTANTS
  Users = {ua, ub}
  None = None
  Owner = ua
  MaxCalls = 2
  MaxEvents = 2
  MayFail = TRUE
INVARIANTS DaemonTypeOK CredentialsFollowUser
PROPERTIES StatusConverges DeferredRestartFires
CHECK_DEADLOCK FALSE
