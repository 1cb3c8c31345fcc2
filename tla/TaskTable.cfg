\* One agent, one issue, one chat session, two runtimes, three rows.
SPECIFICATION TableSpec
CONSTANTS
  TaskIds = {t1, t2, t3}
  Agents = {a1}
  Issues = {i1}
  Chats = {c1}
  Runtimes = {r1, r2}
  MaxAttempts = 2
  None = None
SYMMETRY Symm
INVARIANTS TableTypeOK IssueSingleFlight RetryLineage
PROPERTIES OutcomeIsFinal ImplementsSingleFlight
CHECK_DEADLOCK FALSE
