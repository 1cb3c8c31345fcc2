\* Two agents on one issue; the daemons go silent, the sweepers clean up.
SPECIFICATION QueueSpec
CONSTANTS
  TaskIds = {t1, t2, t3}
  Agents = {a1, a2}
  Issues = {i1}
  Chats = {}
  Runtimes = {r1}
  MaxAttempts = 2
  None = None
  Handlers = {h1, h2}
  QueuedLinks <- IssueOnly
  MaxConcurrentTasks = 1
  MayDrop = FALSE
  MayArchive = FALSE
  ReportsFailures = FALSE
SYMMETRY Symm
INVARIANTS NoStuckIssue StatusReconciled
CHECK_DEADLOCK FALSE
