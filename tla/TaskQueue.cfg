\* Two handlers and two chat tasks, under every disturbance: handlers are dropped, agents
\* archived and restored, deliveries lost, refreshes overlap.
SPECIFICATION FairQueueSpec
CONSTANTS
  TaskIds = {t1, t2}
  Agents = {a1}
  Issues = {}
  Chats = {c1}
  Runtimes = {r1}
  MaxAttempts = 2
  None = None
  Handlers = {h1, h2}
  QueuedLinks <- ChatOnly
  MaxConcurrentTasks = 1
  MayDrop = TRUE
  MayArchive = TRUE
  ReportsFailures = TRUE
INVARIANTS QueueTypeOK SingleRetry StatusReconciled CapacityOvershoot
PROPERTIES Settles ServiceUsesTable
CHECK_DEADLOCK FALSE
