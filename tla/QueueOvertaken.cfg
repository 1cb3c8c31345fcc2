\* One agent; every handler runs to its end, refreshes overlap.
SPECIFICATION QueueSpec
CONSTANTS
  TaskIds = {t1}
  Agents = {a1}
  Issues = {i1}
  Chats = {}
  Runtimes = {r1}
  MaxAttempts = 2
  None = None
  Handlers = {h1, h2}
  QueuedLinks <- IssueOnly
  MaxConcurrentTasks = 1
  MayDrop = FALSE
  MayArchive = FALSE
  ReportsFailures = TRUE
SYMMETRY Symm
INVARIANT NoStaleWorking
CHECK_DEADLOCK FALSE
