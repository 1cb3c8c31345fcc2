------------------------------ MODULE TaskQueue ------------------------------
(***************************************************************************)
(* The task service (server/internal/service/task.go) on top of the table. *)
(* A handler is one goroutine inside the service: an HTTP request of a     *)
(* user or a daemon, or a sweeper tick.  Only single SQL statements are    *)
(* atomic, so a handler is a program counter between two statements, and   *)
(* what it read may be stale when it is used.  Agents derive a status from *)
(* their tasks, issues a status that the sweepers roll back.               *)
(***************************************************************************)
EXTENDS TaskTable

CONSTANTS
  Handlers,           \* goroutines inside the service (bounds the model)
  QueuedLinks,        \* the kinds of task the clients ask for (bounds the model)
  MaxConcurrentTasks, \* column agent.max_concurrent_tasks
  MayDrop,            \* a request context may be cancelled, or the process die
  MayArchive,         \* ArchiveAgent requests occur
  ReportsFailures     \* daemons call FailTask, rather than only go silent

ASSUME TaskQueueAssumption ==
  /\ IsFiniteSet(Handlers)
  /\ QueuedLinks \subseteq EnqueuedLinks
  /\ MaxConcurrentTasks \in Nat \ {0}
  /\ {MayDrop, MayArchive, ReportsFailures} \subseteq BOOLEAN

VARIABLES
  handler,      \* where each handler is, and its local variables
  agentStatus,  \* column agent.status
  archived,     \* column agent.archived_at
  issueStatus,  \* column issue.status
  overtaken,    \* history: handlers whose refresh another one got ahead of
  missed        \* history: agents whose last needed refresh was lost

history     == <<overtaken, missed>>
serviceVars == <<agentStatus, archived, issueStatus, history>>
queueVars   == <<tableVars, handler, serviceVars>>

-----------------------------------------------------------------------------
OwnedBy(a) == {t \in RowsWith(Owned) : task[t].agent = a}

DerivedStatusAvailable(a) ==    \* mutant: a status the column does not have
  IF OwnedBy(a) # {} THEN "working" ELSE "available"

(* RefreshAgentStatusFromTasks, read off the table.                        *)
DerivedStatus(a) == IF OwnedBy(a) # {} THEN "working" ELSE "idle"

Idle == [pc |-> "idle", agent |-> None, link |-> NoLink, row |-> None, left |-> {},
         agents |-> {}, processed |-> {}, retried |-> {}, seen |-> "idle"]

Goto(h, next) == handler' = [handler EXCEPT ![h] = next]

(* The last part of every handler: ReconcileAgentStatus on each agent.     *)
ThenReconcile(h, A) ==
  Goto(h, IF A = {} THEN Idle ELSE [Idle EXCEPT !.pc = "reconcile", !.agents = A])

At(h, pc) == handler[h].pc = pc

AgentsOf(S) == {task[t].agent : t \in S}

(* h has yet to refresh the status of a, from what it has yet to read or   *)
(* from a reading that is still right.                                     *)
WillReconcile(h, a) ==
  /\ \/ a \in handler[h].agents \cup AgentsOf(handler[h].left)
     \/ At(h, "retry") /\ task[handler[h].row].agent = a
  /\ At(h, "refresh") /\ handler[h].agent = a => handler[h].seen = DerivedStatus(a)

(* The refreshes of A under way may now write an outdated reading last.    *)
Overtakes(h, A) ==
  overtaken' = (overtaken \cup {g \in Handlers : At(g, "refresh") /\ handler[g].agent \in A})
                 \ {h}

(* h leaves the agents of A without the refresh they are due.              *)
Neglects(h, A) == missed' = missed \cup A /\ Overtakes(h, A)

-----------------------------------------------------------------------------
(* enqueueIssueTask and the other enqueue paths: guard, then INSERT.       *)

EnqueueRead(h, a, l) ==
  /\ At(h, "idle") /\ ~archived[a]
  /\ Goto(h, [Idle EXCEPT !.pc = "enqueue", !.agent = a, !.link = l])
  /\ UNCHANGED <<tableVars, serviceVars>>

EnqueueInsert(h, t, r) ==
  /\ At(h, "enqueue")
  /\ CreateAgentTask(t, handler[h].agent, r, handler[h].link)
  /\ Goto(h, Idle)
  /\ UNCHANGED serviceVars

(* The INSERT fails: unique violation or database error.                   *)
EnqueueFail(h) ==
  /\ At(h, "enqueue")
  /\ Goto(h, Idle)
  /\ UNCHANGED <<tableVars, serviceVars>>

-----------------------------------------------------------------------------
(* ClaimTask: count, then claim, then reconcile.                           *)

ClaimCountOffByOne(h, a) ==     \* mutant: <= for <
  /\ At(h, "idle")
  /\ \E t \in RowsWith({"queued"}) : task[t].agent = a
  /\ Cardinality(OwnedBy(a)) <= MaxConcurrentTasks
  /\ Goto(h, [Idle EXCEPT !.pc = "counted", !.agent = a])
  /\ UNCHANGED <<tableVars, serviceVars>>

ClaimCount(h, a) ==
  /\ At(h, "idle")
  /\ \E t \in RowsWith({"queued"}) : task[t].agent = a
  /\ Cardinality(OwnedBy(a)) < MaxConcurrentTasks
  /\ Goto(h, [Idle EXCEPT !.pc = "counted", !.agent = a])
  /\ UNCHANGED <<tableVars, serviceVars>>

ClaimTake(h, t) ==
  /\ At(h, "counted")
  /\ ClaimSelect(handler[h].agent, t)
  /\ Goto(h, [handler[h] EXCEPT !.pc = "locked", !.row = t])
  /\ UNCHANGED serviceVars

ClaimNothing(h) ==
  /\ At(h, "counted")
  /\ \A t \in TaskIds \ rowLock : ~(task[t].agent = handler[h].agent /\ Claimable(t))
  /\ Goto(h, Idle)
  /\ UNCHANGED <<tableVars, serviceVars>>

ClaimDispatch(h) ==
  /\ At(h, "locked")
  /\ ClaimUpdate(handler[h].row)
  /\ ThenReconcile(h, {handler[h].agent})
  /\ UNCHANGED serviceVars

(* ClaimTaskForRuntime looks for a lost delivery first and then goes       *)
(* through none of the above.                                              *)
Redeliver(h, t) ==
  /\ At(h, "idle")
  /\ ReclaimStaleDispatchedTaskForRuntime(t)
  /\ Goto(h, [Idle EXCEPT !.pc = "respond", !.row = t])
  /\ UNCHANGED serviceVars

(* The daemon gets the task, or does not; it starts it later, or never.    *)
Respond(h) ==
  /\ At(h, "respond")
  /\ Goto(h, Idle)
  /\ UNCHANGED <<tableVars, serviceVars>>

-----------------------------------------------------------------------------
(* Daemon endpoints.                                                       *)

StartTask(t) ==
  /\ StartAgentTask(t)
  /\ UNCHANGED <<handler, serviceVars>>

MarkTaskWaitingLocalDirectory(t) ==
  /\ MarkAgentTaskWaitingLocalDirectory(t)
  /\ UNCHANGED <<handler, serviceVars>>

CompleteTask(h, t) ==
  /\ At(h, "idle")
  /\ CompleteAgentTask(t)
  /\ ThenReconcile(h, {task[t].agent})
  /\ UNCHANGED serviceVars

ReportedReasons == Reasons \ {"runtime_offline", "runtime_recovery", "queued_expired"}

FailTaskAgain(h, t, reason) ==  \* mutant: "already finalized" is not an early return
  /\ ReportsFailures
  /\ At(h, "idle")
  /\ IF task[t].status = "failed" THEN UNCHANGED tableVars ELSE FailAgentTask(t, reason)
  /\ Goto(h, [Idle EXCEPT !.pc = "retry", !.row = t])
  /\ UNCHANGED serviceVars

FailTask(h, t, reason) ==
  /\ ReportsFailures
  /\ At(h, "idle")
  /\ FailAgentTask(t, reason)
  /\ Goto(h, [Idle EXCEPT !.pc = "retry", !.row = t])
  /\ UNCHANGED serviceVars

(* MaybeRetryFailedTask(p): inserts a child, or not.  An exhausted TaskIds *)
(* stands for the database error the code ignores.                         *)
RetriedAlways(p) ==             \* mutant: neither reason nor attempts are checked
  task[p].status = "failed" /\ \E c \in TaskIds : CreateRetryTask(p, c)

Retried(p)  == RetryEligible(p) /\ \E c \in TaskIds : CreateRetryTask(p, c)
NotRetried(p) ==
  /\ \/ ~RetryEligible(p)
     \/ ~PendingSlotFree(task[p].agent, task[p].link.issue)
     \/ RowsWith({"absent"}) = {}
  /\ UNCHANGED tableVars

FailTaskRetryReturns(h) ==      \* mutant: returns once a retry is inserted
  /\ At(h, "retry")
  /\ \/ Retried(handler[h].row) /\ Goto(h, Idle)
     \/ NotRetried(handler[h].row) /\ ThenReconcile(h, {task[handler[h].row].agent})
  /\ UNCHANGED serviceVars

FailTaskRetry(h) ==
  /\ At(h, "retry")
  /\ Retried(handler[h].row) \/ NotRetried(handler[h].row)
  /\ ThenReconcile(h, {task[handler[h].row].agent})
  /\ UNCHANGED serviceVars

(* The agent's CLI moves its issue while it runs.                          *)
AgentStartsIssue(t) ==
  /\ task[t].status = "running" /\ task[t].link.issue # None
  /\ issueStatus' = [issueStatus EXCEPT ![task[t].link.issue] = "in_progress"]
  /\ UNCHANGED <<tableVars, handler, agentStatus, archived, history>>

-----------------------------------------------------------------------------
(* HandleFailedTasks on the rows S a bulk statement returned.              *)

HandleFailedTasks(h, S) ==
  /\ At(h, "idle")
  /\ Goto(h, [Idle EXCEPT !.pc = "batch", !.left = S])
  /\ UNCHANGED serviceVars

Sweep(h) ==
  \/ \E R \in SUBSET Runtimes :
       FailTasksForOfflineRuntimes(R) /\ HandleFailedTasks(h, OwnedOnRuntimes(R))
  \/ \E r \in Runtimes :
       RecoverOrphanedTasksForRuntime(r) /\ HandleFailedTasks(h, OwnedOnRuntimes({r}))
  \/ \E S \in SUBSET TaskIds : /\ FailStaleTasks(S) \/ ExpireStaleQueuedTasks(S)
                               /\ HandleFailedTasks(h, S)

BatchRetryAssumed(h, t) ==      \* mutant: the error of the insert is not looked at
  LET me == handler[h]
      i  == task[t].link.issue
  IN /\ At(h, "batch") /\ t \in me.left
     /\ Retried(t) \/ NotRetried(t)
     /\ Goto(h, [me EXCEPT !.pc = IF i = None THEN "batch" ELSE "issue",
                           !.row = t,
                           !.left = me.left \ {t},
                           !.agents = me.agents \cup {task[t].agent},
                           !.retried = IF RetryEligible(t) THEN me.retried \cup {i}
                                                           ELSE me.retried])
     /\ UNCHANGED serviceVars

(* One iteration of the loop: the retry comes first.                       *)
BatchRetry(h, t) ==
  LET me == handler[h]
      i  == task[t].link.issue
      next(kept) == [me EXCEPT !.pc = IF i = None THEN "batch" ELSE "issue",
                               !.row = t,
                               !.left = me.left \ {t},
                               !.agents = me.agents \cup {task[t].agent},
                               !.retried = me.retried \cup kept]
  IN /\ At(h, "batch") /\ t \in me.left
     /\ \/ Retried(t) /\ Goto(h, next({i} \ {None}))
        \/ NotRetried(t) /\ Goto(h, next({}))
     /\ UNCHANGED serviceVars

(* GetIssue, and whether this batch has dealt with the issue already.      *)
BatchIssue(h) ==
  LET me == handler[h]
      i  == task[me.row].link.issue
  IN /\ At(h, "issue")
     /\ IF issueStatus[i] = "in_progress" /\ i \notin me.processed \cup me.retried
        THEN Goto(h, [me EXCEPT !.pc = "active", !.processed = me.processed \cup {i}])
        ELSE Goto(h, [me EXCEPT !.pc = "batch"])
     /\ UNCHANGED <<tableVars, serviceVars>>

(* HasActiveTaskForIssue.                                                  *)
BatchActive(h) ==
  LET me == handler[h]
  IN /\ At(h, "active")
     /\ Goto(h, [me EXCEPT !.pc = IF ActiveOfIssue(task[me.row].link.issue) = {}
                                  THEN "reset" ELSE "batch"])
     /\ UNCHANGED <<tableVars, serviceVars>>

(* UpdateIssueStatus(todo).                                                *)
BatchReset(h) ==
  /\ At(h, "reset")
  /\ issueStatus' = [issueStatus EXCEPT ![task[handler[h].row].link.issue] = "todo"]
  /\ Goto(h, [handler[h] EXCEPT !.pc = "batch"])
  /\ UNCHANGED <<tableVars, agentStatus, archived, history>>

BatchEndLastAgent(h) ==         \* mutant: the loop's last task for all its agents
  /\ At(h, "batch") /\ handler[h].left = {}
  /\ ThenReconcile(h, {task[handler[h].row].agent})
  /\ UNCHANGED <<tableVars, serviceVars>>

BatchEnd(h) ==
  /\ At(h, "batch") /\ handler[h].left = {}
  /\ ThenReconcile(h, handler[h].agents)
  /\ UNCHANGED <<tableVars, serviceVars>>

-----------------------------------------------------------------------------
(* Cancels.  Every one reconciles the agents of the rows it cancelled...   *)

CancelSets ==
  {{t} : t \in RowsWith(Active)} \cup {ActiveOfIssue(i) : i \in Issues}
    \cup {ActiveOfIssue(i) \cap ActiveOfAgent(a) : i \in Issues, a \in Agents}
    \cup {ActiveOfAgent(a) : a \in Agents} \cup {ActiveOfChat(c) : c \in Chats}

Cancel(h, S) ==
  /\ At(h, "idle")
  /\ CancelRows(S)
  /\ ThenReconcile(h, AgentsOf(S))
  /\ UNCHANGED serviceVars

(* ... but ArchiveAgent, which leaves the status as it is.                 *)
ArchiveAgent(h, a) ==
  /\ MayArchive
  /\ At(h, "idle") /\ ~archived[a]
  /\ archived' = [archived EXCEPT ![a] = TRUE]
  /\ Goto(h, [Idle EXCEPT !.pc = "archive", !.agent = a])
  /\ UNCHANGED <<tableVars, agentStatus, issueStatus, history>>

ArchiveCancel(h) ==
  LET S == ActiveOfAgent(handler[h].agent)
  IN /\ At(h, "archive")
     /\ IF S = {} THEN UNCHANGED tableVars ELSE CancelRows(S)
     /\ Neglects(h, AgentsOf(S))
     /\ Goto(h, Idle)
     /\ UNCHANGED <<agentStatus, archived, issueStatus>>

RestoreAgent(a) ==
  /\ archived[a]
  /\ archived' = [archived EXCEPT ![a] = FALSE]
  /\ UNCHANGED <<tableVars, handler, agentStatus, issueStatus, history>>

-----------------------------------------------------------------------------
(* ReconcileAgentStatus, one UPDATE: it evaluates EXISTS on its snapshot   *)
(* and may then wait for the agent row, so that a refresh which read       *)
(* earlier can write last.                                                 *)

RefreshRead(h, a) ==
  /\ At(h, "reconcile") /\ a \in handler[h].agents
  /\ Goto(h, [handler[h] EXCEPT !.pc = "refresh", !.agent = a, !.seen = DerivedStatus(a)])
  /\ UNCHANGED <<tableVars, serviceVars>>

RefreshWrite(h) ==
  LET a    == handler[h].agent
      seen == handler[h].seen
  IN /\ At(h, "refresh")
     /\ agentStatus' = [agentStatus EXCEPT ![a] = seen]
     /\ missed' = IF h \in overtaken /\ seen # DerivedStatus(a)
                  THEN missed \cup {a} ELSE missed \ {a}
     /\ Overtakes(h, {a})
     /\ ThenReconcile(h, handler[h].agents \ {a})
     /\ UNCHANGED <<tableVars, archived, issueStatus>>

(* A dropped handler: what it had not done yet is never done.              *)
Drop(h) ==
  /\ MayDrop
  /\ handler[h].pc # "idle"
  /\ IF At(h, "locked") THEN ClaimAbort(handler[h].row) ELSE UNCHANGED tableVars
  /\ Neglects(h, {a \in Agents : WillReconcile(h, a)})
  /\ Goto(h, Idle)
  /\ UNCHANGED <<agentStatus, archived, issueStatus>>

-----------------------------------------------------------------------------
QueueInit ==
  /\ TableInit
  /\ handler = [h \in Handlers |-> Idle]
  /\ agentStatus = [a \in Agents |-> "idle"]
  /\ archived = [a \in Agents |-> FALSE]
  /\ issueStatus = [i \in Issues |-> "todo"]
  /\ overtaken = {} /\ missed = {}

(* A handler between two of its statements.                                *)
HandlerStep(h) ==
  \/ \E t \in TaskIds, r \in Runtimes : EnqueueInsert(h, t, r)
  \/ EnqueueFail(h)
  \/ \E t \in TaskIds : ClaimTake(h, t)
  \/ ClaimNothing(h)
  \/ ClaimDispatch(h)
  \/ Respond(h)
  \/ FailTaskRetry(h)
  \/ \E t \in TaskIds : BatchRetry(h, t)
  \/ BatchIssue(h)
  \/ BatchActive(h)
  \/ BatchReset(h)
  \/ BatchEnd(h)
  \/ ArchiveCancel(h)
  \/ \E a \in Agents : RefreshRead(h, a)
  \/ RefreshWrite(h)

(* A new request or tick.                                                  *)
HandlerStart(h) ==
  \/ \E a \in Agents, l \in QueuedLinks : EnqueueRead(h, a, l)
  \/ \E a \in Agents : ClaimCount(h, a) \/ ArchiveAgent(h, a)
  \/ \E t \in TaskIds : \/ Redeliver(h, t)
                        \/ CompleteTask(h, t)
                        \/ \E reason \in ReportedReasons : FailTask(h, t, reason)
  \/ Sweep(h)
  \/ \E S \in CancelSets : Cancel(h, S)

QueueNext ==
  \/ \E h \in Handlers : HandlerStep(h) \/ HandlerStart(h) \/ Drop(h)
  \/ \E t \in TaskIds : \/ StartTask(t)
                        \/ MarkTaskWaitingLocalDirectory(t)
                        \/ AgentStartsIssue(t)
  \/ \E a \in Agents : RestoreAgent(a)

QueueSpec == QueueInit /\ [][QueueNext]_queueVars

SweptWith(t) ==
  \E h \in Handlers, S \in SUBSET TaskIds :
    /\ t \in S
    /\ FailStaleTasks(S) \/ ExpireStaleQueuedTasks(S)
    /\ HandleFailedTasks(h, S)

LeavesWait(t) == task[t].status = "waiting_local_directory" /\ StartTask(t)

(* Every reclaim puts the dispatch timeout (300 s) off, and a runtime that *)
(* polls may reclaim every 90 s.                                           *)
RedeliveredForEver(t) == []<><<\E h \in Handlers : Redeliver(h, t)>>_queueVars

(* A handler runs on.  The sweeper's ticker fires for ever, so a row that  *)
(* keeps its status, and is not delivered again for ever, outlives its     *)
(* timeout and a tick takes it; other work of the handlers only delays     *)
(* that (SF).  FailStaleTasks leaves the waiting rows to the daemon, which *)
(* is assumed to live and to get its path lock.                            *)
FairQueueSpec ==
  /\ QueueSpec
  /\ \A h \in Handlers : WF_queueVars(HandlerStep(h))
  /\ \A t \in TaskIds : /\ SF_queueVars(SweptWith(t)) \/ RedeliveredForEver(t)
                        /\ WF_queueVars(LeavesWait(t))

-----------------------------------------------------------------------------
(* Properties.                                                             *)

QueueTypeOK ==
  /\ handler \in [Handlers ->
       [pc : {"idle", "enqueue", "counted", "locked", "retry", "batch", "issue",
              "active", "reset", "archive", "reconcile", "refresh", "respond"},
        agent : Agents \cup {None}, link : Links, row : TaskIds \cup {None},
        left : SUBSET TaskIds, agents : SUBSET Agents,
        processed : SUBSET Issues, retried : SUBSET Issues,
        seen : {"idle", "working"}]]
  /\ agentStatus \in [Agents -> {"idle", "working"}]
  /\ archived \in [Agents -> BOOLEAN]
  /\ issueStatus \in [Issues -> {"todo", "in_progress"}]
  /\ overtaken \subseteq Handlers
  /\ missed \subseteq Agents

(* There are three ways for an agent's status to stay wrong and no others: *)
(* a handler that owed it a refresh was dropped, ArchiveAgent cancelled    *)
(* its tasks, or a refresh wrote an outdated reading after another one had *)
(* written.  In all other cases, while the status differs from what the    *)
(* tasks say, some handler is on its way to refresh it; and the next       *)
(* refresh that reads the tasks undisturbed repairs even these.            *)
StatusReconciled ==
  \A a \in Agents \ missed :
    agentStatus[a] # DerivedStatus(a) => \E h \in Handlers : WillReconcile(h, a)

(* What ClaimTask's comment promises (task.go:949-950), the refresh from   *)
(* the active tasks avoiding "a stale unconditional working write racing   *)
(* after a just-cancelled claim": once every handler is done, an agent     *)
(* without an owned task is not shown as working.                          *)
NoStaleWorking ==
  (\A h \in Handlers : At(h, "idle")) =>
    \A a \in Agents : agentStatus[a] = "working" => OwnedBy(a) # {}

(* The rows a handler has failed and is yet to retry.                      *)
ToRetry(me) == IF me.pc = "retry" THEN {me.row} ELSE me.left

RetryOwned ==
  /\ \A h \in Handlers, c \in TaskIds : task[c].parent \notin ToRetry(handler[h])
  /\ \A h, k \in Handlers : h # k => ToRetry(handler[h]) \cap ToRetry(handler[k]) = {}

OneRetry ==
  \A c, d \in TaskIds :
    task[c].parent # None /\ task[c].parent = task[d].parent => c = d

(* A failed task is retried at most once, although the report of a daemon, *)
(* the stale sweep, the offline sweep and orphan recovery may all try to   *)
(* fail it: one handler alone is to retry it, and none once a retry exists.*)
SingleRetry == OneRetry /\ RetryOwned

(* The capacity check is read before the claim: an agent may exceed its    *)
(* limit, but by less than the number of claims in flight at once.         *)
Claiming(a) == {h \in Handlers : handler[h].pc \in {"counted", "locked"} /\ handler[h].agent = a}

CapacityOvershoot ==
  \A a \in Agents :
    Cardinality(OwnedBy(a)) + Cardinality(Claiming(a))
      <= MaxConcurrentTasks + Cardinality(Handlers) - 1

(* An issue is not left in_progress with nobody to work on it: once every  *)
(* task of the issue has failed and every handler is done, it is todo.     *)
NoStuckIssue ==
  (\A h \in Handlers : At(h, "idle")) =>
    \A i \in Issues :
      LET rows == {t \in TaskIds : task[t].link.issue = i}
      IN rows # {} /\ (\A t \in rows : task[t].status = "failed") => issueStatus[i] = "todo"

(* Every task comes to an end, even if handlers are dropped half-way,      *)
(* daemons lose their tasks and retries keep coming, unless its runtime    *)
(* goes on fetching it for ever and never starts it.                       *)
Settles ==
  \A t \in TaskIds :
    \/ task[t].status \in Active ~> task[t].status \in Terminal
    \/ RedeliveredForEver(t)

(* The service only touches the table through its statements.              *)
ServiceUsesTable == TableSpec

=============================================================================
