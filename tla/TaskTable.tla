------------------------------ MODULE TaskTable ------------------------------
(***************************************************************************)
(* The agent_task_queue table of the Go server and the SQL statements that *)
(* move its rows (server/pkg/db/queries/agent.sql, runtime.sql).  It is    *)
(* the only state the server replicas share about a task, so everything    *)
(* the task service, the sweepers and the daemon endpoints do to a task is *)
(* an interleaving of these statements.  The time stamps are left out: a   *)
(* timeout is "any rows of the right status".  Each statement is one step, *)
(* with one exception: ClaimAgentTask selects its victim FOR UPDATE SKIP   *)
(* LOCKED and evaluates NOT EXISTS on a snapshot, so under READ COMMITTED  *)
(* another statement can commit between the selection and the write.  It   *)
(* is modelled as ClaimSelect (takes the row lock) and ClaimUpdate.        *)
(***************************************************************************)
EXTENDS Naturals, FiniteSets

CONSTANTS
  TaskIds,      \* the rows that may ever be inserted (bounds the model)
  Agents,
  Issues,
  Chats,        \* chat sessions
  Runtimes,     \* one runtime is one agent CLI on one daemon
  MaxAttempts,  \* column max_attempts: default 2 (migrations/055)
  None          \* SQL NULL

ASSUME TaskTableAssumption ==
  /\ MaxAttempts \in Nat \ {0}
  /\ None \notin TaskIds \cup Issues \cup Chats \cup Runtimes \cup Agents

VARIABLES
  task,     \* the table: row id -> row, status "absent" before its INSERT
  rowLock   \* rows locked by a ClaimAgentTask that has selected, not updated

tableVars == <<task, rowLock>>

-----------------------------------------------------------------------------
Pending  == {"queued", "dispatched"}      \* rows of idx_one_pending_task_per_issue_agent
Owned    == {"dispatched", "running", "waiting_local_directory"}
Active   == {"queued"} \cup Owned
Terminal == {"completed", "failed", "cancelled"}
Status   == Active \cup Terminal

RetryableReasons == {"runtime_offline", "runtime_recovery", "timeout",
                     "codex_semantic_inactivity"}
Reasons == RetryableReasons \cup {"agent_error", "queued_expired"}

(* The source columns of a row.  auto stands for autopilot_run_id or       *)
(* automation_run_id being set.                                            *)
Links == [issue : Issues \cup {None}, chat : Chats \cup {None}, auto : BOOLEAN]

Row == [status  : Status,
        agent   : Agents,
        runtime : Runtimes,
        link    : Links,
        attempt : Nat,
        parent  : TaskIds \cup {None},
        reason  : Reasons \cup {None}]

NoLink    == [issue |-> None, chat |-> None, auto |-> FALSE]
AbsentRow == [status |-> "absent", agent |-> None, runtime |-> None,
              link |-> NoLink, attempt |-> 0, parent |-> None, reason |-> None]

(* All four source columns are NULL.                                       *)
QuickCreateShaped(l) == l = NoLink

(* The third NOT EXISTS conjunct of ClaimAgentTask: same issue, same chat  *)
(* session, or both quick-create shaped.                                   *)
SameWork(k, l) ==
  \/ k.issue # None /\ l.issue = k.issue
  \/ k.chat # None /\ l.chat = k.chat
  \/ QuickCreateShaped(k) /\ QuickCreateShaped(l)

RowsWith(S) == {t \in TaskIds : task[t].status \in S}

(* UPDATE ... SET status = s, failure_reason = r on the rows of S.         *)
SetStatus(S, s, r) ==
  task' = [t \in TaskIds |->
             IF t \in S THEN [task[t] EXCEPT !.status = s, !.reason = r]
                        ELSE task[t]]

(* A writer waits for the row locks of the rows it updates.                *)
Unlocked(S) == S \cap rowLock = {}

-----------------------------------------------------------------------------
(* INSERTs.                                                                *)

(* The partial unique index on (issue_id, agent_id).                       *)
PendingSlotFreeDispatchedOnly(a, i) ==   \* mutant: the index forgets queued rows
  i # None => \A t \in RowsWith({"dispatched"}) :
                ~(task[t].agent = a /\ task[t].link.issue = i)

PendingSlotFree(a, i) ==
  i # None => \A t \in RowsWith(Pending) :
                ~(task[t].agent = a /\ task[t].link.issue = i)

CreateAgentTask(t, a, r, l) ==
  /\ task[t].status = "absent"
  /\ PendingSlotFree(a, l.issue)
  /\ task' = [task EXCEPT ![t] =
       [status |-> "queued", agent |-> a, runtime |-> r, link |-> l,
        attempt |-> 1, parent |-> None, reason |-> None]]
  /\ UNCHANGED rowLock

(* Clones the failed row p into the fresh queued attempt c.                *)
CreateRetryTaskSameAttempt(p, c) ==      \* mutant: attempt is copied
  /\ task[c].status = "absent"
  /\ PendingSlotFree(task[p].agent, task[p].link.issue)
  /\ task' = [task EXCEPT ![c] =
       [task[p] EXCEPT !.status = "queued", !.parent = p, !.reason = None]]
  /\ UNCHANGED rowLock

CreateRetryTaskNoRuntime(p, c) ==        \* mutant: runtime_id is not cloned
  /\ task[c].status = "absent"
  /\ PendingSlotFree(task[p].agent, task[p].link.issue)
  /\ task' = [task EXCEPT ![c] =
       [task[p] EXCEPT !.status = "queued", !.attempt = task[p].attempt + 1,
                       !.runtime = None, !.parent = p, !.reason = None]]
  /\ UNCHANGED rowLock

CreateRetryTask(p, c) ==
  /\ task[c].status = "absent"
  /\ PendingSlotFree(task[p].agent, task[p].link.issue)
  /\ task' = [task EXCEPT ![c] =
       [task[p] EXCEPT !.status = "queued", !.attempt = task[p].attempt + 1,
                       !.parent = p, !.reason = None]]
  /\ UNCHANGED rowLock

-----------------------------------------------------------------------------
(* The claim.                                                              *)

ClaimableBesideWaiting(t) ==    \* mutant: a waiting row does not block its issue
  /\ task[t].status = "queued"
  /\ \A u \in RowsWith({"dispatched", "running"}) :
       ~(task[u].agent = task[t].agent /\ SameWork(task[t].link, task[u].link))

Claimable(t) ==
  /\ task[t].status = "queued"
  /\ \A u \in RowsWith(Owned) :
       ~(task[u].agent = task[t].agent /\ SameWork(task[t].link, task[u].link))

(* SELECT ... FOR UPDATE SKIP LOCKED LIMIT 1.  The order (priority, then   *)
(* age) is left open: any claimable row may come first.                    *)
ClaimSelect(a, t) ==
  /\ task[t].agent = a
  /\ Claimable(t)
  /\ t \notin rowLock
  /\ rowLock' = rowLock \cup {t}
  /\ UNCHANGED task

ClaimUpdate(t) ==
  /\ t \in rowLock
  /\ SetStatus({t}, "dispatched", task[t].reason)
  /\ rowLock' = rowLock \ {t}

(* The connection dies between the two: PostgreSQL drops the lock.         *)
ClaimAbort(t) ==
  /\ t \in rowLock
  /\ rowLock' = rowLock \ {t}
  /\ UNCHANGED task

(* Delivers a dispatched row again whose claim response was lost, FOR      *)
(* UPDATE SKIP LOCKED.  It writes dispatched_at only, which puts the       *)
(* dispatch timeout of FailStaleTasks off.                                 *)
ReclaimStaleDispatchedTaskForRuntime(t) ==
  /\ task[t].status = "dispatched"
  /\ t \notin rowLock
  /\ UNCHANGED tableVars

-----------------------------------------------------------------------------
(* Statements on one row.                                                  *)

StartAgentTask(t) ==
  /\ task[t].status \in {"dispatched", "waiting_local_directory"}
  /\ SetStatus({t}, "running", None)
  /\ UNCHANGED rowLock

MarkAgentTaskWaitingLocalDirectory(t) ==
  /\ task[t].status = "dispatched"
  /\ SetStatus({t}, "waiting_local_directory", None)
  /\ UNCHANGED rowLock

CompleteAgentTask(t) ==
  /\ task[t].status = "running"
  /\ SetStatus({t}, "completed", None)
  /\ UNCHANGED rowLock

(* The issue a finished quick-create task produced; called by CompleteTask *)
(* after the row is completed.                                             *)
LinkTaskToIssue(t, i) ==
  /\ task[t].status = "completed"
  /\ QuickCreateShaped(task[t].link)
  /\ task' = [task EXCEPT ![t].link.issue = i]
  /\ UNCHANGED rowLock

FailAgentTaskUnguarded(t, reason) ==   \* mutant: no status predicate
  /\ task[t].status # "absent"
  /\ SetStatus({t}, "failed", reason)
  /\ UNCHANGED rowLock

FailAgentTask(t, reason) ==
  /\ task[t].status \in Owned
  /\ SetStatus({t}, "failed", reason)
  /\ UNCHANGED rowLock

-----------------------------------------------------------------------------
(* Bulk statements: the WHERE clause gives the set of rows.                *)

FailRows(S, reason) ==
  /\ S # {}
  /\ Unlocked(S)
  /\ SetStatus(S, "failed", reason)
  /\ UNCHANGED rowLock

CancelRows(S) ==
  /\ S # {}
  /\ Unlocked(S)
  /\ SetStatus(S, "cancelled", None)
  /\ UNCHANGED rowLock

OwnedOnRuntimes(R) == {t \in RowsWith(Owned) : task[t].runtime \in R}
ActiveOfIssue(i)   == {t \in RowsWith(Active) : task[t].link.issue = i}
ActiveOfAgent(a)   == {t \in RowsWith(Active) : task[t].agent = a}
ActiveOfChat(c)    == {t \in RowsWith(Active) : task[t].link.chat = c}

RecoverOrphanedTasksForRuntime(r) == FailRows(OwnedOnRuntimes({r}), "runtime_recovery")
FailTasksForOfflineRuntimes(R)    == FailRows(OwnedOnRuntimes(R), "runtime_offline")

FailStaleTasksRunning(S) ==     \* mutant: dispatched rows never time out
  /\ S \subseteq RowsWith({"running"})
  /\ FailRows(S, "timeout")

(* S: the rows past their dispatch or running timeout.                     *)
FailStaleTasks(S) ==
  /\ S \subseteq RowsWith({"dispatched", "running"})
  /\ FailRows(S, "timeout")

(* S: queued rows past the TTL, FOR UPDATE SKIP LOCKED.                    *)
ExpireStaleQueuedTasks(S) ==
  /\ S \subseteq RowsWith({"queued"})
  /\ FailRows(S, "queued_expired")

CancelAgentTask(t) == CancelRows({t} \cap RowsWith(Active))
CancelAgentTasksByIssue(i) == CancelRows(ActiveOfIssue(i))
CancelAgentTasksByIssueAndAgent(i, a) == CancelRows(ActiveOfIssue(i) \cap ActiveOfAgent(a))
CancelAgentTasksByAgent(a) == CancelRows(ActiveOfAgent(a))
CancelAgentTasksByChatSession(c) == CancelRows(ActiveOfChat(c))

(* The rows whose trigger_comment_id is the deleted comment: some active   *)
(* rows of one issue.                                                      *)
CancelAgentTasksByTriggerComment(S) ==
  /\ \E i \in Issues : S \subseteq ActiveOfIssue(i)
  /\ CancelRows(S)

CancelAgentTasksByRuntimeOrAgent(R, A) ==
  CancelRows({t \in RowsWith(Active) : task[t].runtime \in R \/ task[t].agent \in A})

(* Legacy runtime rows are folded into the new one on registration.        *)
ReassignTasksToRuntime(old, new) ==
  /\ \E t \in TaskIds : task[t].runtime = old
  /\ Unlocked({t \in TaskIds : task[t].runtime = old})
  /\ task' = [t \in TaskIds |-> IF task[t].runtime = old
                                THEN [task[t] EXCEPT !.runtime = new]
                                ELSE task[t]]
  /\ UNCHANGED rowLock

-----------------------------------------------------------------------------
TableInit ==
  /\ task = [t \in TaskIds |-> AbsentRow]
  /\ rowLock = {}

(* MaybeRetryFailedTask (service/task.go) is the only caller of            *)
(* CreateRetryTask and checks these columns of the parent first.           *)
RetryEligible(p) ==
  /\ task[p].status = "failed"
  /\ task[p].reason \in RetryableReasons
  /\ task[p].attempt < MaxAttempts
  /\ ~task[p].link.auto
  /\ task[p].link.issue # None \/ task[p].link.chat # None

(* The links the enqueue paths produce: an issue task (with the chat       *)
(* session too when it comes from a Lark thread), a chat task, a           *)
(* quick-create task, a run-only autopilot task.                           *)
EnqueuedLinks == {l \in Links : l.auto => l.issue = None /\ l.chat = None}

InsertStep ==
  \/ \E t \in TaskIds, a \in Agents, r \in Runtimes, l \in EnqueuedLinks :
       CreateAgentTask(t, a, r, l)
  \/ \E p, c \in TaskIds : RetryEligible(p) /\ CreateRetryTask(p, c)

ClaimStep ==
  \E t \in TaskIds : \/ \E a \in Agents : ClaimSelect(a, t)
                     \/ ClaimUpdate(t)
                     \/ ClaimAbort(t)
                     \/ ReclaimStaleDispatchedTaskForRuntime(t)

DaemonStep ==
  \/ \E t \in TaskIds : \/ StartAgentTask(t)
                        \/ MarkAgentTaskWaitingLocalDirectory(t)
                        \/ CompleteAgentTask(t)
                        \/ \E reason \in Reasons : FailAgentTask(t, reason)
                        \/ \E i \in Issues : LinkTaskToIssue(t, i)
  \/ \E r \in Runtimes : RecoverOrphanedTasksForRuntime(r)
  \/ \E old, new \in Runtimes : old # new /\ ReassignTasksToRuntime(old, new)

SweepStep ==
  \/ \E R \in SUBSET Runtimes : FailTasksForOfflineRuntimes(R)
  \/ \E S \in SUBSET TaskIds : FailStaleTasks(S) \/ ExpireStaleQueuedTasks(S)

CancelStep ==
  \/ \E t \in TaskIds : CancelAgentTask(t)
  \/ \E i \in Issues : \/ CancelAgentTasksByIssue(i)
                       \/ \E a \in Agents : CancelAgentTasksByIssueAndAgent(i, a)
  \/ \E a \in Agents : CancelAgentTasksByAgent(a)
  \/ \E c \in Chats : CancelAgentTasksByChatSession(c)
  \/ \E S \in SUBSET TaskIds : CancelAgentTasksByTriggerComment(S)
  \/ \E R \in SUBSET Runtimes, A \in SUBSET Agents :
       CancelAgentTasksByRuntimeOrAgent(R, A)

TableNext == InsertStep \/ ClaimStep \/ DaemonStep \/ SweepStep \/ CancelStep

TableSpec == TableInit /\ [][TableNext]_tableVars

-----------------------------------------------------------------------------
(* Properties.                                                             *)

(* Every inserted row has the columns the schema declares; agent_id and    *)
(* runtime_id are NOT NULL.                                                *)
TableTypeOK ==
  /\ task \in [TaskIds -> Row \cup {AbsentRow}]
  /\ rowLock \subseteq TaskIds

(* ClaimAgentTask's comment (agent.sql:301-304): an agent never has two    *)
(* tasks of one issue dispatched, running or waiting at once, although the *)
(* claim checks this on a snapshot and holds no lock on the rows it did    *)
(* not pick.  It is the partial unique index that closes the gap.          *)
IssueSingleFlight ==
  \A t, u \in RowsWith(Owned) :
    /\ task[t].agent = task[u].agent
    /\ task[t].link.issue = task[u].link.issue
    /\ task[t].link.issue # None
    => t = u

(* The same comment for chat tasks (agent.sql:305, "Chat tasks (issue_id   *)
(* IS NULL) use chat_session_id for serialization instead"): an agent      *)
(* never has two tasks of one chat session in flight.                      *)
ChatSingleFlight ==
  \A t, u \in RowsWith(Owned) :
    /\ task[t].agent = task[u].agent
    /\ task[t].link.chat = task[u].link.chat
    /\ task[t].link.chat # None
    => t = u

(* A retry row continues a row that failed for a retryable reason, with    *)
(* the next attempt number, and no chain outgrows max_attempts, whatever   *)
(* is cancelled, expired or reassigned meanwhile.                          *)
RetryLineage ==
  \A c \in TaskIds :
    /\ task[c].attempt <= MaxAttempts
    /\ task[c].parent # None =>
         LET p == task[task[c].parent]
         IN /\ p.status = "failed"
            /\ p.reason \in RetryableReasons
            /\ task[c].attempt = p.attempt + 1
            /\ task[c].agent = p.agent
            /\ task[c].link = p.link

(* No statement touches the outcome of a finished task, and no task that   *)
(* was taken is queued again, so no second claim can win it: a dispatched  *)
(* row may be delivered again by the reclaim, but as the same attempt.     *)
OutcomeIsFinal ==
  [][\A t \in TaskIds :
       /\ task[t].status \in Terminal =>
            task'[t].status = task[t].status /\ task'[t].reason = task[t].reason
       /\ task[t].status \in Owned => task'[t].status \notin {"queued", "absent"}
       /\ task[t].status # "dispatched" /\ task'[t].status = "dispatched"
            => task[t].status = "queued"]_tableVars

(* Seen through its lanes (one agent on one issue) the table is the        *)
(* abstract single-flight queue, for every interleaving of claims,         *)
(* retries, cancels, sweeps and late reports.                              *)
Lanes == Agents \X Issues

PhaseOf(s) == CASE s = "absent" -> "none"
                [] s = "queued" -> "pending"
                [] s \in Owned -> "owned"
                [] OTHER -> "done"

LaneOf(r) == IF r.status \in Active /\ r.link.issue # None
             THEN <<r.agent, r.link.issue>>
             ELSE None

Flight == INSTANCE SingleFlight WITH
  Jobs   <- TaskIds,
  NoLane <- None,
  phase  <- [t \in TaskIds |-> PhaseOf(task[t].status)],
  lane   <- [t \in TaskIds |-> LaneOf(task[t])]

ImplementsSingleFlight == Flight!Spec

=============================================================================
