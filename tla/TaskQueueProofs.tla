--------------------------- MODULE TaskQueueProofs ---------------------------
(***************************************************************************)
(* Proofs about TaskQueue, for any number of handlers, rows, agents and    *)
(* issues.  A handler carries rows it has read or failed from one          *)
(* statement to the next, and other handlers move on meanwhile.  What it   *)
(* carries stays true all the same, for two reasons: it carries failed     *)
(* rows only, which no statement of the service touches again, and every   *)
(* failed row was handed to exactly one handler, by the statement that     *)
(* failed it.                                                              *)
(***************************************************************************)
EXTENDS TaskQueue, TaskTableProofs, FiniteSetTheorems

HandlerRec ==
  [pc : {"idle", "enqueue", "counted", "locked", "retry", "batch", "issue",
         "active", "reset", "archive", "reconcile", "refresh", "respond"},
   agent : Agents \cup {None}, link : Links, row : TaskIds \cup {None},
   left : SUBSET TaskIds, agents : SUBSET Agents,
   processed : SUBSET Issues, retried : SUBSET Issues,
   seen : {"idle", "working"}]

(* What a handler knows at each point, on the table tbl.  Rows it is to    *)
(* retry or to look at have failed, and stay so.                           *)
HandlerOK(me, tbl) ==
  /\ me.pc = "enqueue" => me.agent \in Agents /\ me.link \in EnqueuedLinks
  /\ me.pc \in {"counted", "locked", "archive", "refresh"} => me.agent \in Agents
  /\ me.pc = "locked" => /\ me.row \in TaskIds /\ tbl[me.row].status # "absent"
                         /\ tbl[me.row].agent = me.agent
  /\ me.pc \in {"retry", "issue", "active", "reset"} =>
       me.row \in TaskIds /\ tbl[me.row].status = "failed"
  /\ me.pc \in {"issue", "active", "reset"} => tbl[me.row].link.issue \in Issues
  /\ \A t \in me.left : tbl[t].status = "failed"
  /\ me.left # {} => me.pc \in {"batch", "issue", "active", "reset"}
  /\ me.agents # {} => me.pc \in {"batch", "issue", "active", "reset", "reconcile", "refresh"}
  /\ me.pc = "archive" => MayArchive

HandlersOK == \A h \in Handlers : HandlerOK(handler[h], task)

QueueInv == QueueTypeOK /\ FlightInv /\ LineageInv /\ HandlersOK

(* While every row of an issue has failed and the issue is not todo, the   *)
(* sweep that failed the last of them has yet to reset it.                 *)
WillReset(me, i) ==
  \/ /\ i \notin me.processed \cup me.retried
     /\ \/ \E t \in me.left : task[t].link.issue = i
        \/ me.pc = "issue" /\ task[me.row].link.issue = i
  \/ me.pc \in {"active", "reset"} /\ task[me.row].link.issue = i

AllFailed(i) ==
  LET rows == {t \in TaskIds : task[t].link.issue = i}
  IN rows # {} /\ \A t \in rows : task[t].status = "failed"

StuckResolved ==
  \A i \in Issues : AllFailed(i) /\ issueStatus[i] # "todo" =>
    \E h \in Handlers : WillReset(handler[h], i)

-----------------------------------------------------------------------------
(* The table under a service step: rows keep who they are, and what has    *)
(* failed stays failed.  (The service never links or reassigns.)           *)
RowsKept ==
  \A t \in TaskIds :
    task[t].status # "absent" =>
      /\ task'[t].status # "absent" /\ task'[t].agent = task[t].agent
      /\ task'[t].link = task[t].link /\ task'[t].parent = task[t].parent
      /\ task[t].status = "failed" => task'[t].status = "failed"

(* What the service does to the table: nothing, an INSERT, the second half *)
(* of a claim, or a move.                                                  *)
Claims == \E t \in TaskIds : ClaimUpdate(t)

LEMMA InsertEffect ==
  ASSUME FlightInv, InsertStep
  PROVE  \E c \in TaskIds, row \in Row :
           /\ task[c].status = "absent" /\ row.status = "queued"
           /\ task'[c] = row /\ \A t \in TaskIds \ {c} : task'[t] = task[t]
           /\ row.parent # None => RetryEligible(row.parent)
<1> DEFINE Goal == \E c \in TaskIds, row \in Row :
                     /\ task[c].status = "absent" /\ row.status = "queued"
                     /\ task'[c] = row /\ \A t \in TaskIds \ {c} : task'[t] = task[t]
                     /\ row.parent # None => RetryEligible(row.parent)
<1>0. ASSUME NEW c \in TaskIds, NEW row \in Row, task' = [task EXCEPT ![c] = row]
      PROVE  task'[c] = row /\ \A t \in TaskIds \ {c} : task'[t] = task[t]
  BY <1>0 DEF FlightInv, TableTypeOK
<1>1. ASSUME NEW t \in TaskIds, NEW a \in Agents, NEW r \in Runtimes, NEW l \in EnqueuedLinks,
             CreateAgentTask(t, a, r, l)
      PROVE  Goal
  <2>1. PICK row : row = [status |-> "queued", agent |-> a, runtime |-> r, link |-> l,
                          attempt |-> 1, parent |-> None, reason |-> None]
    OBVIOUS
  <2>2. row \in Row /\ row.parent = None /\ row.status = "queued"
    BY <2>1 DEF Row, Status, Active, EnqueuedLinks
  <2>3. task[t].status = "absent" /\ task' = [task EXCEPT ![t] = row]
    BY <1>1, <2>1, Zenon DEF CreateAgentTask
  <2> QED BY <1>0, <2>2, <2>3
<1>2. ASSUME NEW p \in TaskIds, NEW c \in TaskIds, RetryEligible(p), CreateRetryTask(p, c)
      PROVE  Goal
  <2>1. PICK row \in Row : /\ row.status = "queued" /\ task[c].status = "absent"
                           /\ task' = [task EXCEPT ![c] = row] /\ row.parent = p
    BY <1>2, RetryRow
  <2> QED BY <1>0, <1>2, <2>1
<1> QED BY <1>1, <1>2 DEF InsertStep

LEMMA RowsKeptBy ==
  ASSUME FlightInv, UNCHANGED task \/ InsertStep \/ Claims \/ IsMove
  PROVE  RowsKept
<1>1. CASE UNCHANGED task
  BY <1>1 DEF RowsKept
<1>2. CASE InsertStep
  BY <1>2, InsertEffect DEF RowsKept
<1>3. CASE Claims
  BY <1>3, UpdateEffect DEF RowsKept, Claims
<1>4. CASE IsMove
  <2>1. PICK S, s, r : Move(S, s, r)
    BY <1>4 DEF IsMove
  <2>2. s \in Status
    BY <2>1 DEF Move
  <2> QED BY <2>1, <2>2, MoveEffect DEF RowsKept, Status, Active, Owned, Terminal
<1> QED BY <1>1, <1>2, <1>3, <1>4

(* Only the claim makes a row owned.                                       *)
LEMMA OwnedShrinks ==
  ASSUME FlightInv, UNCHANGED task \/ InsertStep \/ IsMove
  PROVE  \A t \in TaskIds : /\ task'[t].status \in Owned => task[t].status \in Owned
                            /\ task[t].status \in Owned => task'[t].agent = task[t].agent
<1>1. CASE UNCHANGED task
  BY <1>1
<1>2. CASE InsertStep
  BY <1>2, InsertEffect DEF Owned
<1>3. CASE IsMove
  <2>1. PICK S, s, r : Move(S, s, r)
    BY <1>3 DEF IsMove
  <2>2. s \in Owned => S \subseteq RowsWith(Owned)
    BY <2>1 DEF Move
  <2> QED BY <2>1, <2>2, MoveEffect DEF RowsWith
<1> QED BY <1>1, <1>2, <1>3

-----------------------------------------------------------------------------
(* Handler h is now next; the others stay.                                 *)
Moved(h, next) ==
  /\ handler' \in [Handlers -> HandlerRec]
  /\ handler'[h] = next
  /\ \A k \in Handlers \ {h} : handler'[k] = handler[k]

(* It is over but for the agents A it has to reconcile.                    *)
Ended(next, A) ==
  next.pc \in {"idle", "reconcile"} /\ next.left = {} /\ next.agents = A
  /\ (A # {} => next.pc = "reconcile")

LEMMA HandlerType ==
  ASSUME QueueTypeOK
  PROVE  handler \in [Handlers -> HandlerRec] /\ \A h \in Handlers : handler[h] \in HandlerRec
BY DEF QueueTypeOK, HandlerRec

LEMMA GotoMoves ==
  ASSUME QueueTypeOK, NEW h \in Handlers, NEW next \in HandlerRec, Goto(h, next)
  PROVE  Moved(h, next)
BY HandlerType DEF Goto, Moved

LEMMA IdleRec ==
  /\ Idle \in HandlerRec /\ Idle.pc = "idle" /\ Idle.left = {} /\ Idle.agents = {}
  /\ Idle.processed = {} /\ Idle.retried = {} /\ Idle.row = None /\ Idle.agent = None
BY DEF Idle, HandlerRec, NoLink, Links

LEMMA EndMoves ==
  ASSUME QueueTypeOK, NEW h \in Handlers, NEW A \in SUBSET Agents, ThenReconcile(h, A)
  PROVE  \E next \in HandlerRec : Moved(h, next) /\ Ended(next, A)
<1>1. CASE A = {}
  <2>1. Goto(h, Idle)
    BY <1>1 DEF ThenReconcile
  <2> QED BY <1>1, <2>1, IdleRec, GotoMoves DEF Ended
<1>2. CASE A # {}
  <2>1. PICK next : next = [Idle EXCEPT !.pc = "reconcile", !.agents = A]
    OBVIOUS
  <2>2. Goto(h, next)
    BY <1>2, <2>1 DEF ThenReconcile
  <2>3. next \in HandlerRec /\ next.pc = "reconcile" /\ next.left = {} /\ next.agents = A
    BY <2>1, IdleRec DEF HandlerRec
  <2> QED BY <2>2, <2>3, GotoMoves DEF Ended
<1> QED BY <1>1, <1>2

LEMMA IdleMoves ==
  ASSUME QueueTypeOK, NEW h \in Handlers, Goto(h, Idle)
  PROVE  \E next \in HandlerRec : Moved(h, next) /\ Ended(next, {})
BY IdleRec, GotoMoves DEF Ended

LEMMA EndedOK ==
  ASSUME NEW next, NEW A, NEW tbl, Ended(next, A)
  PROVE  HandlerOK(next, tbl)
BY DEF Ended, HandlerOK

(* What the other handlers know stays true.                                *)
LEMMA HandlersStep ==
  ASSUME QueueInv, RowsKept, NEW h \in Handlers, NEW next, Moved(h, next),
         HandlerOK(next, task')
  PROVE  HandlersOK'
<1> SUFFICES ASSUME NEW k \in Handlers PROVE HandlerOK(handler'[k], task')
  BY DEF HandlersOK
<1>1. CASE k = h
  BY <1>1 DEF Moved
<1>2. CASE k # h
  <2>1. PICK me \in HandlerRec : me = handler[k]
    BY HandlerType DEF QueueInv
  <2>2. HandlerOK(me, task)
    BY <2>1 DEF QueueInv, HandlersOK
  <2>3. me.left \subseteq TaskIds
    BY DEF HandlerRec
  <2>4. HandlerOK(me, task')
    BY <2>2, <2>3 DEF HandlerOK, RowsKept
  <2>5. handler'[k] = me
    BY <1>2, <2>1 DEF Moved
  <2> QED BY <2>4, <2>5
<1> QED BY <1>1, <1>2

-----------------------------------------------------------------------------
(* What each action does to the table.                                     *)

TableEffect ==
  /\ [TableNext]_tableVars
  /\ UNCHANGED task \/ InsertStep \/ Claims \/ IsMove

LEMMA QuietTable ==
  UNCHANGED tableVars => TableEffect
BY DEF TableEffect, tableVars

LEMMA InsertTable ==
  InsertStep => TableEffect
BY DEF TableEffect, TableNext

LEMMA EnqueueTable ==
  ASSUME QueueInv, NEW h \in Handlers, NEW t \in TaskIds, NEW r \in Runtimes,
         EnqueueInsert(h, t, r)
  PROVE  InsertStep
<1>1. handler[h].agent \in Agents /\ handler[h].link \in EnqueuedLinks
  BY DEF QueueInv, HandlersOK, HandlerOK, EnqueueInsert, At
<1> QED BY <1>1 DEF EnqueueInsert, InsertStep

LEMMA TakeTable ==
  ASSUME QueueInv, NEW h \in Handlers, NEW t \in TaskIds, ClaimTake(h, t)
  PROVE  ClaimStep /\ UNCHANGED task
<1>1. handler[h].agent \in Agents
  BY DEF QueueInv, HandlersOK, HandlerOK, ClaimTake, At
<1> QED BY <1>1 DEF ClaimTake, ClaimStep, ClaimSelect

LEMMA DispatchTable ==
  ASSUME QueueInv, NEW h \in Handlers, ClaimDispatch(h)
  PROVE  /\ ClaimStep /\ Claims
         /\ handler[h].row \in TaskIds /\ task[handler[h].row].agent = handler[h].agent
         /\ handler[h].agent \in Agents
<1>1. /\ handler[h].row \in TaskIds /\ task[handler[h].row].agent = handler[h].agent
      /\ handler[h].agent \in Agents
  BY DEF QueueInv, HandlersOK, HandlerOK, ClaimDispatch, At
<1> QED BY <1>1 DEF ClaimDispatch, ClaimStep, Claims

LEMMA ReportTable ==
  ASSUME QueueInv, NEW t \in TaskIds, Report(t)
  PROVE  TableEffect /\ IsMove
<1>1. DaemonStep
  BY DEF DaemonStep, Report
<1> QED BY <1>1, ReportMoves DEF TableEffect, TableNext, QueueInv

LEMMA CancelTable ==
  ASSUME NEW S \in CancelSets, CancelRows(S)
  PROVE  TableEffect /\ IsMove
<1>1. ASSUME NEW t \in RowsWith(Active), S = {t} PROVE CancelStep
  <2>1. t \in TaskIds /\ {t} \cap RowsWith(Active) = {t}
    BY DEF RowsWith
  <2>2. CancelAgentTask(t)
    BY <1>1, <2>1 DEF CancelAgentTask
  <2> QED BY <2>1, <2>2 DEF CancelStep
<1>2. ASSUME NEW i \in Issues, S = ActiveOfIssue(i) PROVE CancelStep
  BY <1>2 DEF CancelStep, CancelAgentTasksByIssue
<1>3. ASSUME NEW i \in Issues, NEW a \in Agents, S = ActiveOfIssue(i) \cap ActiveOfAgent(a)
      PROVE  CancelStep
  BY <1>3 DEF CancelStep, CancelAgentTasksByIssueAndAgent
<1>4. ASSUME NEW a \in Agents, S = ActiveOfAgent(a) PROVE CancelStep
  BY <1>4 DEF CancelStep, CancelAgentTasksByAgent
<1>5. ASSUME NEW c \in Chats, S = ActiveOfChat(c) PROVE CancelStep
  BY <1>5 DEF CancelStep, CancelAgentTasksByChatSession
<1>6. CancelStep
  BY <1>1, <1>2, <1>3, <1>4, <1>5 DEF CancelSets
<1> QED BY <1>6, CancelMoves DEF TableEffect, TableNext

(* The three sweeps, and orphan recovery; S are the rows they return.      *)
Swept(S) ==
  \/ \E R \in SUBSET Runtimes : FailTasksForOfflineRuntimes(R) /\ S = OwnedOnRuntimes(R)
  \/ \E r \in Runtimes : RecoverOrphanedTasksForRuntime(r) /\ S = OwnedOnRuntimes({r})
  \/ S \in SUBSET TaskIds /\ (FailStaleTasks(S) \/ ExpireStaleQueuedTasks(S))

LEMMA SweepTable ==
  ASSUME NEW S, Swept(S)
  PROVE  /\ TableEffect /\ IsMove
         /\ S \in SUBSET RowsWith(Active)
         /\ \E r \in Reasons : SetStatus(S, "failed", r)
<1>1. SweepStep \/ DaemonStep
  BY DEF Swept, SweepStep, DaemonStep
<1>2. IsMove
  BY SweepMoves, RecoverMoves DEF Swept, SweepStep
<1>3. S \in SUBSET RowsWith(Active)
  BY DEF Swept, OwnedOnRuntimes, RowsWith, Active, Owned, FailStaleTasks, ExpireStaleQueuedTasks
<1>4. \E r \in Reasons : SetStatus(S, "failed", r)
  BY DEF Swept, FailTasksForOfflineRuntimes, RecoverOrphanedTasksForRuntime, FailStaleTasks,
         ExpireStaleQueuedTasks, FailRows, Reasons, RetryableReasons
<1> QED BY <1>1, <1>2, <1>3, <1>4 DEF TableEffect, TableNext

LEMMA SweepReturns ==
  ASSUME NEW h \in Handlers, Sweep(h)
  PROVE  \E S \in SUBSET TaskIds : Swept(S) /\ HandleFailedTasks(h, S)
<1>1. \A R : OwnedOnRuntimes(R) \in SUBSET TaskIds
  BY DEF OwnedOnRuntimes, RowsWith
<1> QED BY <1>1 DEF Sweep, Swept

(* A retry: at most one row appears, a child of p.                         *)
LEMMA RetryTable ==
  ASSUME FlightInv, NEW p \in TaskIds, Retried(p)
  PROVE  /\ InsertStep
         /\ \E c \in TaskIds : /\ task[c].status = "absent" /\ task'[c].status = "queued"
                               /\ task'[c].parent = p /\ task'[c].link = task[p].link
                               /\ \A t \in TaskIds \ {c} : task'[t] = task[t]
<1>1. PICK c \in TaskIds : RetryEligible(p) /\ CreateRetryTask(p, c)
  BY DEF Retried
<1>2. PICK row \in Row : /\ row.status = "queued" /\ task[c].status = "absent"
                         /\ task' = [task EXCEPT ![c] = row] /\ row.parent = p
                         /\ row.link = task[p].link
  BY <1>1, RetryRow
<1>3. task'[c] = row /\ \A t \in TaskIds \ {c} : task'[t] = task[t]
  BY <1>2 DEF FlightInv, TableTypeOK
<1> QED BY <1>1, <1>2, <1>3 DEF InsertStep

-----------------------------------------------------------------------------
(* What each action does to its handler, and what it found there.          *)

(* The handler is over, but for reconciling the agents A.                  *)
Ends(h, A) == \E next \in HandlerRec : Moved(h, next) /\ Ended(next, A)

(* The handler starts, with nothing to reconcile.                          *)
Starts(h, pc, a, L) ==
  \E next \in HandlerRec :
    /\ Moved(h, next) /\ HandlerOK(next, task')
    /\ next.pc = pc /\ next.left = L /\ next.agents = {} /\ next.agent = a
    /\ next.processed = {} /\ next.retried = {}

LEMMA IdleHandler ==
  ASSUME QueueInv, NEW h \in Handlers, At(h, "idle")
  PROVE  handler[h].pc = "idle" /\ handler[h].left = {} /\ handler[h].agents = {}
BY DEF QueueInv, HandlersOK, HandlerOK, At

LEMMA EnqueueReadEffect ==
  ASSUME QueueInv, NEW h \in Handlers, NEW a \in Agents, NEW l \in QueuedLinks, EnqueueRead(h, a, l)
  PROVE  At(h, "idle") /\ Starts(h, "enqueue", a, {}) /\ UNCHANGED <<tableVars, serviceVars>>
<1>1. l \in EnqueuedLinks /\ l \in Links
  BY TaskQueueAssumption DEF EnqueuedLinks
<1>2. PICK next : next = [Idle EXCEPT !.pc = "enqueue", !.agent = a, !.link = l]
  OBVIOUS
<1>3. /\ next \in HandlerRec /\ next.pc = "enqueue" /\ next.agent = a /\ next.link = l
      /\ next.left = {} /\ next.agents = {} /\ next.processed = {} /\ next.retried = {}
  BY <1>1, <1>2, IdleRec DEF HandlerRec
<1>4. Goto(h, next) /\ At(h, "idle") /\ UNCHANGED <<tableVars, serviceVars>>
  BY <1>2 DEF EnqueueRead
<1>5. HandlerOK(next, task')
  BY <1>1, <1>3 DEF HandlerOK
<1> QED BY <1>3, <1>4, <1>5, GotoMoves DEF Starts, QueueInv

LEMMA CountEffect ==
  ASSUME QueueInv, NEW h \in Handlers, NEW a \in Agents, ClaimCount(h, a)
  PROVE  /\ At(h, "idle") /\ Starts(h, "counted", a, {}) /\ UNCHANGED <<tableVars, serviceVars>>
         /\ Cardinality(OwnedBy(a)) < MaxConcurrentTasks
<1>2. PICK next : next = [Idle EXCEPT !.pc = "counted", !.agent = a]
  OBVIOUS
<1>3. /\ next \in HandlerRec /\ next.pc = "counted" /\ next.agent = a
      /\ next.left = {} /\ next.agents = {} /\ next.processed = {} /\ next.retried = {}
  BY <1>2, IdleRec DEF HandlerRec
<1>4. /\ Goto(h, next) /\ At(h, "idle") /\ UNCHANGED <<tableVars, serviceVars>>
      /\ Cardinality(OwnedBy(a)) < MaxConcurrentTasks
  BY <1>2 DEF ClaimCount
<1>5. HandlerOK(next, task')
  BY <1>3 DEF HandlerOK
<1> QED BY <1>3, <1>4, <1>5, GotoMoves DEF Starts, QueueInv

LEMMA ArchiveEffect ==
  ASSUME QueueInv, NEW h \in Handlers, NEW a \in Agents, ArchiveAgent(h, a)
  PROVE  /\ At(h, "idle") /\ Starts(h, "archive", a, {}) /\ MayArchive
         /\ UNCHANGED <<tableVars, agentStatus, issueStatus, history>>
         /\ archived' = [archived EXCEPT ![a] = TRUE]
<1>2. PICK next : next = [Idle EXCEPT !.pc = "archive", !.agent = a]
  OBVIOUS
<1>3. /\ next \in HandlerRec /\ next.pc = "archive" /\ next.agent = a
      /\ next.left = {} /\ next.agents = {} /\ next.processed = {} /\ next.retried = {}
  BY <1>2, IdleRec DEF HandlerRec
<1>4. /\ Goto(h, next) /\ At(h, "idle") /\ MayArchive
      /\ UNCHANGED <<tableVars, agentStatus, issueStatus, history>>
      /\ archived' = [archived EXCEPT ![a] = TRUE]
  BY <1>2 DEF ArchiveAgent
<1>5. HandlerOK(next, task')
  BY <1>3, <1>4 DEF HandlerOK
<1> QED BY <1>3, <1>4, <1>5, GotoMoves DEF Starts, QueueInv

LEMMA RedeliverEffect ==
  ASSUME QueueInv, NEW h \in Handlers, NEW t \in TaskIds, Redeliver(h, t)
  PROVE  /\ At(h, "idle") /\ Starts(h, "respond", None, {})
         /\ UNCHANGED <<tableVars, serviceVars>>
<1>2. PICK next : next = [Idle EXCEPT !.pc = "respond", !.row = t]
  OBVIOUS
<1>3. /\ next \in HandlerRec /\ next.pc = "respond" /\ next.agent = None
      /\ next.left = {} /\ next.agents = {} /\ next.processed = {} /\ next.retried = {}
  BY <1>2, IdleRec DEF HandlerRec
<1>4. Goto(h, next) /\ At(h, "idle") /\ UNCHANGED <<tableVars, serviceVars>>
  BY <1>2 DEF Redeliver, ReclaimStaleDispatchedTaskForRuntime
<1>5. HandlerOK(next, task')
  BY <1>3 DEF HandlerOK
<1> QED BY <1>3, <1>4, <1>5, GotoMoves DEF Starts, QueueInv

(* A row that SetStatus moves to failed, S its set.                        *)
LEMMA FailedEffect ==
  ASSUME QueueInv, NEW S \in SUBSET RowsWith(Active), NEW r \in Reasons, SetStatus(S, "failed", r)
  PROVE  /\ \A t \in S : /\ t \in TaskIds /\ task[t].status \in Active /\ task'[t].status = "failed"
                         /\ task'[t].agent = task[t].agent /\ task'[t].link = task[t].link
                         /\ task'[t].parent = task[t].parent
         /\ \A t \in TaskIds \ S : task'[t] = task[t]
<1>1. S \in SUBSET TaskIds /\ \A t \in S : t \in TaskIds /\ task[t].status \in Active
  BY DEF RowsWith
<1>2. \A t \in S : task[t].status # "absent"
  BY <1>1 DEF Active, Owned
<1>3. "failed" \in Status
  BY DEF Status, Terminal
<1> QED BY <1>1, <1>2, <1>3, SetStatusEffect DEF QueueInv, FlightInv

LEMMA FailTaskEffect ==
  ASSUME QueueInv, NEW h \in Handlers, NEW t \in TaskIds, NEW reason \in ReportedReasons,
         FailTask(h, t, reason)
  PROVE  /\ At(h, "idle") /\ ReportsFailures /\ UNCHANGED serviceVars
         /\ Report(t) /\ task[t].status \in Owned
         /\ task'[t].status = "failed" /\ task'[t].agent = task[t].agent
         /\ \A u \in TaskIds \ {t} : task'[u] = task[u]
         /\ \E next \in HandlerRec :
              /\ Moved(h, next) /\ HandlerOK(next, task')
              /\ next.pc = "retry" /\ next.row = t /\ next.left = {} /\ next.agents = {}
<1>1. /\ At(h, "idle") /\ ReportsFailures /\ UNCHANGED serviceVars
      /\ FailAgentTask(t, reason) /\ reason \in Reasons
  BY DEF FailTask, ReportedReasons
<1>2. {t} \in SUBSET RowsWith(Active) /\ task[t].status \in Owned /\ SetStatus({t}, "failed", reason)
  BY <1>1 DEF FailAgentTask, RowsWith, Active
<1>3. /\ task'[t].status = "failed" /\ task'[t].agent = task[t].agent
      /\ \A u \in TaskIds \ {t} : task'[u] = task[u]
  BY <1>1, <1>2, FailedEffect
<1>4. PICK next : next = [Idle EXCEPT !.pc = "retry", !.row = t]
  OBVIOUS
<1>5. /\ next \in HandlerRec /\ next.pc = "retry" /\ next.row = t
      /\ next.left = {} /\ next.agents = {}
  BY <1>4, IdleRec DEF HandlerRec
<1>6. Goto(h, next)
  BY <1>4 DEF FailTask
<1>7. HandlerOK(next, task')
  BY <1>3, <1>5 DEF HandlerOK
<1>8. Report(t)
  BY <1>1 DEF Report
<1> QED BY <1>1, <1>2, <1>3, <1>5, <1>6, <1>7, <1>8, GotoMoves DEF QueueInv

LEMMA SweepEffect ==
  ASSUME QueueInv, NEW h \in Handlers, NEW S \in SUBSET TaskIds, Swept(S), HandleFailedTasks(h, S)
  PROVE  /\ At(h, "idle") /\ UNCHANGED serviceVars
         /\ \A t \in S : /\ t \in TaskIds /\ task[t].status \in Active /\ task'[t].status = "failed"
                         /\ task'[t].agent = task[t].agent /\ task'[t].link = task[t].link
                         /\ task'[t].parent = task[t].parent
         /\ \A t \in TaskIds \ S : task'[t] = task[t]
         /\ Starts(h, "batch", None, S)
<1>1. /\ \A t \in S : /\ t \in TaskIds /\ task[t].status \in Active /\ task'[t].status = "failed"
                      /\ task'[t].agent = task[t].agent /\ task'[t].link = task[t].link
                      /\ task'[t].parent = task[t].parent
      /\ \A t \in TaskIds \ S : task'[t] = task[t]
  BY SweepTable, FailedEffect
<1>2. At(h, "idle") /\ UNCHANGED serviceVars
  BY DEF HandleFailedTasks
<1>3. PICK next : next = [Idle EXCEPT !.pc = "batch", !.left = S]
  OBVIOUS
<1>4. /\ next \in HandlerRec /\ next.pc = "batch" /\ next.left = S /\ next.agent = None
      /\ next.agents = {} /\ next.processed = {} /\ next.retried = {}
  BY <1>3, IdleRec DEF HandlerRec
<1>5. Goto(h, next)
  BY <1>3 DEF HandleFailedTasks
<1>6. HandlerOK(next, task')
  BY <1>1, <1>4 DEF HandlerOK
<1> QED BY <1>1, <1>2, <1>4, <1>5, <1>6, GotoMoves DEF Starts, QueueInv

LEMMA TakeEffect ==
  ASSUME QueueInv, NEW h \in Handlers, NEW t \in TaskIds, ClaimTake(h, t)
  PROVE  /\ At(h, "counted") /\ UNCHANGED serviceVars /\ UNCHANGED task
         /\ \E next \in HandlerRec :
              /\ Moved(h, next) /\ HandlerOK(next, task')
              /\ next.pc = "locked" /\ next.agent = handler[h].agent
              /\ next.left = {} /\ next.agents = {}
<1>1. PICK me \in HandlerRec : me = handler[h]
  BY HandlerType DEF QueueInv
<1>2. HandlerOK(me, task) /\ me.pc = "counted"
  BY <1>1 DEF QueueInv, HandlersOK, ClaimTake, At
<1>3. /\ At(h, "counted") /\ UNCHANGED serviceVars /\ UNCHANGED task
      /\ task[t].agent = me.agent /\ task[t].status = "queued"
  BY <1>1 DEF ClaimTake, ClaimSelect, Claimable
<1>4. PICK next : next = [me EXCEPT !.pc = "locked", !.row = t]
  OBVIOUS
<1>5. /\ next \in HandlerRec /\ next.pc = "locked" /\ next.row = t
      /\ next.agent = me.agent /\ next.left = me.left /\ next.agents = me.agents
  BY <1>4 DEF HandlerRec
<1>6. Goto(h, next)
  BY <1>1, <1>4 DEF ClaimTake
<1>7. me.left = {} /\ me.agents = {} /\ me.agent \in Agents
  BY <1>2 DEF HandlerOK
<1>8. HandlerOK(next, task')
  BY <1>3, <1>5, <1>7 DEF HandlerOK
<1>9. Moved(h, next)
  BY <1>5, <1>6, GotoMoves DEF QueueInv
<1> QED BY <1>1, <1>3, <1>5, <1>7, <1>8, <1>9

(* The agents of inserted rows.                                            *)
LEMMA AgentsInserted ==
  ASSUME TableTypeOK, NEW S \in SUBSET TaskIds, \A t \in S : task[t].status # "absent"
  PROVE  AgentsOf(S) \subseteq Agents /\ \A t \in S : task[t].agent \in Agents
<1>1. \A t \in S : task[t].agent \in Agents
  BY RowColumns DEF Row
<1> QED BY <1>1 DEF AgentsOf

(* The loop of HandleFailedTasks: the handler stays in the batch.          *)
Batches(h, next) ==
  LET me == handler[h]
  IN /\ next \in HandlerRec /\ Moved(h, next) /\ HandlerOK(next, task')
     /\ me.pc \in {"batch", "issue", "active", "reset"}
     /\ next.pc \in {"batch", "issue", "active", "reset"}
     /\ me.processed \subseteq next.processed /\ me.retried \subseteq next.retried
     /\ me.agents \subseteq next.agents

LEMMA BatchRetryEffect ==
  ASSUME QueueInv, NEW h \in Handlers, NEW t \in TaskIds, BatchRetry(h, t)
  PROVE  /\ At(h, "batch") /\ t \in handler[h].left /\ UNCHANGED serviceVars
         /\ task[t].status = "failed" /\ task[t].agent \in Agents
         /\ Retried(t) \/ NotRetried(t)
         /\ \E next \in HandlerRec :
              /\ Batches(h, next)
              /\ next.left = handler[h].left \ {t} /\ next.row = t
              /\ next.agents = handler[h].agents \cup {task[t].agent}
              /\ next.processed = handler[h].processed
              /\ task[t].link.issue \in Issues => next.pc = "issue"
              /\ \/ Retried(t) /\ next.retried = handler[h].retried \cup ({task[t].link.issue} \ {None})
                 \/ NotRetried(t) /\ next.retried = handler[h].retried
<1>1. PICK me \in HandlerRec : me = handler[h]
  BY HandlerType DEF QueueInv
<1>2. HandlerOK(me, task) /\ me.pc = "batch" /\ t \in me.left
  BY <1>1 DEF QueueInv, HandlersOK, BatchRetry, At
<1>3. task[t].status = "failed" /\ \A u \in me.left : task[u].status = "failed"
  BY <1>2 DEF HandlerOK
<1>4. PICK row \in Row : row = task[t]
  BY <1>3, RowColumns DEF QueueInv, FlightInv
<1>5. PICK i \in Issues \cup {None} : i = row.link.issue
  BY DEF Row, Links
<1>6. PICK kept, next :
        /\ (Retried(t) /\ kept = {i} \ {None}) \/ (NotRetried(t) /\ kept = {})
        /\ next = [me EXCEPT !.pc = IF i = None THEN "batch" ELSE "issue",
                             !.row = t,
                             !.left = me.left \ {t},
                             !.agents = me.agents \cup {row.agent},
                             !.retried = me.retried \cup kept]
        /\ Goto(h, next)
  <2> DEFINE Next(kept) == [me EXCEPT !.pc = IF i = None THEN "batch" ELSE "issue",
                                      !.row = t,
                                      !.left = me.left \ {t},
                                      !.agents = me.agents \cup {row.agent},
                                      !.retried = me.retried \cup kept]
  <2>1. \/ Retried(t) /\ Goto(h, Next({i} \ {None}))
        \/ NotRetried(t) /\ Goto(h, Next({}))
    BY <1>1, <1>4, <1>5, Zenon DEF BatchRetry
  <2> HIDE DEF Next
  <2>2. \E kept, next :
          /\ (Retried(t) /\ kept = {i} \ {None}) \/ (NotRetried(t) /\ kept = {})
          /\ next = Next(kept) /\ Goto(h, next)
    <3>1. CASE Retried(t) /\ Goto(h, Next({i} \ {None}))
      <4> WITNESS {i} \ {None}, Next({i} \ {None})
      <4> QED BY <3>1
    <3>2. CASE NotRetried(t) /\ Goto(h, Next({}))
      <4> WITNESS {}, Next({})
      <4> QED BY <3>2
    <3> QED BY <2>1, <3>1, <3>2
  <2> QED BY <2>2 DEF Next
<1>7. kept \in SUBSET Issues /\ row.agent \in Agents
  BY <1>6 DEF Row
<1>8. /\ next \in HandlerRec /\ next.pc = (IF i = None THEN "batch" ELSE "issue")
      /\ next.row = t /\ next.left = me.left \ {t}
      /\ next.agents = me.agents \cup {row.agent} /\ next.retried = me.retried \cup kept
      /\ next.processed = me.processed
  BY <1>6, <1>7 DEF HandlerRec
<1>9. RowsKept
  <2>1. FlightInv
    BY DEF QueueInv
  <2>2. Retried(t) => InsertStep
    BY <2>1, RetryTable
  <2> QED BY <1>6, <2>1, <2>2, RowsKeptBy DEF NotRetried, tableVars
<1>10. HandlerOK(next, task')
  <2>1. \A u \in me.left : u \in TaskIds /\ task'[u].status = "failed"
    BY <1>3, <1>9 DEF RowsKept, HandlerRec
  <2>2. task'[t].link = row.link
    BY <1>3, <1>4, <1>9 DEF RowsKept
  <2> QED BY <1>2, <1>5, <1>8, <2>1, <2>2 DEF HandlerOK
<1>11. Moved(h, next)
  BY <1>6, <1>8, GotoMoves DEF QueueInv
<1>12. Batches(h, next)
  BY <1>1, <1>2, <1>8, <1>10, <1>11 DEF Batches
<1>13. At(h, "batch") /\ UNCHANGED serviceVars /\ (Retried(t) \/ NotRetried(t))
  BY DEF BatchRetry
<1>14. task[t].link.issue \in Issues => next.pc = "issue"
  BY <1>4, <1>5, <1>8, NoneFresh
<1>15. /\ next.left = handler[h].left \ {t} /\ next.row = t
       /\ next.agents = handler[h].agents \cup {task[t].agent}
       /\ next.processed = handler[h].processed
  BY <1>1, <1>4, <1>8
<1>16. \/ Retried(t) /\ next.retried = handler[h].retried \cup ({task[t].link.issue} \ {None})
       \/ NotRetried(t) /\ next.retried = handler[h].retried
  BY <1>1, <1>4, <1>5, <1>6, <1>8
<1>17. t \in handler[h].left /\ task[t].agent \in Agents
  BY <1>1, <1>2, <1>4, <1>7
<1> QED BY <1>3, <1>8, <1>12, <1>13, <1>14, <1>15, <1>16, <1>17

(* GetIssue, HasActiveTaskForIssue and UpdateIssueStatus: only the place,  *)
(* and the issues dealt with, change.                                      *)
Advances(h, pc, next) ==
  /\ Batches(h, next)
  /\ At(h, pc) /\ UNCHANGED <<tableVars, agentStatus, archived, history>>
  /\ next.row = handler[h].row /\ next.left = handler[h].left
  /\ next.agents = handler[h].agents /\ next.retried = handler[h].retried

LEMMA BatchIssueEffect ==
  ASSUME QueueInv, NEW h \in Handlers, BatchIssue(h)
  PROVE  /\ UNCHANGED issueStatus
         /\ \E next \in HandlerRec :
              /\ Advances(h, "issue", next)
              /\ LET i == task[handler[h].row].link.issue
                 IN \/ next.pc = "active" /\ next.processed = handler[h].processed \cup {i}
                    \/ /\ next.pc = "batch" /\ next.processed = handler[h].processed
                       /\ \/ issueStatus[i] # "in_progress"
                          \/ i \in handler[h].processed \cup handler[h].retried
<1>1. PICK me \in HandlerRec : me = handler[h]
  BY HandlerType DEF QueueInv
<1>2. HandlerOK(me, task) /\ me.pc = "issue"
  BY <1>1 DEF QueueInv, HandlersOK, BatchIssue, At
<1>3. PICK i \in Issues : i = task[me.row].link.issue
  BY <1>2 DEF HandlerOK
<1>4. PICK pc, done, next :
        /\ \/ pc = "active" /\ done = me.processed \cup {i}
           \/ /\ pc = "batch" /\ done = me.processed
              /\ issueStatus[i] # "in_progress" \/ i \in me.processed \cup me.retried
        /\ next = [me EXCEPT !.pc = pc, !.processed = done]
        /\ Goto(h, next)
  <2>1. CASE issueStatus[i] = "in_progress" /\ i \notin me.processed \cup me.retried
    BY <1>1, <1>3, <2>1 DEF BatchIssue
  <2>2. CASE ~(issueStatus[i] = "in_progress" /\ i \notin me.processed \cup me.retried)
    <3>1. me.processed = me.processed /\ [me EXCEPT !.pc = "batch"]
            = [me EXCEPT !.pc = "batch", !.processed = me.processed]
      BY DEF HandlerRec
    <3>2. Goto(h, [me EXCEPT !.pc = "batch"])
      BY <1>1, <1>3, <2>2 DEF BatchIssue
    <3> QED BY <2>2, <3>1, <3>2
  <2> QED BY <2>1, <2>2
<1>5. /\ next \in HandlerRec /\ next.pc = pc /\ next.processed = done
      /\ next.row = me.row /\ next.left = me.left /\ next.agents = me.agents
      /\ next.retried = me.retried
  BY <1>4 DEF HandlerRec
<1>6. UNCHANGED <<tableVars, serviceVars>> /\ At(h, "issue")
  BY DEF BatchIssue
<1>7. task' = task
  BY <1>6 DEF tableVars
<1>8. HandlerOK(next, task')
  BY <1>2, <1>4, <1>5, <1>7 DEF HandlerOK
<1>9. Moved(h, next)
  BY <1>4, <1>5, GotoMoves DEF QueueInv
<1>10. Batches(h, next)
  BY <1>1, <1>2, <1>4, <1>5, <1>8, <1>9 DEF Batches
<1>11. Advances(h, "issue", next)
  BY <1>1, <1>5, <1>6, <1>10 DEF Advances, serviceVars
<1> QED BY <1>1, <1>3, <1>4, <1>5, <1>6, <1>11 DEF serviceVars

LEMMA BatchActiveEffect ==
  ASSUME QueueInv, NEW h \in Handlers, BatchActive(h)
  PROVE  /\ UNCHANGED issueStatus
         /\ \E next \in HandlerRec :
              /\ Advances(h, "active", next) /\ next.processed = handler[h].processed
              /\ \/ next.pc = "reset"
                 \/ next.pc = "batch" /\ ActiveOfIssue(task[handler[h].row].link.issue) # {}
<1>1. PICK me \in HandlerRec : me = handler[h]
  BY HandlerType DEF QueueInv
<1>2. HandlerOK(me, task) /\ me.pc = "active"
  BY <1>1 DEF QueueInv, HandlersOK, BatchActive, At
<1>4. PICK pc, next :
        /\ pc = IF ActiveOfIssue(task[me.row].link.issue) = {} THEN "reset" ELSE "batch"
        /\ next = [me EXCEPT !.pc = pc]
        /\ Goto(h, next)
  BY <1>1 DEF BatchActive
<1>5. /\ next \in HandlerRec /\ next.pc = pc /\ next.processed = me.processed
      /\ next.row = me.row /\ next.left = me.left /\ next.agents = me.agents
      /\ next.retried = me.retried
  BY <1>4 DEF HandlerRec
<1>6. UNCHANGED <<tableVars, serviceVars>> /\ At(h, "active")
  BY DEF BatchActive
<1>7. task' = task
  BY <1>6 DEF tableVars
<1>8. HandlerOK(next, task')
  BY <1>2, <1>4, <1>5, <1>7 DEF HandlerOK
<1>9. Moved(h, next)
  BY <1>4, <1>5, GotoMoves DEF QueueInv
<1>10. Batches(h, next)
  BY <1>1, <1>2, <1>4, <1>5, <1>8, <1>9 DEF Batches
<1>11. Advances(h, "active", next)
  BY <1>1, <1>5, <1>6, <1>10 DEF Advances, serviceVars
<1> QED BY <1>1, <1>4, <1>5, <1>6, <1>11 DEF serviceVars

LEMMA BatchResetEffect ==
  ASSUME QueueInv, NEW h \in Handlers, BatchReset(h)
  PROVE  LET i == task[handler[h].row].link.issue
         IN /\ i \in Issues /\ issueStatus' = [issueStatus EXCEPT ![i] = "todo"]
            /\ \E next \in HandlerRec :
                 /\ Advances(h, "reset", next) /\ next.processed = handler[h].processed
                 /\ next.pc = "batch"
<1>1. PICK me \in HandlerRec : me = handler[h]
  BY HandlerType DEF QueueInv
<1>2. HandlerOK(me, task) /\ me.pc = "reset"
  BY <1>1 DEF QueueInv, HandlersOK, BatchReset, At
<1>3. PICK i \in Issues : i = task[me.row].link.issue
  BY <1>2 DEF HandlerOK
<1>4. PICK next : next = [me EXCEPT !.pc = "batch"]
  OBVIOUS
<1>5. /\ next \in HandlerRec /\ next.pc = "batch" /\ next.processed = me.processed
      /\ next.row = me.row /\ next.left = me.left /\ next.agents = me.agents
      /\ next.retried = me.retried
  BY <1>4 DEF HandlerRec
<1>6. /\ Goto(h, next) /\ UNCHANGED <<tableVars, agentStatus, archived, history>> /\ At(h, "reset")
      /\ issueStatus' = [issueStatus EXCEPT ![i] = "todo"]
  BY <1>1, <1>3, <1>4 DEF BatchReset
<1>7. task' = task
  BY <1>6 DEF tableVars
<1>8. HandlerOK(next, task')
  BY <1>2, <1>5, <1>7 DEF HandlerOK
<1>9. Moved(h, next)
  BY <1>5, <1>6, GotoMoves DEF QueueInv
<1>10. Batches(h, next)
  BY <1>1, <1>2, <1>5, <1>8, <1>9 DEF Batches
<1>11. Advances(h, "reset", next)
  BY <1>1, <1>5, <1>6, <1>10 DEF Advances
<1> QED BY <1>1, <1>3, <1>5, <1>6, <1>11

-----------------------------------------------------------------------------
(* The actions that end a handler, but for what it has to reconcile.       *)

LEMMA InsertEnds ==
  ASSUME QueueInv, NEW h \in Handlers, NEW t \in TaskIds, NEW r \in Runtimes,
         EnqueueInsert(h, t, r)
  PROVE  /\ At(h, "enqueue") /\ Ends(h, {}) /\ UNCHANGED serviceVars
         /\ task[t].status = "absent" /\ task'[t].status = "queued" /\ task'[t].parent = None
         /\ \A u \in TaskIds \ {t} : task'[u] = task[u]
<1>1. At(h, "enqueue") /\ Goto(h, Idle) /\ UNCHANGED serviceVars
  BY DEF EnqueueInsert
<1>2. Ends(h, {})
  BY <1>1, IdleMoves DEF Ends, QueueInv
<1>3. PICK row : row = [status |-> "queued", agent |-> handler[h].agent, runtime |-> r,
                        link |-> handler[h].link, attempt |-> 1, parent |-> None, reason |-> None]
  OBVIOUS
<1>4. task[t].status = "absent" /\ task' = [task EXCEPT ![t] = row]
  BY <1>3, Zenon DEF EnqueueInsert, CreateAgentTask
<1>5. row.status = "queued" /\ row.parent = None
  BY <1>3
<1>6. task'[t] = row /\ \A u \in TaskIds \ {t} : task'[u] = task[u]
  BY <1>4 DEF QueueInv, FlightInv, TableTypeOK
<1> QED BY <1>1, <1>2, <1>4, <1>5, <1>6

LEMMA GivesUp ==
  ASSUME QueueInv, NEW h \in Handlers, EnqueueFail(h) \/ ClaimNothing(h) \/ Respond(h)
  PROVE  /\ handler[h].pc \in {"enqueue", "counted", "respond"} /\ Ends(h, {})
         /\ UNCHANGED <<tableVars, serviceVars>>
BY IdleMoves DEF Ends, QueueInv, EnqueueFail, ClaimNothing, Respond, At

LEMMA DispatchEnds ==
  ASSUME QueueInv, NEW h \in Handlers, ClaimDispatch(h)
  PROVE  /\ At(h, "locked") /\ Ends(h, {handler[h].agent}) /\ UNCHANGED serviceVars
         /\ ClaimUpdate(handler[h].row)
<1>1. handler[h].agent \in Agents
  BY DispatchTable
<1> QED BY <1>1, EndMoves DEF ClaimDispatch, Ends, QueueInv

LEMMA CompleteEnds ==
  ASSUME QueueInv, NEW h \in Handlers, NEW t \in TaskIds, CompleteTask(h, t)
  PROVE  /\ At(h, "idle") /\ Ends(h, {task[t].agent}) /\ UNCHANGED serviceVars
         /\ Report(t) /\ task[t].agent \in Agents
         /\ task'[t].agent = task[t].agent /\ task'[t].status # "failed"
         /\ \A u \in TaskIds \ {t} : task'[u] = task[u]
<1>1. /\ At(h, "idle") /\ ThenReconcile(h, {task[t].agent}) /\ UNCHANGED serviceVars
      /\ CompleteAgentTask(t)
  BY DEF CompleteTask
<1>2. task[t].agent \in Agents
  BY <1>1, RowColumns DEF CompleteAgentTask, Row, QueueInv, FlightInv
<1>3. /\ {t} \in SUBSET TaskIds /\ "completed" \in Status /\ None \in Reasons \cup {None}
      /\ SetStatus({t}, "completed", None) /\ \A u \in {t} : task[u].status # "absent"
  BY <1>1 DEF CompleteAgentTask, Status, Terminal
<1>4. /\ task'[t].agent = task[t].agent /\ task'[t].status # "failed"
      /\ \A u \in TaskIds \ {t} : task'[u] = task[u]
  BY <1>3, SetStatusEffect DEF QueueInv, FlightInv
<1> QED BY <1>1, <1>2, <1>4, EndMoves DEF Ends, QueueInv, Report

LEMMA RetryEnds ==
  ASSUME QueueInv, NEW h \in Handlers, FailTaskRetry(h)
  PROVE  /\ At(h, "retry") /\ UNCHANGED serviceVars
         /\ handler[h].row \in TaskIds /\ task[handler[h].row].status = "failed"
         /\ Retried(handler[h].row) \/ NotRetried(handler[h].row)
         /\ Ends(h, {task[handler[h].row].agent})
<1>1. handler[h].row \in TaskIds /\ task[handler[h].row].status = "failed"
  BY DEF QueueInv, HandlersOK, HandlerOK, FailTaskRetry, At
<1>2. task[handler[h].row].agent \in Agents
  BY <1>1, RowColumns DEF Row, QueueInv, FlightInv
<1> QED BY <1>1, <1>2, EndMoves DEF FailTaskRetry, Ends, QueueInv

LEMMA BatchEnds ==
  ASSUME QueueInv, NEW h \in Handlers, BatchEnd(h)
  PROVE  /\ At(h, "batch") /\ handler[h].left = {} /\ Ends(h, handler[h].agents)
         /\ UNCHANGED <<tableVars, serviceVars>>
<1>1. handler[h].agents \in SUBSET Agents
  BY HandlerType DEF HandlerRec, QueueInv
<1> QED BY <1>1, EndMoves DEF BatchEnd, Ends, QueueInv

LEMMA CancelRowsEffect ==
  ASSUME QueueInv, NEW S \in SUBSET RowsWith(Active), CancelRows(S)
  PROVE  /\ S \in SUBSET TaskIds /\ \A t \in S : task[t].status # "absent"
         /\ AgentsOf(S) \in SUBSET Agents
         /\ \A t \in S : task'[t].agent = task[t].agent /\ task'[t].status = "cancelled"
         /\ \A t \in TaskIds \ S : task'[t] = task[t]
<1>1. S \in SUBSET TaskIds /\ \A t \in S : task[t].status # "absent"
  BY DEF RowsWith, Active, Owned
<1>2. SetStatus(S, "cancelled", None) /\ "cancelled" \in Status
  BY DEF CancelRows, Status, Terminal
<1>3. /\ \A t \in S : task'[t].agent = task[t].agent /\ task'[t].status = "cancelled"
      /\ \A t \in TaskIds \ S : task'[t] = task[t]
  BY <1>1, <1>2, SetStatusEffect DEF QueueInv, FlightInv
<1> QED BY <1>1, <1>3, AgentsInserted DEF QueueInv, FlightInv

LEMMA CancelEnds ==
  ASSUME QueueInv, NEW h \in Handlers, NEW S \in CancelSets, Cancel(h, S)
  PROVE  /\ At(h, "idle") /\ UNCHANGED serviceVars /\ CancelRows(S)
         /\ S \in SUBSET RowsWith(Active) /\ Ends(h, AgentsOf(S))
<1>1. At(h, "idle") /\ UNCHANGED serviceVars /\ CancelRows(S) /\ ThenReconcile(h, AgentsOf(S))
  BY DEF Cancel
<1>2. S \in SUBSET RowsWith(Active)
  BY DEF CancelSets, ActiveOfIssue, ActiveOfAgent, ActiveOfChat
<1> QED BY <1>1, <1>2, CancelRowsEffect, EndMoves DEF Ends, QueueInv

LEMMA ArchiveEnds ==
  ASSUME QueueInv, NEW h \in Handlers, ArchiveCancel(h)
  PROVE  /\ At(h, "archive") /\ Ends(h, {})
         /\ UNCHANGED <<agentStatus, archived, issueStatus>>
         /\ TableEffect /\ (UNCHANGED task \/ IsMove)
         /\ \E S \in SUBSET TaskIds :
              /\ AgentsOf(S) \in SUBSET Agents /\ Neglects(h, AgentsOf(S))
              /\ \A t \in S : task'[t].agent = task[t].agent
              /\ \A t \in TaskIds \ S : task'[t] = task[t]
<1>1. PICK S : S = ActiveOfAgent(handler[h].agent)
  OBVIOUS
<1>2. /\ At(h, "archive") /\ UNCHANGED <<agentStatus, archived, issueStatus>> /\ Goto(h, Idle)
      /\ Neglects(h, AgentsOf(S))
      /\ (S = {} /\ UNCHANGED tableVars) \/ CancelRows(S)
  BY <1>1, Zenon DEF ArchiveCancel
<1>3. handler[h].agent \in Agents
  BY <1>2 DEF QueueInv, HandlersOK, HandlerOK, At
<1>4. S \in CancelSets /\ S \in SUBSET RowsWith(Active)
  BY <1>1, <1>3 DEF CancelSets, ActiveOfAgent
<1>5. TableEffect /\ (UNCHANGED task \/ IsMove)
  BY <1>2, <1>4, CancelTable, QuietTable DEF tableVars
<1>6. /\ S \in SUBSET TaskIds /\ AgentsOf(S) \in SUBSET Agents
      /\ \A t \in S : task'[t].agent = task[t].agent
      /\ \A t \in TaskIds \ S : task'[t] = task[t]
  <2>1. CASE S = {} /\ UNCHANGED tableVars
    BY <2>1 DEF AgentsOf, tableVars
  <2>2. CASE CancelRows(S)
    BY <1>4, <2>2, CancelRowsEffect
  <2> QED BY <1>2, <2>1, <2>2
<1>7. Ends(h, {})
  BY <1>2, IdleMoves DEF Ends, QueueInv
<1> QED BY <1>2, <1>5, <1>6, <1>7

LEMMA RefreshReadEffect ==
  ASSUME QueueInv, NEW h \in Handlers, NEW a \in Agents, RefreshRead(h, a)
  PROVE  /\ At(h, "reconcile") /\ UNCHANGED <<tableVars, serviceVars>>
         /\ \E next \in HandlerRec :
              /\ Moved(h, next) /\ HandlerOK(next, task')
              /\ next.pc = "refresh" /\ next.left = {} /\ next.agents = handler[h].agents
              /\ next.agent = a /\ next.seen = DerivedStatus(a)
<1>1. PICK me \in HandlerRec : me = handler[h]
  BY HandlerType DEF QueueInv
<1>2. HandlerOK(me, task) /\ me.pc = "reconcile"
  BY <1>1 DEF QueueInv, HandlersOK, RefreshRead, At
<1>3. PICK s \in {"idle", "working"} : s = DerivedStatus(a)
  BY DEF DerivedStatus
<1>4. PICK next : next = [me EXCEPT !.pc = "refresh", !.agent = a, !.seen = s]
  OBVIOUS
<1>5. /\ next \in HandlerRec /\ next.pc = "refresh" /\ next.agent = a /\ next.seen = s
      /\ next.left = me.left /\ next.agents = me.agents
  BY <1>4 DEF HandlerRec
<1>6. /\ Goto(h, next) /\ At(h, "reconcile")
      /\ UNCHANGED <<tableVars, serviceVars>>
  BY <1>1, <1>3, <1>4 DEF RefreshRead
<1>7. me.left = {}
  BY <1>2 DEF HandlerOK
<1>8. HandlerOK(next, task')
  BY <1>5, <1>6, <1>7 DEF HandlerOK
<1>9. Moved(h, next)
  BY <1>5, <1>6, GotoMoves DEF QueueInv
<1> QED BY <1>1, <1>3, <1>5, <1>6, <1>7, <1>8, <1>9

LEMMA RefreshWriteEnds ==
  ASSUME QueueInv, NEW h \in Handlers, RefreshWrite(h)
  PROVE  /\ At(h, "refresh") /\ UNCHANGED <<tableVars, archived, issueStatus>>
         /\ Ends(h, handler[h].agents \ {handler[h].agent})
         /\ handler[h].agent \in Agents /\ handler[h].left = {}
         /\ agentStatus' \in [Agents -> {"idle", "working"}]
         /\ agentStatus'[handler[h].agent] = handler[h].seen
         /\ \A b \in Agents \ {handler[h].agent} : agentStatus'[b] = agentStatus[b]
         /\ missed' = IF h \in overtaken /\ handler[h].seen # DerivedStatus(handler[h].agent)
                      THEN missed \cup {handler[h].agent} ELSE missed \ {handler[h].agent}
         /\ Overtakes(h, {handler[h].agent})
<1>1. PICK me \in HandlerRec : me = handler[h]
  BY HandlerType DEF QueueInv
<1>2. me.agents \ {me.agent} \in SUBSET Agents /\ me.seen \in {"idle", "working"}
  BY DEF HandlerRec
<1>3. /\ At(h, "refresh") /\ UNCHANGED <<tableVars, archived, issueStatus>>
      /\ ThenReconcile(h, me.agents \ {me.agent})
      /\ agentStatus' = [agentStatus EXCEPT ![me.agent] = me.seen]
      /\ Overtakes(h, {me.agent})
      /\ missed' = IF h \in overtaken /\ me.seen # DerivedStatus(me.agent)
                   THEN missed \cup {me.agent} ELSE missed \ {me.agent}
  BY <1>1 DEF RefreshWrite
<1>4. me.agent \in Agents /\ me.left = {}
  BY <1>1, <1>3 DEF QueueInv, HandlersOK, HandlerOK, At
<1>5. /\ agentStatus' \in [Agents -> {"idle", "working"}]
      /\ agentStatus'[me.agent] = me.seen
      /\ \A b \in Agents \ {me.agent} : agentStatus'[b] = agentStatus[b]
  BY <1>2, <1>3, <1>4 DEF QueueInv, QueueTypeOK
<1>6. Ends(h, me.agents \ {me.agent})
  BY <1>2, <1>3, EndMoves DEF Ends, QueueInv
<1> QED BY <1>1, <1>3, <1>4, <1>5, <1>6

LEMMA DropEnds ==
  ASSUME QueueInv, NEW h \in Handlers, Drop(h)
  PROVE  /\ MayDrop /\ Ends(h, {}) /\ UNCHANGED <<agentStatus, archived, issueStatus>>
         /\ Neglects(h, {a \in Agents : WillReconcile(h, a)})
         /\ UNCHANGED task /\ [TableNext]_tableVars
<1>1. /\ MayDrop /\ Goto(h, Idle) /\ UNCHANGED <<agentStatus, archived, issueStatus>>
      /\ Neglects(h, {a \in Agents : WillReconcile(h, a)})
      /\ UNCHANGED tableVars \/ (At(h, "locked") /\ ClaimAbort(handler[h].row))
  BY DEF Drop
<1>2. CASE UNCHANGED tableVars
  BY <1>1, <1>2, IdleMoves DEF Ends, QueueInv, tableVars
<1>3. CASE At(h, "locked") /\ ClaimAbort(handler[h].row)
  <2>1. handler[h].row \in TaskIds
    BY <1>3 DEF QueueInv, HandlersOK, HandlerOK, At
  <2>2. ClaimStep
    BY <1>3, <2>1 DEF ClaimStep
  <2> QED BY <1>1, <1>3, <2>2, IdleMoves DEF Ends, QueueInv, ClaimAbort, TableNext
<1> QED BY <1>1, <1>2, <1>3

-----------------------------------------------------------------------------
(* The inductive step.  Only the claim of a row makes it owned.            *)

NoClaim == UNCHANGED task \/ InsertStep \/ IsMove

LEMMA RetryOrNot ==
  ASSUME QueueInv, NEW p \in TaskIds, Retried(p) \/ NotRetried(p)
  PROVE  TableEffect /\ NoClaim
BY InsertTable, QuietTable, RetryTable DEF NotRetried, QueueInv, NoClaim, tableVars

LEMMA HandlerStepTable ==
  ASSUME QueueInv, NEW h \in Handlers, HandlerStep(h)
  PROVE  TableEffect /\ (NoClaim \/ ClaimDispatch(h))
<1>1. ASSUME NEW t \in TaskIds, NEW r \in Runtimes, EnqueueInsert(h, t, r)
      PROVE  TableEffect /\ NoClaim
  BY <1>1, EnqueueTable, InsertTable DEF NoClaim
<1>2. ASSUME NEW t \in TaskIds, ClaimTake(h, t) PROVE TableEffect /\ NoClaim
  BY <1>2, TakeTable DEF TableEffect, TableNext, NoClaim
<1>3. CASE ClaimDispatch(h)
  BY <1>3, DispatchTable DEF TableEffect, TableNext
<1>4. CASE FailTaskRetry(h)
  BY <1>4, RetryEnds, RetryOrNot
<1>5. ASSUME NEW t \in TaskIds, BatchRetry(h, t) PROVE TableEffect /\ NoClaim
  BY <1>5, BatchRetryEffect, RetryOrNot
<1>6. CASE ArchiveCancel(h)
  BY <1>6, ArchiveEnds DEF NoClaim
<1>7. CASE UNCHANGED tableVars
  BY <1>7, QuietTable DEF NoClaim, tableVars
<1> QED BY <1>1, <1>2, <1>3, <1>4, <1>5, <1>6, <1>7
        DEF HandlerStep, EnqueueFail, ClaimNothing, Respond, BatchIssue, BatchActive, BatchReset,
            BatchEnd, RefreshRead, RefreshWrite

LEMMA HandlerStartTable ==
  ASSUME QueueInv, NEW h \in Handlers, HandlerStart(h)
  PROVE  TableEffect /\ NoClaim
<1>1. ASSUME NEW t \in TaskIds, CompleteTask(h, t) PROVE TableEffect /\ NoClaim
  BY <1>1, CompleteEnds, ReportTable DEF NoClaim
<1>2. ASSUME NEW t \in TaskIds, NEW reason \in ReportedReasons, FailTask(h, t, reason)
      PROVE  TableEffect /\ NoClaim
  BY <1>2, FailTaskEffect, ReportTable DEF NoClaim
<1>3. ASSUME Sweep(h) PROVE TableEffect /\ NoClaim
  BY <1>3, SweepReturns, SweepTable DEF NoClaim
<1>4. ASSUME NEW S \in CancelSets, Cancel(h, S) PROVE TableEffect /\ NoClaim
  BY <1>4, CancelEnds, CancelTable DEF NoClaim
<1>5. CASE UNCHANGED tableVars
  BY <1>5, QuietTable DEF NoClaim, tableVars
<1> QED BY <1>1, <1>2, <1>3, <1>4, <1>5
        DEF HandlerStart, EnqueueRead, ClaimCount, ArchiveAgent, Redeliver,
            ReclaimStaleDispatchedTaskForRuntime

LEMMA DaemonTable ==
  ASSUME QueueInv, NEW t \in TaskIds,
         StartTask(t) \/ MarkTaskWaitingLocalDirectory(t) \/ AgentStartsIssue(t)
  PROVE  TableEffect /\ NoClaim /\ UNCHANGED <<handler, agentStatus, archived, history>>
<1>1. CASE StartTask(t) \/ MarkTaskWaitingLocalDirectory(t)
  BY <1>1, ReportTable DEF StartTask, MarkTaskWaitingLocalDirectory, Report, NoClaim, serviceVars
<1>2. CASE AgentStartsIssue(t)
  BY <1>2, QuietTable DEF AgentStartsIssue, NoClaim, tableVars
<1> QED BY <1>1, <1>2

LEMMA RestoreTable ==
  ASSUME NEW a \in Agents, RestoreAgent(a)
  PROVE  /\ TableEffect /\ NoClaim /\ UNCHANGED task
         /\ UNCHANGED <<handler, agentStatus, issueStatus, history>>
BY QuietTable DEF RestoreAgent, NoClaim, tableVars

LEMMA QueueTable ==
  ASSUME QueueInv, [QueueNext]_queueVars
  PROVE  TableEffect /\ RowsKept
<1>1. ASSUME UNCHANGED queueVars PROVE TableEffect
  BY <1>1, QuietTable DEF queueVars
<1>2. ASSUME NEW h \in Handlers, HandlerStep(h) \/ HandlerStart(h)
      PROVE  TableEffect
  BY <1>2, HandlerStepTable, HandlerStartTable
<1>3. ASSUME NEW h \in Handlers, Drop(h) PROVE TableEffect
  BY <1>3, DropEnds DEF TableEffect
<1>4. TableEffect
  BY <1>1, <1>2, <1>3, DaemonTable, RestoreTable DEF QueueNext
<1> QED BY <1>4, RowsKeptBy DEF TableEffect, QueueInv

(* The handlers stay typed and what they know stays true.                  *)
HandlersKept == handler' \in [Handlers -> HandlerRec] /\ HandlersOK'

LEMMA EndsKept ==
  ASSUME QueueInv, RowsKept, NEW h \in Handlers, NEW A, Ends(h, A)
  PROVE  HandlersKept
BY EndedOK, HandlersStep DEF Ends, HandlersKept, Moved

LEMMA MovedKept ==
  ASSUME QueueInv, RowsKept, NEW h \in Handlers,
         \E next \in HandlerRec : Moved(h, next) /\ HandlerOK(next, task')
  PROVE  HandlersKept
BY HandlersStep DEF HandlersKept, Moved

ColumnsTyped ==
  /\ agentStatus \in [Agents -> {"idle", "working"}]
  /\ archived \in [Agents -> BOOLEAN]
  /\ issueStatus \in [Issues -> {"todo", "in_progress"}]
  /\ overtaken \subseteq Handlers /\ missed \subseteq Agents

LEMMA ColumnsKept ==
  ASSUME QueueInv, UNCHANGED serviceVars
  PROVE  ColumnsTyped'
BY DEF QueueInv, QueueTypeOK, ColumnsTyped, serviceVars, history

LEMMA NeglectsTyped ==
  ASSUME QueueInv, NEW h \in Handlers, NEW A \in SUBSET Agents, Neglects(h, A),
         UNCHANGED <<agentStatus, archived, issueStatus>>
  PROVE  ColumnsTyped'
BY DEF QueueInv, QueueTypeOK, ColumnsTyped, Neglects, Overtakes

LEMMA HandlerStepKept ==
  ASSUME QueueInv, RowsKept, NEW h \in Handlers, HandlerStep(h)
  PROVE  HandlersKept /\ ColumnsTyped'
<1>1. ASSUME NEW t \in TaskIds, NEW r \in Runtimes, EnqueueInsert(h, t, r)
      PROVE  HandlersKept /\ ColumnsTyped'
  BY <1>1, InsertEnds, EndsKept, ColumnsKept
<1>2. CASE EnqueueFail(h) \/ ClaimNothing(h) \/ Respond(h)
  BY <1>2, GivesUp, EndsKept, ColumnsKept
<1>3. ASSUME NEW t \in TaskIds, ClaimTake(h, t)
      PROVE  HandlersKept /\ ColumnsTyped'
  BY <1>3, TakeEffect, MovedKept, ColumnsKept
<1>4. CASE ClaimDispatch(h)
  BY <1>4, DispatchEnds, EndsKept, ColumnsKept
<1>5. CASE FailTaskRetry(h)
  BY <1>5, RetryEnds, EndsKept, ColumnsKept
<1>6. ASSUME NEW t \in TaskIds, BatchRetry(h, t)
      PROVE  HandlersKept /\ ColumnsTyped'
  BY <1>6, BatchRetryEffect, MovedKept, ColumnsKept DEF Batches
<1>7. CASE BatchIssue(h)
  BY <1>7, BatchIssueEffect, MovedKept, ColumnsKept DEF Advances, Batches, serviceVars
<1>8. CASE BatchActive(h)
  BY <1>8, BatchActiveEffect, MovedKept, ColumnsKept DEF Advances, Batches, serviceVars
<1>9. CASE BatchReset(h)
  <2>1. HandlersKept
    BY <1>9, BatchResetEffect, MovedKept DEF Advances, Batches
  <2>2. ColumnsTyped'
    BY <1>9, BatchResetEffect DEF Advances, ColumnsTyped, QueueInv, QueueTypeOK, history
  <2> QED BY <2>1, <2>2
<1>10. CASE BatchEnd(h)
  BY <1>10, BatchEnds, EndsKept, ColumnsKept
<1>11. CASE ArchiveCancel(h)
  BY <1>11, ArchiveEnds, EndsKept, NeglectsTyped
<1>12. ASSUME NEW a \in Agents, RefreshRead(h, a)
       PROVE  HandlersKept /\ ColumnsTyped'
  BY <1>12, RefreshReadEffect, MovedKept, ColumnsKept
<1>13. CASE RefreshWrite(h)
  <2>1. missed' \subseteq Agents
    <3>1. PICK a \in Agents : missed' = missed \cup {a} \/ missed' = missed \ {a}
      BY <1>13, RefreshWriteEnds
    <3> QED BY <3>1 DEF QueueInv, QueueTypeOK
  <2>2. overtaken' \subseteq Handlers
    BY <1>13, RefreshWriteEnds DEF QueueInv, QueueTypeOK, Overtakes
  <2>3. ColumnsTyped'
    BY <1>13, <2>1, <2>2, RefreshWriteEnds DEF ColumnsTyped, QueueInv, QueueTypeOK
  <2> QED BY <1>13, <2>3, RefreshWriteEnds, EndsKept
<1> QED BY <1>1, <1>2, <1>3, <1>4, <1>5, <1>6, <1>7, <1>8, <1>9, <1>10, <1>11, <1>12, <1>13
        DEF HandlerStep

LEMMA HandlerStartKept ==
  ASSUME QueueInv, RowsKept, NEW h \in Handlers, HandlerStart(h)
  PROVE  HandlersKept /\ ColumnsTyped'
<1>1. ASSUME NEW a \in Agents, NEW l \in QueuedLinks, EnqueueRead(h, a, l)
      PROVE  HandlersKept /\ ColumnsTyped'
  BY <1>1, EnqueueReadEffect, MovedKept, ColumnsKept DEF Starts
<1>2. ASSUME NEW a \in Agents, ClaimCount(h, a)
      PROVE  HandlersKept /\ ColumnsTyped'
  BY <1>2, CountEffect, MovedKept, ColumnsKept DEF Starts
<1>3. ASSUME NEW a \in Agents, ArchiveAgent(h, a)
      PROVE  HandlersKept /\ ColumnsTyped'
  <2>1. ColumnsTyped'
    BY <1>3, ArchiveEffect DEF ColumnsTyped, QueueInv, QueueTypeOK, history
  <2> QED BY <1>3, <2>1, ArchiveEffect, MovedKept DEF Starts
<1>4. ASSUME NEW t \in TaskIds, CompleteTask(h, t)
      PROVE  HandlersKept /\ ColumnsTyped'
  BY <1>4, CompleteEnds, EndsKept, ColumnsKept
<1>5. ASSUME NEW t \in TaskIds, NEW reason \in ReportedReasons, FailTask(h, t, reason)
      PROVE  HandlersKept /\ ColumnsTyped'
  BY <1>5, FailTaskEffect, MovedKept, ColumnsKept
<1>6. CASE Sweep(h)
  BY <1>6, SweepReturns, SweepEffect, MovedKept, ColumnsKept DEF Starts
<1>7. ASSUME NEW S \in CancelSets, Cancel(h, S)
      PROVE  HandlersKept /\ ColumnsTyped'
  BY <1>7, CancelEnds, EndsKept, ColumnsKept
<1>8. ASSUME NEW t \in TaskIds, Redeliver(h, t)
      PROVE  HandlersKept /\ ColumnsTyped'
  BY <1>8, RedeliverEffect, MovedKept, ColumnsKept DEF Starts
<1> QED BY <1>1, <1>2, <1>3, <1>4, <1>5, <1>6, <1>7, <1>8 DEF HandlerStart

LEMMA QueueStep ==
  QueueInv /\ [QueueNext]_queueVars => QueueInv'
<1> SUFFICES ASSUME QueueInv, [QueueNext]_queueVars PROVE QueueInv'
  OBVIOUS
<1>1. TableEffect /\ RowsKept
  BY QueueTable
<1>2. FlightInv' /\ LineageInv'
  BY <1>1, FlightStep, LineageStep DEF TableEffect, QueueInv
<1>3. HandlersKept /\ ColumnsTyped'
  <2>1. CASE UNCHANGED queueVars
    <3>1. UNCHANGED <<task, handler, serviceVars>>
      BY <2>1 DEF queueVars, tableVars
    <3>2. HandlersOK'
      BY <3>1 DEF QueueInv, HandlersOK
    <3> QED BY <3>1, <3>2, HandlerType, ColumnsKept DEF QueueInv, HandlersKept
  <2>2. ASSUME NEW h \in Handlers, Drop(h) PROVE HandlersKept /\ ColumnsTyped'
    BY <1>1, <2>2, DropEnds, EndsKept, NeglectsTyped
  <2>3. ASSUME NEW t \in TaskIds,
               StartTask(t) \/ MarkTaskWaitingLocalDirectory(t) \/ AgentStartsIssue(t)
        PROVE  HandlersKept /\ ColumnsTyped'
    <3>1. UNCHANGED <<handler, agentStatus, archived, overtaken, missed>>
      BY <2>3, DaemonTable DEF history
    <3>2. issueStatus' \in [Issues -> {"todo", "in_progress"}]
      BY <2>3 DEF StartTask, MarkTaskWaitingLocalDirectory, AgentStartsIssue, serviceVars,
                  QueueInv, QueueTypeOK
    <3>3. ColumnsTyped'
      BY <3>1, <3>2 DEF ColumnsTyped, QueueInv, QueueTypeOK
    <3>4. HandlersOK'
      <4> SUFFICES ASSUME NEW k \in Handlers PROVE HandlerOK(handler'[k], task')
        BY DEF HandlersOK
      <4>1. PICK me \in HandlerRec : me = handler[k]
        BY HandlerType DEF QueueInv
      <4>2. HandlerOK(me, task) /\ me.left \subseteq TaskIds
        BY <4>1 DEF QueueInv, HandlersOK, HandlerRec
      <4>3. HandlerOK(me, task')
        BY <1>1, <4>2 DEF HandlerOK, RowsKept
      <4> QED BY <3>1, <4>1, <4>3
    <3> QED BY <3>1, <3>3, <3>4, HandlerType DEF QueueInv, HandlersKept
  <2>4. ASSUME NEW a \in Agents, RestoreAgent(a) PROVE HandlersKept /\ ColumnsTyped'
    <3>1. UNCHANGED <<task, handler>> /\ ColumnsTyped'
      BY <2>4 DEF RestoreAgent, tableVars, history, ColumnsTyped, QueueInv, QueueTypeOK
    <3>2. HandlersOK'
      BY <3>1 DEF QueueInv, HandlersOK
    <3> QED BY <3>1, <3>2, HandlerType DEF QueueInv, HandlersKept
  <2> QED BY <1>1, <2>1, <2>2, <2>3, <2>4, HandlerStepKept, HandlerStartKept DEF QueueNext
<1>4. QueueTypeOK'
  BY <1>3 DEF HandlersKept, HandlerRec, ColumnsTyped, QueueTypeOK
<1> QED BY <1>2, <1>3, <1>4 DEF QueueInv, HandlersKept

LEMMA QueueStarts == QueueInit => QueueInv
<1> SUFFICES ASSUME QueueInit PROVE QueueInv
  OBVIOUS
<1>1. \A h \in Handlers : handler[h] = Idle
  BY DEF QueueInit
<1>2. HandlersOK
  BY <1>1, IdleRec DEF HandlersOK, HandlerOK
<1>3. QueueTypeOK
  BY <1>1, IdleRec DEF QueueInit, QueueTypeOK, HandlerRec
<1>4. FlightInv /\ LineageInv
  BY FlightInit, TaskTableAssumption DEF QueueInit, TableInit, LineageInv, RetryLineage, AbsentRow
<1> QED BY <1>2, <1>3, <1>4 DEF QueueInv

(* The inductive invariant of the service on its table.                    *)
THEOREM QueueInvariant == QueueSpec => []QueueInv
<1>1. QueueInit => QueueInv
  BY QueueStarts
<1>2. QueueInv /\ [QueueNext]_queueVars => QueueInv'
  BY QueueStep
<1> QED BY <1>1, <1>2, PTL DEF QueueSpec

(* Handlers, agents and issues keep their types.                           *)
THEOREM QueueTypeCorrect == QueueSpec => []QueueTypeOK
<1>1. QueueInv => QueueTypeOK
  BY DEF QueueInv
<1> QED BY <1>1, QueueInvariant, PTL

(* The service touches the table only through its statements, each with    *)
(* arguments the table allows: whatever holds of the table alone holds     *)
(* under any number of concurrent handlers.                                *)
THEOREM ServiceOnlyUsesStatements == QueueSpec => ServiceUsesTable
<1>1. QueueInit => TableInit
  BY DEF QueueInit
<1>2. QueueInv /\ [QueueNext]_queueVars => [TableNext]_tableVars
  BY QueueTable DEF TableEffect
<1> QED BY <1>1, <1>2, QueueInvariant, PTL DEF QueueSpec, ServiceUsesTable, TableSpec

(* Hence single flight under the service.                                  *)
THEOREM ServiceKeepsSingleFlight == QueueSpec => []IssueSingleFlight
BY ServiceOnlyUsesStatements, SingleFlightHolds, PTL DEF ServiceUsesTable

-----------------------------------------------------------------------------
(* A failed task is retried at most once: the statement that failed it     *)
(* handed it to one handler, and a handler tries once.                     *)

RetryInv == RetryOwned /\ OneRetry

(* No row gets a parent it did not have.                                   *)
ParentsKept ==
  \A c \in TaskIds : task'[c].parent \in {task[c].parent, None}

OwnsNoMore == \A k \in Handlers : ToRetry(handler'[k]) \subseteq ToRetry(handler[k])

LEMMA ToRetryFailed ==
  ASSUME QueueInv
  PROVE  \A h \in Handlers : \A t \in ToRetry(handler[h]) :
           t \in TaskIds /\ task[t].status = "failed"
<1> SUFFICES ASSUME NEW h \in Handlers, NEW t \in ToRetry(handler[h])
             PROVE  t \in TaskIds /\ task[t].status = "failed"
  OBVIOUS
<1>1. PICK me \in HandlerRec : me = handler[h]
  BY HandlerType DEF QueueInv
<1>2. HandlerOK(me, task) /\ me.left \subseteq TaskIds /\ t \in ToRetry(me)
  BY <1>1 DEF QueueInv, HandlersOK, HandlerRec
<1> QED BY <1>2 DEF HandlerOK, ToRetry

LEMMA FewerKept ==
  ASSUME QueueInv, RetryInv, ParentsKept, OwnsNoMore
  PROVE  RetryInv'
<1>1. RetryOwned'
  <2>1. \A h \in Handlers, c \in TaskIds : task'[c].parent \notin ToRetry(handler'[h])
    BY ToRetryFailed, NoneFresh DEF RetryInv, RetryOwned, ParentsKept, OwnsNoMore
  <2>2. \A h, k \in Handlers : h # k => ToRetry(handler'[h]) \cap ToRetry(handler'[k]) = {}
    BY DEF RetryInv, RetryOwned, OwnsNoMore
  <2> QED BY <2>1, <2>2 DEF RetryOwned, ToRetry
<1>2. OneRetry'
  BY DEF RetryInv, OneRetry, ParentsKept
<1> QED BY <1>1, <1>2 DEF RetryInv

(* The retry of p, which h alone had.                                      *)
LEMMA RetriedKept ==
  ASSUME QueueInv, RetryInv, NEW h \in Handlers, NEW p \in ToRetry(handler[h]),
         Retried(p) \/ NotRetried(p), OwnsNoMore, p \notin ToRetry(handler'[h])
  PROVE  RetryInv'
<1>1. p \in TaskIds /\ task[p].status = "failed"
  BY ToRetryFailed
<1>2. CASE NotRetried(p)
  <2>1. ParentsKept
    BY <1>2 DEF NotRetried, ParentsKept, tableVars
  <2> QED BY <2>1, FewerKept
<1>3. CASE Retried(p)
  <2>1. PICK c \in TaskIds : /\ task'[c].parent = p
                             /\ \A t \in TaskIds \ {c} : task'[t] = task[t]
    BY <1>1, <1>3, RetryTable DEF QueueInv
  <2>2. \A d \in TaskIds : task[d].parent # p
    BY DEF RetryInv, RetryOwned
  <2>3. \A k \in Handlers : p \notin ToRetry(handler'[k])
    BY DEF RetryInv, RetryOwned, OwnsNoMore
  <2>4. RetryOwned'
    <3>1. \A k \in Handlers, d \in TaskIds : task'[d].parent \notin ToRetry(handler'[k])
      BY <2>1, <2>3 DEF RetryInv, RetryOwned, OwnsNoMore
    <3>2. \A j, k \in Handlers : j # k => ToRetry(handler'[j]) \cap ToRetry(handler'[k]) = {}
      BY DEF RetryInv, RetryOwned, OwnsNoMore
    <3> QED BY <3>1, <3>2 DEF RetryOwned, ToRetry
  <2>5. OneRetry'
    BY <2>1, <2>2 DEF RetryInv, OneRetry
  <2> QED BY <2>4, <2>5 DEF RetryInv
<1> QED BY <1>2, <1>3

(* Rows that had not failed before are in nobody's hands, and nobody's     *)
(* parents.                                                                *)
LEMMA FreshKept ==
  ASSUME QueueInv, RetryInv, ParentsKept, NEW h \in Handlers,
         \A t \in ToRetry(handler'[h]) : t \in TaskIds /\ task[t].status # "failed",
         \A k \in Handlers \ {h} : handler'[k] = handler[k]
  PROVE  RetryInv'
<1>1. \A k \in Handlers \ {h} : ToRetry(handler'[k]) = ToRetry(handler[k])
  OBVIOUS
<1>2. \A k \in Handlers : ToRetry(handler[k]) \cap ToRetry(handler'[h]) = {}
  BY ToRetryFailed
<1>3. \A c \in TaskIds : task'[c].parent \notin ToRetry(handler'[h])
  BY NoneFresh DEF QueueInv, LineageInv, RetryLineage, ParentsKept
<1>4. RetryOwned'
  <2>1. \A k \in Handlers, c \in TaskIds : task'[c].parent \notin ToRetry(handler'[k])
    BY <1>1, <1>3, ToRetryFailed, NoneFresh DEF RetryInv, RetryOwned, ParentsKept
  <2>2. \A j, k \in Handlers : j # k => ToRetry(handler'[j]) \cap ToRetry(handler'[k]) = {}
    BY <1>1, <1>2 DEF RetryInv, RetryOwned
  <2> QED BY <2>1, <2>2 DEF RetryOwned, ToRetry
<1>5. OneRetry'
  BY DEF RetryInv, OneRetry, ParentsKept
<1> QED BY <1>4, <1>5 DEF RetryInv

LEMMA ParentsKeptBy ==
  ASSUME FlightInv, UNCHANGED task \/ Claims \/ IsMove
  PROVE  ParentsKept
<1>1. CASE UNCHANGED task
  BY <1>1 DEF ParentsKept
<1>2. CASE Claims
  BY <1>2, UpdateEffect DEF ParentsKept, Claims
<1>3. CASE IsMove
  BY <1>3, MoveEffect DEF ParentsKept, IsMove
<1> QED BY <1>1, <1>2, <1>3

LEMMA EndsOwnsNoMore ==
  ASSUME NEW h \in Handlers, NEW A, Ends(h, A)
  PROVE  OwnsNoMore /\ ToRetry(handler'[h]) = {}
<1>1. PICK next : Moved(h, next) /\ Ended(next, A)
  BY DEF Ends
<1>2. ToRetry(next) = {}
  BY <1>1 DEF ToRetry, Ended
<1>3. handler'[h] = next /\ \A k \in Handlers \ {h} : handler'[k] = handler[k]
  BY <1>1 DEF Moved
<1> QED BY <1>2, <1>3 DEF OwnsNoMore

LEMMA OwnsNothing ==
  ASSUME NEW h \in Handlers, NEW next, Moved(h, next), next.left = {}, next.pc # "retry"
  PROVE  OwnsNoMore /\ ToRetry(handler'[h]) = {}
<1>1. ToRetry(next) = {}
  BY DEF ToRetry
<1> QED BY <1>1 DEF OwnsNoMore, Moved

LEMMA HandlerStepRetries ==
  ASSUME QueueInv, RetryInv, NEW h \in Handlers, HandlerStep(h)
  PROVE  RetryInv'
<1>0. FlightInv
  BY DEF QueueInv
<1>1. ASSUME NEW t \in TaskIds, NEW r \in Runtimes, EnqueueInsert(h, t, r) PROVE RetryInv'
  <2>1. ParentsKept
    BY <1>1, InsertEnds DEF ParentsKept
  <2> QED BY <1>1, <2>1, InsertEnds, EndsOwnsNoMore, FewerKept
<1>2. CASE EnqueueFail(h) \/ ClaimNothing(h) \/ Respond(h)
  BY <1>0, <1>2, GivesUp, EndsOwnsNoMore, ParentsKeptBy, FewerKept DEF tableVars
<1>3. ASSUME NEW t \in TaskIds, ClaimTake(h, t) PROVE RetryInv'
  BY <1>0, <1>3, TakeEffect, OwnsNothing, ParentsKeptBy, FewerKept
<1>4. CASE ClaimDispatch(h)
  BY <1>0, <1>4, DispatchEnds, DispatchTable, EndsOwnsNoMore, ParentsKeptBy, FewerKept
<1>5. CASE FailTaskRetry(h)
  <2>1. handler[h].row \in ToRetry(handler[h])
    BY <1>5, RetryEnds DEF ToRetry, At
  <2>2. OwnsNoMore /\ handler[h].row \notin ToRetry(handler'[h])
    BY <1>5, RetryEnds, EndsOwnsNoMore
  <2> QED BY <1>5, <2>1, <2>2, RetryEnds, RetriedKept
<1>6. ASSUME NEW t \in TaskIds, BatchRetry(h, t) PROVE RetryInv'
  <2>1. PICK next \in HandlerRec : Moved(h, next) /\ next.left = handler[h].left \ {t}
                                   /\ next.pc # "retry" /\ handler[h].pc = "batch"
    BY <1>6, BatchRetryEffect DEF Batches, At
  <2>2. ToRetry(handler[h]) = handler[h].left /\ ToRetry(next) = handler[h].left \ {t}
    BY <2>1 DEF ToRetry
  <2>3. OwnsNoMore /\ t \notin ToRetry(handler'[h])
    BY <2>1, <2>2 DEF OwnsNoMore, Moved
  <2> QED BY <1>6, <2>2, <2>3, BatchRetryEffect, RetriedKept
<1>7. CASE BatchIssue(h) \/ BatchActive(h) \/ BatchReset(h)
  <2>1. PICK next : /\ Moved(h, next) /\ next.left = handler[h].left
                    /\ next.pc # "retry" /\ handler[h].pc # "retry" /\ UNCHANGED task
    BY <1>7, BatchIssueEffect, BatchActiveEffect, BatchResetEffect DEF Advances, Batches, tableVars
  <2>2. ToRetry(next) = ToRetry(handler[h])
    BY <2>1 DEF ToRetry
  <2>3. OwnsNoMore
    BY <2>1, <2>2 DEF OwnsNoMore, Moved
  <2> QED BY <1>0, <2>1, <2>3, ParentsKeptBy, FewerKept
<1>8. CASE BatchEnd(h)
  BY <1>0, <1>8, BatchEnds, EndsOwnsNoMore, ParentsKeptBy, FewerKept DEF tableVars
<1>9. CASE ArchiveCancel(h)
  BY <1>0, <1>9, ArchiveEnds, EndsOwnsNoMore, ParentsKeptBy, FewerKept
<1>10. ASSUME NEW a \in Agents, RefreshRead(h, a) PROVE RetryInv'
  BY <1>0, <1>10, RefreshReadEffect, OwnsNothing, ParentsKeptBy, FewerKept DEF tableVars
<1>11. CASE RefreshWrite(h)
  BY <1>0, <1>11, RefreshWriteEnds, EndsOwnsNoMore, ParentsKeptBy, FewerKept DEF tableVars
<1> QED BY <1>1, <1>2, <1>3, <1>4, <1>5, <1>6, <1>7, <1>8, <1>9, <1>10, <1>11 DEF HandlerStep

LEMMA HandlerStartRetries ==
  ASSUME QueueInv, RetryInv, NEW h \in Handlers, HandlerStart(h)
  PROVE  RetryInv'
<1>0. FlightInv
  BY DEF QueueInv
<1>1. ASSUME UNCHANGED task,
             \E a, pc : pc \in {"enqueue", "counted", "archive", "respond"} /\ Starts(h, pc, a, {})
      PROVE  RetryInv'
  BY <1>0, <1>1, OwnsNothing, ParentsKeptBy, FewerKept DEF Starts
<1>2. ASSUME NEW t \in TaskIds, CompleteTask(h, t) PROVE RetryInv'
  BY <1>0, <1>2, CompleteEnds, ReportTable, EndsOwnsNoMore, ParentsKeptBy, FewerKept
<1>3. ASSUME NEW t \in TaskIds, NEW reason \in ReportedReasons, FailTask(h, t, reason)
      PROVE  RetryInv'
  <2>1. task[t].status # "failed" /\ ParentsKept
    BY <1>0, <1>3, FailTaskEffect, ReportTable, ParentsKeptBy DEF Owned
  <2>2. PICK next \in HandlerRec : Moved(h, next) /\ next.pc = "retry" /\ next.row = t
    BY <1>3, FailTaskEffect
  <2>3. ToRetry(handler'[h]) = {t} /\ \A k \in Handlers \ {h} : handler'[k] = handler[k]
    BY <2>2 DEF ToRetry, Moved
  <2> QED BY <2>1, <2>3, FreshKept
<1>4. CASE Sweep(h)
  <2>1. PICK S \in SUBSET TaskIds : Swept(S) /\ HandleFailedTasks(h, S)
    BY <1>4, SweepReturns
  <2>2. PICK next \in HandlerRec : Moved(h, next) /\ next.pc = "batch" /\ next.left = S
    BY <2>1, SweepEffect DEF Starts
  <2>3. ToRetry(handler'[h]) = S /\ \A k \in Handlers \ {h} : handler'[k] = handler[k]
    BY <2>2 DEF ToRetry, Moved
  <2>4. \A t \in S : t \in TaskIds /\ task[t].status # "failed"
    BY <2>1, SweepEffect DEF Active, Owned
  <2>5. ParentsKept
    BY <1>0, <2>1, SweepTable, ParentsKeptBy
  <2> QED BY <2>3, <2>4, <2>5, FreshKept
<1>5. ASSUME NEW S \in CancelSets, Cancel(h, S) PROVE RetryInv'
  BY <1>0, <1>5, CancelEnds, CancelTable, EndsOwnsNoMore, ParentsKeptBy, FewerKept
<1>6. ASSUME NEW a \in Agents, NEW l \in QueuedLinks, EnqueueRead(h, a, l) PROVE RetryInv'
  BY <1>1, <1>6, EnqueueReadEffect DEF tableVars
<1>7. ASSUME NEW a \in Agents, ClaimCount(h, a) \/ ArchiveAgent(h, a) PROVE RetryInv'
  BY <1>1, <1>7, CountEffect, ArchiveEffect DEF tableVars
<1>8. ASSUME NEW t \in TaskIds, Redeliver(h, t) PROVE RetryInv'
  BY <1>1, <1>8, RedeliverEffect DEF tableVars
<1> QED BY <1>2, <1>3, <1>4, <1>5, <1>6, <1>7, <1>8 DEF HandlerStart

LEMMA RetryStep ==
  QueueInv /\ RetryInv /\ [QueueNext]_queueVars => RetryInv'
<1> SUFFICES ASSUME QueueInv, RetryInv, [QueueNext]_queueVars PROVE RetryInv'
  OBVIOUS
<1>0. FlightInv
  BY DEF QueueInv
<1>1. CASE UNCHANGED queueVars
  BY <1>0, <1>1, ParentsKeptBy, FewerKept DEF queueVars, tableVars, OwnsNoMore
<1>2. ASSUME NEW h \in Handlers, Drop(h) PROVE RetryInv'
  BY <1>0, <1>2, DropEnds, EndsOwnsNoMore, ParentsKeptBy, FewerKept
<1>3. ASSUME NEW t \in TaskIds,
             StartTask(t) \/ MarkTaskWaitingLocalDirectory(t) \/ AgentStartsIssue(t)
      PROVE  RetryInv'
  <2>1. OwnsNoMore
    BY <1>3, DaemonTable DEF OwnsNoMore
  <2>2. UNCHANGED task \/ IsMove
    BY <1>3, ReportTable DEF StartTask, MarkTaskWaitingLocalDirectory, AgentStartsIssue, Report,
                             tableVars
  <2> QED BY <1>0, <2>1, <2>2, ParentsKeptBy, FewerKept
<1>4. ASSUME NEW a \in Agents, RestoreAgent(a) PROVE RetryInv'
  BY <1>0, <1>4, RestoreTable, ParentsKeptBy, FewerKept DEF OwnsNoMore
<1> QED BY <1>1, <1>2, <1>3, <1>4, HandlerStepRetries, HandlerStartRetries DEF QueueNext

LEMMA RetryStarts == QueueInit => RetryInv
<1> SUFFICES ASSUME QueueInit PROVE RetryInv
  OBVIOUS
<1>1. \A h \in Handlers : ToRetry(handler[h]) = {}
  BY IdleRec DEF QueueInit, ToRetry
<1>2. \A c \in TaskIds : task[c].parent = None
  BY DEF QueueInit, TableInit, AbsentRow
<1> QED BY <1>1, <1>2 DEF RetryInv, RetryOwned, OneRetry

(* A failed task is retried at most once, whichever of the daemon's        *)
(* report, the sweeps and orphan recovery failed it, and however they race. *)
THEOREM RetriedAtMostOnce == QueueSpec => []SingleRetry
<1>1. QueueInit => RetryInv
  BY RetryStarts
<1>2. QueueInv /\ RetryInv /\ [QueueNext]_queueVars => RetryInv'
  BY RetryStep
<1>3. RetryInv => SingleRetry
  BY DEF RetryInv, SingleRetry
<1> QED BY <1>1, <1>2, <1>3, QueueInvariant, PTL DEF QueueSpec

-----------------------------------------------------------------------------
(* Capacity: a claim that passed the check keeps a place among the claims  *)
(* in flight, and gives it up when its row becomes owned.                  *)

CapacityInv == CapacityOvershoot /\ \A a \in Agents : IsFiniteSet(OwnedBy(a))

ClaimPc == {"counted", "locked"}

ClaimsNoMore ==
  \A k \in Handlers : handler'[k].pc \in ClaimPc =>
    handler[k].pc \in ClaimPc /\ handler'[k].agent = handler[k].agent

LEMMA ClaimingFinite ==
  ASSUME NEW a
  PROVE  /\ IsFiniteSet(Claiming(a)) /\ Cardinality(Claiming(a)) \in Nat
         /\ IsFiniteSet(Handlers) /\ Cardinality(Handlers) \in Nat
         /\ Cardinality(Claiming(a)) <= Cardinality(Handlers)
<1>1. Claiming(a) \subseteq Handlers
  BY DEF Claiming
<1>2. IsFiniteSet(Handlers)
  BY TaskQueueAssumption
<1>3. IsFiniteSet(Claiming(a)) /\ Cardinality(Claiming(a)) <= Cardinality(Handlers)
  BY <1>1, <1>2, FS_Subset
<1> QED BY <1>2, <1>3, FS_CardinalityType

LEMMA OwnedNoMore ==
  ASSUME QueueInv, NoClaim, NEW a \in Agents
  PROVE  OwnedBy(a)' \subseteq OwnedBy(a)
BY OwnedShrinks DEF NoClaim, OwnedBy, RowsWith, QueueInv

(* Neither the owned rows nor the claims in flight grow.                   *)
LEMMA CapacityKept ==
  ASSUME QueueInv, CapacityInv, NoClaim, ClaimsNoMore
  PROVE  CapacityInv'
<1> SUFFICES ASSUME NEW a \in Agents
             PROVE  /\ IsFiniteSet(OwnedBy(a)')
                    /\ Cardinality(OwnedBy(a)') + Cardinality(Claiming(a)')
                         <= MaxConcurrentTasks + Cardinality(Handlers) - 1
  BY DEF CapacityInv, CapacityOvershoot
<1>1. OwnedBy(a)' \subseteq OwnedBy(a) /\ IsFiniteSet(OwnedBy(a))
  BY OwnedNoMore DEF CapacityInv
<1>2. Claiming(a)' \subseteq Claiming(a) /\ IsFiniteSet(Claiming(a))
  BY ClaimingFinite DEF Claiming, ClaimsNoMore, ClaimPc
<1>3. /\ IsFiniteSet(OwnedBy(a)') /\ Cardinality(OwnedBy(a)') <= Cardinality(OwnedBy(a))
      /\ IsFiniteSet(Claiming(a)') /\ Cardinality(Claiming(a)') <= Cardinality(Claiming(a))
  BY <1>1, <1>2, FS_Subset
<1>4. /\ Cardinality(OwnedBy(a)) \in Nat /\ Cardinality(OwnedBy(a)') \in Nat
      /\ Cardinality(Claiming(a)) \in Nat /\ Cardinality(Claiming(a)') \in Nat
      /\ Cardinality(Handlers) \in Nat /\ MaxConcurrentTasks \in Nat
  BY <1>1, <1>2, <1>3, FS_CardinalityType, ClaimingFinite, TaskQueueAssumption
<1>5. Cardinality(OwnedBy(a)) + Cardinality(Claiming(a))
        <= MaxConcurrentTasks + Cardinality(Handlers) - 1
  BY DEF CapacityInv, CapacityOvershoot
<1> QED BY <1>3, <1>4, <1>5

(* The check itself: it saw room for one more.                             *)
LEMMA CountCapacity ==
  ASSUME QueueInv, CapacityInv, NEW h \in Handlers, NEW b \in Agents, ClaimCount(h, b)
  PROVE  CapacityInv'
<1> SUFFICES ASSUME NEW a \in Agents
             PROVE  /\ IsFiniteSet(OwnedBy(a)')
                    /\ Cardinality(OwnedBy(a)') + Cardinality(Claiming(a)')
                         <= MaxConcurrentTasks + Cardinality(Handlers) - 1
  BY DEF CapacityInv, CapacityOvershoot
<1>1. /\ UNCHANGED task /\ Cardinality(OwnedBy(b)) < MaxConcurrentTasks
      /\ handler[h].pc = "idle"
  BY CountEffect DEF tableVars, At
<1>2. PICK next : Moved(h, next) /\ next.agent = b
  BY CountEffect DEF Starts
<1>3. OwnedBy(a)' = OwnedBy(a) /\ IsFiniteSet(OwnedBy(a))
  BY <1>1 DEF OwnedBy, RowsWith, CapacityInv
<1>4. Claiming(a)' \subseteq Handlers
  BY DEF Claiming
<1>5. /\ Cardinality(Handlers) \in Nat /\ MaxConcurrentTasks \in Nat
      /\ Cardinality(OwnedBy(a)) \in Nat
      /\ Cardinality(Claiming(a)') \in Nat /\ Cardinality(Claiming(a)') <= Cardinality(Handlers)
  BY <1>3, <1>4, ClaimingFinite, FS_Subset, FS_CardinalityType, TaskQueueAssumption
<1>6. CASE a = b
  BY <1>1, <1>3, <1>5, <1>6
<1>7. CASE a # b
  <2>1. Claiming(a)' = Claiming(a)
    BY <1>1, <1>2, <1>7 DEF Claiming, Moved
  <2> QED BY <1>3, <2>1 DEF CapacityInv, CapacityOvershoot
<1> QED BY <1>6, <1>7

(* The write: one more row, one claim less.                                *)
LEMMA DispatchCapacity ==
  ASSUME QueueInv, CapacityInv, NEW h \in Handlers, ClaimDispatch(h)
  PROVE  CapacityInv'
<1> SUFFICES ASSUME NEW a \in Agents
             PROVE  /\ IsFiniteSet(OwnedBy(a)')
                    /\ Cardinality(OwnedBy(a)') + Cardinality(Claiming(a)')
                         <= MaxConcurrentTasks + Cardinality(Handlers) - 1
  BY DEF CapacityInv, CapacityOvershoot
<1>1. PICK t \in TaskIds, b \in Agents :
        /\ t = handler[h].row /\ b = handler[h].agent
        /\ task[t].agent = b /\ ClaimUpdate(t)
  BY DispatchTable, DispatchEnds
<1>2. PICK next : Moved(h, next) /\ next.pc \in {"idle", "reconcile"}
  BY DispatchEnds DEF Ends, Ended
<1>3. task'[t].agent = b /\ \A u \in TaskIds \ {t} : task'[u] = task[u]
  BY <1>1, UpdateEffect DEF QueueInv
<1>4. handler[h].pc = "locked"
  BY DispatchEnds DEF At
<1>5. IsFiniteSet(OwnedBy(a)) /\ IsFiniteSet(Claiming(a))
  BY ClaimingFinite DEF CapacityInv
<1>6. /\ Cardinality(OwnedBy(a)) \in Nat /\ Cardinality(Claiming(a)) \in Nat
      /\ Cardinality(Handlers) \in Nat /\ MaxConcurrentTasks \in Nat
  BY <1>5, FS_CardinalityType, ClaimingFinite, TaskQueueAssumption
<1>7. Cardinality(OwnedBy(a)) + Cardinality(Claiming(a))
        <= MaxConcurrentTasks + Cardinality(Handlers) - 1
  BY DEF CapacityInv, CapacityOvershoot
<1>8. CASE a = b
  <2>1. OwnedBy(a)' \subseteq OwnedBy(a) \cup {t}
    BY <1>3 DEF OwnedBy, RowsWith
  <2>2. /\ IsFiniteSet(OwnedBy(a) \cup {t})
        /\ Cardinality(OwnedBy(a) \cup {t}) = IF t \in OwnedBy(a) THEN Cardinality(OwnedBy(a))
                                              ELSE Cardinality(OwnedBy(a)) + 1
    BY <1>5, FS_AddElement
  <2>3. /\ IsFiniteSet(OwnedBy(a)') /\ Cardinality(OwnedBy(a)') \in Nat
        /\ Cardinality(OwnedBy(a)') <= Cardinality(OwnedBy(a)) + 1
    <3>1. IsFiniteSet(OwnedBy(a)')
          /\ Cardinality(OwnedBy(a)') <= Cardinality(OwnedBy(a) \cup {t})
      BY <2>1, <2>2, FS_Subset
    <3>2. Cardinality(OwnedBy(a)') \in Nat
      BY <3>1, FS_CardinalityType
    <3> QED BY <1>6, <2>2, <3>1, <3>2
  <2>4. h \in Claiming(a) /\ Claiming(a)' = Claiming(a) \ {h}
    BY <1>1, <1>2, <1>4, <1>8 DEF Claiming, Moved
  <2>5. Cardinality(Claiming(a) \ {h}) = IF h \in Claiming(a) THEN Cardinality(Claiming(a)) - 1
                                         ELSE Cardinality(Claiming(a))
    BY <1>5, FS_RemoveElement
  <2> QED BY <1>6, <1>7, <2>3, <2>4, <2>5
<1>9. CASE a # b
  <2>1. OwnedBy(a)' = OwnedBy(a)
    BY <1>1, <1>3, <1>9 DEF OwnedBy, RowsWith
  <2>2. Claiming(a)' = Claiming(a)
    BY <1>1, <1>2, <1>4, <1>9 DEF Claiming, Moved
  <2> QED BY <1>5, <1>7, <2>1, <2>2
<1> QED BY <1>8, <1>9

(* Every other action leaves the claims in flight alone or ends one.       *)
LEMMA ClaimsNoMoreBy ==
  ASSUME NEW h \in Handlers, NEW next, Moved(h, next), next.pc \notin ClaimPc
  PROVE  ClaimsNoMore
BY DEF ClaimsNoMore, Moved

LEMMA EndsClaimsNoMore ==
  ASSUME NEW h \in Handlers, NEW A, Ends(h, A)
  PROVE  ClaimsNoMore
BY ClaimsNoMoreBy DEF Ends, Ended, ClaimPc

LEMMA HandlerStepClaims ==
  ASSUME QueueInv, NEW h \in Handlers, HandlerStep(h)
  PROVE  ClaimsNoMore
<1>1. ASSUME NEW t \in TaskIds, NEW r \in Runtimes, EnqueueInsert(h, t, r) PROVE ClaimsNoMore
  BY <1>1, InsertEnds, EndsClaimsNoMore
<1>2. CASE EnqueueFail(h) \/ ClaimNothing(h) \/ Respond(h)
  BY <1>2, GivesUp, EndsClaimsNoMore
<1>3. ASSUME NEW t \in TaskIds, ClaimTake(h, t) PROVE ClaimsNoMore
  BY <1>3, TakeEffect DEF ClaimsNoMore, Moved, ClaimPc, At
<1>4. CASE ClaimDispatch(h)
  BY <1>4, DispatchEnds, EndsClaimsNoMore
<1>5. CASE FailTaskRetry(h)
  BY <1>5, RetryEnds, EndsClaimsNoMore
<1>6. ASSUME NEW t \in TaskIds, BatchRetry(h, t) PROVE ClaimsNoMore
  BY <1>6, BatchRetryEffect, ClaimsNoMoreBy DEF Batches, ClaimPc
<1>7. CASE BatchIssue(h) \/ BatchActive(h) \/ BatchReset(h)
  BY <1>7, BatchIssueEffect, BatchActiveEffect, BatchResetEffect, ClaimsNoMoreBy
     DEF Advances, Batches, ClaimPc
<1>8. CASE BatchEnd(h)
  BY <1>8, BatchEnds, EndsClaimsNoMore
<1>9. CASE ArchiveCancel(h)
  BY <1>9, ArchiveEnds, EndsClaimsNoMore
<1>10. ASSUME NEW a \in Agents, RefreshRead(h, a) PROVE ClaimsNoMore
  BY <1>10, RefreshReadEffect, ClaimsNoMoreBy DEF ClaimPc
<1>11. CASE RefreshWrite(h)
  BY <1>11, RefreshWriteEnds, EndsClaimsNoMore
<1> QED BY <1>1, <1>2, <1>3, <1>4, <1>5, <1>6, <1>7, <1>8, <1>9, <1>10, <1>11 DEF HandlerStep

LEMMA HandlerStartClaims ==
  ASSUME QueueInv, NEW h \in Handlers, HandlerStart(h)
  PROVE  ClaimsNoMore \/ \E a \in Agents : ClaimCount(h, a)
<1>1. ASSUME NEW a \in Agents, NEW l \in QueuedLinks, EnqueueRead(h, a, l) PROVE ClaimsNoMore
  BY <1>1, EnqueueReadEffect, ClaimsNoMoreBy DEF Starts, ClaimPc
<1>2. ASSUME NEW a \in Agents, ArchiveAgent(h, a) PROVE ClaimsNoMore
  BY <1>2, ArchiveEffect, ClaimsNoMoreBy DEF Starts, ClaimPc
<1>3. ASSUME NEW t \in TaskIds, CompleteTask(h, t) PROVE ClaimsNoMore
  BY <1>3, CompleteEnds, EndsClaimsNoMore
<1>4. ASSUME NEW t \in TaskIds, NEW reason \in ReportedReasons, FailTask(h, t, reason)
      PROVE  ClaimsNoMore
  BY <1>4, FailTaskEffect, ClaimsNoMoreBy DEF ClaimPc
<1>5. ASSUME Sweep(h) PROVE ClaimsNoMore
  BY <1>5, SweepReturns, SweepEffect, ClaimsNoMoreBy DEF Starts, ClaimPc
<1>6. ASSUME NEW S \in CancelSets, Cancel(h, S) PROVE ClaimsNoMore
  BY <1>6, CancelEnds, EndsClaimsNoMore
<1>7. ASSUME NEW t \in TaskIds, Redeliver(h, t) PROVE ClaimsNoMore
  BY <1>7, RedeliverEffect, ClaimsNoMoreBy DEF Starts, ClaimPc
<1> QED BY <1>1, <1>2, <1>3, <1>4, <1>5, <1>6, <1>7 DEF HandlerStart

LEMMA CapacityStep ==
  QueueInv /\ CapacityInv /\ [QueueNext]_queueVars => CapacityInv'
<1> SUFFICES ASSUME QueueInv, CapacityInv, [QueueNext]_queueVars PROVE CapacityInv'
  OBVIOUS
<1>1. CASE UNCHANGED queueVars
  BY <1>1, CapacityKept DEF queueVars, tableVars, NoClaim, ClaimsNoMore
<1>2. ASSUME NEW h \in Handlers, HandlerStep(h) PROVE CapacityInv'
  BY <1>2, HandlerStepTable, HandlerStepClaims, CapacityKept, DispatchCapacity
<1>3. ASSUME NEW h \in Handlers, HandlerStart(h) PROVE CapacityInv'
  BY <1>3, HandlerStartTable, HandlerStartClaims, CapacityKept, CountCapacity
<1>4. ASSUME NEW h \in Handlers, Drop(h) PROVE CapacityInv'
  BY <1>4, DropEnds, EndsClaimsNoMore, CapacityKept DEF NoClaim
<1>5. ASSUME NEW t \in TaskIds,
             StartTask(t) \/ MarkTaskWaitingLocalDirectory(t) \/ AgentStartsIssue(t)
      PROVE  CapacityInv'
  BY <1>5, DaemonTable, CapacityKept DEF ClaimsNoMore
<1>6. ASSUME NEW a \in Agents, RestoreAgent(a) PROVE CapacityInv'
  BY <1>6, RestoreTable, CapacityKept DEF ClaimsNoMore
<1> QED BY <1>1, <1>2, <1>3, <1>4, <1>5, <1>6 DEF QueueNext

LEMMA CapacityStarts == QueueInit => CapacityInv
<1> SUFFICES ASSUME QueueInit, NEW a \in Agents
             PROVE  /\ IsFiniteSet(OwnedBy(a))
                    /\ Cardinality(OwnedBy(a)) + Cardinality(Claiming(a))
                         <= MaxConcurrentTasks + Cardinality(Handlers) - 1
  BY DEF CapacityInv, CapacityOvershoot
<1>1. OwnedBy(a) = {}
  BY DEF QueueInit, TableInit, AbsentRow, OwnedBy, RowsWith, Owned
<1>2. Claiming(a) = {}
  BY IdleRec DEF QueueInit, Claiming
<1>3. IsFiniteSet({}) /\ Cardinality({}) = 0
  BY FS_EmptySet
<1>4. Cardinality(Handlers) \in Nat /\ MaxConcurrentTasks \in Nat \ {0}
  BY ClaimingFinite, TaskQueueAssumption
<1> QED BY <1>1, <1>2, <1>3, <1>4

(* An agent may exceed max_concurrent_tasks, but by less than the number   *)
(* of claims in flight at once.                                            *)
THEOREM CapacityBounded == QueueSpec => []CapacityOvershoot
<1>1. QueueInit => CapacityInv
  BY CapacityStarts
<1>2. QueueInv /\ CapacityInv /\ [QueueNext]_queueVars => CapacityInv'
  BY CapacityStep
<1>3. CapacityInv => CapacityOvershoot
  BY DEF CapacityInv
<1> QED BY <1>1, <1>2, <1>3, QueueInvariant, PTL DEF QueueSpec

-----------------------------------------------------------------------------
(* An agent's status stays wrong only for an agent in missed.  The         *)
(* invariant has a second half, about the refreshes under way: one that    *)
(* holds an outdated reading, and that no other has overtaken, is not the  *)
(* last, for the handler that moved the rows has yet to refresh too.       *)

Attended(a) == \E h \in Handlers : WillReconcile(h, a)

StatusInv ==
  \A a \in Agents :
    /\ a \notin missed /\ agentStatus[a] # DerivedStatus(a) => Attended(a)
    /\ \A h \in Handlers \ overtaken :
         At(h, "refresh") /\ handler[h].agent = a /\ handler[h].seen # DerivedStatus(a)
           => Attended(a)

(* The tasks of a say what they said, and h still owes a what it owed.     *)
Unaffected(h, a) ==
  /\ DerivedStatus(a)' = DerivedStatus(a) /\ agentStatus'[a] = agentStatus[a]
  /\ a \in missed => a \in missed'
  /\ overtaken \ {h} \subseteq overtaken'
  /\ WillReconcile(h, a) => WillReconcile(h, a)'

(* The status of a is right, or recorded as wrong for good; the refreshes  *)
(* of a under way are recorded as overtaken.                               *)
Closed(h, a) ==
  /\ a \in missed' \/ agentStatus'[a] = DerivedStatus(a)'
  /\ \A k \in Handlers \ {h} : At(k, "refresh") /\ handler[k].agent = a => k \in overtaken'

StatusMove(h) ==
  /\ \A k \in Handlers \ {h} : handler'[k] = handler[k]
  /\ (At(h, "refresh") => handler[h].seen = DerivedStatus(handler[h].agent))'
  /\ \A a \in Agents : Unaffected(h, a) \/ Attended(a)' \/ Closed(h, a)

(* What h was to reconcile it still is; and h is to reconcile every agent  *)
(* whose rows have changed.                                                *)
Reconciles(h) ==
  /\ \A k \in Handlers \ {h} : handler'[k] = handler[k]
  /\ handler'[h].pc # "refresh"
  /\ UNCHANGED <<agentStatus, history>>
  /\ \A a \in Agents :
       /\ WillReconcile(h, a) => WillReconcile(h, a)'
       /\ DerivedStatus(a)' = DerivedStatus(a) \/ WillReconcile(h, a)'

LEMMA ReconcilesMoves ==
  ASSUME NEW h \in Handlers, Reconciles(h)
  PROVE  StatusMove(h)
<1>1. ASSUME NEW a \in Agents PROVE Unaffected(h, a) \/ Attended(a)'
  <2>1. CASE WillReconcile(h, a)'
    BY <2>1 DEF Attended
  <2>2. CASE ~WillReconcile(h, a)'
    BY <2>2 DEF Reconciles, Unaffected, history
  <2> QED BY <2>1, <2>2
<1> QED BY <1>1 DEF Reconciles, StatusMove, At

(* Others move rows, but the rows a handler has in hand have failed, and   *)
(* keep their agents.                                                      *)
LEMMA WillKept ==
  ASSUME QueueInv, RowsKept, NEW k \in Handlers, handler'[k] = handler[k], NEW a \in Agents,
         WillReconcile(k, a), DerivedStatus(a)' = DerivedStatus(a)
  PROVE  WillReconcile(k, a)'
<1>1. PICK me \in HandlerRec : me = handler[k]
  BY HandlerType DEF QueueInv
<1>2. HandlerOK(me, task) /\ me.left \subseteq TaskIds
  BY <1>1 DEF QueueInv, HandlersOK, HandlerRec
<1>3. \A t \in me.left : task'[t].agent = task[t].agent
  BY <1>2 DEF HandlerOK, RowsKept
<1>4. me.pc = "retry" => task'[me.row].agent = task[me.row].agent
  BY <1>2 DEF HandlerOK, RowsKept
<1>5. \/ a \in me.agents
      \/ \E t \in me.left : a = task'[t].agent
      \/ me.pc = "retry" /\ task'[me.row].agent = a
  BY <1>1, <1>3, <1>4 DEF WillReconcile, AgentsOf, At
<1>6. me.pc = "refresh" /\ me.agent = a => me.seen = DerivedStatus(a)'
  BY <1>1 DEF WillReconcile, At
<1>7. handler'[k] = me
  BY <1>1
<1> QED BY <1>5, <1>6, <1>7 DEF WillReconcile, AgentsOf, At

LEMMA AttendedKept ==
  ASSUME QueueInv, RowsKept, NEW h \in Handlers, NEW a \in Agents,
         \A k \in Handlers \ {h} : handler'[k] = handler[k],
         Unaffected(h, a), Attended(a)
  PROVE  Attended(a)'
<1>1. PICK k \in Handlers : WillReconcile(k, a)
  BY DEF Attended
<1>2. DerivedStatus(a)' = DerivedStatus(a) /\ (WillReconcile(h, a) => WillReconcile(h, a)')
  BY DEF Unaffected
<1>3. CASE k = h
  BY <1>1, <1>2, <1>3 DEF Attended
<1>4. CASE k # h
  BY <1>1, <1>2, <1>4, WillKept DEF Attended
<1> QED BY <1>3, <1>4

LEMMA StatusKept ==
  ASSUME QueueInv, RowsKept, StatusInv, NEW h \in Handlers, StatusMove(h)
  PROVE  StatusInv'
<1>1. ASSUME NEW a \in Agents, a \notin missed', agentStatus'[a] # DerivedStatus(a)'
      PROVE  Attended(a)'
  <2>1. CASE Unaffected(h, a)
    <3>1. Attended(a)
      BY <1>1, <2>1 DEF StatusInv, Unaffected
    <3> QED BY <2>1, <3>1, AttendedKept DEF StatusMove
  <2>2. ~Closed(h, a)
    BY <1>1 DEF Closed
  <2> QED BY <2>1, <2>2 DEF StatusMove
<1>2. ASSUME NEW a \in Agents, NEW k \in Handlers, k \notin overtaken',
             At(k, "refresh")', handler'[k].agent = a, handler'[k].seen # DerivedStatus(a)'
      PROVE  Attended(a)'
  <2>1. k # h
    BY <1>2 DEF StatusMove, At
  <2>2. handler'[k] = handler[k] /\ At(k, "refresh") /\ handler[k].agent = a
    BY <1>2, <2>1 DEF StatusMove, At
  <2>3. CASE Unaffected(h, a)
    <3>1. Attended(a)
      BY <1>2, <2>1, <2>2, <2>3 DEF StatusInv, Unaffected
    <3> QED BY <2>3, <3>1, AttendedKept DEF StatusMove
  <2>4. ~Closed(h, a)
    BY <1>2, <2>1, <2>2 DEF Closed
  <2> QED BY <2>3, <2>4 DEF StatusMove
<1> QED BY <1>1, <1>2 DEF StatusInv

(* Only the agents of the rows S can have got another status.              *)
LEMMA DerivedElsewhere ==
  ASSUME NEW S \in SUBSET TaskIds, \A t \in TaskIds \ S : task'[t] = task[t],
         \A t \in S : task'[t].agent = task[t].agent,
         NEW a, \A t \in S : task[t].agent # a
  PROVE  DerivedStatus(a)' = DerivedStatus(a)
<1>1. OwnedBy(a)' = OwnedBy(a)
  BY DEF OwnedBy, RowsWith
<1> QED BY <1>1 DEF DerivedStatus

LEMMA InsertDerived ==
  ASSUME NEW c \in TaskIds, task[c].status = "absent", task'[c].status = "queued",
         \A t \in TaskIds \ {c} : task'[t] = task[t]
  PROVE  \A a : DerivedStatus(a)' = DerivedStatus(a)
<1>1. \A a : OwnedBy(a)' = OwnedBy(a)
  BY DEF OwnedBy, RowsWith, Owned
<1> QED BY <1>1 DEF DerivedStatus

LEMMA SameDerived ==
  UNCHANGED task => \A a : DerivedStatus(a)' = DerivedStatus(a)
BY DEF DerivedStatus, OwnedBy, RowsWith

LEMMA RetryDerived ==
  ASSUME QueueInv, NEW p \in TaskIds, Retried(p) \/ NotRetried(p)
  PROVE  \A a : DerivedStatus(a)' = DerivedStatus(a)
<1>1. CASE Retried(p)
  BY <1>1, RetryTable, InsertDerived DEF QueueInv
<1>2. CASE NotRetried(p)
  BY <1>2, SameDerived DEF NotRetried, tableVars
<1> QED BY <1>1, <1>2

(* A handler with nothing in hand.                                         *)
LEMMA NothingInHand ==
  ASSUME QueueInv, NEW h \in Handlers,
         handler[h].pc \in {"idle", "enqueue", "counted", "locked", "archive", "respond"}
  PROVE  \A a : ~WillReconcile(h, a)
<1>1. handler[h].left = {} /\ handler[h].agents = {}
  BY DEF QueueInv, HandlersOK, HandlerOK
<1> QED BY <1>1 DEF WillReconcile, AgentsOf, At

LEMMA EndsReconciles ==
  ASSUME NEW h \in Handlers, NEW A, Ends(h, A)
  PROVE  /\ \A k \in Handlers \ {h} : handler'[k] = handler[k]
         /\ \A a \in A : WillReconcile(h, a)'
         /\ handler'[h].pc # "refresh"
BY DEF Ends, Ended, Moved, WillReconcile, At

(* A handler that had nothing in hand, and changed the rows of A at most.  *)
LEMMA EndsStatus ==
  ASSUME QueueInv, NEW h \in Handlers, NEW A, Ends(h, A), UNCHANGED <<agentStatus, history>>,
         handler[h].pc \in {"idle", "enqueue", "counted", "locked", "archive", "respond"},
         \A a \in Agents \ A : DerivedStatus(a)' = DerivedStatus(a)
  PROVE  Reconciles(h)
BY NothingInHand, EndsReconciles DEF Reconciles

LEMMA StartsStatus ==
  ASSUME QueueInv, NEW h \in Handlers, NEW next, Moved(h, next), next.pc # "refresh",
         UNCHANGED <<task, agentStatus, history>>,
         handler[h].pc \in {"idle", "enqueue", "counted", "locked", "archive"}
  PROVE  Reconciles(h)
BY NothingInHand, SameDerived DEF Reconciles, Moved

(* The three steps that may leave a status wrong.                          *)
LEMMA ArchiveStatus ==
  ASSUME QueueInv, NEW h \in Handlers, ArchiveCancel(h)
  PROVE  StatusMove(h)
<1>1. PICK S \in SUBSET TaskIds :
        /\ Neglects(h, AgentsOf(S))
        /\ \A t \in S : task'[t].agent = task[t].agent
        /\ \A t \in TaskIds \ S : task'[t] = task[t]
  BY ArchiveEnds
<1>2. /\ handler[h].pc = "archive" /\ UNCHANGED agentStatus
      /\ \A k \in Handlers \ {h} : handler'[k] = handler[k]
      /\ handler'[h].pc # "refresh"
  BY ArchiveEnds, EndsReconciles DEF At
<1>3. ASSUME NEW a \in Agents PROVE Unaffected(h, a) \/ Closed(h, a)
  <2>1. CASE a \in AgentsOf(S)
    BY <1>1, <2>1 DEF Neglects, Overtakes, Closed
  <2>2. CASE a \notin AgentsOf(S)
    <3>1. DerivedStatus(a)' = DerivedStatus(a)
      BY <1>1, <2>2, DerivedElsewhere DEF AgentsOf
    <3>2. ~WillReconcile(h, a)
      BY <1>2, NothingInHand
    <3> QED BY <1>1, <1>2, <3>1, <3>2 DEF Neglects, Overtakes, Unaffected
  <2> QED BY <2>1, <2>2
<1> QED BY <1>2, <1>3 DEF StatusMove, At

LEMMA DropStatus ==
  ASSUME QueueInv, NEW h \in Handlers, Drop(h)
  PROVE  StatusMove(h)
<1>1. /\ Neglects(h, {a \in Agents : WillReconcile(h, a)})
      /\ UNCHANGED <<task, agentStatus>>
      /\ \A k \in Handlers \ {h} : handler'[k] = handler[k]
      /\ handler'[h].pc # "refresh"
  BY DropEnds, EndsReconciles
<1>2. ASSUME NEW a \in Agents PROVE Unaffected(h, a) \/ Closed(h, a)
  <2>1. CASE WillReconcile(h, a)
    BY <1>1, <2>1 DEF Neglects, Overtakes, Closed
  <2>2. CASE ~WillReconcile(h, a)
    BY <1>1, <2>2, SameDerived DEF Neglects, Overtakes, Unaffected
  <2> QED BY <2>1, <2>2
<1> QED BY <1>1, <1>2 DEF StatusMove, At

LEMMA RefreshWriteStatus ==
  ASSUME QueueInv, RowsKept, StatusInv, NEW h \in Handlers, RefreshWrite(h)
  PROVE  StatusMove(h)
<1>1. PICK a \in Agents : a = handler[h].agent
  BY RefreshWriteEnds
<1>2. /\ At(h, "refresh") /\ UNCHANGED task /\ handler[h].left = {}
      /\ Ends(h, handler[h].agents \ {a})
      /\ agentStatus'[a] = handler[h].seen
      /\ \A b \in Agents \ {a} : agentStatus'[b] = agentStatus[b]
      /\ missed' = IF h \in overtaken /\ handler[h].seen # DerivedStatus(a)
                   THEN missed \cup {a} ELSE missed \ {a}
      /\ Overtakes(h, {a})
  BY <1>1, RefreshWriteEnds DEF tableVars
<1>3. /\ \A k \in Handlers \ {h} : handler'[k] = handler[k]
      /\ handler'[h].pc # "refresh"
      /\ \A b \in handler[h].agents \ {a} : WillReconcile(h, b)'
  BY <1>2, EndsReconciles
<1>4. \A b : DerivedStatus(b)' = DerivedStatus(b)
  BY <1>2, SameDerived
<1>5. ASSUME NEW b \in Agents \ {a} PROVE Unaffected(h, b)
  <2>1. WillReconcile(h, b) => b \in handler[h].agents
    BY <1>2 DEF WillReconcile, AgentsOf, At
  <2>2. WillReconcile(h, b) => WillReconcile(h, b)'
    BY <1>3, <2>1
  <2>3. (b \in missed => b \in missed') /\ overtaken \ {h} \subseteq overtaken'
    BY <1>2 DEF Overtakes
  <2> QED BY <1>2, <1>4, <2>2, <2>3 DEF Unaffected
<1>6. \A k \in Handlers \ {h} : At(k, "refresh") /\ handler[k].agent = a => k \in overtaken'
  BY <1>2 DEF Overtakes
<1>7. CASE handler[h].seen = DerivedStatus(a) \/ h \in overtaken
  <2>1. a \in missed' \/ agentStatus'[a] = DerivedStatus(a)'
    BY <1>2, <1>4, <1>7
  <2>2. Closed(h, a)
    BY <1>6, <2>1 DEF Closed
  <2> QED BY <1>3, <1>5, <2>2 DEF StatusMove, At
<1>8. CASE handler[h].seen # DerivedStatus(a) /\ h \notin overtaken
  <2>1. PICK k \in Handlers : WillReconcile(k, a)
    BY <1>1, <1>2, <1>8 DEF StatusInv, Attended
  <2>2. k # h
    BY <1>1, <1>2, <1>8, <2>1 DEF WillReconcile
  <2>3. Attended(a)'
    BY <1>3, <1>4, <2>1, <2>2, WillKept DEF Attended
  <2> QED BY <1>3, <1>5, <2>3 DEF StatusMove, At
<1> QED BY <1>7, <1>8

LEMMA RefreshReadStatus ==
  ASSUME QueueInv, NEW h \in Handlers, NEW a \in Agents, RefreshRead(h, a)
  PROVE  StatusMove(h)
<1>1. PICK next \in HandlerRec :
        /\ Moved(h, next) /\ next.pc = "refresh" /\ next.agents = handler[h].agents
        /\ next.agent = a /\ next.seen = DerivedStatus(a)
  BY RefreshReadEffect
<1>2. handler[h].pc = "reconcile" /\ UNCHANGED <<task, agentStatus, overtaken, missed>>
  BY RefreshReadEffect DEF At, tableVars, serviceVars, history
<1>3. \A b : DerivedStatus(b)' = DerivedStatus(b)
  BY <1>2, SameDerived
<1>4. handler'[h] = next /\ handler[h].left = {}
  BY <1>1, <1>2 DEF Moved, QueueInv, HandlersOK, HandlerOK
<1>5. ASSUME NEW b \in Agents, WillReconcile(h, b) PROVE WillReconcile(h, b)'
  <2>1. b \in handler[h].agents
    BY <1>2, <1>4, <1>5 DEF WillReconcile, AgentsOf, At
  <2>2. b = a => next.seen = DerivedStatus(b)'
    BY <1>1, <1>3
  <2> QED BY <1>1, <1>4, <2>1, <2>2 DEF WillReconcile, At
<1>6. \A b \in Agents : Unaffected(h, b)
  BY <1>2, <1>3, <1>5 DEF Unaffected
<1>7. (handler[h].seen = DerivedStatus(handler[h].agent))'
  <2>1. handler'[h].seen = DerivedStatus(a) /\ handler'[h].agent = a
    BY <1>1, <1>4
  <2>2. DerivedStatus(handler[h].agent)' = DerivedStatus(a)'
    BY <2>1 DEF DerivedStatus, OwnedBy
  <2> QED BY <1>3, <2>1, <2>2
<1> QED BY <1>1, <1>6, <1>7 DEF StatusMove, Moved

LEMMA HandlerStepStatus ==
  ASSUME QueueInv, NEW h \in Handlers, HandlerStep(h)
  PROVE  \/ Reconciles(h)
         \/ ArchiveCancel(h) \/ RefreshWrite(h) \/ \E a \in Agents : RefreshRead(h, a)
<1>1. ASSUME NEW t \in TaskIds, NEW r \in Runtimes, EnqueueInsert(h, t, r) PROVE Reconciles(h)
  <2>1. \A a : DerivedStatus(a)' = DerivedStatus(a)
    BY <1>1, InsertEnds, InsertDerived
  <2> QED BY <1>1, <2>1, InsertEnds, EndsStatus DEF At, serviceVars
<1>2. CASE EnqueueFail(h) \/ ClaimNothing(h) \/ Respond(h)
  BY <1>2, GivesUp, SameDerived, EndsStatus DEF tableVars, serviceVars
<1>3. ASSUME NEW t \in TaskIds, ClaimTake(h, t) PROVE Reconciles(h)
  BY <1>3, TakeEffect, StartsStatus DEF At, serviceVars
<1>4. CASE ClaimDispatch(h)
  <2>1. PICK t \in TaskIds : /\ t = handler[h].row /\ task[t].agent = handler[h].agent
                             /\ ClaimUpdate(t)
    BY <1>4, DispatchTable, DispatchEnds
  <2>2. /\ {t} \in SUBSET TaskIds /\ \A u \in TaskIds \ {t} : task'[u] = task[u]
        /\ \A u \in {t} : task'[u].agent = task[u].agent
    BY <2>1, UpdateEffect DEF QueueInv
  <2>3. \A a \in Agents \ {handler[h].agent} : DerivedStatus(a)' = DerivedStatus(a)
    BY <2>1, <2>2, DerivedElsewhere
  <2> QED BY <1>4, <2>3, DispatchEnds, EndsStatus DEF At, serviceVars
<1>5. CASE FailTaskRetry(h)
  <2>1. PICK p \in TaskIds : p = handler[h].row
    BY <1>5, RetryEnds
  <2>2. /\ handler[h].pc = "retry" /\ Ends(h, {task[p].agent}) /\ UNCHANGED <<agentStatus, history>>
        /\ Retried(p) \/ NotRetried(p)
    BY <1>5, <2>1, RetryEnds DEF At, serviceVars
  <2>3. \A a : DerivedStatus(a)' = DerivedStatus(a)
    BY <2>2, RetryDerived
  <2>4. handler[h].left = {} /\ handler[h].agents = {}
    BY <2>2 DEF QueueInv, HandlersOK, HandlerOK
  <2>5. \A a : WillReconcile(h, a) => a \in {task[p].agent}
    BY <2>1, <2>4 DEF WillReconcile, AgentsOf
  <2> QED BY <2>2, <2>3, <2>5, EndsReconciles DEF Reconciles
<1>6. ASSUME NEW t \in TaskIds, BatchRetry(h, t) PROVE Reconciles(h)
  <2>1. PICK next \in HandlerRec :
          /\ Batches(h, next) /\ next.left = handler[h].left \ {t}
          /\ next.agents = handler[h].agents \cup {task[t].agent}
    BY <1>6, BatchRetryEffect
  <2>2. \A a : DerivedStatus(a)' = DerivedStatus(a)
    BY <1>6, BatchRetryEffect, RetryDerived
  <2>3. /\ UNCHANGED <<agentStatus, history>> /\ handler[h].pc = "batch"
        /\ \A u \in handler[h].left : u \in TaskIds /\ task'[u].agent = task[u].agent
    <3>1. RowsKept
      BY <1>6, BatchRetryEffect, RetryOrNot, RowsKeptBy DEF NoClaim, QueueInv
    <3>2. \A u \in handler[h].left : u \in TaskIds /\ task[u].status = "failed"
      BY HandlerType DEF QueueInv, HandlersOK, HandlerOK, HandlerRec
    <3> QED BY <1>6, <3>1, <3>2, BatchRetryEffect DEF RowsKept, At, serviceVars
  <2>4. ASSUME NEW a \in Agents, WillReconcile(h, a) PROVE WillReconcile(h, a)'
    <3>1. handler'[h] = next /\ next.pc # "refresh"
      BY <2>1 DEF Batches, Moved
    <3>2. CASE a \in handler[h].agents
      BY <2>1, <3>1, <3>2 DEF WillReconcile, At
    <3>3. ASSUME NEW u \in handler[h].left, a = task[u].agent PROVE WillReconcile(h, a)'
      <4>1. CASE u = t
        BY <2>1, <3>1, <3>3, <4>1 DEF WillReconcile, At
      <4>2. CASE u # t
        BY <2>1, <2>3, <3>1, <3>3, <4>2 DEF WillReconcile, AgentsOf, At
      <4> QED BY <4>1, <4>2
    <3> QED BY <2>3, <2>4, <3>2, <3>3 DEF WillReconcile, AgentsOf, At
  <2> QED BY <2>1, <2>2, <2>3, <2>4 DEF Reconciles, Batches, Moved
<1>7. CASE BatchIssue(h) \/ BatchActive(h) \/ BatchReset(h)
  <2>1. PICK next : /\ Moved(h, next) /\ next.left = handler[h].left
                    /\ next.agents = handler[h].agents /\ next.pc # "refresh"
                    /\ handler[h].pc # "retry" /\ UNCHANGED <<task, agentStatus, history>>
    BY <1>7, BatchIssueEffect, BatchActiveEffect, BatchResetEffect
       DEF Advances, Batches, tableVars
  <2>2. ASSUME NEW a \in Agents, WillReconcile(h, a) PROVE WillReconcile(h, a)'
    BY <2>1, <2>2 DEF WillReconcile, AgentsOf, At, Moved
  <2> QED BY <2>1, <2>2, SameDerived DEF Reconciles, Moved
<1>8. CASE BatchEnd(h)
  <2>1. /\ handler[h].left = {} /\ handler[h].pc = "batch" /\ Ends(h, handler[h].agents)
        /\ UNCHANGED <<task, agentStatus, history>>
    BY <1>8, BatchEnds DEF At, tableVars, serviceVars
  <2>2. \A a : WillReconcile(h, a) => a \in handler[h].agents
    BY <2>1 DEF WillReconcile, AgentsOf, At
  <2> QED BY <2>1, <2>2, SameDerived, EndsReconciles DEF Reconciles
<1> QED BY <1>1, <1>2, <1>3, <1>4, <1>5, <1>6, <1>7, <1>8 DEF HandlerStep

LEMMA HandlerStartStatus ==
  ASSUME QueueInv, NEW h \in Handlers, HandlerStart(h)
  PROVE  Reconciles(h)
<1>1. ASSUME NEW a \in Agents, NEW l \in QueuedLinks, EnqueueRead(h, a, l) PROVE Reconciles(h)
  BY <1>1, EnqueueReadEffect, StartsStatus DEF Starts, At, tableVars, serviceVars
<1>2. ASSUME NEW a \in Agents, ClaimCount(h, a) PROVE Reconciles(h)
  BY <1>2, CountEffect, StartsStatus DEF Starts, At, tableVars, serviceVars
<1>3. ASSUME NEW a \in Agents, ArchiveAgent(h, a) PROVE Reconciles(h)
  BY <1>3, ArchiveEffect, StartsStatus DEF Starts, At, tableVars
<1>4. ASSUME NEW t \in TaskIds, CompleteTask(h, t) PROVE Reconciles(h)
  <2>1. /\ {t} \in SUBSET TaskIds /\ \A u \in TaskIds \ {t} : task'[u] = task[u]
        /\ \A u \in {t} : task'[u].agent = task[u].agent
    BY <1>4, CompleteEnds
  <2>2. \A a \in Agents \ {task[t].agent} : DerivedStatus(a)' = DerivedStatus(a)
    BY <2>1, DerivedElsewhere
  <2> QED BY <1>4, <2>2, CompleteEnds, EndsStatus DEF At, serviceVars
<1>5. ASSUME NEW t \in TaskIds, NEW reason \in ReportedReasons, FailTask(h, t, reason)
      PROVE  Reconciles(h)
  <2>1. PICK next \in HandlerRec : Moved(h, next) /\ next.pc = "retry" /\ next.row = t
    BY <1>5, FailTaskEffect
  <2>2. /\ {t} \in SUBSET TaskIds /\ \A u \in TaskIds \ {t} : task'[u] = task[u]
        /\ \A u \in {t} : task'[u].agent = task[u].agent
        /\ handler[h].pc = "idle" /\ UNCHANGED <<agentStatus, history>>
    BY <1>5, FailTaskEffect DEF At, serviceVars
  <2>3. \A a \in Agents \ {task[t].agent} : DerivedStatus(a)' = DerivedStatus(a)
    BY <2>2, DerivedElsewhere
  <2>4. WillReconcile(h, task[t].agent)'
    BY <2>1, <2>2 DEF WillReconcile, At, Moved
  <2> QED BY <2>1, <2>2, <2>3, <2>4, NothingInHand DEF Reconciles, Moved
<1>6. ASSUME Sweep(h) PROVE Reconciles(h)
  <2>1. PICK S \in SUBSET TaskIds : Swept(S) /\ HandleFailedTasks(h, S)
    BY <1>6, SweepReturns
  <2>2. PICK next \in HandlerRec : Moved(h, next) /\ next.left = S /\ next.pc # "refresh"
    BY <2>1, SweepEffect DEF Starts
  <2>3. /\ \A u \in TaskIds \ S : task'[u] = task[u]
        /\ \A u \in S : task'[u].agent = task[u].agent
        /\ handler[h].pc = "idle" /\ UNCHANGED <<agentStatus, history>>
    BY <2>1, SweepEffect DEF At, serviceVars
  <2>4. \A a \in Agents : (\A t \in S : task[t].agent # a) => DerivedStatus(a)' = DerivedStatus(a)
    BY <2>3, DerivedElsewhere
  <2>5. ASSUME NEW t \in S PROVE WillReconcile(h, task[t].agent)'
    BY <2>2, <2>3 DEF WillReconcile, AgentsOf, Moved, At
  <2> QED BY <2>2, <2>3, <2>4, <2>5, NothingInHand DEF Reconciles, Moved
<1>7. ASSUME NEW S \in CancelSets, Cancel(h, S) PROVE Reconciles(h)
  <2>1. /\ S \in SUBSET TaskIds /\ \A u \in TaskIds \ S : task'[u] = task[u]
        /\ \A u \in S : task'[u].agent = task[u].agent
    BY <1>7, CancelEnds, CancelRowsEffect
  <2>2. \A a \in Agents \ AgentsOf(S) : DerivedStatus(a)' = DerivedStatus(a)
    BY <2>1, DerivedElsewhere DEF AgentsOf
  <2> QED BY <1>7, <2>2, CancelEnds, EndsStatus DEF At, serviceVars
<1>8. ASSUME NEW t \in TaskIds, Redeliver(h, t) PROVE Reconciles(h)
  BY <1>8, RedeliverEffect, StartsStatus DEF Starts, At, tableVars, serviceVars
<1> QED BY <1>1, <1>2, <1>3, <1>4, <1>5, <1>6, <1>7, <1>8 DEF HandlerStart

(* The daemon's start and wait leave the row with its owner.               *)
LEMMA DaemonDerived ==
  ASSUME QueueInv, NEW t \in TaskIds, StartAgentTask(t) \/ MarkAgentTaskWaitingLocalDirectory(t)
  PROVE  \A a : DerivedStatus(a)' = DerivedStatus(a)
<1>1. PICK s \in Owned : SetStatus({t}, s, None) /\ task[t].status \in Owned
  BY DEF StartAgentTask, MarkAgentTaskWaitingLocalDirectory, Owned
<1>2. {t} \in SUBSET TaskIds /\ s \in Status /\ \A u \in {t} : task[u].status # "absent"
  BY <1>1 DEF Status, Active, Owned
<1>3. /\ task'[t].status = s /\ task'[t].agent = task[t].agent
      /\ \A u \in TaskIds \ {t} : task'[u] = task[u]
  BY <1>1, <1>2, SetStatusEffect DEF QueueInv, FlightInv
<1>4. \A a : OwnedBy(a)' = OwnedBy(a)
  BY <1>1, <1>3 DEF OwnedBy, RowsWith
<1> QED BY <1>4 DEF DerivedStatus

LEMMA StatusStep ==
  QueueInv /\ StatusInv /\ [QueueNext]_queueVars => StatusInv'
<1> SUFFICES ASSUME QueueInv, StatusInv, [QueueNext]_queueVars
             PROVE  StatusInv'
  OBVIOUS
<1>0. RowsKept
  BY QueueTable
<1>1. ASSUME UNCHANGED <<handler, agentStatus, history>>,
             \A a : DerivedStatus(a)' = DerivedStatus(a)
      PROVE  StatusInv'
  <2>1. \A a \in Agents : Attended(a) => Attended(a)'
    BY <1>0, <1>1, WillKept DEF Attended
  <2> QED BY <1>1, <2>1 DEF StatusInv, At, history
<1>2. CASE UNCHANGED queueVars
  BY <1>1, <1>2, SameDerived DEF queueVars, tableVars, serviceVars
<1>3. ASSUME NEW h \in Handlers, HandlerStep(h) \/ HandlerStart(h) PROVE StatusMove(h)
  BY <1>0, <1>3, HandlerStepStatus, HandlerStartStatus, ReconcilesMoves, ArchiveStatus,
     RefreshReadStatus, RefreshWriteStatus
<1>4. ASSUME NEW h \in Handlers, Drop(h) PROVE StatusMove(h)
  BY <1>4, DropStatus
<1>5. ASSUME NEW t \in TaskIds,
             StartTask(t) \/ MarkTaskWaitingLocalDirectory(t) \/ AgentStartsIssue(t)
      PROVE  StatusInv'
  <2>1. \A a : DerivedStatus(a)' = DerivedStatus(a)
    BY <1>5, DaemonDerived, SameDerived
       DEF StartTask, MarkTaskWaitingLocalDirectory, AgentStartsIssue, tableVars
  <2> QED BY <1>1, <1>5, <2>1, DaemonTable
<1>6. ASSUME NEW a \in Agents, RestoreAgent(a) PROVE StatusInv'
  BY <1>1, <1>6, RestoreTable, SameDerived
<1> QED BY <1>0, <1>2, <1>3, <1>4, <1>5, <1>6, StatusKept DEF QueueNext

(* An agent's status stays wrong only after a dropped handler, an archived *)
(* agent, or a refresh that wrote an outdated reading after another had    *)
(* written; otherwise, while it differs from what the tasks say, some      *)
(* handler is on its way to refresh it.  Refreshes overlap freely.         *)
THEOREM StatusNeverLost == QueueSpec => []StatusReconciled
<1>1. QueueInit => StatusInv
  <2> SUFFICES ASSUME QueueInit PROVE StatusInv
    OBVIOUS
  <2>1. \A a : OwnedBy(a) = {}
    BY DEF QueueInit, TableInit, AbsentRow, OwnedBy, RowsWith, Owned
  <2>2. \A h \in Handlers : ~At(h, "refresh")
    BY IdleRec DEF QueueInit, At
  <2> QED BY <2>1, <2>2 DEF QueueInit, StatusInv, DerivedStatus
<1>2. QueueInv /\ StatusInv /\ [QueueNext]_queueVars => StatusInv'
  BY StatusStep
<1>3. StatusInv => StatusReconciled
  BY DEF StatusInv, StatusReconciled, Attended
<1> QED BY <1>1, <1>2, <1>3, QueueInvariant, PTL DEF QueueSpec

-----------------------------------------------------------------------------
(* An issue whose tasks have all failed goes back to todo, when only the   *)
(* sweepers fail tasks (the report of a daemon leaves the issue to the     *)
(* agent) and no handler is dropped: the last row to fail starts a batch   *)
(* that has dealt with no issue yet, and the batch gets to that issue      *)
(* unless a retry has given it a new row.                                  *)

SweptAndFinished == ~ReportsFailures /\ ~MayDrop

FailsNothing ==
  \A t \in TaskIds : task'[t].status = "failed" => task[t].status = "failed"

LEMMA FailsNothingBy ==
  ASSUME QueueInv,
         \/ UNCHANGED task \/ InsertStep \/ Claims
         \/ \E S \in SUBSET RowsWith(Active) : CancelRows(S)
  PROVE  FailsNothing
<1>0. FlightInv
  BY DEF QueueInv
<1>1. CASE UNCHANGED task
  BY <1>1 DEF FailsNothing
<1>2. CASE InsertStep
  BY <1>0, <1>2, InsertEffect DEF FailsNothing
<1>3. CASE Claims
  BY <1>0, <1>3, UpdateEffect DEF FailsNothing, Claims
<1>4. ASSUME NEW S \in SUBSET RowsWith(Active), CancelRows(S) PROVE FailsNothing
  BY <1>4, CancelRowsEffect DEF FailsNothing
<1> QED BY <1>1, <1>2, <1>3, <1>4

(* The rows of i had all failed before, unless one of them fails now.      *)
LEMMA FailedBefore ==
  ASSUME QueueInv, RowsKept, NEW i \in Issues, AllFailed(i)',
         \A t \in TaskIds : task'[t].status = "failed" /\ task'[t].link.issue = i
                            => task[t].status = "failed"
  PROVE  AllFailed(i)
<1>1. \A t \in TaskIds : task'[t].link.issue = i => task'[t].status = "failed"
  BY DEF AllFailed
<1>2. PICK c \in TaskIds : task'[c].link.issue = i
  BY DEF AllFailed
<1>3. task[c].status = "failed" /\ task[c].link.issue = i
  BY <1>1, <1>2 DEF RowsKept
<1>4. ASSUME NEW t \in TaskIds, task[t].link.issue = i PROVE task[t].status = "failed"
  <2>1. task[t].status # "absent"
    <3>1. task[t] # AbsentRow
      BY <1>4, NoneFresh DEF AbsentRow, NoLink
    <3> QED BY <3>1 DEF QueueInv, FlightInv, TableTypeOK, Row, Status, Active, Owned, Terminal
  <2>2. task'[t].link.issue = i
    BY <1>4, <2>1 DEF RowsKept
  <2> QED BY <1>1, <2>2
<1> QED BY <1>3, <1>4 DEF AllFailed

(* Who was to reset i and is not moved still is.                           *)
LEMMA WillResetKept ==
  ASSUME QueueInv, RowsKept, NEW i \in Issues, NEW k \in Handlers, handler'[k] = handler[k],
         WillReset(handler[k], i)
  PROVE  WillReset(handler[k], i)'
<1>1. PICK me \in HandlerRec : me = handler[k]
  BY HandlerType DEF QueueInv
<1>2. HandlerOK(me, task) /\ me.left \subseteq TaskIds
  BY <1>1 DEF QueueInv, HandlersOK, HandlerRec
<1>3. \A t \in me.left : task'[t].link = task[t].link
  BY <1>2 DEF HandlerOK, RowsKept
<1>4. me.pc \in {"issue", "active", "reset"} => task'[me.row].link = task[me.row].link
  BY <1>2 DEF HandlerOK, RowsKept
<1>5. \/ /\ i \notin me.processed \cup me.retried
         /\ \/ \E t \in me.left : task'[t].link.issue = i
            \/ me.pc = "issue" /\ task'[me.row].link.issue = i
      \/ me.pc \in {"active", "reset"} /\ task'[me.row].link.issue = i
  BY <1>1, <1>3, <1>4 DEF WillReset
<1>6. handler'[k] = me
  BY <1>1
<1> QED BY <1>5, <1>6 DEF WillReset

(* What a step must do: an issue that is stuck was stuck before, or its    *)
(* last row has failed in this step; and h does not forget it.             *)
StuckMove(h) ==
  /\ \A k \in Handlers \ {h} : handler'[k] = handler[k]
  /\ \A i \in Issues : AllFailed(i)' /\ issueStatus'[i] # "todo" =>
       \/ /\ AllFailed(i) /\ issueStatus[i] # "todo"
          /\ WillReset(handler[h], i) => WillReset(handler[h], i)'
       \/ WillReset(handler[h], i)'

LEMMA StuckKept ==
  ASSUME QueueInv, RowsKept, StuckResolved, NEW h \in Handlers, StuckMove(h)
  PROVE  StuckResolved'
<1> SUFFICES ASSUME NEW i \in Issues, AllFailed(i)', issueStatus'[i] # "todo"
             PROVE  \E k \in Handlers : WillReset(handler[k], i)'
  BY DEF StuckResolved
<1>1. CASE WillReset(handler[h], i)'
  BY <1>1
<1>2. CASE /\ AllFailed(i) /\ issueStatus[i] # "todo"
           /\ WillReset(handler[h], i) => WillReset(handler[h], i)'
  <2>1. PICK k \in Handlers : WillReset(handler[k], i)
    BY <1>2 DEF StuckResolved
  <2>2. CASE k = h
    BY <1>2, <2>1, <2>2
  <2>3. CASE k # h
    <3>1. handler'[k] = handler[k]
      BY <2>3 DEF StuckMove
    <3> QED BY <2>1, <3>1, WillResetKept
  <2> QED BY <2>2, <2>3
<1> QED BY <1>1, <1>2 DEF StuckMove

(* A handler outside the loop has no issue in hand.                        *)
LEMMA NoIssueInHand ==
  ASSUME QueueInv, NEW h \in Handlers, handler[h].pc \notin {"batch", "issue", "active", "reset"}
  PROVE  \A i : ~WillReset(handler[h], i)
<1>1. handler[h].left = {}
  BY DEF QueueInv, HandlersOK, HandlerOK
<1> QED BY <1>1 DEF WillReset

LEMMA QuietStuck ==
  ASSUME QueueInv, RowsKept, NEW h \in Handlers, FailsNothing, UNCHANGED issueStatus,
         \A k \in Handlers \ {h} : handler'[k] = handler[k],
         \A i : ~WillReset(handler[h], i)
  PROVE  StuckMove(h)
BY FailedBefore DEF StuckMove, FailsNothing

LEMMA EndsStuck ==
  ASSUME QueueInv, RowsKept, NEW h \in Handlers, NEW A, Ends(h, A), FailsNothing,
         UNCHANGED issueStatus,
         handler[h].pc \notin {"batch", "issue", "active", "reset"}
  PROVE  StuckMove(h)
BY QuietStuck, NoIssueInHand DEF Ends, Moved

LEMMA StartsStuck ==
  ASSUME QueueInv, RowsKept, NEW h \in Handlers, NEW next, Moved(h, next), FailsNothing,
         UNCHANGED issueStatus,
         handler[h].pc \notin {"batch", "issue", "active", "reset"}
  PROVE  StuckMove(h)
BY QuietStuck, NoIssueInHand DEF Moved

LEMMA BatchRetryStuck ==
  ASSUME QueueInv, RowsKept, NEW h \in Handlers, NEW t \in TaskIds, BatchRetry(h, t)
  PROVE  StuckMove(h)
<1>1. PICK next \in HandlerRec :
        /\ Moved(h, next) /\ next.left = handler[h].left \ {t} /\ next.row = t
        /\ next.processed = handler[h].processed
        /\ task[t].link.issue \in Issues => next.pc = "issue"
        /\ \/ Retried(t) /\ next.retried = handler[h].retried \cup ({task[t].link.issue} \ {None})
           \/ NotRetried(t) /\ next.retried = handler[h].retried
  BY BatchRetryEffect DEF Batches
<1>2. /\ handler[h].pc = "batch" /\ t \in handler[h].left /\ task[t].status = "failed"
      /\ UNCHANGED issueStatus
  BY BatchRetryEffect DEF At, serviceVars
<1>3. \A u \in handler[h].left : u \in TaskIds /\ task[u].status = "failed"
  BY HandlerType DEF QueueInv, HandlersOK, HandlerOK, HandlerRec
<1>4. \A u \in handler[h].left : task'[u].link = task[u].link
  BY <1>3 DEF RowsKept
<1>5. FailsNothing
  BY <1>1, RetryTable, FailsNothingBy DEF NotRetried, tableVars, QueueInv
<1>6. handler'[h] = next /\ \A k \in Handlers \ {h} : handler'[k] = handler[k]
  BY <1>1 DEF Moved
<1>7. ASSUME NEW i \in Issues, AllFailed(i)', WillReset(handler[h], i)
      PROVE  WillReset(handler[h], i)'
  <2>1. /\ i \notin handler[h].processed \cup handler[h].retried
        /\ \E u \in handler[h].left : task[u].link.issue = i
    BY <1>2, <1>7 DEF WillReset
  <2>2. PICK u \in handler[h].left : task[u].link.issue = i
    BY <2>1
  <2>3. CASE task[t].link.issue = i
    <3>1. ~Retried(t)
      <4>1. ASSUME Retried(t) PROVE FALSE
        <5>1. PICK c \in TaskIds : task'[c].status = "queued" /\ task'[c].link = task[t].link
          BY <4>1, RetryTable DEF QueueInv
        <5> QED BY <1>7, <2>3, <5>1 DEF AllFailed
      <4> QED BY <4>1
    <3>2. next.pc = "issue" /\ next.row = t /\ i \notin next.processed \cup next.retried
      BY <1>1, <2>1, <2>3, <3>1
    <3>3. task'[t].link.issue = i
      BY <1>2, <1>4, <2>3
    <3> QED BY <1>6, <3>2, <3>3 DEF WillReset
  <2>4. CASE task[t].link.issue # i
    <3>1. u \in next.left /\ task'[u].link.issue = i
      BY <1>1, <1>4, <2>2, <2>4
    <3>2. i \notin next.processed \cup next.retried
      BY <1>1, <2>1, <2>4
    <3> QED BY <1>6, <3>1, <3>2 DEF WillReset
  <2> QED BY <2>3, <2>4
<1> QED BY <1>2, <1>5, <1>6, <1>7, FailedBefore DEF StuckMove, FailsNothing

LEMMA BatchAdvanceStuck ==
  ASSUME QueueInv, RowsKept, NEW h \in Handlers, BatchIssue(h) \/ BatchActive(h) \/ BatchReset(h)
  PROVE  StuckMove(h)
<1>1. PICK me \in HandlerRec, next \in HandlerRec :
        /\ me = handler[h] /\ Moved(h, next) /\ UNCHANGED task
        /\ next.row = me.row /\ next.left = me.left /\ next.retried = me.retried
        /\ LET j == task[me.row].link.issue
           IN \/ /\ me.pc = "issue" /\ UNCHANGED issueStatus
                 /\ \/ next.pc = "active" /\ next.processed = me.processed \cup {j}
                    \/ /\ next.pc = "batch" /\ next.processed = me.processed
                       /\ issueStatus[j] # "in_progress" \/ j \in me.processed \cup me.retried
              \/ /\ me.pc = "active" /\ UNCHANGED issueStatus /\ next.processed = me.processed
                 /\ next.pc = "reset" \/ (next.pc = "batch" /\ ActiveOfIssue(j) # {})
              \/ /\ me.pc = "reset" /\ next.pc = "batch" /\ next.processed = me.processed
                 /\ issueStatus' = [issueStatus EXCEPT ![j] = "todo"]
  <2>1. handler[h] \in HandlerRec
    BY HandlerType DEF QueueInv
  <2>2. CASE BatchIssue(h)
    BY <2>1, <2>2, BatchIssueEffect DEF Advances, Batches, At, tableVars
  <2>3. CASE BatchActive(h)
    BY <2>1, <2>3, BatchActiveEffect DEF Advances, Batches, At, tableVars
  <2>4. CASE BatchReset(h)
    BY <2>1, <2>4, BatchResetEffect DEF Advances, Batches, At, tableVars
  <2> QED BY <2>2, <2>3, <2>4
<1>2. PICK j \in Issues : j = task[me.row].link.issue
  BY <1>1 DEF QueueInv, HandlersOK, HandlerOK
<1>3. handler'[h] = next /\ \A k \in Handlers \ {h} : handler'[k] = handler[k]
  BY <1>1 DEF Moved
<1>4. ASSUME NEW i \in Issues, AllFailed(i)', issueStatus'[i] # "todo"
      PROVE  AllFailed(i) /\ issueStatus[i] # "todo"
  <2>1. AllFailed(i)
    BY <1>1, <1>4 DEF AllFailed
  <2>2. issueStatus[i] # "todo"
    BY <1>1, <1>2, <1>4 DEF QueueInv, QueueTypeOK
  <2> QED BY <2>1, <2>2
<1>5. ASSUME NEW i \in Issues, AllFailed(i), issueStatus'[i] # "todo", issueStatus[i] # "todo",
             WillReset(me, i)
      PROVE  WillReset(next, i)
  <2>1. issueStatus[i] = "in_progress"
    BY <1>5 DEF QueueInv, QueueTypeOK
  <2>2. ActiveOfIssue(i) = {}
    BY <1>5 DEF AllFailed, ActiveOfIssue, RowsWith, Active, Owned
  <2>3. CASE j = i
    <3>1. CASE me.pc = "issue"
      BY <1>1, <1>2, <1>5, <2>1, <2>3, <3>1 DEF WillReset
    <3>2. CASE me.pc = "active"
      BY <1>1, <1>2, <2>2, <2>3, <3>2 DEF WillReset
    <3>3. CASE me.pc = "reset"
      BY <1>1, <1>2, <1>5, <2>3, <3>3 DEF QueueInv, QueueTypeOK
    <3> QED BY <1>1, <3>1, <3>2, <3>3
  <2>4. CASE j # i
    <3>1. i \notin me.processed \cup me.retried /\ \E t \in me.left : task[t].link.issue = i
      BY <1>1, <1>2, <1>5, <2>4 DEF WillReset
    <3>2. i \notin next.processed \cup next.retried
      BY <1>1, <1>2, <2>4, <3>1
    <3> QED BY <1>1, <3>1, <3>2 DEF WillReset
  <2> QED BY <2>3, <2>4
<1>6. \A i : WillReset(next, i) => WillReset(handler[h], i)'
  BY <1>1, <1>3 DEF WillReset
<1> QED BY <1>1, <1>3, <1>4, <1>5, <1>6 DEF StuckMove

LEMMA SweepStuck ==
  ASSUME QueueInv, RowsKept, NEW h \in Handlers, Sweep(h)
  PROVE  StuckMove(h)
<1>1. PICK S \in SUBSET TaskIds : Swept(S) /\ HandleFailedTasks(h, S)
  BY SweepReturns
<1>2. PICK next \in HandlerRec : /\ Moved(h, next) /\ next.left = S
                                 /\ next.processed = {} /\ next.retried = {}
  BY <1>1, SweepEffect DEF Starts
<1>3. /\ \A t \in S : task'[t].link = task[t].link
      /\ \A t \in TaskIds \ S : task'[t] = task[t]
      /\ handler[h].pc = "idle" /\ UNCHANGED issueStatus
  BY <1>1, SweepEffect DEF At, serviceVars
<1>4. handler'[h] = next /\ \A k \in Handlers \ {h} : handler'[k] = handler[k]
  BY <1>2 DEF Moved
<1>5. ASSUME NEW i \in Issues, AllFailed(i)', ~WillReset(handler[h], i)' PROVE AllFailed(i)
  <2>1. \A t \in S : task'[t].link.issue # i
    BY <1>2, <1>4, <1>5 DEF WillReset
  <2>2. \A t \in TaskIds : task'[t].status = "failed" /\ task'[t].link.issue = i
                           => task[t].status = "failed"
    BY <1>3, <2>1
  <2> QED BY <1>5, <2>2, FailedBefore
<1> QED BY <1>3, <1>4, <1>5, NoIssueInHand DEF StuckMove

LEMMA HandlerStepStuck ==
  ASSUME QueueInv, RowsKept, NEW h \in Handlers, HandlerStep(h)
  PROVE  StuckMove(h)
<1>1. ASSUME NEW t \in TaskIds, NEW r \in Runtimes, EnqueueInsert(h, t, r) PROVE StuckMove(h)
  BY <1>1, InsertEnds, EnqueueTable, FailsNothingBy, EndsStuck DEF At, serviceVars
<1>2. CASE EnqueueFail(h) \/ ClaimNothing(h) \/ Respond(h)
  BY <1>2, GivesUp, FailsNothingBy, EndsStuck DEF tableVars, serviceVars
<1>3. ASSUME NEW t \in TaskIds, ClaimTake(h, t) PROVE StuckMove(h)
  BY <1>3, TakeEffect, FailsNothingBy, StartsStuck DEF At, serviceVars
<1>4. CASE ClaimDispatch(h)
  BY <1>4, DispatchEnds, DispatchTable, FailsNothingBy, EndsStuck DEF At, serviceVars
<1>5. CASE FailTaskRetry(h)
  <2>1. UNCHANGED task \/ InsertStep
    BY <1>5, RetryEnds, RetryTable DEF NotRetried, tableVars, QueueInv
  <2> QED BY <1>5, <2>1, RetryEnds, FailsNothingBy, EndsStuck DEF At, serviceVars
<1>6. CASE BatchEnd(h)
  <2>1. \A i : ~WillReset(handler[h], i)
    BY <1>6, BatchEnds DEF WillReset, At
  <2> QED BY <1>6, <2>1, BatchEnds, EndsReconciles, FailsNothingBy, QuietStuck DEF tableVars, serviceVars
<1>7. CASE ArchiveCancel(h)
  <2>1. ActiveOfAgent(handler[h].agent) \in SUBSET RowsWith(Active)
    BY DEF ActiveOfAgent
  <2>2. FailsNothing
    BY <1>7, <2>1, FailsNothingBy DEF ArchiveCancel, tableVars
  <2> QED BY <1>7, <2>2, ArchiveEnds, EndsStuck DEF At, serviceVars
<1>8. ASSUME NEW a \in Agents, RefreshRead(h, a) PROVE StuckMove(h)
  BY <1>8, RefreshReadEffect, FailsNothingBy, StartsStuck DEF At, tableVars, serviceVars
<1>9. CASE RefreshWrite(h)
  BY <1>9, RefreshWriteEnds, FailsNothingBy, EndsStuck DEF At, tableVars
<1> QED BY <1>1, <1>2, <1>3, <1>4, <1>5, <1>6, <1>7, <1>8, <1>9, BatchRetryStuck,
           BatchAdvanceStuck DEF HandlerStep

LEMMA HandlerStartStuck ==
  ASSUME QueueInv, RowsKept, SweptAndFinished, NEW h \in Handlers, HandlerStart(h)
  PROVE  StuckMove(h)
<1>1. ASSUME NEW a \in Agents, NEW l \in QueuedLinks, EnqueueRead(h, a, l) PROVE StuckMove(h)
  BY <1>1, EnqueueReadEffect, FailsNothingBy, StartsStuck DEF Starts, At, tableVars, serviceVars
<1>2. ASSUME NEW a \in Agents, ClaimCount(h, a) PROVE StuckMove(h)
  BY <1>2, CountEffect, FailsNothingBy, StartsStuck DEF Starts, At, tableVars, serviceVars
<1>3. ASSUME NEW a \in Agents, ArchiveAgent(h, a) PROVE StuckMove(h)
  BY <1>3, ArchiveEffect, FailsNothingBy, StartsStuck DEF Starts, At, tableVars
<1>4. ASSUME NEW t \in TaskIds, CompleteTask(h, t) PROVE StuckMove(h)
  <2>1. FailsNothing
    BY <1>4, CompleteEnds DEF FailsNothing
  <2> QED BY <1>4, <2>1, CompleteEnds, EndsStuck DEF At, serviceVars
<1>5. \A t \in TaskIds, reason \in ReportedReasons : ~FailTask(h, t, reason)
  BY FailTaskEffect DEF SweptAndFinished
<1>6. ASSUME NEW S \in CancelSets, Cancel(h, S) PROVE StuckMove(h)
  BY <1>6, CancelEnds, FailsNothingBy, EndsStuck DEF At, serviceVars
<1>7. ASSUME NEW t \in TaskIds, Redeliver(h, t) PROVE StuckMove(h)
  BY <1>7, RedeliverEffect, FailsNothingBy, StartsStuck DEF Starts, At, tableVars, serviceVars
<1> QED BY <1>1, <1>2, <1>3, <1>4, <1>5, <1>6, <1>7, SweepStuck DEF HandlerStart

(* Daemons: a running row is not a failed one.                             *)
LEMMA DaemonStuck ==
  ASSUME QueueInv, RowsKept, StuckResolved, NEW t \in TaskIds,
         StartTask(t) \/ MarkTaskWaitingLocalDirectory(t) \/ AgentStartsIssue(t)
  PROVE  StuckResolved'
<1> SUFFICES ASSUME NEW i \in Issues, AllFailed(i)', issueStatus'[i] # "todo"
             PROVE  \E k \in Handlers : WillReset(handler[k], i)'
  BY DEF StuckResolved
<1>1. UNCHANGED handler
  BY DaemonTable
<1>2. FailsNothing
  <2>1. CASE StartTask(t) \/ MarkTaskWaitingLocalDirectory(t)
    <3>1. PICK s \in Owned : SetStatus({t}, s, None) /\ task[t].status \in Owned
      BY <2>1 DEF StartTask, MarkTaskWaitingLocalDirectory, StartAgentTask,
                  MarkAgentTaskWaitingLocalDirectory, Owned
    <3>2. {t} \in SUBSET TaskIds /\ s \in Status /\ \A u \in {t} : task[u].status # "absent"
      BY <3>1 DEF Status, Active, Owned
    <3>3. task'[t].status = s /\ \A u \in TaskIds \ {t} : task'[u] = task[u]
      BY <3>1, <3>2, SetStatusEffect DEF QueueInv, FlightInv
    <3> QED BY <3>1, <3>3 DEF FailsNothing, Owned
  <2>2. CASE AgentStartsIssue(t)
    BY <2>2 DEF AgentStartsIssue, FailsNothing, tableVars
  <2> QED BY <2>1, <2>2
<1>3. AllFailed(i)
  BY <1>2, FailedBefore DEF FailsNothing
<1>4. issueStatus[i] # "todo"
  <2>1. CASE AgentStartsIssue(t)
    <3>1. task[t].link.issue # i
      BY <1>3, <2>1 DEF AgentStartsIssue, AllFailed
    <3>2. issueStatus'[i] = issueStatus[i]
      BY <2>1, <3>1 DEF AgentStartsIssue, QueueInv, QueueTypeOK
    <3> QED BY <3>2
  <2>2. CASE ~AgentStartsIssue(t)
    BY <2>2 DEF StartTask, MarkTaskWaitingLocalDirectory, serviceVars
  <2> QED BY <2>1, <2>2
<1> QED BY <1>1, <1>3, <1>4, WillResetKept DEF StuckResolved

LEMMA StuckStep ==
  SweptAndFinished /\ QueueInv /\ StuckResolved /\ [QueueNext]_queueVars => StuckResolved'
<1> SUFFICES ASSUME SweptAndFinished, QueueInv, StuckResolved, [QueueNext]_queueVars
             PROVE  StuckResolved'
  OBVIOUS
<1>0. RowsKept
  BY QueueTable
<1>1. CASE UNCHANGED queueVars
  BY <1>1 DEF queueVars, tableVars, serviceVars, StuckResolved, AllFailed, WillReset
<1>2. ASSUME NEW h \in Handlers, HandlerStep(h) \/ HandlerStart(h) PROVE StuckResolved'
  BY <1>0, <1>2, HandlerStepStuck, HandlerStartStuck, StuckKept
<1>3. \A h \in Handlers : ~Drop(h)
  BY DropEnds DEF SweptAndFinished
<1>4. ASSUME NEW a \in Agents, RestoreAgent(a) PROVE StuckResolved'
  BY <1>4, RestoreTable DEF StuckResolved, AllFailed, WillReset
<1> QED BY <1>0, <1>1, <1>2, <1>3, <1>4, DaemonStuck DEF QueueNext

(* An issue is not left in_progress with nobody to work on it: once every  *)
(* task of the issue has failed and every handler is done, it is todo.     *)
THEOREM NoIssueStuck ==
  ASSUME SweptAndFinished
  PROVE  QueueSpec => []NoStuckIssue
<1>1. QueueInit => StuckResolved
  BY DEF QueueInit, StuckResolved
<1>2. QueueInv /\ StuckResolved /\ [QueueNext]_queueVars => StuckResolved'
  BY StuckStep
<1>3. QueueInv /\ StuckResolved => NoStuckIssue
  <2> SUFFICES ASSUME QueueInv, StuckResolved, \A h \in Handlers : At(h, "idle"),
                      NEW i \in Issues, AllFailed(i)
               PROVE  issueStatus[i] = "todo"
    BY DEF NoStuckIssue, AllFailed
  <2>1. \A h \in Handlers : ~WillReset(handler[h], i)
    BY NoIssueInHand DEF At
  <2> QED BY <2>1 DEF StuckResolved
<1> QED BY <1>1, <1>2, <1>3, QueueInvariant, PTL DEF QueueSpec

=============================================================================
