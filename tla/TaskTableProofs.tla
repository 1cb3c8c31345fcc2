--------------------------- MODULE TaskTableProofs ---------------------------
(***************************************************************************)
(* Proofs about TaskTable, for any number of rows, agents, issues and      *)
(* runtimes.  ClaimAgentTask's NOT EXISTS is evaluated on a snapshot, so   *)
(* single flight does not follow from the claim alone.  The argument is:   *)
(* the partial unique index leaves at most one queued or dispatched row    *)
(* per (agent, issue); the claim locked the only such row, so nothing else *)
(* of that pair can become owned while the lock is held.                   *)
(***************************************************************************)
EXTENDS TaskTable, TLAPS

(* Rows t and u belong to the same agent on the same issue.                *)
SameLane(t, u) ==
  /\ task[t].agent = task[u].agent
  /\ task[t].link.issue = task[u].link.issue
  /\ task[t].link.issue # None

(* idx_one_pending_task_per_issue_agent holds in every state.              *)
UniquePending ==
  \A t, u \in RowsWith(Pending) : SameLane(t, u) => t = u

(* A claim holds the lock of a row that is still queued, and no row of     *)
(* that row's pair is owned: the snapshot it decided on is still right.    *)
LockSound ==
  \A t \in rowLock :
    /\ task[t].status = "queued"
    /\ \A u \in RowsWith(Owned) : ~SameLane(t, u)

(* A statement that moves rows nobody has locked to a status that is not   *)
(* pending, and to an owned one only from an owned one.  All but the       *)
(* inserts, the claim and two column updates are of this form.             *)
Move(S, s, r) ==
  /\ S \in SUBSET RowsWith(Active) /\ S \cap rowLock = {}
  /\ s \in Status \ Pending /\ (s \in Owned => S \subseteq RowsWith(Owned))
  /\ r \in Reasons \cup {None}
  /\ SetStatus(S, s, r) /\ UNCHANGED rowLock

IsMove == \E S, s, r : Move(S, s, r)

FlightInv == TableTypeOK /\ UniquePending /\ LockSound /\ IssueSingleFlight

-----------------------------------------------------------------------------
LEMMA NoneFresh ==
  /\ None \notin TaskIds /\ None \notin Issues /\ None \notin Chats
  /\ None \notin Runtimes /\ None \notin Agents
BY TaskTableAssumption

(* The columns of an inserted row.                                         *)
LEMMA RowColumns ==
  ASSUME TableTypeOK, NEW t \in TaskIds, task[t].status # "absent"
  PROVE  /\ task[t] \in Row
         /\ task[t].status \in Status
         /\ task[t].link \in Links
BY DEF TableTypeOK, AbsentRow, Row

(* Pointwise effect of SetStatus on rows that have been inserted.          *)
LEMMA SetStatusEffect ==
  ASSUME TableTypeOK, NEW S \in SUBSET TaskIds, NEW s \in Status,
         NEW r \in Reasons \cup {None}, SetStatus(S, s, r),
         \A t \in S : task[t].status # "absent"
  PROVE  /\ task' \in [TaskIds -> Row \cup {AbsentRow}]
         /\ \A t \in S : /\ task'[t].status = s
                         /\ task'[t].agent = task[t].agent
                         /\ task'[t].link = task[t].link
                         /\ task'[t].attempt = task[t].attempt
                         /\ task'[t].parent = task[t].parent
         /\ \A t \in TaskIds \ S : task'[t] = task[t]
<1>1. \A t \in S : task[t] \in Row
  BY RowColumns
<1>2. \A t \in S : /\ task'[t] \in Row
                   /\ task'[t].status = s
                   /\ task'[t].agent = task[t].agent
                   /\ task'[t].link = task[t].link
                   /\ task'[t].attempt = task[t].attempt
                   /\ task'[t].parent = task[t].parent
  <2> TAKE t \in S
  <2>1. task'[t] = [task[t] EXCEPT !.status = s, !.reason = r]
    BY DEF SetStatus
  <2>2. PICK row \in Row : row = task[t]
    BY <1>1
  <2>3. PICK new : new = task'[t]
    OBVIOUS
  <2>4. new = [row EXCEPT !.status = s, !.reason = r]
    BY <2>1, <2>2, <2>3, Zenon
  <2>5. /\ new \in Row /\ new.status = s /\ new.agent = row.agent /\ new.link = row.link
        /\ new.attempt = row.attempt /\ new.parent = row.parent
    BY <2>4 DEF Row
  <2> QED BY <2>2, <2>3, <2>5, Zenon
<1>3. \A t \in TaskIds \ S : task'[t] = task[t]
  BY DEF SetStatus
<1>4. task' \in [TaskIds -> Row \cup {AbsentRow}]
  BY <1>2, <1>3 DEF SetStatus, TableTypeOK
<1> QED BY <1>2, <1>3, <1>4

(* Pointwise effect of a move.                                             *)
LEMMA MoveEffect ==
  ASSUME FlightInv, NEW S, NEW s, NEW r, Move(S, s, r)
  PROVE  /\ task' \in [TaskIds -> Row \cup {AbsentRow}]
         /\ \A t \in S : /\ t \in TaskIds
                         /\ task[t].status \in Active
                         /\ task'[t].status = s
                         /\ task'[t].agent = task[t].agent
                         /\ task'[t].link = task[t].link
                         /\ task'[t].attempt = task[t].attempt
                         /\ task'[t].parent = task[t].parent
         /\ \A t \in TaskIds \ S : task'[t] = task[t]
<1>1. S \subseteq TaskIds /\ \A t \in S : task[t].status \in Active
  BY DEF Move, RowsWith
<1>2. \A t \in S : task[t].status # "absent"
  BY <1>1 DEF Active, Owned
<1> QED BY <1>1, <1>2, SetStatusEffect DEF FlightInv, Move

LEMMA MoveStep ==
  ASSUME FlightInv, NEW S, NEW s, NEW r, Move(S, s, r)
  PROVE  FlightInv'
<1>1. /\ task' \in [TaskIds -> Row \cup {AbsentRow}]
      /\ \A t \in S : /\ task'[t].status = s
                      /\ task'[t].agent = task[t].agent
                      /\ task'[t].link = task[t].link
      /\ \A t \in TaskIds \ S : task'[t] = task[t]
      /\ S \subseteq TaskIds /\ S \cap rowLock = {} /\ rowLock' = rowLock
      /\ s \notin Pending /\ (s \in Owned => S \subseteq RowsWith(Owned))
  BY MoveEffect DEF Move
<1>2. \A t \in TaskIds : task'[t].agent = task[t].agent /\ task'[t].link = task[t].link
  BY <1>1
<1>3. RowsWith(Pending)' \subseteq RowsWith(Pending)
  BY <1>1 DEF RowsWith
<1>4. RowsWith(Owned)' \subseteq RowsWith(Owned)
  BY <1>1 DEF RowsWith
<1>5. RowsWith(Pending) \subseteq TaskIds /\ RowsWith(Owned) \subseteq TaskIds
  BY DEF RowsWith
<1>6. \A t, u \in TaskIds : SameLane(t, u)' <=> SameLane(t, u)
  BY <1>2 DEF SameLane
<1>7. TableTypeOK'
  BY <1>1 DEF FlightInv, TableTypeOK
<1>8. UniquePending'
  BY <1>3, <1>5, <1>6 DEF FlightInv, UniquePending
<1>9. LockSound'
  <2>1. \A t \in rowLock : t \in TaskIds /\ t \notin S
    BY <1>1 DEF FlightInv, TableTypeOK
  <2> QED BY <1>1, <1>4, <1>5, <1>6, <2>1 DEF FlightInv, LockSound
<1>10. IssueSingleFlight'
  BY <1>2, <1>4, <1>5 DEF FlightInv, IssueSingleFlight
<1> QED BY <1>7, <1>8, <1>9, <1>10 DEF FlightInv

-----------------------------------------------------------------------------
(* The statements that insert.                                             *)

(* A fresh queued row in a free slot of the index.                         *)
LEMMA InsertPreserves ==
  ASSUME FlightInv, NEW c \in TaskIds, NEW row \in Row, row.status = "queued",
         task[c].status = "absent", PendingSlotFree(row.agent, row.link.issue),
         task' = [task EXCEPT ![c] = row], UNCHANGED rowLock
  PROVE  FlightInv'
<1>1. /\ task' \in [TaskIds -> Row \cup {AbsentRow}]
      /\ task'[c] = row
      /\ \A t \in TaskIds \ {c} : task'[t] = task[t]
  BY DEF FlightInv, TableTypeOK
<1>2. RowsWith(Owned)' \subseteq RowsWith(Owned) /\ c \notin RowsWith(Owned)'
  BY <1>1 DEF RowsWith, Owned
<1>3. RowsWith(Pending)' \subseteq RowsWith(Pending) \cup {c} /\ c \notin RowsWith(Pending)
  BY <1>1 DEF RowsWith, Pending
<1>4. RowsWith(Pending) \subseteq TaskIds /\ RowsWith(Owned) \subseteq TaskIds
  BY DEF RowsWith
<1>5. UniquePending'
  <2>1. \A t \in RowsWith(Pending) :
          row.link.issue # None => ~(task[t].agent = row.agent /\ task[t].link.issue = row.link.issue)
    BY DEF PendingSlotFree
  <2> QED BY <1>1, <1>3, <1>4, <2>1 DEF FlightInv, UniquePending, SameLane
<1>6. LockSound'
  <2>1. rowLock \subseteq TaskIds /\ c \notin rowLock
    BY DEF FlightInv, TableTypeOK, LockSound
  <2> QED BY <1>1, <1>2, <1>4, <2>1 DEF FlightInv, LockSound, SameLane
<1>7. IssueSingleFlight'
  BY <1>1, <1>2, <1>4 DEF FlightInv, IssueSingleFlight
<1> QED BY <1>1, <1>5, <1>6, <1>7 DEF FlightInv, TableTypeOK

LEMMA CreatePreserves ==
  ASSUME FlightInv, NEW t \in TaskIds, NEW a \in Agents, NEW r \in Runtimes,
         NEW l \in EnqueuedLinks, CreateAgentTask(t, a, r, l)
  PROVE  FlightInv'
<1> DEFINE row == [status |-> "queued", agent |-> a, runtime |-> r, link |-> l,
                   attempt |-> 1, parent |-> None, reason |-> None]
<1>1. row \in Row /\ row.status = "queued" /\ row.agent = a /\ row.link = l
  BY DEF Row, Status, Active, EnqueuedLinks
<1>2. /\ task[t].status = "absent" /\ PendingSlotFree(row.agent, row.link.issue)
      /\ task' = [task EXCEPT ![t] = row] /\ UNCHANGED rowLock
  BY <1>1 DEF CreateAgentTask
<1> HIDE DEF row
<1> QED BY <1>1, <1>2, InsertPreserves

LEMMA RetryRow ==
  ASSUME FlightInv, NEW p \in TaskIds, NEW c \in TaskIds,
         RetryEligible(p), CreateRetryTask(p, c)
  PROVE  \E row \in Row :
           /\ row.status = "queued" /\ task[c].status = "absent"
           /\ PendingSlotFree(row.agent, row.link.issue)
           /\ task' = [task EXCEPT ![c] = row]
           /\ row.agent = task[p].agent /\ row.link = task[p].link
           /\ row.attempt = task[p].attempt + 1 /\ row.parent = p
<1>1. task[p] \in Row
  BY RowColumns DEF FlightInv, RetryEligible
<1>2. PICK parent \in Row : parent = task[p]
  BY <1>1
<1>3. PICK n \in Nat : n = parent.attempt + 1
  BY DEF Row
<1>4. "queued" \in Status
  BY DEF Status, Active
<1>5. PICK row : row = [parent EXCEPT !.status = "queued", !.attempt = n,
                                      !.parent = p, !.reason = None]
  OBVIOUS
<1>6. /\ row \in Row /\ row.status = "queued" /\ row.agent = parent.agent /\ row.link = parent.link
      /\ row.attempt = n /\ row.parent = p
  BY <1>4, <1>5 DEF Row
<1>7. /\ task[c].status = "absent" /\ PendingSlotFree(row.agent, row.link.issue)
      /\ task' = [task EXCEPT ![c] = row]
  BY <1>2, <1>3, <1>5, <1>6, Zenon DEF CreateRetryTask
<1>8. row.agent = task[p].agent /\ row.link = task[p].link /\ row.attempt = task[p].attempt + 1
  BY <1>2, <1>3, <1>6, Zenon
<1> QED BY <1>6, <1>7, <1>8

LEMMA RetryPreserves ==
  ASSUME FlightInv, NEW p \in TaskIds, NEW c \in TaskIds,
         RetryEligible(p), CreateRetryTask(p, c)
  PROVE  FlightInv'
<1>1. PICK row \in Row : /\ row.status = "queued" /\ task[c].status = "absent"
                          /\ PendingSlotFree(row.agent, row.link.issue)
                          /\ task' = [task EXCEPT ![c] = row]
  BY RetryRow
<1>2. UNCHANGED rowLock
  BY DEF CreateRetryTask
<1> QED BY <1>1, <1>2, InsertPreserves

-----------------------------------------------------------------------------
(* The claim.                                                              *)

LEMMA SelectPreserves ==
  ASSUME FlightInv, NEW a \in Agents, NEW t \in TaskIds, ClaimSelect(a, t)
  PROVE  FlightInv'
<1>1. TableTypeOK' /\ UniquePending' /\ IssueSingleFlight'
  BY DEF FlightInv, TableTypeOK, UniquePending, IssueSingleFlight, ClaimSelect, RowsWith, SameLane
<1>2. \A u \in RowsWith(Owned) : ~SameLane(t, u)
  BY DEF ClaimSelect, Claimable, SameWork, SameLane
<1>3. LockSound'
  BY <1>2 DEF FlightInv, LockSound, ClaimSelect, Claimable, SameLane, RowsWith
<1> QED BY <1>1, <1>3 DEF FlightInv

LEMMA AbortPreserves ==
  ASSUME FlightInv, NEW t \in TaskIds, ClaimAbort(t)
  PROVE  FlightInv'
BY DEF FlightInv, TableTypeOK, UniquePending, LockSound, IssueSingleFlight,
       ClaimAbort, RowsWith, SameLane

LEMMA UpdateEffect ==
  ASSUME FlightInv, NEW t \in TaskIds, ClaimUpdate(t)
  PROVE  /\ t \in rowLock /\ rowLock' = rowLock \ {t}
         /\ task[t].status = "queued" /\ task'[t].status = "dispatched"
         /\ task'[t].agent = task[t].agent /\ task'[t].link = task[t].link
         /\ task'[t].attempt = task[t].attempt /\ task'[t].parent = task[t].parent
         /\ \A u \in TaskIds \ {t} : task'[u] = task[u]
         /\ task' \in [TaskIds -> Row \cup {AbsentRow}]
<1>1. task[t].status = "queued" /\ t \in rowLock /\ rowLock' = rowLock \ {t}
  BY DEF FlightInv, LockSound, ClaimUpdate
<1>2. task[t].reason \in Reasons \cup {None}
  BY <1>1, RowColumns DEF FlightInv, Row
<1>3. PICK r \in Reasons \cup {None} : r = task[t].reason
  BY <1>2
<1>4. SetStatus({t}, "dispatched", r)
  BY <1>3 DEF ClaimUpdate
<1>5. "dispatched" \in Status /\ {t} \in SUBSET TaskIds
  BY DEF Status, Active, Owned
<1>6. \A u \in {t} : task[u].status # "absent"
  BY <1>1
<1> QED BY <1>1, <1>4, <1>5, <1>6, SetStatusEffect DEF FlightInv

(* Here the snapshot is used: the row becomes owned because the lock has   *)
(* kept every other row of its pair out.                                   *)
LEMMA UpdatePreserves ==
  ASSUME FlightInv, NEW t \in TaskIds, ClaimUpdate(t)
  PROVE  FlightInv'
<1>1. task[t].status = "queued" /\ t \in rowLock /\ rowLock' = rowLock \ {t}
  BY UpdateEffect
<1>4. /\ task' \in [TaskIds -> Row \cup {AbsentRow}]
      /\ task'[t].status = "dispatched"
      /\ task'[t].agent = task[t].agent /\ task'[t].link = task[t].link
      /\ \A u \in TaskIds \ {t} : task'[u] = task[u]
  BY UpdateEffect
<1>5. \A u \in TaskIds : task'[u].agent = task[u].agent /\ task'[u].link = task[u].link
  BY <1>4
<1>6. \A u, v \in TaskIds : SameLane(u, v)' <=> SameLane(u, v)
  BY <1>5 DEF SameLane
<1>7. /\ RowsWith(Pending)' \subseteq RowsWith(Pending) /\ RowsWith(Pending) \subseteq TaskIds
      /\ RowsWith(Owned)' \subseteq RowsWith(Owned) \cup {t} /\ RowsWith(Owned) \subseteq TaskIds
      /\ t \in RowsWith(Pending)
  BY <1>1, <1>4 DEF RowsWith, Pending
<1>8. UniquePending'
  BY <1>6, <1>7 DEF FlightInv, UniquePending
<1>9. LockSound'
  <2> SUFFICES ASSUME NEW u \in rowLock'
               PROVE  task'[u].status = "queued" /\ \A v \in RowsWith(Owned)' : ~SameLane(u, v)'
    BY DEF LockSound
  <2>1. u \in rowLock /\ u # t /\ u \in TaskIds
    BY <1>1 DEF FlightInv, TableTypeOK
  <2>2. task[u].status = "queued" /\ u \in RowsWith(Pending)
    BY <2>1 DEF FlightInv, LockSound, RowsWith, Pending
  <2>3. ~SameLane(u, t)
    BY <1>7, <2>1, <2>2 DEF FlightInv, UniquePending
  <2>4. \A v \in RowsWith(Owned) : ~SameLane(u, v)
    BY <2>1 DEF FlightInv, LockSound
  <2> QED BY <1>4, <1>6, <1>7, <2>1, <2>2, <2>3, <2>4
<1>10. IssueSingleFlight'
  <2>1. \A u \in RowsWith(Owned) : ~SameLane(t, u) /\ ~SameLane(u, t)
    BY <1>1 DEF FlightInv, LockSound, SameLane
  <2> QED BY <1>5, <1>7, <2>1 DEF FlightInv, IssueSingleFlight, SameLane
<1> QED BY <1>4, <1>8, <1>9, <1>10, <1>1 DEF FlightInv, TableTypeOK

-----------------------------------------------------------------------------
(* The statements that are moves.                                          *)

LEMMA FailRowsMoves ==
  \A S \in SUBSET RowsWith(Active), r \in Reasons : FailRows(S, r) => IsMove
<1> SUFFICES ASSUME NEW S \in SUBSET RowsWith(Active), NEW r \in Reasons, FailRows(S, r)
             PROVE  IsMove
  OBVIOUS
<1>1. Move(S, "failed", r)
  BY DEF FailRows, Unlocked, Move, Status, Terminal, Pending, Owned
<1> QED BY <1>1 DEF IsMove

LEMMA CancelRowsMoves ==
  \A S \in SUBSET RowsWith(Active) : CancelRows(S) => IsMove
<1> SUFFICES ASSUME NEW S \in SUBSET RowsWith(Active), CancelRows(S) PROVE IsMove
  OBVIOUS
<1>1. Move(S, "cancelled", None)
  BY DEF CancelRows, Unlocked, Move, Status, Terminal, Pending, Owned
<1> QED BY <1>1 DEF IsMove

(* An owned row is never locked, so the daemon's statements never wait.    *)
LEMMA OwnedUnlocked ==
  ASSUME FlightInv
  PROVE  RowsWith(Owned) \cap rowLock = {}
BY DEF FlightInv, LockSound, RowsWith, Owned

LEMMA MoveOne ==
  ASSUME FlightInv, NEW t \in RowsWith(Owned), NEW s \in Status \ Pending,
         NEW r \in Reasons \cup {None}, SetStatus({t}, s, r), UNCHANGED rowLock
  PROVE  IsMove
<1>1. {t} \in SUBSET RowsWith(Active) /\ {t} \subseteq RowsWith(Owned)
  BY DEF RowsWith, Active
<1>2. {t} \cap rowLock = {}
  BY OwnedUnlocked
<1>3. Move({t}, s, r)
  BY <1>1, <1>2 DEF Move
<1> QED BY <1>3 DEF IsMove

LEMMA LinkEffect ==
  ASSUME FlightInv, NEW t \in TaskIds, NEW i \in Issues, LinkTaskToIssue(t, i)
  PROVE  /\ task' \in [TaskIds -> Row \cup {AbsentRow}]
         /\ task[t].status = "completed" /\ task'[t].status = "completed"
         /\ task'[t].reason = task[t].reason /\ task'[t].agent = task[t].agent
         /\ task'[t].attempt = task[t].attempt /\ task'[t].parent = task[t].parent
         /\ QuickCreateShaped(task[t].link)
         /\ \A u \in TaskIds \ {t} : task'[u] = task[u]
<1>1. PICK row \in Row : row = task[t]
  BY RowColumns DEF FlightInv, LinkTaskToIssue
<1>2. row.status = "completed" /\ task' = [task EXCEPT ![t] = [row EXCEPT !.link.issue = i]]
  BY <1>1 DEF LinkTaskToIssue
<1>3. /\ [row EXCEPT !.link.issue = i] \in Row
      /\ [row EXCEPT !.link.issue = i].status = "completed"
      /\ [row EXCEPT !.link.issue = i].reason = row.reason
      /\ [row EXCEPT !.link.issue = i].agent = row.agent
      /\ [row EXCEPT !.link.issue = i].attempt = row.attempt
      /\ [row EXCEPT !.link.issue = i].parent = row.parent
  BY <1>2 DEF Row, Links
<1>4. QuickCreateShaped(task[t].link)
  BY DEF LinkTaskToIssue
<1> QED BY <1>1, <1>2, <1>3, <1>4 DEF FlightInv, TableTypeOK

LEMMA LinkPreserves ==
  ASSUME FlightInv, NEW t \in TaskIds, NEW i \in Issues, LinkTaskToIssue(t, i)
  PROVE  FlightInv'
<1>4. /\ task' \in [TaskIds -> Row \cup {AbsentRow}]
      /\ task[t].status = "completed" /\ task'[t].status = "completed"
      /\ \A u \in TaskIds \ {t} : task'[u] = task[u]
  BY LinkEffect
<1>5. /\ RowsWith(Pending)' \subseteq RowsWith(Pending) \ {t} /\ RowsWith(Pending) \subseteq TaskIds
      /\ RowsWith(Owned)' \subseteq RowsWith(Owned) \ {t} /\ RowsWith(Owned) \subseteq TaskIds
  BY <1>4 DEF RowsWith, Pending, Owned
<1>6. rowLock' = rowLock /\ t \notin rowLock /\ rowLock \subseteq TaskIds
  BY <1>4 DEF LinkTaskToIssue, FlightInv, TableTypeOK, LockSound
<1>7. \A u, v \in TaskIds \ {t} : SameLane(u, v)' <=> SameLane(u, v)
  BY <1>4 DEF SameLane
<1>8. UniquePending'
  BY <1>5, <1>7 DEF FlightInv, UniquePending
<1>9. LockSound'
  BY <1>4, <1>5, <1>6, <1>7 DEF FlightInv, LockSound
<1>10. IssueSingleFlight'
  BY <1>4, <1>5 DEF FlightInv, IssueSingleFlight
<1> QED BY <1>4, <1>6, <1>8, <1>9, <1>10 DEF FlightInv, TableTypeOK

LEMMA ReassignEffect ==
  ASSUME FlightInv, NEW old \in Runtimes, NEW new \in Runtimes,
         ReassignTasksToRuntime(old, new), NEW t \in TaskIds
  PROVE  /\ task'[t] \in Row \cup {AbsentRow}
         /\ task'[t].status = task[t].status /\ task'[t].agent = task[t].agent
         /\ task'[t].link = task[t].link /\ task'[t].reason = task[t].reason
         /\ task'[t].attempt = task[t].attempt /\ task'[t].parent = task[t].parent
<1>1. CASE task[t].runtime = old
  <2>1. PICK row \in Row : row = task[t]
    BY <1>1, NoneFresh DEF FlightInv, TableTypeOK, AbsentRow
  <2>2. task'[t] = [row EXCEPT !.runtime = new]
    BY <1>1, <2>1 DEF ReassignTasksToRuntime
  <2> QED BY <2>1, <2>2 DEF Row
<1>2. CASE task[t].runtime # old
  BY <1>2 DEF ReassignTasksToRuntime, FlightInv, TableTypeOK
<1> QED BY <1>1, <1>2

LEMMA ReassignPreserves ==
  ASSUME FlightInv, NEW old \in Runtimes, NEW new \in Runtimes,
         ReassignTasksToRuntime(old, new)
  PROVE  FlightInv'
<1>1. \A t \in TaskIds :
        /\ task'[t] \in Row \cup {AbsentRow}
        /\ task'[t].status = task[t].status /\ task'[t].agent = task[t].agent
        /\ task'[t].link = task[t].link
  BY ReassignEffect
<1>2. rowLock' = rowLock /\ rowLock \subseteq TaskIds
  BY DEF ReassignTasksToRuntime, FlightInv, TableTypeOK
<1>3. TableTypeOK'
  BY <1>1, <1>2 DEF TableTypeOK, ReassignTasksToRuntime
<1>4. /\ RowsWith(Pending)' = RowsWith(Pending) /\ RowsWith(Pending) \subseteq TaskIds
      /\ RowsWith(Owned)' = RowsWith(Owned) /\ RowsWith(Owned) \subseteq TaskIds
  BY <1>1 DEF RowsWith
<1>5. \A t, u \in TaskIds : SameLane(t, u)' <=> SameLane(t, u)
  BY <1>1 DEF SameLane
<1>6. UniquePending' /\ LockSound'
  BY <1>1, <1>2, <1>4, <1>5 DEF FlightInv, UniquePending, LockSound
<1>7. IssueSingleFlight'
  BY <1>1, <1>4 DEF FlightInv, IssueSingleFlight
<1> QED BY <1>3, <1>6, <1>7 DEF FlightInv

(* The daemon's statements on its own row, and orphan recovery.            *)
Report(t) ==
  \/ StartAgentTask(t) \/ MarkAgentTaskWaitingLocalDirectory(t) \/ CompleteAgentTask(t)
  \/ \E reason \in Reasons : FailAgentTask(t, reason)

LEMMA ReportMoves ==
  ASSUME FlightInv, NEW t \in TaskIds, Report(t)
  PROVE  IsMove
<1>1. ASSUME StartAgentTask(t) PROVE IsMove
  BY <1>1, MoveOne DEF StartAgentTask, RowsWith, Owned, Status, Active, Pending
<1>2. ASSUME MarkAgentTaskWaitingLocalDirectory(t) PROVE IsMove
  BY <1>2, MoveOne DEF MarkAgentTaskWaitingLocalDirectory, RowsWith, Owned, Status, Active, Pending
<1>3. ASSUME CompleteAgentTask(t) PROVE IsMove
  BY <1>3, MoveOne DEF CompleteAgentTask, RowsWith, Owned, Status, Terminal, Pending
<1>4. ASSUME NEW r \in Reasons, FailAgentTask(t, r) PROVE IsMove
  BY <1>4, MoveOne DEF FailAgentTask, RowsWith, Owned, Status, Terminal, Pending
<1> QED BY <1>1, <1>2, <1>3, <1>4 DEF Report

LEMMA RecoverMoves ==
  ASSUME NEW r \in Runtimes, RecoverOrphanedTasksForRuntime(r)
  PROVE  IsMove
<1>1. OwnedOnRuntimes({r}) \in SUBSET RowsWith(Active)
  BY DEF OwnedOnRuntimes, RowsWith, Active
<1> QED BY <1>1, FailRowsMoves DEF RecoverOrphanedTasksForRuntime, Reasons, RetryableReasons

LEMMA DaemonMoves ==
  ASSUME FlightInv, DaemonStep
  PROVE  \/ IsMove
         \/ \E t \in TaskIds, i \in Issues : LinkTaskToIssue(t, i)
         \/ \E old, new \in Runtimes : ReassignTasksToRuntime(old, new)
BY ReportMoves, RecoverMoves DEF DaemonStep, Report

LEMMA SweepMoves ==
  ASSUME SweepStep
  PROVE  IsMove
<1>1. {"runtime_offline", "timeout", "queued_expired"} \subseteq Reasons
  BY DEF Reasons, RetryableReasons
<1>2. ASSUME NEW R \in SUBSET Runtimes, FailTasksForOfflineRuntimes(R) PROVE IsMove
  <2>1. OwnedOnRuntimes(R) \in SUBSET RowsWith(Active)
    BY DEF OwnedOnRuntimes, RowsWith, Active
  <2> QED BY <1>1, <1>2, <2>1, FailRowsMoves DEF FailTasksForOfflineRuntimes
<1>3. ASSUME NEW S \in SUBSET TaskIds, FailStaleTasks(S) PROVE IsMove
  <2>1. S \in SUBSET RowsWith(Active)
    BY <1>3 DEF FailStaleTasks, RowsWith, Active, Owned
  <2> QED BY <1>1, <1>3, <2>1, FailRowsMoves DEF FailStaleTasks
<1>4. ASSUME NEW S \in SUBSET TaskIds, ExpireStaleQueuedTasks(S) PROVE IsMove
  <2>1. S \in SUBSET RowsWith(Active)
    BY <1>4 DEF ExpireStaleQueuedTasks, RowsWith, Active
  <2> QED BY <1>1, <1>4, <2>1, FailRowsMoves DEF ExpireStaleQueuedTasks
<1> QED BY <1>2, <1>3, <1>4 DEF SweepStep

(* Every cancel statement selects active rows.                             *)
LEMMA CancelMoves ==
  ASSUME CancelStep
  PROVE  IsMove
<1>1. ASSUME NEW t \in TaskIds, CancelAgentTask(t) PROVE IsMove
  BY <1>1, CancelRowsMoves DEF CancelAgentTask
<1>2. ASSUME NEW i \in Issues, CancelAgentTasksByIssue(i) PROVE IsMove
  BY <1>2, CancelRowsMoves DEF CancelAgentTasksByIssue, ActiveOfIssue
<1>3. ASSUME NEW i \in Issues, NEW a \in Agents, CancelAgentTasksByIssueAndAgent(i, a)
      PROVE  IsMove
  <2>1. ActiveOfIssue(i) \cap ActiveOfAgent(a) \subseteq RowsWith(Active)
    BY DEF ActiveOfIssue
  <2> QED BY <1>3, <2>1, CancelRowsMoves DEF CancelAgentTasksByIssueAndAgent
<1>4. ASSUME NEW a \in Agents, CancelAgentTasksByAgent(a) PROVE IsMove
  BY <1>4, CancelRowsMoves DEF CancelAgentTasksByAgent, ActiveOfAgent
<1>5. ASSUME NEW c \in Chats, CancelAgentTasksByChatSession(c) PROVE IsMove
  BY <1>5, CancelRowsMoves DEF CancelAgentTasksByChatSession, ActiveOfChat
<1>6. ASSUME NEW S \in SUBSET TaskIds, CancelAgentTasksByTriggerComment(S) PROVE IsMove
  BY <1>6, CancelRowsMoves DEF CancelAgentTasksByTriggerComment, ActiveOfIssue
<1>7. ASSUME NEW R \in SUBSET Runtimes, NEW A \in SUBSET Agents,
             CancelAgentTasksByRuntimeOrAgent(R, A)
      PROVE  IsMove
  BY <1>7, CancelRowsMoves DEF CancelAgentTasksByRuntimeOrAgent
<1> QED BY <1>1, <1>2, <1>3, <1>4, <1>5, <1>6, <1>7, Zenon DEF CancelStep

-----------------------------------------------------------------------------
LEMMA FlightInit == TableInit => FlightInv
BY DEF TableInit, FlightInv, TableTypeOK, UniquePending, LockSound, IssueSingleFlight,
       RowsWith, AbsentRow, Pending, Owned

LEMMA FlightStep == FlightInv /\ [TableNext]_tableVars => FlightInv'
<1> SUFFICES ASSUME FlightInv, [TableNext]_tableVars PROVE FlightInv'
  OBVIOUS
<1>1. CASE InsertStep
  BY <1>1, CreatePreserves, RetryPreserves DEF InsertStep
<1>2. CASE UNCHANGED tableVars
  BY <1>2 DEF tableVars, FlightInv, TableTypeOK, UniquePending, LockSound,
              IssueSingleFlight, RowsWith, SameLane
<1>3. CASE ClaimStep
  BY <1>2, <1>3, SelectPreserves, UpdatePreserves, AbortPreserves
     DEF ClaimStep, ReclaimStaleDispatchedTaskForRuntime
<1>4. CASE DaemonStep
  BY <1>4, DaemonMoves, MoveStep, LinkPreserves, ReassignPreserves DEF IsMove
<1>5. CASE SweepStep
  BY <1>5, SweepMoves, MoveStep DEF IsMove
<1>6. CASE CancelStep
  BY <1>6, CancelMoves, MoveStep DEF IsMove
<1> QED BY <1>1, <1>2, <1>3, <1>4, <1>5, <1>6 DEF TableNext

(* The inductive invariant of the table.                                   *)
THEOREM FlightInvariant == TableSpec => []FlightInv
<1>1. TableInit => FlightInv
  BY FlightInit
<1>2. FlightInv /\ [TableNext]_tableVars => FlightInv'
  BY FlightStep
<1> QED BY <1>1, <1>2, PTL DEF TableSpec

(* Rows keep the columns of the schema.                                    *)
THEOREM TableTypeCorrect == TableSpec => []TableTypeOK
<1>1. FlightInv => TableTypeOK
  BY DEF FlightInv
<1> QED BY <1>1, FlightInvariant, PTL

(* Single flight per (agent, issue), for any number of replicas claiming   *)
(* at once (agent.sql:301-304).                                            *)
THEOREM SingleFlightHolds == TableSpec => []IssueSingleFlight
<1>1. FlightInv => IssueSingleFlight
  BY DEF FlightInv
<1> QED BY <1>1, FlightInvariant, PTL

-----------------------------------------------------------------------------
(* Outcomes are final.                                                     *)

FinalStep ==
  \A t \in TaskIds :
    /\ task[t].status \in Terminal =>
         task'[t].status = task[t].status /\ task'[t].reason = task[t].reason
    /\ task[t].status \in Owned => task'[t].status \notin {"queued", "absent"}
    /\ task[t].status # "dispatched" /\ task'[t].status = "dispatched"
         => task[t].status = "queued"

LEMMA InsertIsFinal ==
  ASSUME FlightInv, InsertStep
  PROVE  FinalStep
<1>1. PICK c, row :
        /\ c \in TaskIds /\ task[c].status = "absent" /\ row.status = "queued"
        /\ task' = [task EXCEPT ![c] = row]
  <2>1. CASE \E t \in TaskIds, a \in Agents, r \in Runtimes, l \in EnqueuedLinks :
               CreateAgentTask(t, a, r, l)
    BY <2>1, Zenon DEF CreateAgentTask
  <2>2. ASSUME NEW p \in TaskIds, NEW c \in TaskIds, RetryEligible(p), CreateRetryTask(p, c)
        PROVE  \E d, row : /\ d \in TaskIds /\ task[d].status = "absent" /\ row.status = "queued"
                           /\ task' = [task EXCEPT ![d] = row]
    BY <2>2, RetryRow
  <2> QED BY <2>1, <2>2, Zenon DEF InsertStep
<1>2. \A t \in TaskIds \ {c} : task'[t] = task[t]
  BY <1>1 DEF FlightInv, TableTypeOK
<1>3. task'[c].status = "queued"
  BY <1>1 DEF FlightInv, TableTypeOK
<1> QED BY <1>1, <1>2, <1>3 DEF FinalStep, Terminal, Owned

LEMMA MoveIsFinal ==
  ASSUME FlightInv, IsMove
  PROVE  FinalStep
<1>1. PICK S, s, r : Move(S, s, r)
  BY DEF IsMove
<1>2. /\ \A t \in S : task[t].status \in Active /\ task'[t].status = s
      /\ \A t \in TaskIds \ S : task'[t] = task[t]
  BY <1>1, MoveEffect
<1>3. s \in Status \ Pending
  BY <1>1 DEF Move
<1> QED BY <1>2, <1>3 DEF FinalStep, Status, Active, Terminal, Owned, Pending

LEMMA StepIsFinal == FlightInv /\ [TableNext]_tableVars => [FinalStep]_tableVars
<1> SUFFICES ASSUME FlightInv, TableNext PROVE FinalStep
  OBVIOUS
<1>1. CASE InsertStep
  BY <1>1, InsertIsFinal
<1>2. CASE ClaimStep
  <2>1. ASSUME NEW t \in TaskIds, ClaimUpdate(t) PROVE FinalStep
    BY <2>1, UpdateEffect DEF FinalStep, Terminal, Owned
  <2>2. CASE UNCHANGED task
    BY <2>2 DEF FinalStep, Terminal, Owned
  <2> QED BY <1>2, <2>1, <2>2 DEF ClaimStep, ClaimSelect, ClaimAbort,
                                         ReclaimStaleDispatchedTaskForRuntime, tableVars
<1>3. ASSUME NEW t \in TaskIds, NEW i \in Issues, LinkTaskToIssue(t, i) PROVE FinalStep
  BY <1>3, LinkEffect DEF FinalStep, Terminal, Owned
<1>4. ASSUME NEW old \in Runtimes, NEW new \in Runtimes, ReassignTasksToRuntime(old, new)
      PROVE  FinalStep
  BY <1>4, ReassignEffect DEF FinalStep, Terminal, Owned
<1>5. CASE DaemonStep \/ SweepStep \/ CancelStep
  BY <1>3, <1>4, <1>5, DaemonMoves, SweepMoves, CancelMoves, MoveIsFinal
<1> QED BY <1>1, <1>2, <1>5 DEF TableNext

(* No outcome is rewritten and no task is handed out twice, whatever late  *)
(* report, sweep or cancel arrives.                                        *)
THEOREM OutcomesFinal == TableSpec => OutcomeIsFinal
<1>1. FlightInv /\ [TableNext]_tableVars => [FinalStep]_tableVars
  BY StepIsFinal
<1>2. TableSpec => [][FinalStep]_tableVars
  BY <1>1, FlightInvariant, PTL DEF TableSpec
<1> QED BY <1>2 DEF OutcomeIsFinal, FinalStep

-----------------------------------------------------------------------------
(* Retries continue what failed.                                           *)

(* A retry has an issue or a chat session: what LinkTaskToIssue links is   *)
(* neither a retry nor, being completed, the parent of one.                *)
LineageInv ==
  /\ RetryLineage
  /\ \A c \in TaskIds : task[c].parent # None => ~QuickCreateShaped(task[c].link)

(* What every statement but an INSERT leaves alone in a row.               *)
LineageKept(t) ==
  /\ task'[t].attempt = task[t].attempt /\ task'[t].parent = task[t].parent
  /\ task'[t].agent = task[t].agent
  /\ \/ task'[t].link = task[t].link
     \/ task[t].status = "completed" /\ QuickCreateShaped(task[t].link)
  /\ task[t].status = "failed" =>
       task'[t].status = "failed" /\ task'[t].reason = task[t].reason

LEMMA KeptIsLineage ==
  ASSUME FlightInv, LineageInv, \A t \in TaskIds : LineageKept(t)
  PROVE  LineageInv'
<1> SUFFICES ASSUME NEW c \in TaskIds
             PROVE  /\ task'[c].attempt <= MaxAttempts
                    /\ task'[c].parent # None =>
                         LET p == task'[task'[c].parent]
                         IN /\ p.status = "failed" /\ p.reason \in RetryableReasons
                            /\ task'[c].attempt = p.attempt + 1
                            /\ task'[c].agent = p.agent /\ task'[c].link = p.link
                    /\ task'[c].parent # None => ~QuickCreateShaped(task'[c].link)
  BY DEF LineageInv, RetryLineage
<1>1. LineageKept(c) /\ task'[c].attempt <= MaxAttempts
  BY DEF LineageKept, LineageInv, RetryLineage
<1>2. CASE task[c].parent # None
  <2>1. task[c].parent \in TaskIds
    BY <1>2 DEF FlightInv, TableTypeOK, Row, AbsentRow
  <2>2. PICK p \in TaskIds : p = task[c].parent
    BY <2>1
  <2>3. /\ task[p].status = "failed" /\ task[p].reason \in RetryableReasons
        /\ task[c].attempt = task[p].attempt + 1
        /\ task[c].agent = task[p].agent /\ task[c].link = task[p].link
        /\ ~QuickCreateShaped(task[c].link)
    BY <1>2, <2>2 DEF LineageInv, RetryLineage
  <2>4. LineageKept(p)
    OBVIOUS
  <2> QED BY <1>1, <1>2, <2>2, <2>3, <2>4 DEF LineageKept
<1>3. CASE task[c].parent = None
  BY <1>1, <1>3 DEF LineageKept
<1> QED BY <1>1, <1>2, <1>3

(* The new row c is a first attempt or continues an eligible parent; it    *)
(* was absent, so it is nobody's parent.                                   *)
LEMMA InsertIsLineage ==
  ASSUME FlightInv, LineageInv, NEW c \in TaskIds, NEW row \in Row,
         task[c].status = "absent", task' = [task EXCEPT ![c] = row],
         row.attempt <= MaxAttempts,
         \/ row.parent = None
         \/ \E p \in TaskIds : /\ RetryEligible(p) /\ row.parent = p
                               /\ row.attempt = task[p].attempt + 1
                               /\ row.agent = task[p].agent /\ row.link = task[p].link
  PROVE  LineageInv'
<1>1. task'[c] = row /\ \A t \in TaskIds \ {c} : task'[t] = task[t]
  BY DEF FlightInv, TableTypeOK
<1> DEFINE Sound(d) == /\ task'[d].attempt <= MaxAttempts
                       /\ task'[d].parent # None =>
                            /\ task'[task'[d].parent].status = "failed"
                            /\ task'[task'[d].parent].reason \in RetryableReasons
                            /\ task'[d].attempt = task'[task'[d].parent].attempt + 1
                            /\ task'[d].agent = task'[task'[d].parent].agent
                            /\ task'[d].link = task'[task'[d].parent].link
                       /\ task'[d].parent # None => ~QuickCreateShaped(task'[d].link)
<1>2. Sound(c)
  <2>1. CASE row.parent = None
    BY <1>1, <2>1
  <2>2. ASSUME NEW p \in TaskIds, RetryEligible(p), row.parent = p,
               row.attempt = task[p].attempt + 1,
               row.agent = task[p].agent, row.link = task[p].link
        PROVE  Sound(c)
    <3>1. p # c /\ task'[p] = task[p]
      BY <1>1, <2>2 DEF RetryEligible
    <3>2. ~QuickCreateShaped(row.link)
      BY <2>2 DEF RetryEligible, QuickCreateShaped, NoLink
    <3> QED BY <1>1, <2>2, <3>1, <3>2 DEF RetryEligible
  <2> QED BY <2>1, <2>2
<1>3. ASSUME NEW d \in TaskIds \ {c}
      PROVE  Sound(d)
  <2>1. CASE task[d].parent # None
    <3>1. task[d].parent \in TaskIds
      BY <2>1 DEF FlightInv, TableTypeOK, Row, AbsentRow
    <3>2. PICK p \in TaskIds : p = task[d].parent
      BY <3>1
    <3>3. task[p].status = "failed"
      BY <2>1, <3>2 DEF LineageInv, RetryLineage
    <3>4. task'[p] = task[p] /\ task'[d] = task[d]
      BY <1>1, <3>3
    <3> QED BY <2>1, <3>2, <3>4 DEF LineageInv, RetryLineage
  <2>2. CASE task[d].parent = None
    BY <1>1, <2>2 DEF LineageInv, RetryLineage
  <2> QED BY <2>1, <2>2
<1> QED BY <1>2, <1>3 DEF LineageInv, RetryLineage

LEMMA LineageStep ==
  ASSUME FlightInv, LineageInv, [TableNext]_tableVars
  PROVE  LineageInv'
<1>1. ASSUME NEW t \in TaskIds, NEW a \in Agents, NEW r \in Runtimes, NEW l \in EnqueuedLinks,
             CreateAgentTask(t, a, r, l)
      PROVE  LineageInv'
  <2>1. PICK row : row = [status |-> "queued", agent |-> a, runtime |-> r, link |-> l,
                          attempt |-> 1, parent |-> None, reason |-> None]
    OBVIOUS
  <2>2. row \in Row /\ row.parent = None /\ row.attempt <= MaxAttempts
    BY <2>1, TaskTableAssumption DEF Row, Status, Active, EnqueuedLinks
  <2>3. task[t].status = "absent" /\ task' = [task EXCEPT ![t] = row]
    BY <1>1, <2>1, Zenon DEF CreateAgentTask
  <2> QED BY <2>2, <2>3, InsertIsLineage
<1>2. ASSUME NEW p \in TaskIds, NEW c \in TaskIds, RetryEligible(p), CreateRetryTask(p, c)
      PROVE  LineageInv'
  <2>1. PICK row \in Row :
          /\ row.status = "queued" /\ task[c].status = "absent"
          /\ task' = [task EXCEPT ![c] = row]
          /\ row.agent = task[p].agent /\ row.link = task[p].link
          /\ row.attempt = task[p].attempt + 1 /\ row.parent = p
    BY <1>2, RetryRow
  <2>2. task[p].attempt \in Nat /\ task[p].attempt < MaxAttempts
    BY <1>2, RowColumns DEF FlightInv, RetryEligible, Row
  <2>3. row.attempt <= MaxAttempts
    BY <2>1, <2>2, TaskTableAssumption
  <2> QED BY <1>2, <2>1, <2>3, InsertIsLineage
<1>3. CASE UNCHANGED task
  BY <1>3, KeptIsLineage DEF LineageKept
<1>4. CASE ClaimStep
  <2>1. ASSUME NEW t \in TaskIds, ClaimUpdate(t) PROVE LineageInv'
    <3>1. \A u \in TaskIds : LineageKept(u)
      BY <2>1, UpdateEffect DEF LineageKept
    <3> QED BY <3>1, KeptIsLineage
  <2> QED BY <1>3, <1>4, <2>1 DEF ClaimStep, ClaimSelect, ClaimAbort,
                                         ReclaimStaleDispatchedTaskForRuntime, tableVars
<1>5. ASSUME NEW t \in TaskIds, NEW i \in Issues, LinkTaskToIssue(t, i)
      PROVE  LineageInv'
  <2>1. \A u \in TaskIds : LineageKept(u)
    BY <1>5, LinkEffect DEF LineageKept
  <2> QED BY <2>1, KeptIsLineage
<1>6. ASSUME NEW old \in Runtimes, NEW new \in Runtimes, ReassignTasksToRuntime(old, new)
      PROVE  LineageInv'
  <2>1. \A u \in TaskIds : LineageKept(u)
    BY <1>6, ReassignEffect DEF LineageKept
  <2> QED BY <2>1, KeptIsLineage
<1>7. CASE IsMove
  <2>1. PICK S, s, r : Move(S, s, r)
    BY <1>7 DEF IsMove
  <2>2. \A u \in TaskIds : LineageKept(u)
    BY <2>1, MoveEffect DEF LineageKept, Active, Owned
  <2> QED BY <2>2, KeptIsLineage
<1>8. CASE DaemonStep \/ SweepStep \/ CancelStep
  BY <1>5, <1>6, <1>7, <1>8, DaemonMoves, SweepMoves, CancelMoves
<1> QED BY <1>1, <1>2, <1>3, <1>4, <1>8 DEF TableNext, InsertStep, tableVars

LEMMA LineageInvariant == TableSpec => []LineageInv
<1>1. TableInit => LineageInv
  BY TaskTableAssumption DEF TableInit, LineageInv, RetryLineage, AbsentRow
<1>2. FlightInv /\ LineageInv /\ [TableNext]_tableVars => LineageInv'
  BY LineageStep
<1> QED BY <1>1, <1>2, FlightInvariant, PTL DEF TableSpec

(* Every retry row continues a row that failed for a retryable reason,     *)
(* with the next attempt number, and no chain outgrows max_attempts,       *)
(* whatever is cancelled, expired, linked or reassigned meanwhile.         *)
THEOREM RetriesContinueFailures == TableSpec => []RetryLineage
<1>1. LineageInv => RetryLineage
  BY DEF LineageInv
<1> QED BY <1>1, LineageInvariant, PTL

-----------------------------------------------------------------------------
(* The table implements the abstract single-flight queue.                  *)

(* A step nobody sees through the mapping.                                 *)
LEMMA QuietStep ==
  ASSUME \A t \in TaskIds : /\ PhaseOf(task'[t].status) = PhaseOf(task[t].status)
                            /\ LaneOf(task'[t]) = LaneOf(task[t])
  PROVE  UNCHANGED Flight!vars
BY DEF Flight!vars

LEMMA InsertSubmits ==
  ASSUME FlightInv, NEW c \in TaskIds, NEW row \in Row, row.status = "queued",
         task[c].status = "absent", task' = [task EXCEPT ![c] = row]
  PROVE  Flight!Next
<1>1. task'[c] = row /\ \A t \in TaskIds \ {c} : task'[t] = task[t]
  BY DEF FlightInv, TableTypeOK
<1>2. PhaseOf("absent") = "none" /\ PhaseOf("queued") = "pending"
  BY DEF PhaseOf, Owned
<1>3. LaneOf(row) \in Lanes \cup {None}
  BY DEF LaneOf, Lanes, Row, Links
<1>4. Flight!Submit(c, LaneOf(row))
  <2>1. [t \in TaskIds |-> PhaseOf(task[t].status)][c] = "none"
    BY <1>2
  <2>2. [t \in TaskIds |-> PhaseOf(task[t].status)]'
          = [[t \in TaskIds |-> PhaseOf(task[t].status)] EXCEPT ![c] = "pending"]
    <3>1. \A t \in TaskIds : PhaseOf(task'[t].status) =
            IF t = c THEN "pending" ELSE PhaseOf(task[t].status)
      BY <1>1, <1>2
    <3> QED BY <3>1
  <2>3. [t \in TaskIds |-> LaneOf(task[t])]'
          = [[t \in TaskIds |-> LaneOf(task[t])] EXCEPT ![c] = LaneOf(row)]
    <3>1. \A t \in TaskIds : LaneOf(task'[t]) = IF t = c THEN LaneOf(row) ELSE LaneOf(task[t])
      BY <1>1
    <3> QED BY <3>1
  <2> QED BY <2>1, <2>2, <2>3 DEF Flight!Submit
<1> QED BY <1>3, <1>4 DEF Flight!Next

(* Only rows of the same (agent, issue) share a lane.                      *)
LEMMA LaneIsPair ==
  ASSUME NEW r \in Row, NEW q \in Row, LaneOf(r) # None, LaneOf(r) = LaneOf(q)
  PROVE  r.agent = q.agent /\ r.link.issue = q.link.issue /\ r.link.issue # None
<1>1. ASSUME NEW row \in Row, LaneOf(row) # None
      PROVE  row.link.issue # None /\ LaneOf(row) = <<row.agent, row.link.issue>>
  BY <1>1 DEF LaneOf
<1>2. LaneOf(r) = <<r.agent, r.link.issue>> /\ LaneOf(q) = <<q.agent, q.link.issue>>
  BY <1>1
<1>3. \A w, x, y, z : <<w, x>> = <<y, z>> => w = y /\ x = z
  OBVIOUS
<1>4. <<r.agent, r.link.issue>> = <<q.agent, q.link.issue>>
  BY <1>2, Zenon
<1>5. r.agent = q.agent /\ r.link.issue = q.link.issue
  BY <1>3, <1>4, Zenon
<1> QED BY <1>1, <1>5

LEMMA UpdateTakes ==
  ASSUME FlightInv, NEW c \in TaskIds, ClaimUpdate(c)
  PROVE  Flight!Next
<1>1. /\ c \in rowLock /\ task[c].status = "queued" /\ task'[c].status = "dispatched"
      /\ task'[c].agent = task[c].agent /\ task'[c].link = task[c].link
      /\ \A t \in TaskIds \ {c} : task'[t] = task[t]
  BY UpdateEffect
<1>2. PhaseOf("queued") = "pending" /\ PhaseOf("dispatched") = "owned"
  BY DEF PhaseOf, Owned
<1>3. LaneOf(task'[c]) = LaneOf(task[c])
  BY <1>1 DEF LaneOf, Active, Owned
<1>4. ASSUME NEW k \in TaskIds, PhaseOf(task[k].status) = "owned", LaneOf(task[c]) # None
      PROVE  LaneOf(task[k]) # LaneOf(task[c])
  <2>1. task[k].status \in Owned
    BY <1>4 DEF PhaseOf
  <2>2. ~SameLane(c, k)
    BY <1>1, <2>1 DEF FlightInv, LockSound, RowsWith
  <2>3. task[k] \in Row /\ task[c] \in Row
    BY <1>1, <2>1, RowColumns DEF FlightInv, Owned
  <2> QED BY <1>4, <2>2, <2>3, LaneIsPair DEF SameLane
<1>5. Flight!Take(c)
  <2>1. [t \in TaskIds |-> PhaseOf(task[t].status)][c] = "pending"
    BY <1>1, <1>2
  <2>2. [t \in TaskIds |-> LaneOf(task[t])][c] # None =>
          \A k \in TaskIds : [t \in TaskIds |-> PhaseOf(task[t].status)][k] = "owned" =>
            [t \in TaskIds |-> LaneOf(task[t])][k] # [t \in TaskIds |-> LaneOf(task[t])][c]
    BY <1>4
  <2>3. [t \in TaskIds |-> PhaseOf(task[t].status)]'
          = [[t \in TaskIds |-> PhaseOf(task[t].status)] EXCEPT ![c] = "owned"]
    <3>1. \A t \in TaskIds : PhaseOf(task'[t].status) =
            IF t = c THEN "owned" ELSE PhaseOf(task[t].status)
      BY <1>1, <1>2
    <3> QED BY <3>1
  <2>4. [t \in TaskIds |-> LaneOf(task[t])]' = [t \in TaskIds |-> LaneOf(task[t])]
    <3>1. \A t \in TaskIds : LaneOf(task'[t]) = LaneOf(task[t])
      BY <1>1, <1>3
    <3> QED BY <3>1
  <2> QED BY <2>1, <2>2, <2>3, <2>4 DEF Flight!Take
<1> QED BY <1>5 DEF Flight!Next

(* A move to a terminal status finishes its rows; any other is invisible.  *)
LEMMA MoveFinishes ==
  ASSUME FlightInv, IsMove
  PROVE  Flight!Next \/ UNCHANGED Flight!vars
<1>1. PICK S, s, r : Move(S, s, r)
  BY DEF IsMove
<1>2. /\ \A t \in S : /\ t \in TaskIds /\ task[t].status \in Active /\ task'[t].status = s
                      /\ task'[t].agent = task[t].agent /\ task'[t].link = task[t].link
      /\ \A t \in TaskIds \ S : task'[t] = task[t]
  BY <1>1, MoveEffect
<1>3. CASE s \in Terminal
  <2>1. \A t \in S : PhaseOf(task[t].status) \in {"pending", "owned"}
    BY <1>2 DEF PhaseOf, Active, Owned
  <2>2. PhaseOf(s) = "done"
    BY <1>3 DEF PhaseOf, Terminal, Owned
  <2>3. \A t \in TaskIds : PhaseOf(task'[t].status) =
          IF t \in S THEN "done" ELSE PhaseOf(task[t].status)
    BY <1>2, <2>2
  <2>4. \A t \in TaskIds : LaneOf(task'[t]) = IF t \in S THEN None ELSE LaneOf(task[t])
    BY <1>2, <1>3 DEF LaneOf, Terminal, Active, Owned
  <2>5. Flight!Finish(S)
    <3>1. \A t \in S : [u \in TaskIds |-> PhaseOf(task[u].status)][t] \in {"pending", "owned"}
      BY <1>2, <2>1
    <3>2. [t \in TaskIds |-> PhaseOf(task[t].status)]'
            = [t \in TaskIds |-> IF t \in S THEN "done"
                                 ELSE [u \in TaskIds |-> PhaseOf(task[u].status)][t]]
      BY <2>3
    <3>3. [t \in TaskIds |-> LaneOf(task[t])]'
            = [t \in TaskIds |-> IF t \in S THEN None
                                 ELSE [u \in TaskIds |-> LaneOf(task[u])][t]]
      BY <2>4
    <3> QED BY <3>1, <3>2, <3>3 DEF Flight!Finish
  <2> QED BY <1>2, <2>5 DEF Flight!Next
<1>4. CASE s \notin Terminal
  <2>1. s \in Owned /\ \A t \in S : task[t].status \in Owned
    BY <1>1, <1>4 DEF Move, Status, Active, Pending, RowsWith
  <2>2. \A t \in TaskIds : PhaseOf(task'[t].status) = PhaseOf(task[t].status)
    BY <1>2, <2>1 DEF PhaseOf, Owned
  <2>3. \A t \in TaskIds : LaneOf(task'[t]) = LaneOf(task[t])
    BY <1>2, <2>1 DEF LaneOf, Active
  <2> QED BY <2>2, <2>3, QuietStep
<1> QED BY <1>3, <1>4

LEMMA FlightRefinesStep ==
  FlightInv /\ [TableNext]_tableVars => [Flight!Next]_(Flight!vars)
<1> SUFFICES ASSUME FlightInv, [TableNext]_tableVars
             PROVE  Flight!Next \/ UNCHANGED Flight!vars
  OBVIOUS
<1>1. ASSUME NEW t \in TaskIds, NEW a \in Agents, NEW r \in Runtimes, NEW l \in EnqueuedLinks,
             CreateAgentTask(t, a, r, l)
      PROVE  Flight!Next
  <2>1. PICK row : row = [status |-> "queued", agent |-> a, runtime |-> r, link |-> l,
                          attempt |-> 1, parent |-> None, reason |-> None]
    OBVIOUS
  <2>2. row \in Row /\ row.status = "queued"
    BY <2>1 DEF Row, Status, Active, EnqueuedLinks
  <2>3. task[t].status = "absent" /\ task' = [task EXCEPT ![t] = row]
    BY <1>1, <2>1, Zenon DEF CreateAgentTask
  <2> QED BY <2>2, <2>3, InsertSubmits
<1>2. ASSUME NEW p \in TaskIds, NEW c \in TaskIds, RetryEligible(p), CreateRetryTask(p, c)
      PROVE  Flight!Next
  BY <1>2, RetryRow, InsertSubmits
<1>3. CASE ClaimStep
  <2>1. CASE UNCHANGED task
    BY <2>1, QuietStep
  <2> QED BY <1>3, <2>1, UpdateTakes DEF ClaimStep, ClaimSelect, ClaimAbort,
                                         ReclaimStaleDispatchedTaskForRuntime, tableVars
<1>4. ASSUME NEW t \in TaskIds, NEW i \in Issues, LinkTaskToIssue(t, i)
      PROVE  UNCHANGED Flight!vars
  BY <1>4, LinkEffect, QuietStep DEF LaneOf, Active, Owned
<1>5. ASSUME NEW old \in Runtimes, NEW new \in Runtimes, ReassignTasksToRuntime(old, new)
      PROVE  UNCHANGED Flight!vars
  BY <1>5, ReassignEffect, QuietStep DEF LaneOf
<1>6. CASE DaemonStep \/ SweepStep \/ CancelStep
  BY <1>4, <1>5, <1>6, DaemonMoves, SweepMoves, CancelMoves, MoveFinishes
<1>7. CASE UNCHANGED tableVars
  BY <1>7, QuietStep DEF tableVars
<1> QED BY <1>1, <1>2, <1>3, <1>6, <1>7 DEF TableNext, InsertStep

(* Every behaviour of the table is a behaviour of the abstract queue.      *)
THEOREM TableImplementsSingleFlight == TableSpec => ImplementsSingleFlight
<1>1. TableInit => Flight!Init
  BY DEF TableInit, Flight!Init, PhaseOf, LaneOf, AbsentRow, Active, Owned
<1>2. FlightInv /\ [TableNext]_tableVars => [Flight!Next]_(Flight!vars)
  BY FlightRefinesStep
<1> QED BY <1>1, <1>2, FlightInvariant, PTL DEF TableSpec, ImplementsSingleFlight, Flight!Spec

=============================================================================
