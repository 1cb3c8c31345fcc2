----------------------------- MODULE ClaimBarrier -----------------------------
(***************************************************************************)
(* Inside the daemon (server/internal/daemon): one poller goroutine per    *)
(* runtime claims tasks and hands each to a goroutine of its own, within a *)
(* limit of execution slots; a loop updates the CLI by itself when the     *)
(* daemon is idle, and the server may ask for an update at any time.  Both *)
(* updates end in a restart, which cancels the root context and thereby    *)
(* every running task.  The claim barrier (pauseClaims, claimsInFlight)    *)
(* is what keeps the self-update from interrupting a task.                 *)
(*                                                                         *)
(* Critical sections of claimMu, atomics and channel operations are steps; *)
(* the pollers' waiting times are left out.                                *)
(***************************************************************************)
EXTENDS Integers, FiniteSets

CONSTANTS
  Pollers,       \* poller goroutines (bounds the model)
  Tasks,         \* task goroutines (bounds the model)
  Slots,         \* cfg.MaxConcurrentTasks execution slots
  None,
  RestartWorks   \* os.Executable never fails

ASSUME BarrierAssumption ==
  /\ None \notin Slots /\ Pollers \cap Tasks = {}
  /\ IsFiniteSet(Pollers) /\ IsFiniteSet(Tasks)
  /\ RestartWorks \in BOOLEAN

VARIABLES
  poller,     \* the pollers: where each is, its slot, whether its context is cancelled
  task,       \* the task goroutines: where each is, its slot
  free,       \* the slots in the semaphore
  barrier,    \* claimsInFlight and pauseClaims, guarded by claimMu
  active,     \* activeTasks
  updating,   \* the flag updating
  auto,       \* where tryAutoUpdate is
  manual,     \* where handleUpdate is
  cancelled,  \* who cancelled the root context, if anyone
  loop        \* where pollLoop is

updateVars  == <<updating, auto, manual, cancelled>>
barrierVars == <<poller, task, free, barrier, active, updateVars, loop>>

-----------------------------------------------------------------------------
PollerAt(p, pc) == poller[p].pc = pc
TaskAt(t, pc)   == task[t].pc = pc

NoPoller == [pc |-> "none", slot |-> None, stop |-> FALSE]
NoTask   == [pc |-> "none", slot |-> None]

Move(p, pc) == poller' = [poller EXCEPT ![p].pc = pc]

(* The poller's context is done: its own or the root context.              *)
Stopping(p) == poller[p].stop \/ cancelled # "no"

EnterClaim == barrier' = [barrier EXCEPT !.claims = @ + 1]
ExitClaim  == barrier' = [barrier EXCEPT !.claims = @ - 1]

-----------------------------------------------------------------------------
(* pollLoop and syncPollers: the set of runtimes changes while it runs.    *)

StartPoller(p) ==
  /\ loop = "polling" /\ PollerAt(p, "none")
  /\ Move(p, "top")
  /\ UNCHANGED <<task, free, barrier, active, updateVars, loop>>

CancelPoller(p) ==
  /\ loop = "polling" /\ ~PollerAt(p, "none")
  /\ poller' = [poller EXCEPT ![p].stop = TRUE]
  /\ UNCHANGED <<task, free, barrier, active, updateVars, loop>>

(* Shutdown: no more syncPollers, wait for the pollers, ...                *)
LoopStops ==
  /\ loop = "polling" /\ cancelled # "no"
  /\ loop' = "pollers"
  /\ UNCHANGED <<poller, task, free, barrier, active, updateVars>>

PollersGoneEarly ==            \* mutant: does not wait for the pollers
  /\ loop = "pollers"
  /\ loop' = "tasks"
  /\ UNCHANGED <<poller, task, free, barrier, active, updateVars>>

PollersGone ==
  /\ loop = "pollers" /\ \A p \in Pollers : PollerAt(p, "none")
  /\ loop' = "tasks"
  /\ UNCHANGED <<poller, task, free, barrier, active, updateVars>>

(* ... then for the tasks, but no longer than 30 s.                        *)
LoopExits ==
  /\ loop = "tasks"
  /\ loop' = "exited"
  /\ UNCHANGED <<poller, task, free, barrier, active, updateVars>>

-----------------------------------------------------------------------------
(* runRuntimePoller.                                                       *)

CheckContextNever(p) ==        \* mutant: the context is not looked at
  /\ PollerAt(p, "top")
  /\ Move(p, "select")
  /\ UNCHANGED <<task, free, barrier, active, updateVars, loop>>

CheckContext(p) ==
  /\ PollerAt(p, "top")
  /\ IF Stopping(p) THEN poller' = [poller EXCEPT ![p] = NoPoller] ELSE Move(p, "select")
  /\ UNCHANGED <<task, free, barrier, active, updateVars, loop>>

(* waitForTaskSlot: a slot, even if the context is done by now, ...        *)
AcquireSlot(p, s) ==
  /\ PollerAt(p, "select") /\ s \in free
  /\ free' = free \ {s}
  /\ poller' = [poller EXCEPT ![p].pc = "slot", ![p].slot = s]
  /\ UNCHANGED <<task, barrier, active, updateVars, loop>>

(* ... or a timeout, a wakeup, the end.                                    *)
NoSlot(p) ==
  /\ PollerAt(p, "select")
  /\ Move(p, "top")
  /\ UNCHANGED <<task, free, barrier, active, updateVars, loop>>

TryEnterClaim(p) ==
  /\ PollerAt(p, "slot") /\ ~barrier.pause
  /\ EnterClaim /\ Move(p, "claiming")
  /\ UNCHANGED <<task, free, active, updateVars, loop>>

ReturnSlot(p) ==
  /\ free' = free \cup {poller[p].slot}
  /\ poller' = [poller EXCEPT ![p].pc = "top", ![p].slot = None]

ClaimRefused(p) ==
  /\ PollerAt(p, "slot") /\ barrier.pause
  /\ ReturnSlot(p)
  /\ UNCHANGED <<task, barrier, active, updateVars, loop>>

(* ClaimTask returns a task, ...                                           *)
ClaimReturnsTask(p) ==
  /\ PollerAt(p, "claiming")
  /\ Move(p, "claimed")
  /\ UNCHANGED <<task, free, barrier, active, updateVars, loop>>

(* ... an error, or nothing to do.                                         *)
ClaimReturnsNone(p) ==
  /\ PollerAt(p, "claiming")
  /\ ExitClaim /\ Move(p, "unclaimed")
  /\ UNCHANGED <<task, free, active, updateVars, loop>>

ClaimEmptyLeaks(p) ==          \* mutant: the slot is not returned
  /\ PollerAt(p, "unclaimed")
  /\ poller' = [poller EXCEPT ![p].pc = "top", ![p].slot = None]
  /\ UNCHANGED <<task, free, barrier, active, updateVars, loop>>

ClaimEmpty(p) ==
  /\ PollerAt(p, "unclaimed")
  /\ ReturnSlot(p)
  /\ UNCHANGED <<task, barrier, active, updateVars, loop>>

(* The server does not know the runtime any more: the poller ends.         *)
RuntimeGone(p) ==
  /\ PollerAt(p, "unclaimed")
  /\ free' = free \cup {poller[p].slot}
  /\ poller' = [poller EXCEPT ![p] = NoPoller]
  /\ UNCHANGED <<task, barrier, active, updateVars, loop>>

HandOffExits(p, t) ==          \* mutant: the claim ends here, and again with the task
  /\ PollerAt(p, "claimed") /\ TaskAt(t, "none")
  /\ ExitClaim
  /\ active' = active + 1
  /\ task' = [task EXCEPT ![t] = [pc |-> "running", slot |-> poller[p].slot]]
  /\ poller' = [poller EXCEPT ![p].pc = "top", ![p].slot = None]
  /\ UNCHANGED <<free, updateVars, loop>>

HandOffLosesSlot(p, t) ==      \* mutant: the goroutine is not given the slot
  /\ PollerAt(p, "claimed") /\ TaskAt(t, "none")
  /\ active' = active + 1
  /\ task' = [task EXCEPT ![t] = [pc |-> "running", slot |-> None]]
  /\ poller' = [poller EXCEPT ![p].pc = "top", ![p].slot = None]
  /\ UNCHANGED <<free, barrier, updateVars, loop>>

HandOff(p, t) ==
  /\ PollerAt(p, "claimed") /\ TaskAt(t, "none")
  /\ active' = active + 1
  /\ task' = [task EXCEPT ![t] = [pc |-> "running", slot |-> poller[p].slot]]
  /\ poller' = [poller EXCEPT ![p].pc = "top", ![p].slot = None]
  /\ UNCHANGED <<free, barrier, updateVars, loop>>

-----------------------------------------------------------------------------
(* A task goroutine: handleTask returns, and the deferred calls run.       *)

HandleTaskReturns(t) ==
  /\ TaskAt(t, "running")
  /\ free' = free \cup {task[t].slot}
  /\ task' = [task EXCEPT ![t] = [pc |-> "returned", slot |-> None]]
  /\ UNCHANGED <<poller, barrier, active, updateVars, loop>>

TaskInactive(t) ==
  /\ TaskAt(t, "returned")
  /\ active' = active - 1
  /\ task' = [task EXCEPT ![t].pc = "inactive"]
  /\ UNCHANGED <<poller, free, barrier, updateVars, loop>>

TaskExitsClaim(t) ==
  /\ TaskAt(t, "inactive")
  /\ ExitClaim
  /\ task' = [task EXCEPT ![t] = NoTask]
  /\ UNCHANGED <<poller, free, active, updateVars, loop>>

-----------------------------------------------------------------------------
(* triggerRestart: who calls it, and what if os.Executable fails.          *)

TriggerRestart(who) ==
  \/ cancelled' = IF cancelled = "no" THEN who ELSE cancelled
  \/ ~RestartWorks /\ UNCHANGED cancelled

(* tryAutoUpdate.  The cheap checks, and the release is newer; ...         *)
AutoCheck ==
  /\ auto = "idle" /\ cancelled = "no"
  /\ ~updating /\ active = 0
  /\ auto' = "newer"
  /\ UNCHANGED <<poller, task, free, barrier, active, updating, manual, cancelled, loop>>

AutoLock ==
  /\ auto = "newer"
  /\ IF updating THEN auto' = "idle" /\ UNCHANGED updating
                 ELSE auto' = "locked" /\ updating' = TRUE
  /\ UNCHANGED <<poller, task, free, barrier, active, manual, cancelled, loop>>

(* ... trySetClaimBarrier; ...                                             *)
AutoBarrierActiveOnly ==       \* mutant: claims in flight are not looked at
  /\ auto = "locked" /\ active = 0
  /\ barrier' = [barrier EXCEPT !.pause = TRUE]
  /\ auto' = "upgrading"
  /\ UNCHANGED <<poller, task, free, active, updating, manual, cancelled, loop>>

AutoBarrier ==
  /\ auto = "locked"
  /\ barrier.claims <= 0 /\ active <= 0
  /\ barrier' = [barrier EXCEPT !.pause = TRUE]
  /\ auto' = "upgrading"
  /\ UNCHANGED <<poller, task, free, active, updating, manual, cancelled, loop>>

AutoDefers ==
  /\ auto = "locked"
  /\ barrier.claims > 0 \/ active > 0
  /\ updating' = FALSE
  /\ auto' = "idle"
  /\ UNCHANGED <<poller, task, free, barrier, active, manual, cancelled, loop>>

AutoFailsKeepsBarrier ==       \* mutant: only the updating flag is given back
  /\ auto = "upgrading"
  /\ auto' = "unlock"
  /\ UNCHANGED <<poller, task, free, barrier, active, updating, manual, cancelled, loop>>

(* ... the upgrade fails, ...                                              *)
AutoFails ==
  /\ auto = "upgrading"
  /\ barrier' = [barrier EXCEPT !.pause = FALSE]
  /\ auto' = "unlock"
  /\ UNCHANGED <<poller, task, free, active, updating, manual, cancelled, loop>>

AutoUnlock ==
  /\ auto = "unlock"
  /\ updating' = FALSE
  /\ auto' = "idle"
  /\ UNCHANGED <<poller, task, free, barrier, active, manual, cancelled, loop>>

(* ... or succeeds: barrier and flag stay, since the process is to end.    *)
AutoRestarts ==
  /\ auto = "upgrading"
  /\ TriggerRestart("auto")
  /\ auto' = "idle"
  /\ UNCHANGED <<poller, task, free, barrier, active, updating, manual, loop>>

(* handleUpdate: knows no barrier, and gives the flag back in any case.    *)
ManualLock ==
  /\ manual = "idle" /\ cancelled = "no" /\ ~updating
  /\ updating' = TRUE
  /\ manual' = "upgrading"
  /\ UNCHANGED <<poller, task, free, barrier, active, auto, cancelled, loop>>

ManualEnds ==
  /\ manual = "upgrading"
  /\ TriggerRestart("manual") \/ UNCHANGED cancelled
  /\ manual' = "unlock"
  /\ UNCHANGED <<poller, task, free, barrier, active, updating, auto, loop>>

ManualUnlock ==
  /\ manual = "unlock"
  /\ updating' = FALSE
  /\ manual' = "idle"
  /\ UNCHANGED <<poller, task, free, barrier, active, auto, cancelled, loop>>

(* The operator stops the daemon.                                          *)
Shutdown ==
  /\ cancelled = "no"
  /\ cancelled' = "operator"
  /\ UNCHANGED <<poller, task, free, barrier, active, updating, auto, manual, loop>>

-----------------------------------------------------------------------------
BarrierInit ==
  /\ poller = [p \in Pollers |-> NoPoller]
  /\ task = [t \in Tasks |-> NoTask]
  /\ free = Slots
  /\ barrier = [claims |-> 0, pause |-> FALSE]
  /\ active = 0
  /\ updating = FALSE /\ auto = "idle" /\ manual = "idle" /\ cancelled = "no"
  /\ loop = "polling"

PollerStep(p) ==
  \/ CheckContext(p)
  \/ \E s \in Slots : AcquireSlot(p, s)
  \/ NoSlot(p)
  \/ TryEnterClaim(p) \/ ClaimRefused(p)
  \/ ClaimReturnsTask(p) \/ ClaimReturnsNone(p)
  \/ ClaimEmpty(p) \/ RuntimeGone(p)
  \/ \E t \in Tasks : HandOff(p, t)

TaskDefers(t) == TaskInactive(t) \/ TaskExitsClaim(t)

AutoStep == AutoLock \/ AutoBarrier \/ AutoDefers \/ AutoFails \/ AutoUnlock \/ AutoRestarts

ManualStep == ManualEnds \/ ManualUnlock

LoopStep == LoopStops \/ PollersGone \/ LoopExits

BarrierNext ==
  \/ \E p \in Pollers : StartPoller(p) \/ CancelPoller(p) \/ PollerStep(p)
  \/ \E t \in Tasks : HandleTaskReturns(t) \/ TaskDefers(t)
  \/ AutoCheck \/ AutoStep \/ ManualLock \/ ManualStep \/ Shutdown \/ LoopStep

BarrierSpec == BarrierInit /\ [][BarrierNext]_barrierVars

(* Goroutines run; an upgrade and a claim end by their timeouts.  A task   *)
(* need not end, unless its context is cancelled.                          *)
FairBarrierSpec ==
  /\ BarrierSpec
  /\ \A p \in Pollers : WF_barrierVars(PollerStep(p))
  /\ \A t \in Tasks : /\ WF_barrierVars(TaskDefers(t))
                      /\ WF_barrierVars(cancelled # "no" /\ HandleTaskReturns(t))
  /\ WF_barrierVars(AutoStep) /\ WF_barrierVars(ManualStep) /\ WF_barrierVars(LoopStep)

-----------------------------------------------------------------------------
(* Properties.                                                             *)

Claiming == {p \in Pollers : poller[p].pc \in {"claiming", "claimed"}}
Alive    == {t \in Tasks : ~TaskAt(t, "none")}
Working  == {t \in Tasks : TaskAt(t, "running")}

BarrierTypeOK ==
  /\ poller \in [Pollers -> [pc : {"none", "top", "select", "slot", "claiming", "claimed",
                                   "unclaimed"},
                             slot : Slots \cup {None}, stop : BOOLEAN]]
  /\ task \in [Tasks -> [pc : {"none", "running", "returned", "inactive"},
                         slot : Slots \cup {None}]]
  /\ free \subseteq Slots
  /\ barrier \in [claims : Int, pause : BOOLEAN]
  /\ active \in Int
  /\ updating \in BOOLEAN
  /\ auto \in {"idle", "newer", "locked", "upgrading", "unlock"}
  /\ manual \in {"idle", "upgrading", "unlock"}
  /\ cancelled \in {"no", "auto", "manual", "operator"}
  /\ loop \in {"polling", "pollers", "tasks", "exited"}

(* A self-update interrupts no task: from the moment its barrier is up     *)
(* until it is released or the process ends, no claim is in flight and no  *)
(* task runs, so the restart cancels nothing (daemon.go:126-137).          *)
NothingInterrupted ==
  barrier.pause \/ cancelled = "auto" => Claiming = {} /\ Working = {}

(* Every slot is in the semaphore or with exactly one poller or task, so   *)
(* neither are more tasks run than slots exist nor is a slot lost.         *)
Holders(s) == {p \in Pollers : poller[p].slot = s} \cup {t \in Tasks : task[t].slot = s}

SlotsConserved ==
  \A s \in Slots : Cardinality(Holders(s)) = IF s \in free THEN 0 ELSE 1

(* claimsInFlight counts the claims until the tasks they led to are over,  *)
(* activeTasks the tasks: every tryEnterClaim is paired with one exitClaim *)
(* on every path (daemon.go:1777-1781).                                    *)
CountersPaired ==
  /\ barrier.claims = Cardinality(Claiming) + Cardinality(Alive)
  /\ active = Cardinality({t \in Tasks : task[t].pc \in {"running", "returned"}})

(* taskWG.Wait never runs beside a taskWG.Add (daemon.go:1919-1922): while *)
(* the loop waits for the tasks no poller hands one off.                   *)
NoAddBesideWait ==
  loop \in {"tasks", "exited"} => \A p \in Pollers : PollerAt(p, "none")

(* The barrier is given back "on every non-restart exit path"              *)
(* (daemon.go:1801-1803): once tryAutoUpdate is over, pollers may claim    *)
(* unless the process is about to end.                                     *)
BarrierReleased ==
  barrier.pause /\ auto = "idle" => cancelled # "no"

(* A shutdown, by the operator or an update, comes to an end.              *)
ShutdownEnds == cancelled # "no" ~> loop = "exited"

=============================================================================
