------------------------------ MODULE CronLease ------------------------------
(***************************************************************************)
(* The scheduler of internal periodic jobs (server/internal/scheduler):    *)
(* every server replica ticks the same job, and the table                  *)
(* sys_cron_executions, with one row per planned execution, is both the    *)
(* lock and the audit log.  A claim is a lease: it is renewed by heartbeats *)
(* and is stale once stale_after lies in the past.                         *)
(*                                                                         *)
(* A tick reads the database clock once and uses this time for everything  *)
(* it decides, however long the plans it runs take; heartbeats and         *)
(* terminal updates use the clock of their own moment.                     *)
(*                                                                         *)
(* One job with one scope.  Plan p is the bucket that starts at p * cadence *)
(* and is due scheduleDelay later.  The lease token of a row is drawn anew *)
(* by each claim, as the attempt is counted up: the attempt stands for it. *)
(***************************************************************************)
EXTENDS Integers, FiniteSets

CONSTANTS
  Runners,   \* the replicas
  MaxPlan,   \* plans 1 .. MaxPlan (bounds the model)
  Horizon,   \* the database clock stops here (bounds the model)
  JobSpecs   \* the JobSpecs that may be registered

Plans == 1 .. MaxPlan

(* JobSpec.validate, and no negative delay.  The unit of time is a second: *)
(* tryClaim and heartbeat round stale_timeout down to whole seconds.       *)
ASSUME CronAssumption ==
  /\ MaxPlan \in Nat /\ Horizon \in Nat
  /\ \A j \in JobSpecs :
       /\ j.cadence \in Nat \ {0} /\ j.scheduleDelay \in Nat
       /\ j.maxAttempts \in Nat \ {0} /\ j.staleTimeout \in Nat
       /\ j.heartbeatInterval \in 1 .. (j.staleTimeout - 1)
       /\ j.catchUpWindow \in Nat /\ j.maxPlansPerTick \in Nat \ {0}
       /\ {j.everyPlan, j.allowStaleReentry} \subseteq BOOLEAN
       /\ j.retryDelay \in [1 .. j.maxAttempts -> Nat]

VARIABLES
  job,     \* the registered JobSpec
  clock,   \* the clock of the database
  exec,    \* table sys_cron_executions: plan -> row
  runner   \* the replicas: where each is in its tick

cronVars == <<job, clock, exec, runner>>

-----------------------------------------------------------------------------
(* next_retry_at is NULL, which COALESCE makes due at once: like time 0.    *)
NoRetry == 0

NoRow == [status |-> "none", attempt |-> 0, staleAfter |-> 0, retryAt |-> NoRetry,
          error |-> "none"]

(* now: the time the tick read.  onTime (history): the lease could not run *)
(* out before the first heartbeat, and no heartbeat was late or lost.      *)
(* due: when the next heartbeat of a runner that is on time is due, else 0.*)
Resting == [pc |-> "idle", now |-> 0, todo |-> {}, plan |-> 0, attempt |-> 0,
            due |-> 0, onTime |-> FALSE]

At(r, pc) == runner[r].pc = pc

Goto(r, next) == runner' = [runner EXCEPT ![r] = next]

(* The next plan of the tick, or its end.                                  *)
Continue(r) ==
  LET rest == runner[r].todo \ {runner[r].plan}
  IN Goto(r, IF rest = {} THEN Resting
             ELSE [Resting EXCEPT !.pc = "claim", !.now = runner[r].now, !.todo = rest])

(* The row is still the one r claimed: WHERE lease_token = .. AND RUNNING. *)
HoldsLeaseAny(r) ==            \* mutant: terminal updates by row id alone
  exec[runner[r].plan].status = "RUNNING"

HoldsLease(r) ==
  LET e == exec[runner[r].plan]
  IN e.attempt = runner[r].attempt /\ e.status = "RUNNING"

-----------------------------------------------------------------------------
(* A tick: runOnce reads the clock, ...                                    *)
StartTick(r) ==
  /\ At(r, "idle")
  /\ Goto(r, [Resting EXCEPT !.pc = "sweep", !.now = clock])
  /\ UNCHANGED <<job, clock, exec>>

MarkStaleNonReentrant(r) ==    \* mutant: the stale leases of reentrant jobs stay
  /\ At(r, "sweep")
  /\ exec' = [p \in Plans |->
       IF exec[p].status = "RUNNING" /\ exec[p].staleAfter < runner[r].now
          /\ ~job.allowStaleReentry
       THEN [exec[p] EXCEPT !.status = "FAILED", !.error = "stale_timeout"]
       ELSE exec[p]]
  /\ Goto(r, [runner[r] EXCEPT !.pc = "plan"])
  /\ UNCHANGED <<job, clock>>

(* ... markStaleAsFailed closes the abandoned leases, ...                  *)
MarkStaleAsFailed(r) ==
  /\ At(r, "sweep")
  /\ exec' = [p \in Plans |->
       IF exec[p].status = "RUNNING" /\ exec[p].staleAfter < runner[r].now
       THEN [exec[p] EXCEPT !.status = "FAILED", !.error = "stale_timeout"]
       ELSE exec[p]]
  /\ Goto(r, [runner[r] EXCEPT !.pc = "plan"])
  /\ UNCHANGED <<job, clock>>

(* (its error is logged, and the tick goes on)                             *)
MarkStaleFails(r) ==
  /\ At(r, "sweep")
  /\ Goto(r, [runner[r] EXCEPT !.pc = "plan"])
  /\ UNCHANGED <<job, clock, exec>>

(* ... and plansForTick picks the plans to attempt.                        *)
Reached(now) == (now - job.scheduleDelay) \div job.cadence
Recorded == {p \in Plans : exec[p].status # "none"}

RetryDue(e, now) ==
  e.status = "FAILED" /\ e.retryAt <= now

RetryEligible(p, now) == exec[p].attempt < job.maxAttempts /\ RetryDue(exec[p], now)

FirstPlan(now) ==
  IF Recorded = {} THEN Reached(now)
  ELSE LET last == CHOOSE p \in Recorded : \A q \in Recorded : q <= p
       IN IF RetryEligible(last, now) THEN last ELSE last + 1

InWindow(p, now) ==
  IF job.catchUpWindow = 0 THEN p = Reached(now)
                           ELSE p * job.cadence + job.catchUpWindow >= now

DuePlans(now) ==
  {p \in Plans : FirstPlan(now) <= p /\ p <= Reached(now) /\ InWindow(p, now)}

PlansForTick(now) ==
  IF job.everyPlan
  THEN {p \in DuePlans(now) :
          Cardinality({q \in DuePlans(now) : q < p}) < job.maxPlansPerTick}
  ELSE {p \in Plans : p = Reached(now)}

Plan(r) ==
  LET todo == PlansForTick(runner[r].now)
  IN /\ At(r, "plan")
     /\ Goto(r, IF todo = {} THEN Resting
                ELSE [runner[r] EXCEPT !.pc = "claim", !.todo = todo])
     /\ UNCHANGED <<job, clock, exec>>

-----------------------------------------------------------------------------
(* tryClaim: INSERT, or else the UPDATE that retries or steals.            *)
NextPlans(r) == {p \in runner[r].todo : \A q \in runner[r].todo : p <= q}

StealableOnceMore(e, now) ==   \* mutant: attempt <= max_attempts
  /\ e.attempt <= job.maxAttempts
  /\ \/ RetryDue(e, now)
     \/ e.status = "RUNNING" /\ e.staleAfter < now /\ job.allowStaleReentry

Stealable(e, now) ==
  /\ e.attempt < job.maxAttempts
  /\ \/ RetryDue(e, now)
     \/ e.status = "RUNNING" /\ e.staleAfter < now /\ job.allowStaleReentry

(* The lease starts at the time the tick read; the first heartbeat is due  *)
(* an interval after the claim.                                            *)
Lease(r, p, n) ==
  LET ends == runner[r].now + job.staleTimeout
      beat == clock + job.heartbeatInterval
  IN /\ exec' = [exec EXCEPT ![p] = [status |-> "RUNNING", attempt |-> n,
                                     staleAfter |-> ends, retryAt |-> NoRetry,
                                     error |-> "none"]]
     /\ Goto(r, [runner[r] EXCEPT !.pc = "run", !.plan = p, !.attempt = n,
                                  !.due = IF beat <= ends THEN beat ELSE 0,
                                  !.onTime = (beat <= ends)])

TryInsert(r, p) ==
  /\ At(r, "claim") /\ p \in NextPlans(r)
  /\ exec[p].status = "none"
  /\ Lease(r, p, 1)
  /\ UNCHANGED <<job, clock>>

TryStealSameToken(r, p) ==     \* mutant: the attempt and its token stay
  /\ At(r, "claim") /\ p \in NextPlans(r)
  /\ Stealable(exec[p], runner[r].now)
  /\ Lease(r, p, exec[p].attempt)
  /\ UNCHANGED <<job, clock>>

TrySteal(r, p) ==
  /\ At(r, "claim") /\ p \in NextPlans(r)
  /\ Stealable(exec[p], runner[r].now)
  /\ Lease(r, p, exec[p].attempt + 1)
  /\ UNCHANGED <<job, clock>>

(* Conflicted, or a database error: the tick goes on with its next plan.   *)
SkipPlan(r, p) ==
  /\ At(r, "claim") /\ p \in NextPlans(r)
  /\ Goto(r, LET rest == runner[r].todo \ {p}
             IN IF rest = {} THEN Resting ELSE [runner[r] EXCEPT !.todo = rest])
  /\ UNCHANGED <<job, clock, exec>>

-----------------------------------------------------------------------------
(* runClaimed.                                                             *)

NextBeat(r) ==
  Goto(r, [runner[r] EXCEPT !.due =
             IF runner[r].onTime THEN clock + job.heartbeatInterval ELSE 0])

HeartbeatOnly(r) ==            \* mutant: renews heartbeat_at, not stale_after
  /\ At(r, "run") /\ HoldsLease(r)
  /\ NextBeat(r)
  /\ UNCHANGED <<job, clock, exec>>

Heartbeat(r) ==
  /\ At(r, "run") /\ HoldsLease(r)
  /\ exec' = [exec EXCEPT ![runner[r].plan].staleAfter = clock + job.staleTimeout]
  /\ NextBeat(r)
  /\ UNCHANGED <<job, clock>>

(* The replica is paused, or cannot reach the database for a while.        *)
MissHeartbeat(r) ==
  /\ At(r, "run") /\ runner[r].onTime
  /\ Goto(r, [runner[r] EXCEPT !.onTime = FALSE, !.due = 0])
  /\ UNCHANGED <<job, clock, exec>>

FinishSuccess(r) ==
  /\ At(r, "run")
  /\ exec' = IF HoldsLease(r)
             THEN [exec EXCEPT ![runner[r].plan].status = "SUCCESS",
                               ![runner[r].plan].error = "none"]
             ELSE exec
  /\ Continue(r)
  /\ UNCHANGED <<job, clock>>

(* The handler returned an error, timed out or panicked.                   *)
FinishFailure(r) ==
  LET n == runner[r].attempt
      retry == IF n < job.maxAttempts THEN clock + job.retryDelay[n] ELSE NoRetry
  IN /\ At(r, "run")
     /\ exec' = IF HoldsLease(r)
                THEN [exec EXCEPT ![runner[r].plan].status = "FAILED",
                                  ![runner[r].plan].error = "handler",
                                  ![runner[r].plan].retryAt = retry]
                ELSE exec
     /\ Continue(r)
     /\ UNCHANGED <<job, clock>>

(* The terminal update fails with a database error.                        *)
FinishLost(r) ==
  /\ At(r, "run")
  /\ Continue(r)
  /\ UNCHANGED <<job, clock, exec>>

(* The process dies and a new one takes its place, or an error ends the    *)
(* tick early.                                                             *)
Crash(r) ==
  /\ ~At(r, "idle")
  /\ Goto(r, Resting)
  /\ UNCHANGED <<job, clock, exec>>

(* Time passes, but not beyond a heartbeat that is on time.                *)
Advance ==
  /\ clock < Horizon
  /\ \A r \in Runners : At(r, "run") /\ runner[r].onTime /\ HoldsLease(r)
                          => clock < runner[r].due
  /\ clock' = clock + 1
  /\ UNCHANGED <<job, exec, runner>>

-----------------------------------------------------------------------------
CronInit ==
  /\ job \in JobSpecs
  /\ clock = job.cadence + job.scheduleDelay
  /\ exec = [p \in Plans |-> NoRow]
  /\ runner = [r \in Runners |-> Resting]

RunnerStep(r) ==
  \/ MarkStaleAsFailed(r)
  \/ MarkStaleFails(r)
  \/ Plan(r)
  \/ \E p \in Plans : TryInsert(r, p) \/ TrySteal(r, p) \/ SkipPlan(r, p)
  \/ FinishSuccess(r)
  \/ FinishFailure(r)
  \/ FinishLost(r)

CronNext ==
  \/ Advance
  \/ \E r \in Runners : \/ StartTick(r)
                        \/ RunnerStep(r)
                        \/ Heartbeat(r)
                        \/ MissHeartbeat(r)
                        \/ Crash(r)

CronSpec == CronInit /\ [][CronNext]_cronVars

(* The clock runs, tickers fire, a handler ends (RunTimeout at the latest),*)
(* and the sweep does not fail for ever.                                   *)
FairCronSpec ==
  /\ CronSpec
  /\ WF_cronVars(Advance)
  /\ \A r \in Runners : /\ WF_cronVars(StartTick(r)) /\ WF_cronVars(RunnerStep(r))
                        /\ SF_cronVars(MarkStaleAsFailed(r))

-----------------------------------------------------------------------------
(* Properties.                                                             *)

CronTypeOK ==
  /\ job \in JobSpecs
  /\ clock \in Nat
  /\ exec \in [Plans -> [status : {"none", "RUNNING", "SUCCESS", "FAILED"},
                         attempt : Nat, staleAfter : Nat, retryAt : Nat,
                         error : {"none", "handler", "stale_timeout"}]]
  /\ runner \in [Runners -> [pc : {"idle", "sweep", "plan", "claim", "run"},
                             now : Nat, todo : SUBSET Plans, plan : Plans \cup {0},
                             attempt : Nat, due : Nat, onTime : BOOLEAN]]
  /\ \A p \in Plans : exec[p].attempt <= job.maxAttempts
  /\ \A r \in Runners : At(r, "run") => runner[r].plan \in Plans

Running(p) == {r \in Runners : At(r, "run") /\ runner[r].plan = p}

(* A runner whose heartbeats are on time never loses its lease: no sweep   *)
(* and no other replica, however old the time its tick read, takes the     *)
(* plan away (spec.go:135-138).                                            *)
LeaseKept ==
  \A r \in Runners : At(r, "run") /\ runner[r].onTime => HoldsLease(r)

(* Two replicas that run a plan at once run different attempts of it, and  *)
(* only one of them can be on time: "calls Handler exactly once per        *)
(* claimed row" (spec.go:90-92).                                           *)
EachAttemptOnce ==
  \A p \in Plans : \A r, s \in Running(p) :
    r # s => /\ runner[r].attempt # runner[s].attempt
             /\ ~(runner[r].onTime /\ runner[s].onTime)

(* While the holder of the latest attempt still runs, nobody else writes   *)
(* an outcome: the row is RUNNING, or a sweep declared it stale            *)
(* (db_ops.go:215-216).                                                    *)
OwnOutcome ==
  \A p \in Plans : \A r \in Running(p) :
    runner[r].attempt = exec[p].attempt =>
      exec[p].status = "RUNNING" \/ exec[p].error = "stale_timeout"

(* No lease outlives its runner for ever: a RUNNING row whose stale_after  *)
(* comes to pass is finished, swept or renewed, although replicas crash    *)
(* (manager.go:144-165).                                                   *)
LeaseEnds ==
  \A p \in Plans :
    exec[p].status = "RUNNING" /\ exec[p].staleAfter < Horizon
      ~> exec[p].status # "RUNNING" \/ exec[p].staleAfter >= Horizon

(* spec.go:144-147 of AllowStaleReentry: "Set false for non-idempotent     *)
(* jobs; stale leases then transition to FAILED with                       *)
(* error_code='stale_timeout' and require manual repair."                  *)
StaleNeedsRepair ==
  [][\A p \in Plans : ~job.allowStaleReentry /\ exec[p].error = "stale_timeout"
       => exec'[p] = exec[p]]_cronVars

=============================================================================
