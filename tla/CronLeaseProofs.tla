--------------------------- MODULE CronLeaseProofs ---------------------------
(***************************************************************************)
(* The lease of CronLease is sound for every job a JobSpec may describe,   *)
(* any number of replicas and plans: a runner whose heartbeats are on time *)
(* keeps its lease, no attempt is run twice, and nobody but its holder     *)
(* writes the outcome of the latest attempt.                               *)
(*                                                                         *)
(* The properties are not inductive.  What carries them is how the times   *)
(* are ordered: a tick's time is never ahead of the clock, the clock never *)
(* ahead of the next heartbeat of a runner on time, and that heartbeat     *)
(* never later than stale_after; so no comparison stale_after < now can    *)
(* succeed against such a runner.                                          *)
(***************************************************************************)
EXTENDS CronLease, TLAPS

ExecRow == [status : {"none", "RUNNING", "SUCCESS", "FAILED"},
            attempt : Nat, staleAfter : Nat, retryAt : Nat,
            error : {"none", "handler", "stale_timeout"}]

RunnerState == [pc : {"idle", "sweep", "plan", "claim", "run"},
                now : Nat, todo : SUBSET Plans, plan : Plans \cup {0},
                attempt : Nat, due : Nat, onTime : BOOLEAN]

(* Times are in order.                                                     *)
TimesInOrder ==
  \A r \in Runners :
    /\ runner[r].now <= clock
    /\ At(r, "run") /\ runner[r].onTime =>
         /\ HoldsLease(r)
         /\ clock <= runner[r].due
         /\ runner[r].due <= exec[runner[r].plan].staleAfter

(* Attempts are counted by the row.                                        *)
AttemptsCounted ==
  /\ \A p \in Plans : exec[p].status = "none" => exec[p].attempt = 0
  /\ \A r \in Runners : At(r, "run") =>
       /\ 1 <= runner[r].attempt
       /\ runner[r].attempt <= exec[runner[r].plan].attempt

AttemptsDiffer ==
  \A r, s \in Runners :
    At(r, "run") /\ At(s, "run") /\ r # s /\ runner[r].plan = runner[s].plan
      => runner[r].attempt # runner[s].attempt

OutcomeOwned ==
  \A r \in Runners :
    At(r, "run") /\ runner[r].attempt = exec[runner[r].plan].attempt =>
      \/ exec[runner[r].plan].status = "RUNNING"
      \/ exec[runner[r].plan].error = "stale_timeout"

CronInv == CronTypeOK /\ TimesInOrder /\ AttemptsCounted /\ AttemptsDiffer /\ OutcomeOwned

-----------------------------------------------------------------------------
(* What JobSpec.validate gives about the registered job.                   *)
LEMMA JobFacts ==
  ASSUME CronTypeOK
  PROVE  /\ job.cadence \in Nat \ {0} /\ job.maxAttempts \in Nat \ {0}
         /\ job.staleTimeout \in Nat /\ job.heartbeatInterval \in Nat \ {0}
         /\ job.heartbeatInterval < job.staleTimeout
         /\ job.retryDelay \in [1 .. job.maxAttempts -> Nat]
  BY CronAssumption DEF CronTypeOK

(* A step after which r runs nothing, and which changes no row that another *)
(* runner holds, preserves the invariant.                                  *)
LEMMA LeavingIsSafe ==
  ASSUME CronInv, NEW r \in Runners, NEW rec \in RunnerState,
         rec.pc # "run", rec.now <= clock,
         runner' = [runner EXCEPT ![r] = rec],
         UNCHANGED <<job, clock>>,
         exec' \in [Plans -> ExecRow],
         \A p \in Plans : /\ exec'[p].attempt = exec[p].attempt
                          /\ exec'[p].status = "none" => exec[p].status = "none",
         \A s \in Runners \ {r} :
           At(s, "run") /\ runner[s].attempt = exec[runner[s].plan].attempt
             => exec'[runner[s].plan] = exec[runner[s].plan]
  PROVE  CronInv'
<1> USE DEF At, CronInv
<1>1. CronTypeOK'
  BY DEF CronTypeOK, ExecRow, RunnerState
<1>2. \A s \in Runners : s # r => runner'[s] = runner[s]
  BY DEF CronTypeOK
<1>3. runner'[r] = rec
  BY DEF CronTypeOK
<1>4. \A s \in Runners : runner'[s].pc = "run" =>
        s # r /\ runner[s].pc = "run" /\ runner'[s] = runner[s] /\ runner[s].plan \in Plans
  BY <1>2, <1>3 DEF CronTypeOK
<1>5. TimesInOrder'
  BY <1>2, <1>3, <1>4 DEF TimesInOrder, HoldsLease
<1>6. AttemptsCounted'
  BY <1>4 DEF AttemptsCounted
<1>7. AttemptsDiffer'
  BY <1>4 DEF AttemptsDiffer
<1>8. OutcomeOwned'
  BY <1>4 DEF OutcomeOwned
<1> QED BY <1>1, <1>5, <1>6, <1>7, <1>8

(* A new lease on p preserves it, if no runner on time holds the old one.  *)
LEMMA LeaseIsSafe ==
  ASSUME CronInv, NEW r \in Runners, NEW p \in Plans, At(r, "claim"),
         Lease(r, p, exec[p].attempt + 1),
         UNCHANGED <<job, clock>>,
         exec[p].attempt < job.maxAttempts,
         \A s \in Runners : At(s, "run") /\ runner[s].plan = p => ~runner[s].onTime
  PROVE  CronInv'
<1> USE DEF At, CronInv
<1> DEFINE n == exec[p].attempt + 1
           ends == runner[r].now + job.staleTimeout
           beat == clock + job.heartbeatInterval
<1>0. /\ exec[p].attempt \in Nat /\ runner[r].now \in Nat /\ clock \in Nat
  BY DEF CronTypeOK
<1>a. /\ job.maxAttempts \in Nat /\ job.staleTimeout \in Nat
      /\ job.heartbeatInterval \in Nat
  BY JobFacts
<1>1. /\ n \in Nat /\ n <= job.maxAttempts /\ 1 <= n
      /\ ends \in Nat /\ beat \in Nat /\ clock <= beat
  BY <1>0, <1>a
<1>2. exec' = [exec EXCEPT ![p] = [status |-> "RUNNING", attempt |-> n,
                                   staleAfter |-> ends, retryAt |-> 0, error |-> "none"]]
  BY DEF Lease, NoRetry
<1>3. runner' = [runner EXCEPT ![r] = [runner[r] EXCEPT !.pc = "run", !.plan = p,
                    !.attempt = n, !.due = IF beat <= ends THEN beat ELSE 0,
                    !.onTime = (beat <= ends)]]
  BY DEF Lease, Goto
<1>4. /\ exec'[p].status = "RUNNING" /\ exec'[p].attempt = n
      /\ exec'[p].staleAfter = ends
      /\ \A q \in Plans : q # p => exec'[q] = exec[q]
  BY <1>2 DEF CronTypeOK
<1>5. /\ runner'[r].pc = "run" /\ runner'[r].plan = p /\ runner'[r].attempt = n
      /\ runner'[r].now = runner[r].now
      /\ runner'[r].onTime => beat <= ends /\ runner'[r].due = beat
      /\ \A s \in Runners : s # r => runner'[s] = runner[s]
  BY <1>3 DEF CronTypeOK
<1>6. CronTypeOK'
  <2>1. exec' \in [Plans -> ExecRow]
    BY <1>1, <1>2 DEF CronTypeOK, ExecRow
  <2>2. runner' \in [Runners -> RunnerState]
    <3>1. (IF beat <= ends THEN beat ELSE 0) \in Nat /\ (beat <= ends) \in BOOLEAN
      BY <1>1
    <3>2. [runner[r] EXCEPT !.pc = "run", !.plan = p, !.attempt = n,
              !.due = IF beat <= ends THEN beat ELSE 0, !.onTime = (beat <= ends)]
            \in RunnerState
      BY <1>1, <3>1 DEF CronTypeOK, RunnerState
    <3> QED BY <1>3, <3>2 DEF CronTypeOK, RunnerState
  <2>3. \A q \in Plans : exec'[q].attempt <= job.maxAttempts
    BY <1>1, <1>4 DEF CronTypeOK
  <2>4. \A s \in Runners : runner'[s].pc = "run" => runner'[s].plan \in Plans
    BY <1>5 DEF CronTypeOK
  <2> QED BY <2>1, <2>2, <2>3, <2>4 DEF CronTypeOK, ExecRow, RunnerState
<1>7. \A s \in Runners : s # r /\ runner'[s].pc = "run" =>
        /\ runner'[s] = runner[s] /\ runner[s].pc = "run" /\ runner[s].plan \in Plans
        /\ runner[s].plan = p => runner[s].attempt < n /\ ~runner[s].onTime
  BY <1>1, <1>5 DEF CronTypeOK, AttemptsCounted
<1>8. TimesInOrder'
  BY <1>1, <1>4, <1>5, <1>7 DEF TimesInOrder, HoldsLease
<1>9. AttemptsCounted'
  BY <1>1, <1>4, <1>5, <1>7 DEF AttemptsCounted, CronTypeOK
<1>10. AttemptsDiffer'
  BY <1>1, <1>5, <1>7 DEF AttemptsDiffer, CronTypeOK
<1>11. OutcomeOwned'
  BY <1>1, <1>4, <1>5, <1>7 DEF OutcomeOwned, CronTypeOK
<1> QED BY <1>6, <1>8, <1>9, <1>10, <1>11

-----------------------------------------------------------------------------
LEMMA CronInvInit == CronInit => CronInv
<1> SUFFICES ASSUME CronInit PROVE CronInv
  OBVIOUS
<1>1. job.cadence + job.scheduleDelay \in Nat /\ job.maxAttempts \in Nat
  BY CronAssumption DEF CronInit
<1>2. CronTypeOK
  BY <1>1 DEF CronInit, CronTypeOK, NoRow, NoRetry, Resting, At
<1>3. TimesInOrder
  BY <1>1 DEF CronInit, TimesInOrder, Resting, At
<1>4. AttemptsCounted /\ AttemptsDiffer /\ OutcomeOwned
  BY DEF CronInit, AttemptsCounted, AttemptsDiffer, OutcomeOwned, NoRow, Resting, At
<1> QED BY <1>2, <1>3, <1>4 DEF CronInv

(* The plans of a tick are plans.                                          *)
LEMMA TickPlans == \A now : PlansForTick(now) \subseteq Plans
  BY DEF PlansForTick, DuePlans

(* A step that changes no row and after which r runs nothing.              *)
LEMMA MovingIsSafe ==
  ASSUME CronInv, NEW r \in Runners, NEW rec \in RunnerState,
         rec.pc # "run", rec.now <= clock,
         runner' = [runner EXCEPT ![r] = rec],
         UNCHANGED <<job, clock, exec>>
  PROVE  CronInv'
<1>1. exec' \in [Plans -> ExecRow]
  BY DEF CronInv, CronTypeOK, ExecRow
<1>2. /\ UNCHANGED <<job, clock>>
      /\ \A p \in Plans : /\ exec'[p].attempt = exec[p].attempt
                          /\ exec'[p].status = "none" => exec[p].status = "none"
      /\ \A s \in Runners \ {r} :
           At(s, "run") /\ runner[s].attempt = exec[runner[s].plan].attempt
             => exec'[runner[s].plan] = exec[runner[s].plan]
  OBVIOUS
<1> QED BY <1>1, <1>2, LeavingIsSafe

LEMMA CronInvStep == CronInv /\ [CronNext]_cronVars => CronInv'
<1> SUFFICES ASSUME CronInv, [CronNext]_cronVars PROVE CronInv'
  OBVIOUS
<1>t. /\ CronTypeOK
      /\ runner \in [Runners -> RunnerState] /\ exec \in [Plans -> ExecRow]
      /\ clock \in Nat
  BY DEF CronInv, CronTypeOK, RunnerState, ExecRow
<1>n. \A r \in Runners : runner[r].now \in Nat /\ runner[r].now <= clock
  BY <1>t DEF CronInv, TimesInOrder, RunnerState
<1>r. Resting \in RunnerState /\ Resting.pc # "run" /\ Resting.now <= clock
  BY <1>t DEF Resting, RunnerState
<1>c. ASSUME NEW r \in Runners, Continue(r)
      PROVE  \E rec \in RunnerState : /\ rec.pc # "run" /\ rec.now <= clock
                                      /\ runner' = [runner EXCEPT ![r] = rec]
  <2> DEFINE rest == runner[r].todo \ {runner[r].plan}
             more == [Resting EXCEPT !.pc = "claim", !.now = runner[r].now, !.todo = rest]
  <2>1. rest \in SUBSET Plans
    BY <1>t DEF RunnerState
  <2>2. more \in RunnerState /\ more.pc # "run" /\ more.now <= clock
    BY <2>1, <1>n, <1>r DEF RunnerState, Resting
  <2>3. \/ runner' = [runner EXCEPT ![r] = Resting]
        \/ runner' = [runner EXCEPT ![r] = more]
    BY <1>c DEF Continue, Goto
  <2> QED BY <1>r, <2>2, <2>3
<1>1. ASSUME Advance PROVE CronInv'
  <2>1. \A r \in Runners : At(r, "run") /\ runner[r].onTime => clock < runner[r].due
    BY <1>1 DEF Advance, CronInv, TimesInOrder
  <2>2. CronTypeOK'
    BY <1>1, <1>t DEF Advance, CronTypeOK, At
  <2>3. \A r \in Runners : runner[r].due \in Nat
    BY <1>t DEF RunnerState
  <2>4. TimesInOrder'
    BY <1>1, <1>t, <1>n, <2>1, <2>3 DEF Advance, CronInv, TimesInOrder, At, HoldsLease
  <2>5. AttemptsCounted' /\ AttemptsDiffer' /\ OutcomeOwned'
    BY <1>1 DEF Advance, CronInv, AttemptsCounted, AttemptsDiffer, OutcomeOwned, At
  <2> QED BY <2>2, <2>4, <2>5 DEF CronInv
<1>2. ASSUME NEW r \in Runners, StartTick(r) PROVE CronInv'
  <2> DEFINE rec == [Resting EXCEPT !.pc = "sweep", !.now = clock]
  <2>1. rec \in RunnerState /\ rec.pc # "run" /\ rec.now <= clock
    <3>1. clock \in Nat /\ clock <= clock
      BY <1>t
    <3>2. /\ rec \in RunnerState /\ rec.pc = "sweep" /\ rec.now = clock
      BY <1>t, <1>r DEF RunnerState
    <3> QED BY <3>1, <3>2
  <2>2. runner' = [runner EXCEPT ![r] = rec] /\ UNCHANGED <<job, clock, exec>>
    BY <1>2 DEF StartTick, Goto
  <2> HIDE DEF rec
  <2> QED BY <2>1, <2>2, MovingIsSafe
<1>3. ASSUME NEW r \in Runners, MarkStaleAsFailed(r) PROVE CronInv'
  <2> USE DEF At
  <2>1. /\ runner[r].pc = "sweep" /\ UNCHANGED <<job, clock>>
        /\ runner' = [runner EXCEPT ![r] = [runner[r] EXCEPT !.pc = "plan"]]
    BY <1>3 DEF MarkStaleAsFailed, Goto
  <2>2. \A p \in Plans :
          /\ exec'[p].attempt = exec[p].attempt
          /\ exec'[p].status = "none" => exec[p].status = "none"
          /\ exec'[p] = exec[p] \/ exec'[p].error = "stale_timeout"
          /\ exec[p].status = "RUNNING" /\ ~(exec[p].staleAfter < runner[r].now)
               => exec'[p] = exec[p]
    BY <1>3, <1>t DEF MarkStaleAsFailed, ExecRow
  <2>3. exec' \in [Plans -> ExecRow]
    BY <1>3, <1>t DEF MarkStaleAsFailed, ExecRow
  <2>4. \A s \in Runners : /\ runner'[s].pc = "run" => s # r
                           /\ s # r => runner'[s] = runner[s]
                           /\ runner'[s].now = runner[s].now
    BY <2>1, <1>t DEF RunnerState
  <2>5. runner' \in [Runners -> RunnerState]
    BY <2>1, <1>t DEF RunnerState
  <2>6. \A s \in Runners : runner'[s].pc = "run" =>
          runner[s].pc = "run" /\ runner'[s] = runner[s] /\ runner[s].plan \in Plans
    BY <2>4, <1>t DEF CronTypeOK
  <2>7. \A s \in Runners : runner[s].pc = "run" /\ runner[s].onTime =>
          exec'[runner[s].plan] = exec[runner[s].plan]
    <3> SUFFICES ASSUME NEW s \in Runners, runner[s].pc = "run", runner[s].onTime
                 PROVE  exec'[runner[s].plan] = exec[runner[s].plan]
      OBVIOUS
    <3>1. /\ runner[s].plan \in Plans /\ runner[s].due \in Nat
          /\ exec[runner[s].plan].staleAfter \in Nat
      BY <1>t DEF CronTypeOK, RunnerState, ExecRow
    <3>2. /\ exec[runner[s].plan].status = "RUNNING" /\ clock <= runner[s].due
          /\ runner[s].due <= exec[runner[s].plan].staleAfter
      BY DEF CronInv, TimesInOrder, HoldsLease
    <3>3. ~(exec[runner[s].plan].staleAfter < runner[r].now)
      BY <3>1, <3>2, <1>n, <1>t
    <3> QED BY <3>1, <3>2, <3>3, <2>2
  <2>8. CronTypeOK'
    BY <1>t, <2>1, <2>2, <2>3, <2>5, <2>6 DEF CronTypeOK, ExecRow, RunnerState
  <2>9. TimesInOrder'
    BY <2>1, <2>4, <2>6, <2>7, <1>n DEF CronInv, TimesInOrder, HoldsLease
  <2>10. AttemptsCounted' /\ AttemptsDiffer' /\ OutcomeOwned'
    BY <2>2, <2>6 DEF CronInv, AttemptsCounted, AttemptsDiffer, OutcomeOwned
  <2> QED BY <2>8, <2>9, <2>10 DEF CronInv
<1>4. ASSUME NEW r \in Runners, MarkStaleFails(r) PROVE CronInv'
  <2> DEFINE rec == [runner[r] EXCEPT !.pc = "plan"]
  <2>1. rec \in RunnerState /\ rec.pc # "run" /\ rec.now <= clock
    BY <1>t, <1>n DEF RunnerState
  <2>2. runner' = [runner EXCEPT ![r] = rec] /\ UNCHANGED <<job, clock, exec>>
    BY <1>4 DEF MarkStaleFails, Goto
  <2> HIDE DEF rec
  <2> QED BY <2>1, <2>2, MovingIsSafe
<1>5. ASSUME NEW r \in Runners, Plan(r) PROVE CronInv'
  <2> DEFINE todo == PlansForTick(runner[r].now)
             busy == [runner[r] EXCEPT !.pc = "claim", !.todo = todo]
             rec  == IF todo = {} THEN Resting ELSE busy
  <2>1. todo \subseteq Plans
    BY TickPlans
  <2>2. busy \in RunnerState /\ busy.pc # "run" /\ busy.now <= clock
    <3> HIDE DEF todo
    <3> QED BY <2>1, <1>t, <1>n DEF RunnerState
  <2>3. rec \in RunnerState /\ rec.pc # "run" /\ rec.now <= clock
    BY <2>2, <1>r
  <2>4. runner' = [runner EXCEPT ![r] = rec] /\ UNCHANGED <<job, clock, exec>>
    BY <1>5 DEF Plan, Goto
  <2> HIDE DEF rec
  <2> QED BY <2>3, <2>4, MovingIsSafe
<1>6. ASSUME NEW r \in Runners, NEW p \in Plans, TryInsert(r, p) PROVE CronInv'
  <2>1. exec[p].attempt = 0
    BY <1>6 DEF TryInsert, CronInv, AttemptsCounted
  <2>2. \A s \in Runners : At(s, "run") => runner[s].plan # p
    BY <2>1, <1>t DEF CronInv, AttemptsCounted, RunnerState
  <2>3. At(r, "claim") /\ Lease(r, p, exec[p].attempt + 1) /\ UNCHANGED <<job, clock>>
    BY <1>6, <2>1 DEF TryInsert
  <2>4. exec[p].attempt < job.maxAttempts
    BY <2>1, <1>t, JobFacts
  <2> QED BY <2>2, <2>3, <2>4, LeaseIsSafe
<1>7. ASSUME NEW r \in Runners, NEW p \in Plans, TrySteal(r, p) PROVE CronInv'
  <2>1. /\ At(r, "claim") /\ Lease(r, p, exec[p].attempt + 1) /\ UNCHANGED <<job, clock>>
        /\ exec[p].attempt < job.maxAttempts
        /\ exec[p].status # "RUNNING" \/ exec[p].staleAfter < runner[r].now
    BY <1>7 DEF TrySteal, Stealable, RetryDue
  <2>2. ASSUME NEW s \in Runners, At(s, "run"), runner[s].plan = p, runner[s].onTime
        PROVE  FALSE
    <3>1. /\ exec[p].status = "RUNNING" /\ clock <= runner[s].due
          /\ runner[s].due <= exec[p].staleAfter
      BY <2>2 DEF CronInv, TimesInOrder, HoldsLease
    <3>2. runner[s].due \in Nat /\ exec[p].staleAfter \in Nat
      BY <1>t DEF RunnerState, ExecRow
    <3> QED BY <2>1, <3>1, <3>2, <1>n, <1>t
  <2> QED BY <2>1, <2>2, LeaseIsSafe
<1>8. ASSUME NEW r \in Runners, NEW p \in Plans, SkipPlan(r, p) PROVE CronInv'
  <2> DEFINE rest == runner[r].todo \ {p}
             rec  == IF rest = {} THEN Resting ELSE [runner[r] EXCEPT !.todo = rest]
  <2>1. rest \in SUBSET Plans /\ runner[r].pc # "run"
    BY <1>8, <1>t DEF SkipPlan, At, RunnerState
  <2>2. rec \in RunnerState /\ rec.pc # "run" /\ rec.now <= clock
    BY <2>1, <1>t, <1>n, <1>r DEF RunnerState
  <2>3. runner' = [runner EXCEPT ![r] = rec] /\ UNCHANGED <<job, clock, exec>>
    BY <1>8 DEF SkipPlan, Goto
  <2> HIDE DEF rec
  <2> QED BY <2>2, <2>3, MovingIsSafe
<1>9. ASSUME NEW r \in Runners, Heartbeat(r) PROVE CronInv'
  <2> USE DEF At
  <2> DEFINE q == runner[r].plan
             due == IF runner[r].onTime THEN clock + job.heartbeatInterval ELSE 0
  <2>1. /\ runner[r].pc = "run" /\ HoldsLease(r) /\ UNCHANGED <<job, clock>>
        /\ exec' = [exec EXCEPT ![q].staleAfter = clock + job.staleTimeout]
        /\ runner' = [runner EXCEPT ![r] = [runner[r] EXCEPT !.due = due]]
    BY <1>9 DEF Heartbeat, NextBeat, Goto
  <2>2. /\ clock + job.staleTimeout \in Nat /\ due \in Nat
        /\ clock <= clock + job.heartbeatInterval
        /\ clock + job.heartbeatInterval <= clock + job.staleTimeout
        /\ runner[r].onTime => due = clock + job.heartbeatInterval
    BY <1>t, JobFacts
  <2>3. q \in Plans
    BY <2>1, <1>t DEF CronTypeOK
  <2>4. CronTypeOK'
    <3>1. [runner[r] EXCEPT !.due = due] \in RunnerState
      BY <2>2, <1>t DEF RunnerState
    <3>2. runner' \in [Runners -> RunnerState]
      BY <2>1, <3>1, <1>t
    <3>3. exec' \in [Plans -> ExecRow]
      BY <2>1, <2>2, <1>t DEF ExecRow
    <3>4. \A p \in Plans : exec'[p].attempt = exec[p].attempt
      BY <2>1, <1>t DEF ExecRow
    <3>5. \A s \in Runners : runner'[s].pc = runner[s].pc /\ runner'[s].plan = runner[s].plan
      BY <2>1, <1>t DEF RunnerState
    <3> QED BY <2>1, <3>2, <3>3, <3>4, <3>5, <1>t DEF CronTypeOK, RunnerState, ExecRow
  <2>5. \A p \in Plans : /\ exec'[p].attempt = exec[p].attempt
                         /\ exec'[p].status = exec[p].status
                         /\ exec'[p].error = exec[p].error
                         /\ p # q => exec'[p] = exec[p]
    BY <2>1, <1>t DEF ExecRow
  <2>6. \A s \in Runners : /\ runner'[s].pc = runner[s].pc /\ runner'[s].plan = runner[s].plan
                           /\ runner'[s].attempt = runner[s].attempt
                           /\ runner'[s].now = runner[s].now
                           /\ runner'[s].onTime = runner[s].onTime
                           /\ s # r => runner'[s].due = runner[s].due
    BY <2>1, <1>t DEF RunnerState
  <2>7. \A s \in Runners : runner[s].pc = "run" => runner[s].plan \in Plans
    BY <1>t DEF CronTypeOK
  <2>8. TimesInOrder'
    <3> SUFFICES ASSUME NEW s \in Runners, runner[s].pc = "run", runner[s].onTime
                 PROVE  /\ HoldsLease(s)'
                        /\ clock <= runner'[s].due
                        /\ runner'[s].due <= exec'[runner[s].plan].staleAfter
      BY <2>1, <2>6, <1>n DEF TimesInOrder
    <3>1. /\ HoldsLease(s) /\ clock <= runner[s].due
          /\ runner[s].due <= exec[runner[s].plan].staleAfter
      BY DEF CronInv, TimesInOrder
    <3>2. HoldsLease(s)'
      BY <3>1, <2>5, <2>6, <2>7 DEF HoldsLease
    <3>3. CASE s # r
      <4>1. runner[s].plan # q
        BY <3>1, <3>3, <2>1 DEF HoldsLease, CronInv, AttemptsDiffer
      <4> QED BY <3>1, <3>2, <4>1, <2>5, <2>6, <2>7, <3>3
    <3>4. CASE s = r
      <4>1. runner'[r].due = clock + job.heartbeatInterval
        BY <3>4, <2>1, <2>2, <1>t DEF RunnerState
      <4>2. exec'[q].staleAfter = clock + job.staleTimeout
        BY <2>1, <2>3, <1>t DEF ExecRow
      <4> QED BY <3>2, <3>4, <4>1, <4>2, <2>2
    <3> QED BY <3>3, <3>4
  <2>9. AttemptsCounted' /\ AttemptsDiffer' /\ OutcomeOwned'
    BY <2>5, <2>6, <2>7 DEF CronInv, AttemptsCounted, AttemptsDiffer, OutcomeOwned
  <2> QED BY <2>4, <2>8, <2>9 DEF CronInv
<1>10. ASSUME NEW r \in Runners, MissHeartbeat(r) PROVE CronInv'
  <2> USE DEF At
  <2>1. /\ UNCHANGED <<job, clock, exec>>
        /\ runner' = [runner EXCEPT ![r] = [runner[r] EXCEPT !.onTime = FALSE, !.due = 0]]
    BY <1>10 DEF MissHeartbeat, Goto
  <2>2. \A s \in Runners : /\ runner'[s].pc = runner[s].pc /\ runner'[s].plan = runner[s].plan
                           /\ runner'[s].attempt = runner[s].attempt
                           /\ runner'[s].now = runner[s].now
                           /\ runner'[s].onTime => runner'[s] = runner[s]
    BY <2>1, <1>t DEF RunnerState
  <2>3. CronTypeOK'
    <3>1. runner' \in [Runners -> RunnerState]
      BY <2>1, <1>t DEF RunnerState
    <3> QED BY <2>1, <2>2, <3>1, <1>t DEF CronTypeOK, RunnerState
  <2>4. TimesInOrder'
    BY <2>1, <2>2 DEF CronInv, TimesInOrder, HoldsLease
  <2>5. AttemptsCounted' /\ AttemptsDiffer' /\ OutcomeOwned'
    BY <2>1, <2>2 DEF CronInv, AttemptsCounted, AttemptsDiffer, OutcomeOwned
  <2> QED BY <2>3, <2>4, <2>5 DEF CronInv
<1>f. ASSUME NEW r \in Runners, At(r, "run"), NEW e \in ExecRow, Continue(r),
             UNCHANGED <<job, clock>>,
             HoldsLease(r) => e.attempt = runner[r].attempt /\ e.status # "none",
             exec' = IF HoldsLease(r) THEN [exec EXCEPT ![runner[r].plan] = e] ELSE exec
      PROVE  CronInv'
  <2> USE DEF At
  <2>1. PICK rec \in RunnerState : /\ rec.pc # "run" /\ rec.now <= clock
                                   /\ runner' = [runner EXCEPT ![r] = rec]
    BY <1>f, <1>c
  <2>2. runner[r].plan \in Plans
    BY <1>f, <1>t DEF CronTypeOK
  <2>3. exec' \in [Plans -> ExecRow]
    BY <1>f, <1>t
  <2>4. \A p \in Plans : /\ exec'[p].attempt = exec[p].attempt
                         /\ exec'[p].status = "none" => exec[p].status = "none"
    BY <1>f, <1>t, <2>2 DEF HoldsLease
  <2>5. ASSUME NEW s \in Runners \ {r}, runner[s].pc = "run",
               runner[s].attempt = exec[runner[s].plan].attempt
        PROVE  exec'[runner[s].plan] = exec[runner[s].plan]
    <3>1. ~(HoldsLease(r) /\ runner[s].plan = runner[r].plan)
      BY <1>f, <2>5 DEF HoldsLease, CronInv, AttemptsDiffer
    <3>2. runner[s].plan \in Plans
      BY <2>5, <1>t DEF CronTypeOK
    <3> QED BY <3>1, <3>2, <1>f, <1>t
  <2> QED BY <1>f, <2>1, <2>3, <2>4, <2>5, LeavingIsSafe
<1>11. ASSUME NEW r \in Runners, FinishSuccess(r) PROVE CronInv'
  <2> DEFINE q == runner[r].plan
             e == [exec[q] EXCEPT !.status = "SUCCESS", !.error = "none"]
  <2>1. q \in Plans
    BY <1>11, <1>t DEF FinishSuccess, CronTypeOK
  <2>2. e \in ExecRow /\ e.attempt = exec[q].attempt /\ e.status # "none"
    BY <2>1, <1>t DEF ExecRow
  <2>3. /\ At(r, "run") /\ Continue(r) /\ UNCHANGED <<job, clock>>
        /\ exec' = IF HoldsLease(r) THEN [exec EXCEPT ![q] = e] ELSE exec
    BY <1>11 DEF FinishSuccess
  <2>4. HoldsLease(r) => e.attempt = runner[r].attempt /\ e.status # "none"
    BY <2>2 DEF HoldsLease
  <2> HIDE DEF e
  <2> QED BY <2>2, <2>3, <2>4, <1>f
<1>12. ASSUME NEW r \in Runners, FinishFailure(r) PROVE CronInv'
  <2> DEFINE q == runner[r].plan
             n == runner[r].attempt
             retry == IF n < job.maxAttempts THEN clock + job.retryDelay[n] ELSE NoRetry
             e == [exec[q] EXCEPT !.status = "FAILED", !.error = "handler", !.retryAt = retry]
  <2>1. q \in Plans /\ n \in Nat /\ 1 <= n
    BY <1>12, <1>t DEF FinishFailure, CronTypeOK, RunnerState, CronInv, AttemptsCounted
  <2>2. retry \in Nat
    <3>1. job.maxAttempts \in Nat /\ job.retryDelay \in [1 .. job.maxAttempts -> Nat]
      BY <1>t, JobFacts
    <3>2. n < job.maxAttempts => job.retryDelay[n] \in Nat
      BY <2>1, <3>1
    <3> QED BY <3>2, <1>t DEF NoRetry
  <2>3. e \in ExecRow /\ e.attempt = exec[q].attempt /\ e.status # "none"
    <3> HIDE DEF retry
    <3> QED BY <2>1, <2>2, <1>t DEF ExecRow
  <2>4. /\ At(r, "run") /\ Continue(r) /\ UNCHANGED <<job, clock>>
        /\ exec' = IF HoldsLease(r) THEN [exec EXCEPT ![q] = e] ELSE exec
    BY <1>12 DEF FinishFailure
  <2>5. HoldsLease(r) => e.attempt = runner[r].attempt /\ e.status # "none"
    BY <2>3 DEF HoldsLease
  <2> HIDE DEF e
  <2> QED BY <2>3, <2>4, <2>5, <1>f
<1>13. ASSUME NEW r \in Runners, FinishLost(r) PROVE CronInv'
  <2>1. PICK rec \in RunnerState : /\ rec.pc # "run" /\ rec.now <= clock
                                   /\ runner' = [runner EXCEPT ![r] = rec]
    BY <1>13, <1>c DEF FinishLost
  <2>2. UNCHANGED <<job, clock, exec>>
    BY <1>13 DEF FinishLost
  <2> QED BY <2>1, <2>2, MovingIsSafe
<1>14. ASSUME NEW r \in Runners, Crash(r) PROVE CronInv'
  <2>1. runner' = [runner EXCEPT ![r] = Resting] /\ UNCHANGED <<job, clock, exec>>
    BY <1>14 DEF Crash, Goto
  <2> QED BY <1>r, <2>1, MovingIsSafe
<1>15. CASE UNCHANGED cronVars
  BY <1>15 DEF cronVars, CronInv, CronTypeOK, TimesInOrder, AttemptsCounted, AttemptsDiffer,
               OutcomeOwned, HoldsLease, At
<1> QED
  BY <1>1, <1>2, <1>3, <1>4, <1>5, <1>6, <1>7, <1>8, <1>9, <1>10, <1>11, <1>12, <1>13,
     <1>14, <1>15 DEF CronNext, RunnerStep

-----------------------------------------------------------------------------
(* The invariant holds in every reachable state.                           *)
LEMMA CronInvariant == CronSpec => []CronInv
<1>1. CronInit => CronInv
  BY CronInvInit
<1>2. CronInv /\ [CronNext]_cronVars => CronInv'
  BY CronInvStep
<1> QED BY <1>1, <1>2, PTL DEF CronSpec

(* A runner whose heartbeats are on time never loses its lease.            *)
THEOREM LeaseNeverLost == CronSpec => []LeaseKept
<1>1. CronInv => LeaseKept
  BY DEF CronInv, TimesInOrder, LeaseKept
<1> QED BY <1>1, CronInvariant, PTL

(* Two replicas never run the same attempt of a plan, nor both on time.    *)
THEOREM AttemptsRunOnce == CronSpec => []EachAttemptOnce
<1>1. CronInv => EachAttemptOnce
  BY DEF CronInv, TimesInOrder, AttemptsDiffer, EachAttemptOnce, Running, At, HoldsLease
<1> QED BY <1>1, CronInvariant, PTL

(* The outcome of the latest attempt is written by its holder, or the      *)
(* lease is declared stale.                                                *)
THEOREM OutcomesOwned == CronSpec => []OwnOutcome
<1>1. CronInv => OwnOutcome
  BY DEF CronInv, OutcomeOwned, OwnOutcome, Running
<1> QED BY <1>1, CronInvariant, PTL

(* Rows, replicas and the registered job keep their types; the job is one  *)
(* JobSpec.validate accepts.                                               *)
THEOREM CronTypeCorrect == CronSpec => []CronTypeOK
<1>1. CronInv => CronTypeOK
  BY DEF CronInv
<1> QED BY <1>1, CronInvariant, PTL

=============================================================================
