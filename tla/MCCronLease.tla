----------------------------- MODULE MCCronLease -----------------------------
(* Small instances of CronLease for TLC.                                   *)
EXTENDS CronLease, TLC

(* As TaskUsageHourlyJob: latest_only, reentrant, with backoff.            *)
LatestOnly ==
  [cadence |-> 2, scheduleDelay |-> 1, everyPlan |-> FALSE, catchUpWindow |-> 6, maxPlansPerTick |-> 1,
   staleTimeout |-> 2, heartbeatInterval |-> 1, allowStaleReentry |-> TRUE,
   maxAttempts |-> 2, retryDelay |-> <<1, 1>>]

(* As the test jobs: every_plan, two plans per tick, retries at once.      *)
EveryPlan ==
  [cadence |-> 2, scheduleDelay |-> 0, everyPlan |-> TRUE, catchUpWindow |-> 4, maxPlansPerTick |-> 2,
   staleTimeout |-> 2, heartbeatInterval |-> 1, allowStaleReentry |-> TRUE,
   maxAttempts |-> 2, retryDelay |-> <<0, 0>>]

NonReentrant == [LatestOnly EXCEPT !.allowStaleReentry = FALSE]

BothJobs == {LatestOnly, EveryPlan}
OneNonReentrant == {NonReentrant}

=============================================================================
