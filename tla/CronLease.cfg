\* Two replicas, a latest_only and an every_plan job.
SPECIFICATION FairCronSpec
CONSTANTS
  Runners = {a, b}
  MaxPlan = 2
  Horizon = 6
  JobSpecs <- BothJobs
INVARIANTS CronTypeOK LeaseKept EachAttemptOnce OwnOutcome
PROPERTY LeaseEnds
CHECK_DEADLOCK FALSE
