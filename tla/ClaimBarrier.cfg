\* Two pollers, two slots, two task goroutines; restarts work.
SPECIFICATION FairBarrierSpec
CONSTANTS
  Pollers = {p1, p2}
  Tasks = {t1, t2}
  Slots = {s1, s2}
  None = None
  RestartWorks = TRUE
INVARIANTS BarrierTypeOK NothingInterrupted SlotsConserved CountersPaired NoAddBesideWait BarrierReleased
PROPERTY ShutdownEnds
CHECK_DEADLOCK FALSE
