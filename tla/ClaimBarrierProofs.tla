-------------------------- MODULE ClaimBarrierProofs --------------------------
(***************************************************************************)
(* Proofs about ClaimBarrier, for any number of pollers, tasks and slots.  *)
(* The barrier is two checks under different locks: a poller registers its *)
(* claim under claimMu, the self-update reads claimsInFlight and           *)
(* activeTasks under it.  The argument is that the counters are exact:     *)
(* when both are zero no poller is claiming and no task goroutine is left, *)
(* and from then on pauseClaims keeps every poller out until the update    *)
(* has failed.  Who holds the flag "updating" shows that nobody else lifts *)
(* the pause.                                                              *)
(***************************************************************************)
EXTENDS ClaimBarrier, FiniteSetTheorems, TLAPS

PollerPcs == {"none", "top", "select", "slot", "claiming", "claimed", "unclaimed"}
TaskPcs   == {"none", "running", "returned", "inactive"}
HasSlot   == {"slot", "claiming", "claimed", "unclaimed"}
Counted   == {t \in Tasks : task[t].pc \in {"running", "returned"}}

PollerRec == [pc : PollerPcs, slot : Slots \cup {None}, stop : BOOLEAN]
TaskRec   == [pc : TaskPcs, slot : Slots \cup {None}]

(* Who holds a slot, without counting: a poller between waitForTaskSlot    *)
(* and the hand-off, or a task that runs, and not a slot that is also in   *)
(* the semaphore; ...                                                      *)
SlotsHeld ==
  /\ \A p \in Pollers : /\ poller[p].slot # None <=> poller[p].pc \in HasSlot
                        /\ poller[p].slot \notin free
  /\ \A t \in Tasks : /\ task[t].slot # None <=> TaskAt(t, "running")
                      /\ task[t].slot \notin free

(* ... never two of them; ...                                              *)
SlotsOnce ==
  /\ \A p, q \in Pollers : poller[p].slot = poller[q].slot /\ poller[p].slot # None => p = q
  /\ \A t, u \in Tasks : task[t].slot = task[u].slot /\ task[t].slot # None => t = u
  /\ \A p \in Pollers, t \in Tasks : poller[p].slot # None => poller[p].slot # task[t].slot

(* ... and every slot is somewhere.                                        *)
SlotsSomewhere ==
  \A s \in Slots \ free : \/ \E p \in Pollers : poller[p].slot = s
                          \/ \E t \in Tasks : task[t].slot = s

SlotsApart == SlotsHeld /\ SlotsOnce /\ SlotsSomewhere

(* Who holds the flag updating: the self-update from its lock on, for good *)
(* once its restart is under way, or the requested update; the barrier is  *)
(* up only while the self-update holds it.                                 *)
UpdateHeld ==
  /\ auto \in {"locked", "upgrading", "unlock"} => updating /\ manual = "idle"
  /\ manual # "idle" => updating
  /\ barrier.pause => updating /\ manual = "idle" /\ auto \in {"upgrading", "idle"}
  /\ auto = "upgrading" => barrier.pause
  /\ cancelled = "auto" => barrier.pause /\ auto = "idle"

BarrierInv ==
  /\ BarrierTypeOK /\ SlotsApart /\ CountersPaired /\ UpdateHeld
  /\ NothingInterrupted /\ NoAddBesideWait

(* Poller p (task t) is now at pc, holding s; the others are unchanged.    *)
PollerTo(p, pc, s, b) ==
  /\ poller' \in [Pollers -> PollerRec]
  /\ poller'[p].pc = pc /\ poller'[p].slot = s /\ poller'[p].stop = b
  /\ \A q \in Pollers \ {p} : poller'[q] = poller[q]

TaskTo(t, pc, s) ==
  /\ task' \in [Tasks -> TaskRec]
  /\ task'[t].pc = pc /\ task'[t].slot = s
  /\ \A u \in Tasks \ {t} : task'[u] = task[u]

-----------------------------------------------------------------------------
LEMMA PollerType ==
  ASSUME BarrierTypeOK
  PROVE  /\ poller \in [Pollers -> PollerRec]
         /\ task \in [Tasks -> TaskRec]
         /\ \A p \in Pollers : /\ poller[p].pc \in PollerPcs
                               /\ poller[p].slot \in Slots \cup {None}
                               /\ poller[p].stop \in BOOLEAN
         /\ \A t \in Tasks : task[t].pc \in TaskPcs /\ task[t].slot \in Slots \cup {None}
<1>1. poller \in [Pollers -> PollerRec] /\ task \in [Tasks -> TaskRec]
  BY DEF BarrierTypeOK, PollerRec, TaskRec, PollerPcs, TaskPcs
<1> QED BY <1>1 DEF PollerRec, TaskRec

LEMMA PollerSet ==
  ASSUME BarrierTypeOK, NEW p \in Pollers,
         NEW pc \in PollerPcs, NEW s \in Slots \cup {None}, NEW b \in BOOLEAN,
         poller' = [poller EXCEPT ![p] = [pc |-> pc, slot |-> s, stop |-> b]]
  PROVE  PollerTo(p, pc, s, b)
<1>1. poller \in [Pollers -> PollerRec]
  BY PollerType
<1>2. [pc |-> pc, slot |-> s, stop |-> b] \in PollerRec
  BY DEF PollerRec
<1> QED BY <1>1, <1>2 DEF PollerTo

LEMMA PollerMove ==
  ASSUME BarrierTypeOK, NEW p \in Pollers, NEW pc \in PollerPcs, Move(p, pc)
  PROVE  PollerTo(p, pc, poller[p].slot, poller[p].stop)
<1>1. PICK r \in PollerRec : r = poller[p]
  BY PollerType
<1>2. [r EXCEPT !.pc = pc] = [pc |-> pc, slot |-> r.slot, stop |-> r.stop]
  BY <1>1 DEF PollerRec
<1>3. poller' = [poller EXCEPT ![p] = [pc |-> pc, slot |-> r.slot, stop |-> r.stop]]
  BY <1>1, <1>2, Zenon DEF Move
<1>4. r.slot \in Slots \cup {None} /\ r.stop \in BOOLEAN
  BY DEF PollerRec
<1> QED BY <1>1, <1>3, <1>4, PollerSet

LEMMA PollerMoveSlot ==
  ASSUME BarrierTypeOK, NEW p \in Pollers, NEW pc \in PollerPcs, NEW s \in Slots \cup {None},
         poller' = [poller EXCEPT ![p].pc = pc, ![p].slot = s]
  PROVE  PollerTo(p, pc, s, poller[p].stop)
<1>1. PICK r \in PollerRec : r = poller[p]
  BY PollerType
<1>2. /\ poller' \in [Pollers -> PollerRec]
      /\ poller'[p] = [pc |-> pc, slot |-> s, stop |-> r.stop]
      /\ \A q \in Pollers \ {p} : poller'[q] = poller[q]
  <2>1. poller \in [Pollers -> PollerRec]
    BY PollerType
  <2> DEFINE moved == [poller EXCEPT ![p].pc = pc]
  <2>2. PollerRec # {} /\ [pc |-> pc, slot |-> r.slot, stop |-> r.stop] \in PollerRec
    BY DEF PollerRec
  <2>3. [r EXCEPT !.pc = pc] = [pc |-> pc, slot |-> r.slot, stop |-> r.stop]
    BY <1>1 DEF PollerRec
  <2>4. moved = [poller EXCEPT ![p] = [pc |-> pc, slot |-> r.slot, stop |-> r.stop]]
    BY <1>1, <2>3, Zenon
  <2>5. /\ moved \in [Pollers -> PollerRec]
        /\ moved[p] = [pc |-> pc, slot |-> r.slot, stop |-> r.stop]
        /\ \A q \in Pollers \ {p} : moved[q] = poller[q]
    BY <2>1, <2>2, <2>4
  <2>6. poller' = [moved EXCEPT ![p].slot = s]
    BY Zenon
  <2> HIDE DEF moved
  <2>7. PICK m \in PollerRec : m = moved[p]
    BY <2>5
  <2>8. [m EXCEPT !.slot = s] = [pc |-> pc, slot |-> s, stop |-> r.stop]
    BY <2>5, <2>7 DEF PollerRec
  <2>9. poller' = [moved EXCEPT ![p] = [pc |-> pc, slot |-> s, stop |-> r.stop]]
    BY <2>6, <2>7, <2>8, Zenon
  <2>10. [pc |-> pc, slot |-> s, stop |-> r.stop] \in PollerRec
    BY DEF PollerRec
  <2> QED BY <2>5, <2>9, <2>10
<1> QED BY <1>1, <1>2 DEF PollerTo

LEMMA TaskSet ==
  ASSUME BarrierTypeOK, NEW t \in Tasks, NEW pc \in TaskPcs, NEW s \in Slots \cup {None},
         task' = [task EXCEPT ![t] = [pc |-> pc, slot |-> s]]
  PROVE  TaskTo(t, pc, s)
<1>1. task \in [Tasks -> TaskRec]
  BY PollerType
<1>2. [pc |-> pc, slot |-> s] \in TaskRec
  BY DEF TaskRec
<1> QED BY <1>1, <1>2 DEF TaskTo

LEMMA TaskMove ==
  ASSUME BarrierTypeOK, NEW t \in Tasks, NEW pc \in TaskPcs, task' = [task EXCEPT ![t].pc = pc]
  PROVE  TaskTo(t, pc, task[t].slot)
<1>1. PICK r \in TaskRec : r = task[t]
  BY PollerType
<1>2. [r EXCEPT !.pc = pc] = [pc |-> pc, slot |-> r.slot]
  BY <1>1 DEF TaskRec
<1>3. task' = [task EXCEPT ![t] = [pc |-> pc, slot |-> r.slot]]
  BY <1>1, <1>2, Zenon
<1>4. r.slot \in Slots \cup {None}
  BY DEF TaskRec
<1> QED BY <1>1, <1>3, <1>4, TaskSet

-----------------------------------------------------------------------------
(* The sets that are counted, after a step of one poller or one task.      *)

LEMMA CountedFinite ==
  /\ IsFiniteSet(Claiming) /\ IsFiniteSet(Alive) /\ IsFiniteSet(Counted) /\ IsFiniteSet(Working)
  /\ Cardinality(Claiming) \in Nat /\ Cardinality(Alive) \in Nat /\ Cardinality(Counted) \in Nat
<1>1. Claiming \subseteq Pollers /\ Alive \subseteq Tasks /\ Counted \subseteq Tasks
      /\ Working \subseteq Tasks
  BY DEF Claiming, Alive, Counted, Working
<1>2. IsFiniteSet(Pollers) /\ IsFiniteSet(Tasks)
  BY BarrierAssumption
<1>3. IsFiniteSet(Claiming) /\ IsFiniteSet(Alive) /\ IsFiniteSet(Counted) /\ IsFiniteSet(Working)
  BY <1>1, <1>2, FS_Subset
<1> QED BY <1>3, FS_CardinalityType

LEMMA ClaimingAfter ==
  ASSUME NEW p \in Pollers, NEW pc, NEW s, NEW b, PollerTo(p, pc, s, b)
  PROVE  Claiming' = IF pc \in {"claiming", "claimed"} THEN Claiming \cup {p} ELSE Claiming \ {p}
BY DEF PollerTo, Claiming

LEMMA TasksAfter ==
  ASSUME NEW t \in Tasks, NEW pc, NEW s, TaskTo(t, pc, s)
  PROVE  /\ Alive' = IF pc # "none" THEN Alive \cup {t} ELSE Alive \ {t}
         /\ Counted' = IF pc \in {"running", "returned"} THEN Counted \cup {t} ELSE Counted \ {t}
         /\ Working' = IF pc = "running" THEN Working \cup {t} ELSE Working \ {t}
BY DEF TaskTo, Alive, Counted, Working, TaskAt

(* The counters read zero only when the sets are empty.                    *)
LEMMA ZeroMeansNone ==
  ASSUME CountersPaired, barrier.claims <= 0, active <= 0
  PROVE  Claiming = {} /\ Alive = {} /\ Working = {}
<1>1. Cardinality(Claiming) + Cardinality(Alive) <= 0
  BY DEF CountersPaired
<1>2. Cardinality(Claiming) = 0 /\ Cardinality(Alive) = 0
  BY <1>1, CountedFinite
<1>3. Claiming = {} /\ Alive = {}
  BY <1>2, CountedFinite, FS_EmptySet
<1> QED BY <1>3 DEF Alive, Working, TaskAt

-----------------------------------------------------------------------------
(* The slots, after a step of one poller or one task.                      *)

LEMMA SlotsKeptByPoller ==
  ASSUME BarrierTypeOK, SlotsApart, NEW p \in Pollers, NEW pc, NEW b,
         PollerTo(p, pc, poller[p].slot, b), pc \in HasSlot <=> poller[p].pc \in HasSlot,
         UNCHANGED <<task, free>>
  PROVE  SlotsApart'
BY DEF SlotsApart, SlotsHeld, SlotsOnce, SlotsSomewhere, PollerTo, TaskAt

LEMMA SlotTaken ==
  ASSUME BarrierTypeOK, SlotsApart, NEW p \in Pollers, NEW s \in free, NEW b,
         PollerTo(p, "slot", s, b), poller[p].slot = None,
         free' = free \ {s}, UNCHANGED task
  PROVE  SlotsApart'
<1>1. s # None /\ s \in Slots
  BY BarrierAssumption DEF BarrierTypeOK
<1>2. SlotsHeld'
  BY <1>1 DEF SlotsApart, SlotsHeld, PollerTo, TaskAt, HasSlot
<1>3. SlotsOnce'
  BY <1>1 DEF SlotsApart, SlotsHeld, SlotsOnce, PollerTo
<1>4. SlotsSomewhere'
  BY <1>1, BarrierAssumption DEF SlotsApart, SlotsSomewhere, PollerTo
<1> QED BY <1>2, <1>3, <1>4 DEF SlotsApart

LEMMA SlotReturned ==
  ASSUME BarrierTypeOK, SlotsApart, NEW p \in Pollers, NEW pc, NEW b,
         PollerTo(p, pc, None, b), pc \notin HasSlot, poller[p].pc \in HasSlot,
         free' = free \cup {poller[p].slot}, UNCHANGED task
  PROVE  SlotsApart'
<1>1. poller[p].slot # None /\ poller[p].slot \in Slots /\ None \notin free
  BY BarrierAssumption, PollerType DEF BarrierTypeOK, SlotsApart, SlotsHeld
<1> QED BY <1>1 DEF SlotsApart, SlotsHeld, SlotsOnce, SlotsSomewhere, PollerTo, TaskAt

LEMMA SlotHandedOff ==
  ASSUME BarrierTypeOK, SlotsApart, NEW p \in Pollers, NEW t \in Tasks, NEW b,
         PollerTo(p, "top", None, b), poller[p].pc \in HasSlot,
         TaskTo(t, "running", poller[p].slot), TaskAt(t, "none"), UNCHANGED free
  PROVE  SlotsApart'
<1>1. poller[p].slot # None /\ poller[p].slot \in Slots /\ None \notin free
  BY BarrierAssumption, PollerType DEF BarrierTypeOK, SlotsApart, SlotsHeld
<1>2. task[t].slot = None
  BY DEF SlotsApart, SlotsHeld, TaskAt
<1> QED BY <1>1, <1>2 DEF SlotsApart, SlotsHeld, SlotsOnce, SlotsSomewhere, PollerTo, TaskTo, TaskAt, HasSlot

LEMMA SlotOfTaskReturned ==
  ASSUME BarrierTypeOK, SlotsApart, NEW t \in Tasks, TaskAt(t, "running"),
         TaskTo(t, "returned", None), free' = free \cup {task[t].slot}, UNCHANGED poller
  PROVE  SlotsApart'
<1>1. task[t].slot # None /\ task[t].slot \in Slots /\ None \notin free
  BY BarrierAssumption, PollerType DEF BarrierTypeOK, SlotsApart, SlotsHeld
<1> QED BY <1>1 DEF SlotsApart, SlotsHeld, SlotsOnce, SlotsSomewhere, TaskTo, TaskAt

LEMMA SlotsKeptByTask ==
  ASSUME BarrierTypeOK, SlotsApart, NEW t \in Tasks, NEW pc, TaskTo(t, pc, None),
         ~TaskAt(t, "running"), pc # "running", UNCHANGED <<poller, free>>
  PROVE  SlotsApart'
BY DEF SlotsApart, SlotsHeld, SlotsOnce, SlotsSomewhere, TaskTo, TaskAt

-----------------------------------------------------------------------------
(* The counters, after a step of one poller or one task.                   *)

LEMMA CountersAfterPoller ==
  ASSUME CountersPaired, NEW p \in Pollers, NEW pc, NEW s, NEW b, PollerTo(p, pc, s, b),
         UNCHANGED <<task, active>>,
         barrier'.claims = barrier.claims
                           + (IF pc \in {"claiming", "claimed"} THEN 1 ELSE 0)
                           - (IF p \in Claiming THEN 1 ELSE 0)
  PROVE  CountersPaired'
<1>1. Cardinality(Claiming') = Cardinality(Claiming)
                               + (IF pc \in {"claiming", "claimed"} THEN 1 ELSE 0)
                               - (IF p \in Claiming THEN 1 ELSE 0)
  <2>1. CASE pc \in {"claiming", "claimed"}
    <3>1. Claiming' = Claiming \cup {p}
      BY <2>1, ClaimingAfter
    <3>2. Cardinality(Claiming \cup {p})
            = IF p \in Claiming THEN Cardinality(Claiming) ELSE Cardinality(Claiming) + 1
      BY CountedFinite, FS_AddElement
    <3> QED BY <2>1, <3>1, <3>2, CountedFinite
  <2>2. CASE pc \notin {"claiming", "claimed"}
    <3>1. Claiming' = Claiming \ {p}
      BY <2>2, ClaimingAfter
    <3>2. Cardinality(Claiming \ {p})
            = IF p \in Claiming THEN Cardinality(Claiming) - 1 ELSE Cardinality(Claiming)
      BY CountedFinite, FS_RemoveElement
    <3> QED BY <2>2, <3>1, <3>2, CountedFinite
  <2> QED BY <2>1, <2>2
<1>2. Alive' = Alive /\ Counted' = Counted
  BY DEF Alive, Counted, TaskAt
<1>3. Counted = {t \in Tasks : task[t].pc \in {"running", "returned"}}
  BY DEF Counted
<1> QED BY <1>1, <1>2, <1>3, CountedFinite DEF CountersPaired

LEMMA TaskAdded ==
  ASSUME NEW t \in Tasks, NEW s, TaskTo(t, "running", s), TaskAt(t, "none")
  PROVE  /\ Cardinality(Alive') = Cardinality(Alive) + 1
         /\ Cardinality(Counted') = Cardinality(Counted) + 1
<1>1. t \notin Alive /\ t \notin Counted
  BY DEF Alive, Counted, TaskAt
<1>2. Alive' = Alive \cup {t} /\ Counted' = Counted \cup {t}
  BY TasksAfter
<1> QED BY <1>1, <1>2, CountedFinite, FS_AddElement

LEMMA TaskRemoved ==
  ASSUME NEW t \in Tasks, NEW pc \in {"inactive", "none"}, NEW s, TaskTo(t, pc, s),
         ~TaskAt(t, "none")
  PROVE  /\ Cardinality(Alive') = Cardinality(Alive) - (IF pc = "none" THEN 1 ELSE 0)
         /\ Cardinality(Counted') = Cardinality(Counted)
                                     - (IF task[t].pc \in {"running", "returned"} THEN 1 ELSE 0)
<1>1. t \in Alive /\ (t \in Counted <=> task[t].pc \in {"running", "returned"})
  BY DEF Alive, Counted, TaskAt
<1>2. Counted' = Counted \ {t}
  BY TasksAfter
<1>3. Cardinality(Counted') = Cardinality(Counted)
                              - (IF task[t].pc \in {"running", "returned"} THEN 1 ELSE 0)
  <2>1. Cardinality(Counted \ {t})
          = IF t \in Counted THEN Cardinality(Counted) - 1 ELSE Cardinality(Counted)
    BY CountedFinite, FS_RemoveElement
  <2> QED BY <1>1, <1>2, <2>1, CountedFinite
<1>4. CASE pc = "none"
  <2>1. Alive' = Alive \ {t}
    BY <1>4, TasksAfter
  <2> QED BY <1>1, <1>3, <1>4, <2>1, CountedFinite, FS_RemoveElement
<1>5. CASE pc = "inactive"
  <2>1. Alive' = Alive
    BY <1>1, <1>5, TasksAfter
  <2> QED BY <1>3, <1>5, <2>1, CountedFinite
<1> QED BY <1>4, <1>5

-----------------------------------------------------------------------------
(* One lemma per kind of step.  First the pollers.                         *)

(* A step of poller p changes neither a counter nor a slot: the start and  *)
(* the end of a poller, its waiting, its cancellation, ClaimTask's answer. *)
LEMMA PollerMoves ==
  ASSUME BarrierInv, NEW p \in Pollers, NEW pc \in PollerPcs, NEW b \in BOOLEAN,
         PollerTo(p, pc, poller[p].slot, b),
         pc \in HasSlot <=> poller[p].pc \in HasSlot,
         pc \in {"claiming", "claimed"} <=> poller[p].pc \in {"claiming", "claimed"},
         loop = "polling" \/ poller[p].pc # "none" \/ pc = "none",
         UNCHANGED <<task, free, barrier, active, updateVars, loop>>
  PROVE  BarrierInv'
<1> USE DEF updateVars
<1>1. BarrierTypeOK'
  BY DEF BarrierInv, BarrierTypeOK, PollerTo, PollerRec, PollerPcs
<1>2. SlotsApart'
  BY SlotsKeptByPoller DEF BarrierInv
<1>3. CountersPaired'
  <2>1. p \in Claiming <=> pc \in {"claiming", "claimed"}
    BY DEF Claiming
  <2> QED BY <2>1, CountersAfterPoller DEF BarrierInv, BarrierTypeOK
<1>4. UpdateHeld'
  BY DEF BarrierInv, UpdateHeld
<1>5. NothingInterrupted'
  BY DEF BarrierInv, NothingInterrupted, Claiming, Working, TaskAt, PollerTo
<1>6. NoAddBesideWait'
  BY DEF BarrierInv, NoAddBesideWait, PollerAt, PollerTo
<1> QED BY <1>1, <1>2, <1>3, <1>4, <1>5, <1>6 DEF BarrierInv

(* Poller p gives its slot back and claims nothing.                        *)
LEMMA PollerReturnsSlot ==
  ASSUME BarrierInv, NEW p \in Pollers, NEW pc \in {"top", "none"}, NEW b \in BOOLEAN,
         PollerTo(p, pc, None, b), poller[p].pc \in {"slot", "unclaimed"},
         free' = free \cup {poller[p].slot},
         UNCHANGED <<task, barrier, active, updateVars, loop>>
  PROVE  BarrierInv'
<1> USE DEF updateVars
<1>1. BarrierTypeOK'
  <2>1. poller[p].slot \in Slots
    BY PollerType DEF BarrierInv, SlotsApart, SlotsHeld, HasSlot
  <2> QED BY <2>1 DEF BarrierInv, BarrierTypeOK, PollerTo, PollerRec, PollerPcs
<1>2. SlotsApart'
  BY SlotReturned DEF BarrierInv, HasSlot
<1>3. CountersPaired'
  <2>1. p \notin Claiming
    BY DEF Claiming
  <2>2. barrier' = barrier /\ barrier.claims \in Int /\ pc \notin {"claiming", "claimed"}
    BY DEF BarrierInv, BarrierTypeOK
  <2> QED BY <2>1, <2>2, CountersAfterPoller DEF BarrierInv
<1>4. UpdateHeld'
  BY DEF BarrierInv, UpdateHeld
<1>5. NothingInterrupted'
  BY DEF BarrierInv, NothingInterrupted, Claiming, Working, TaskAt, PollerTo
<1>6. NoAddBesideWait'
  BY DEF BarrierInv, NoAddBesideWait, PollerAt, PollerTo
<1> QED BY <1>1, <1>2, <1>3, <1>4, <1>5, <1>6 DEF BarrierInv

LEMMA AcquireSlotKeeps ==
  ASSUME BarrierInv, NEW p \in Pollers, NEW s \in Slots, AcquireSlot(p, s)
  PROVE  BarrierInv'
<1>0. PollerTo(p, "slot", s, poller[p].stop)
  BY PollerMoveSlot DEF BarrierInv, PollerPcs, AcquireSlot
<1>a. /\ PollerAt(p, "select") /\ s \in free /\ free' = free \ {s}
      /\ UNCHANGED <<task, barrier, active, updateVars, loop>>
  BY DEF AcquireSlot
<1> USE <1>a DEF updateVars
<1>1. BarrierTypeOK'
  BY <1>0 DEF BarrierInv, BarrierTypeOK, PollerTo, PollerRec, PollerPcs
<1>2. SlotsApart'
  <2>1. poller[p].slot = None
    BY DEF BarrierInv, SlotsApart, SlotsHeld, HasSlot, PollerAt
  <2> QED BY <1>0, <2>1, SlotTaken DEF BarrierInv
<1>3. CountersPaired'
  <2>1. p \notin Claiming
    BY DEF Claiming, PollerAt
  <2> QED BY <1>0, <2>1, CountersAfterPoller DEF BarrierInv, BarrierTypeOK
<1>4. UpdateHeld'
  BY DEF BarrierInv, UpdateHeld
<1>5. NothingInterrupted'
  BY <1>0 DEF BarrierInv, NothingInterrupted, Claiming, Working, TaskAt, PollerTo
<1>6. NoAddBesideWait'
  BY <1>0 DEF BarrierInv, NoAddBesideWait, PollerAt, PollerTo
<1> QED BY <1>1, <1>2, <1>3, <1>4, <1>5, <1>6 DEF BarrierInv

(* The claim is registered only while no update has the barrier up, and an *)
(* update that has cancelled the context has it up.                        *)
LEMMA TryEnterClaimKeeps ==
  ASSUME BarrierInv, NEW p \in Pollers, TryEnterClaim(p)
  PROVE  BarrierInv'
<1> USE DEF TryEnterClaim, EnterClaim, updateVars
<1>0. PollerTo(p, "claiming", poller[p].slot, poller[p].stop)
  BY PollerMove DEF BarrierInv, PollerPcs
<1>b. PICK r \in [claims : Int, pause : BOOLEAN] : r = barrier
  BY DEF BarrierInv, BarrierTypeOK
<1>c. barrier' = [claims |-> r.claims + 1, pause |-> r.pause]
  <2>1. [r EXCEPT !.claims = @ + 1] = [claims |-> r.claims + 1, pause |-> r.pause]
    BY <1>b
  <2> QED BY <1>b, <2>1, Zenon
<1>1. BarrierTypeOK'
  BY <1>0, <1>b, <1>c DEF BarrierInv, BarrierTypeOK, PollerTo, PollerRec, PollerPcs
<1>2. SlotsApart'
  BY <1>0, SlotsKeptByPoller DEF BarrierInv, HasSlot, PollerAt
<1>3. CountersPaired'
  <2>1. p \notin Claiming
    BY DEF Claiming, PollerAt
  <2>2. barrier'.claims = barrier.claims + 1
    BY <1>b, <1>c
  <2> QED BY <1>0, <1>b, <2>1, <2>2, CountersAfterPoller DEF BarrierInv
<1>4. UpdateHeld' /\ NothingInterrupted'
  <2>1. barrier'.pause = FALSE /\ barrier.pause = FALSE /\ cancelled # "auto"
    BY <1>b, <1>c DEF BarrierInv, UpdateHeld
  <2> QED BY <2>1 DEF BarrierInv, UpdateHeld, NothingInterrupted
<1>6. NoAddBesideWait'
  BY <1>0 DEF BarrierInv, NoAddBesideWait, PollerAt, PollerTo
<1> QED BY <1>1, <1>2, <1>3, <1>4, <1>6 DEF BarrierInv

LEMMA ClaimReturnsNoneKeeps ==
  ASSUME BarrierInv, NEW p \in Pollers, ClaimReturnsNone(p)
  PROVE  BarrierInv'
<1> USE DEF ClaimReturnsNone, ExitClaim, updateVars
<1>0. PollerTo(p, "unclaimed", poller[p].slot, poller[p].stop)
  BY PollerMove DEF BarrierInv, PollerPcs
<1>b. PICK r \in [claims : Int, pause : BOOLEAN] : r = barrier
  BY DEF BarrierInv, BarrierTypeOK
<1>c. barrier' = [claims |-> r.claims - 1, pause |-> r.pause]
  <2>1. [r EXCEPT !.claims = @ - 1] = [claims |-> r.claims - 1, pause |-> r.pause]
    BY <1>b
  <2> QED BY <1>b, <2>1, Zenon
<1>1. BarrierTypeOK'
  BY <1>0, <1>b, <1>c DEF BarrierInv, BarrierTypeOK, PollerTo, PollerRec, PollerPcs
<1>2. SlotsApart'
  BY <1>0, SlotsKeptByPoller DEF BarrierInv, HasSlot, PollerAt
<1>3. CountersPaired'
  <2>1. p \in Claiming
    BY DEF Claiming, PollerAt
  <2>2. barrier'.claims = barrier.claims - 1
    BY <1>b, <1>c
  <2> QED BY <1>0, <1>b, <2>1, <2>2, CountersAfterPoller DEF BarrierInv
<1>4. UpdateHeld'
  BY <1>b, <1>c DEF BarrierInv, UpdateHeld
<1>5. NothingInterrupted'
  BY <1>0, <1>b, <1>c DEF BarrierInv, NothingInterrupted, Claiming, Working, TaskAt, PollerTo
<1>6. NoAddBesideWait'
  BY <1>0 DEF BarrierInv, NoAddBesideWait, PollerAt, PollerTo
<1> QED BY <1>1, <1>2, <1>3, <1>4, <1>5, <1>6 DEF BarrierInv

-----------------------------------------------------------------------------
(* The hand-off and the tasks.                                             *)

(* While the barrier is up nobody is claiming, so there is no hand-off.    *)
LEMMA HandOffKeeps ==
  ASSUME BarrierInv, NEW p \in Pollers, NEW t \in Tasks, HandOff(p, t)
  PROVE  BarrierInv'
<1>a. /\ PollerAt(p, "claimed") /\ TaskAt(t, "none")
      /\ active' = active + 1
      /\ UNCHANGED <<free, barrier, updateVars, loop>>
  BY DEF HandOff
<1>b. p \in Claiming /\ poller[p].slot \in Slots
  <2>1. p \in Claiming
    BY <1>a DEF Claiming, PollerAt
  <2>2. poller[p].slot # None /\ poller[p].slot \in Slots \cup {None}
    BY <1>a, PollerType DEF BarrierInv, SlotsApart, SlotsHeld, HasSlot, PollerAt
  <2> QED BY <2>1, <2>2
<1>c. PollerTo(p, "top", None, poller[p].stop)
  <2>1. poller' = [poller EXCEPT ![p].pc = "top", ![p].slot = None]
    BY DEF HandOff
  <2> QED BY <2>1, PollerMoveSlot DEF BarrierInv, PollerPcs
<1>d. TaskTo(t, "running", poller[p].slot)
  <2>1. task' = [task EXCEPT ![t] = [pc |-> "running", slot |-> poller[p].slot]]
    BY DEF HandOff
  <2> QED BY <1>b, <2>1, TaskSet DEF BarrierInv, TaskPcs
<1> USE <1>a DEF updateVars
<1>1. BarrierTypeOK'
  BY <1>c, <1>d
  DEF BarrierInv, BarrierTypeOK, PollerTo, PollerRec, PollerPcs, TaskTo, TaskRec, TaskPcs
<1>2. SlotsApart'
  BY <1>c, <1>d, SlotHandedOff DEF BarrierInv, HasSlot, PollerAt
<1>3. CountersPaired'
  <2>1. Claiming' = Claiming \ {p}
    BY <1>c, ClaimingAfter
  <2>2. Cardinality(Claiming') = Cardinality(Claiming) - 1
    BY <1>b, <2>1, CountedFinite, FS_RemoveElement
  <2>3. /\ Cardinality(Alive') = Cardinality(Alive) + 1
        /\ Cardinality(Counted') = Cardinality(Counted) + 1
    BY <1>d, TaskAdded
  <2> QED BY <2>2, <2>3, CountedFinite DEF BarrierInv, CountersPaired, Counted
<1>4. UpdateHeld'
  BY DEF BarrierInv, UpdateHeld
<1>5. NothingInterrupted'
  BY <1>b DEF BarrierInv, NothingInterrupted
<1>6. NoAddBesideWait'
  BY <1>c DEF BarrierInv, NoAddBesideWait, PollerAt, PollerTo
<1> QED BY <1>1, <1>2, <1>3, <1>4, <1>5, <1>6 DEF BarrierInv

LEMMA HandleTaskReturnsKeeps ==
  ASSUME BarrierInv, NEW t \in Tasks, HandleTaskReturns(t)
  PROVE  BarrierInv'
<1> USE DEF HandleTaskReturns, updateVars
<1>a. TaskTo(t, "returned", None)
  BY TaskSet DEF BarrierInv, TaskPcs
<1>1. BarrierTypeOK'
  <2>1. task[t].slot \in Slots
    BY PollerType DEF BarrierInv, SlotsApart, SlotsHeld
  <2> QED BY <1>a, <2>1 DEF BarrierInv, BarrierTypeOK, TaskTo, TaskRec, TaskPcs
<1>2. SlotsApart'
  BY <1>a, SlotOfTaskReturned DEF BarrierInv
<1>3. CountersPaired'
  <2>1. Alive' = Alive /\ Counted' = Counted /\ Claiming' = Claiming
    BY <1>a, TasksAfter DEF Alive, Counted, Claiming, TaskAt
  <2> QED BY <2>1 DEF BarrierInv, CountersPaired, Counted
<1>4. UpdateHeld'
  BY DEF BarrierInv, UpdateHeld
<1>5. NothingInterrupted'
  BY <1>a DEF BarrierInv, NothingInterrupted, Claiming, Working, TaskAt, TaskTo
<1>6. NoAddBesideWait'
  BY DEF BarrierInv, NoAddBesideWait, PollerAt
<1> QED BY <1>1, <1>2, <1>3, <1>4, <1>5, <1>6 DEF BarrierInv

LEMMA TaskInactiveKeeps ==
  ASSUME BarrierInv, NEW t \in Tasks, TaskInactive(t)
  PROVE  BarrierInv'
<1> USE DEF TaskInactive, updateVars
<1>a. TaskTo(t, "inactive", None)
  <2>1. TaskTo(t, "inactive", task[t].slot)
    BY TaskMove DEF BarrierInv, TaskPcs
  <2>2. task[t].slot = None
    BY DEF BarrierInv, SlotsApart, SlotsHeld, TaskAt
  <2> QED BY <2>1, <2>2
<1>1. BarrierTypeOK'
  BY <1>a DEF BarrierInv, BarrierTypeOK, TaskTo, TaskRec, TaskPcs
<1>2. SlotsApart'
  BY <1>a, SlotsKeptByTask DEF BarrierInv, TaskAt
<1>3. CountersPaired'
  <2>1. /\ Cardinality(Alive') = Cardinality(Alive)
        /\ Cardinality(Counted') = Cardinality(Counted) - 1
    BY <1>a, TaskRemoved, CountedFinite DEF TaskAt
  <2>2. Claiming' = Claiming
    BY DEF Claiming
  <2> QED BY <2>1, <2>2, CountedFinite DEF BarrierInv, CountersPaired, Counted
<1>4. UpdateHeld'
  BY DEF BarrierInv, UpdateHeld
<1>5. NothingInterrupted'
  BY <1>a DEF BarrierInv, NothingInterrupted, Claiming, Working, TaskAt, TaskTo
<1>6. NoAddBesideWait'
  BY DEF BarrierInv, NoAddBesideWait, PollerAt
<1> QED BY <1>1, <1>2, <1>3, <1>4, <1>5, <1>6 DEF BarrierInv

LEMMA TaskExitsClaimKeeps ==
  ASSUME BarrierInv, NEW t \in Tasks, TaskExitsClaim(t)
  PROVE  BarrierInv'
<1> USE DEF TaskExitsClaim, ExitClaim, updateVars
<1>a. TaskTo(t, "none", None)
  BY TaskSet DEF BarrierInv, TaskPcs, NoTask
<1>b. PICK r \in [claims : Int, pause : BOOLEAN] : r = barrier
  BY DEF BarrierInv, BarrierTypeOK
<1>c. barrier' = [claims |-> r.claims - 1, pause |-> r.pause]
  <2>1. [r EXCEPT !.claims = @ - 1] = [claims |-> r.claims - 1, pause |-> r.pause]
    BY <1>b
  <2> QED BY <1>b, <2>1, Zenon
<1>1. BarrierTypeOK'
  BY <1>a, <1>b, <1>c DEF BarrierInv, BarrierTypeOK, TaskTo, TaskRec, TaskPcs
<1>2. SlotsApart'
  BY <1>a, SlotsKeptByTask DEF BarrierInv, TaskAt
<1>3. CountersPaired'
  <2>1. /\ Cardinality(Alive') = Cardinality(Alive) - 1
        /\ Cardinality(Counted') = Cardinality(Counted)
    BY <1>a, TaskRemoved, CountedFinite DEF TaskAt
  <2>2. Claiming' = Claiming /\ barrier'.claims = barrier.claims - 1
    BY <1>b, <1>c DEF Claiming
  <2> QED BY <1>b, <2>1, <2>2, CountedFinite DEF BarrierInv, CountersPaired, Counted
<1>4. UpdateHeld'
  BY <1>b, <1>c DEF BarrierInv, UpdateHeld
<1>5. NothingInterrupted'
  BY <1>a, <1>b, <1>c DEF BarrierInv, NothingInterrupted, Claiming, Working, TaskAt, TaskTo
<1>6. NoAddBesideWait'
  BY DEF BarrierInv, NoAddBesideWait, PollerAt
<1> QED BY <1>1, <1>2, <1>3, <1>4, <1>5, <1>6 DEF BarrierInv

-----------------------------------------------------------------------------
(* The updates and the end of the loop: no poller and no task moves.       *)

LEMMA NobodyMoves ==
  ASSUME BarrierInv, UNCHANGED <<poller, task, free, active>>, barrier'.claims = barrier.claims
  PROVE  SlotsApart' /\ CountersPaired' /\ Claiming' = Claiming /\ Working' = Working
<1>1. SlotsApart'
  BY DEF BarrierInv, SlotsApart, SlotsHeld, SlotsOnce, SlotsSomewhere, TaskAt
<1>2. /\ Claiming' = Claiming /\ Working' = Working /\ Alive' = Alive
      /\ Counted' = Counted
  BY DEF Claiming, Working, Alive, Counted, TaskAt
<1>3. CountersPaired'
  BY <1>2 DEF BarrierInv, CountersPaired, Counted
<1> QED BY <1>1, <1>2, <1>3

(* The pause goes up only when the counters, hence the sets, are empty.    *)
LEMMA AutoBarrierKeeps ==
  ASSUME BarrierInv, AutoBarrier
  PROVE  BarrierInv'
<1> USE DEF AutoBarrier
<1>b. PICK r \in [claims : Int, pause : BOOLEAN] : r = barrier
  BY DEF BarrierInv, BarrierTypeOK
<1>c. barrier' = [claims |-> r.claims, pause |-> TRUE]
  <2>1. \A b \in BOOLEAN : [r EXCEPT !.pause = b] = [claims |-> r.claims, pause |-> b]
    BY <1>b
  <2> QED BY <1>b, <2>1, Zenon
<1>1. BarrierTypeOK'
  BY <1>b, <1>c DEF BarrierInv, BarrierTypeOK
<1>2. SlotsApart' /\ CountersPaired' /\ Claiming' = Claiming /\ Working' = Working
  BY <1>b, <1>c, NobodyMoves
<1>3. UpdateHeld'
  BY <1>b, <1>c DEF BarrierInv, UpdateHeld
<1>4. NothingInterrupted'
  BY <1>2, ZeroMeansNone DEF BarrierInv, NothingInterrupted
<1>5. NoAddBesideWait'
  BY DEF BarrierInv, NoAddBesideWait, PollerAt
<1> QED BY <1>1, <1>2, <1>3, <1>4, <1>5 DEF BarrierInv

LEMMA AutoFailsKeeps ==
  ASSUME BarrierInv, AutoFails
  PROVE  BarrierInv'
<1> USE DEF AutoFails
<1>b. PICK r \in [claims : Int, pause : BOOLEAN] : r = barrier
  BY DEF BarrierInv, BarrierTypeOK
<1>c. barrier' = [claims |-> r.claims, pause |-> FALSE]
  <2>1. \A b \in BOOLEAN : [r EXCEPT !.pause = b] = [claims |-> r.claims, pause |-> b]
    BY <1>b
  <2> QED BY <1>b, <2>1, Zenon
<1>1. BarrierTypeOK'
  BY <1>b, <1>c DEF BarrierInv, BarrierTypeOK
<1>2. SlotsApart' /\ CountersPaired' /\ Claiming' = Claiming /\ Working' = Working
  BY <1>b, <1>c, NobodyMoves
<1>3. UpdateHeld'
  BY <1>b, <1>c DEF BarrierInv, UpdateHeld
<1>4. NothingInterrupted'
  BY <1>2, <1>3, <1>c DEF BarrierInv, NothingInterrupted
<1>5. NoAddBesideWait'
  BY DEF BarrierInv, NoAddBesideWait, PollerAt
<1> QED BY <1>1, <1>2, <1>3, <1>4, <1>5 DEF BarrierInv

(* The other steps of the two updates, and the operator's stop: the barrier *)
(* stays as it is.                                                          *)
UpdateMove ==
  \/ AutoCheck \/ AutoLock \/ AutoDefers \/ AutoUnlock \/ AutoRestarts
  \/ ManualLock \/ ManualEnds \/ ManualUnlock \/ Shutdown

LEMMA UpdateMoveFrame ==
  ASSUME UpdateMove
  PROVE  UNCHANGED <<poller, task, free, barrier, active, loop>>
BY DEF UpdateMove, AutoCheck, AutoLock, AutoDefers, AutoUnlock, AutoRestarts,
       ManualLock, ManualEnds, ManualUnlock, Shutdown

LEMMA UpdateMoveKeeps ==
  ASSUME BarrierInv, UpdateMove
  PROVE  BarrierInv'
<1>0. UNCHANGED <<poller, task, free, barrier, active, loop>>
  BY UpdateMoveFrame
<1>1. BarrierTypeOK' /\ UpdateHeld' /\ (cancelled' = "auto" => cancelled = "auto" \/ barrier.pause)
  <2> USE <1>0 DEF BarrierInv, BarrierTypeOK, UpdateHeld
  <2>1. CASE AutoCheck BY <2>1 DEF AutoCheck
  <2>2. CASE AutoLock BY <2>2 DEF AutoLock
  <2>3. CASE AutoDefers BY <2>3 DEF AutoDefers
  <2>4. CASE AutoUnlock BY <2>4 DEF AutoUnlock
  <2>5. CASE AutoRestarts BY <2>5 DEF AutoRestarts, TriggerRestart
  <2>6. CASE ManualLock BY <2>6 DEF ManualLock
  <2>7. CASE ManualEnds BY <2>7 DEF ManualEnds, TriggerRestart
  <2>8. CASE ManualUnlock BY <2>8 DEF ManualUnlock
  <2>9. CASE Shutdown BY <2>9 DEF Shutdown
  <2> QED BY <2>1, <2>2, <2>3, <2>4, <2>5, <2>6, <2>7, <2>8, <2>9 DEF UpdateMove
<1>2. SlotsApart' /\ CountersPaired' /\ Claiming' = Claiming /\ Working' = Working
  BY <1>0, NobodyMoves
<1>3. NothingInterrupted'
  BY <1>0, <1>1, <1>2 DEF BarrierInv, NothingInterrupted
<1>4. NoAddBesideWait'
  BY <1>0 DEF BarrierInv, NoAddBesideWait, PollerAt
<1> QED BY <1>1, <1>2, <1>3, <1>4 DEF BarrierInv

LEMMA LoopStepKeeps ==
  ASSUME BarrierInv, LoopStep
  PROVE  BarrierInv'
<1> USE DEF LoopStep, LoopStops, PollersGone, LoopExits, updateVars
<1>1. UNCHANGED <<poller, task, free, barrier, active, updating, auto, manual, cancelled>>
  OBVIOUS
<1>2. BarrierTypeOK' /\ UpdateHeld'
  BY <1>1 DEF BarrierInv, BarrierTypeOK, UpdateHeld
<1>3. SlotsApart' /\ CountersPaired' /\ Claiming' = Claiming /\ Working' = Working
  BY <1>1, NobodyMoves
<1>4. NothingInterrupted'
  BY <1>1, <1>3 DEF BarrierInv, NothingInterrupted
<1>5. NoAddBesideWait'
  BY <1>1 DEF BarrierInv, NoAddBesideWait, PollerAt
<1> QED BY <1>2, <1>3, <1>4, <1>5 DEF BarrierInv

-----------------------------------------------------------------------------
LEMMA BarrierInitially ==
  ASSUME BarrierInit
  PROVE  BarrierInv
<1> USE DEF BarrierInit, NoPoller, NoTask
<1>1. BarrierTypeOK
  <2>1. /\ \A b \in BOOLEAN : [pc |-> "none", slot |-> None, stop |-> b] \in PollerRec
        /\ \A b \in BOOLEAN : [claims |-> 0, pause |-> b] \in [claims : Int, pause : BOOLEAN]
        /\ [pc |-> "none", slot |-> None] \in TaskRec
    BY DEF PollerRec, PollerPcs, TaskRec, TaskPcs
  <2>2. /\ poller \in [Pollers -> PollerRec] /\ task \in [Tasks -> TaskRec]
        /\ barrier \in [claims : Int, pause : BOOLEAN]
    BY <2>1
  <2> QED BY <2>2 DEF BarrierTypeOK, PollerRec, PollerPcs, TaskRec, TaskPcs
<1>2. SlotsApart
  BY BarrierAssumption DEF SlotsApart, SlotsHeld, SlotsOnce, SlotsSomewhere, HasSlot, TaskAt
<1>3. Claiming = {} /\ Alive = {} /\ Counted = {}
  BY DEF Claiming, Alive, Counted, TaskAt
<1>4. CountersPaired
  <2>1. Cardinality({}) = 0
    BY FS_EmptySet
  <2> QED BY <1>3, <2>1 DEF CountersPaired, Counted
<1>5. UpdateHeld /\ NothingInterrupted /\ NoAddBesideWait
  BY DEF UpdateHeld, NothingInterrupted, NoAddBesideWait
<1> QED BY <1>1, <1>2, <1>4, <1>5 DEF BarrierInv

LEMMA PollerStepKeeps ==
  ASSUME BarrierInv, NEW p \in Pollers, PollerStep(p)
  PROVE  BarrierInv'
<1>t. BarrierTypeOK /\ (poller[p].pc \notin HasSlot => poller[p].slot = None)
  BY DEF BarrierInv, SlotsApart, SlotsHeld
<1>s. poller[p].stop \in BOOLEAN
  BY <1>t, PollerType
<1>1. CASE CheckContext(p)
  <2>1. /\ poller[p].pc = "top" /\ poller[p].slot = None
        /\ UNCHANGED <<task, free, barrier, active, updateVars, loop>>
    BY <1>1, <1>t DEF CheckContext, PollerAt, HasSlot
  <2>2. CASE Stopping(p)
    <3>1. poller' = [poller EXCEPT ![p] = [pc |-> "none", slot |-> None, stop |-> FALSE]]
      BY <1>1, <2>2 DEF CheckContext, NoPoller
    <3>2. PollerTo(p, "none", None, FALSE)
      BY <1>t, <3>1, PollerSet DEF PollerPcs
    <3> QED BY <2>1, <3>2, PollerMoves DEF HasSlot, PollerPcs
  <2>3. CASE ~Stopping(p)
    <3>1. PollerTo(p, "select", poller[p].slot, poller[p].stop)
      BY <1>1, <1>t, <2>3, PollerMove DEF CheckContext, PollerPcs
    <3> QED BY <1>s, <2>1, <3>1, PollerMoves DEF HasSlot, PollerPcs
  <2> QED BY <2>2, <2>3
<1>2. CASE \E s \in Slots : AcquireSlot(p, s)
  BY <1>2, AcquireSlotKeeps
<1>3. CASE NoSlot(p)
  <2>1. PollerTo(p, "top", poller[p].slot, poller[p].stop)
    BY <1>3, <1>t, PollerMove DEF NoSlot, PollerPcs
  <2> QED BY <1>3, <1>s, <2>1, PollerMoves DEF NoSlot, PollerAt, HasSlot, PollerPcs
<1>4. CASE TryEnterClaim(p)
  BY <1>4, TryEnterClaimKeeps
<1>5. CASE ClaimRefused(p) \/ ClaimEmpty(p)
  <2>1. /\ poller' = [poller EXCEPT ![p].pc = "top", ![p].slot = None]
        /\ poller[p].pc \in {"slot", "unclaimed"} /\ free' = free \cup {poller[p].slot}
        /\ UNCHANGED <<task, barrier, active, updateVars, loop>>
    BY <1>5 DEF ClaimRefused, ClaimEmpty, ReturnSlot, PollerAt
  <2>2. PollerTo(p, "top", None, poller[p].stop)
    BY <1>t, <2>1, PollerMoveSlot DEF PollerPcs
  <2> HIDE <1>5
  <2> QED BY <1>s, <2>1, <2>2, PollerReturnsSlot
<1>6. CASE ClaimReturnsTask(p)
  <2>1. PollerTo(p, "claimed", poller[p].slot, poller[p].stop)
    BY <1>6, <1>t, PollerMove DEF ClaimReturnsTask, PollerPcs
  <2> QED BY <1>6, <1>s, <2>1, PollerMoves DEF ClaimReturnsTask, PollerAt, HasSlot, PollerPcs
<1>7. CASE ClaimReturnsNone(p)
  BY <1>7, ClaimReturnsNoneKeeps
<1>8. CASE RuntimeGone(p)
  <2>1. PollerTo(p, "none", None, FALSE)
    BY <1>8, <1>t, PollerSet DEF RuntimeGone, NoPoller, PollerPcs
  <2> QED BY <1>8, <2>1, PollerReturnsSlot DEF RuntimeGone, PollerAt
<1>9. CASE \E t \in Tasks : HandOff(p, t)
  BY <1>9, HandOffKeeps
<1> QED BY <1>1, <1>2, <1>3, <1>4, <1>5, <1>6, <1>7, <1>8, <1>9 DEF PollerStep

LEMMA BarrierStep ==
  ASSUME BarrierInv, [BarrierNext]_barrierVars
  PROVE  BarrierInv'
<1>t. BarrierTypeOK
  BY DEF BarrierInv
<1>1. ASSUME NEW p \in Pollers, StartPoller(p)
      PROVE  BarrierInv'
  <2>1. PollerTo(p, "top", poller[p].slot, poller[p].stop) /\ poller[p].stop \in BOOLEAN
    BY <1>1, <1>t, PollerMove, PollerType DEF StartPoller, PollerPcs
  <2> QED BY <1>1, <2>1, PollerMoves DEF StartPoller, PollerAt, HasSlot, PollerPcs
<1>2. ASSUME NEW p \in Pollers, CancelPoller(p)
      PROVE  BarrierInv'
  <2>1. PICK r \in PollerRec : r = poller[p]
    BY <1>t, PollerType
  <2>2. \A b \in BOOLEAN : [r EXCEPT !.stop = b] = [pc |-> r.pc, slot |-> r.slot, stop |-> b]
    BY <2>1 DEF PollerRec
  <2>3. poller' = [poller EXCEPT ![p] = [pc |-> r.pc, slot |-> r.slot, stop |-> TRUE]]
    BY <1>2, <2>1, <2>2, Zenon DEF CancelPoller
  <2>4. r.pc \in PollerPcs /\ r.slot \in Slots \cup {None}
    BY DEF PollerRec
  <2>5. PollerTo(p, poller[p].pc, poller[p].slot, TRUE)
    BY <1>t, <2>1, <2>3, <2>4, PollerSet
  <2> QED BY <1>2, <2>1, <2>4, <2>5, PollerMoves DEF CancelPoller
<1>3. ASSUME NEW p \in Pollers, PollerStep(p)
      PROVE  BarrierInv'
  BY <1>3, PollerStepKeeps
<1>4. ASSUME NEW t \in Tasks, HandleTaskReturns(t) \/ TaskDefers(t)
      PROVE  BarrierInv'
  BY <1>4, HandleTaskReturnsKeeps, TaskInactiveKeeps, TaskExitsClaimKeeps DEF TaskDefers
<1>5. CASE UpdateMove \/ AutoBarrier \/ AutoFails
  BY <1>5, UpdateMoveKeeps, AutoBarrierKeeps, AutoFailsKeeps
<1>6. CASE LoopStep
  BY <1>6, LoopStepKeeps
<1>7. CASE UNCHANGED barrierVars
  BY <1>7
  DEF barrierVars, updateVars, BarrierInv, BarrierTypeOK, SlotsApart, SlotsHeld, SlotsOnce,
      SlotsSomewhere, CountersPaired, UpdateHeld, NothingInterrupted, NoAddBesideWait,
      Claiming, Alive, Working, PollerAt, TaskAt
<1> QED
  BY <1>1, <1>2, <1>3, <1>4, <1>5, <1>6, <1>7
  DEF BarrierNext, AutoStep, ManualStep, UpdateMove

-----------------------------------------------------------------------------
(* The inductive invariant: types, counters and slots are exact, and the   *)
(* flag updating says who may move the barrier.                            *)
THEOREM BarrierInvariant == BarrierSpec => []BarrierInv
<1>1. BarrierInit => BarrierInv
  BY BarrierInitially
<1>2. BarrierInv /\ [BarrierNext]_barrierVars => BarrierInv'
  BY BarrierStep
<1> QED BY <1>1, <1>2, PTL DEF BarrierSpec

(* Poller, task and update records keep their types, and the semaphore     *)
(* holds execution slots only.                                             *)
THEOREM BarrierTypeCorrect == BarrierSpec => []BarrierTypeOK
<1>1. BarrierInv => BarrierTypeOK
  BY DEF BarrierInv
<1> QED BY <1>1, BarrierInvariant, PTL

(* From the moment a self-update's barrier is up until it is released or   *)
(* the process ends, no claim is in flight and no task runs                *)
(* (trySetClaimBarrier and tryEnterClaim, under claimMu).                  *)
THEOREM SelfUpdateInterruptsNothing == BarrierSpec => []NothingInterrupted
<1>1. BarrierInv => NothingInterrupted
  BY DEF BarrierInv
<1> QED BY <1>1, BarrierInvariant, PTL

(* claimsInFlight and activeTasks are exact counts: every tryEnterClaim is *)
(* paired with one exitClaim, by the poller or by the task it became.      *)
THEOREM ClaimsCounted == BarrierSpec => []CountersPaired
<1>1. BarrierInv => CountersPaired
  BY DEF BarrierInv
<1> QED BY <1>1, BarrierInvariant, PTL

(* No execution slot is lost and none is held twice, on any path of a      *)
(* claim: refused, failed, empty, handed off, returned.                    *)
THEOREM NoSlotLost == BarrierSpec => []SlotsConserved
<1>1. BarrierInv => SlotsConserved
  <2> SUFFICES ASSUME BarrierInv, NEW s \in Slots
               PROVE  Cardinality(Holders(s)) = IF s \in free THEN 0 ELSE 1
    BY DEF SlotsConserved
  <2>0. SlotsHeld /\ SlotsOnce /\ SlotsSomewhere /\ s # None
    BY BarrierAssumption DEF BarrierInv, SlotsApart
  <2>1. CASE s \in free
    <3>1. Holders(s) = {}
      BY <2>0, <2>1 DEF Holders, SlotsHeld
    <3> QED BY <2>1, <3>1, FS_EmptySet
  <2>2. ASSUME NEW p \in Pollers, poller[p].slot = s
        PROVE  Cardinality(Holders(s)) = 1 /\ s \notin free
    <3>1. Holders(s) = {p}
      BY <2>0, <2>2 DEF Holders, SlotsOnce
    <3> QED BY <2>0, <2>2, <3>1, FS_Singleton DEF SlotsHeld
  <2>3. ASSUME NEW t \in Tasks, task[t].slot = s
        PROVE  Cardinality(Holders(s)) = 1 /\ s \notin free
    <3>1. Holders(s) = {t}
      BY <2>0, <2>3 DEF Holders, SlotsOnce
    <3> QED BY <2>0, <2>3, <3>1, FS_Singleton DEF SlotsHeld
  <2>4. CASE s \notin free
    BY <2>0, <2>2, <2>3, <2>4 DEF SlotsSomewhere
  <2> QED BY <2>1, <2>4
<1> QED BY <1>1, BarrierInvariant, PTL

(* taskWG.Add cannot run beside taskWG.Wait: once pollLoop waits for the   *)
(* tasks, every poller has ended and none is started.                      *)
THEOREM WaitWithoutAdd == BarrierSpec => []NoAddBesideWait
<1>1. BarrierInv => NoAddBesideWait
  BY DEF BarrierInv
<1> QED BY <1>1, BarrierInvariant, PTL

(* If a restart that is triggered takes place, tryAutoUpdate leaves the    *)
(* barrier up only when the process is about to end.  Without RestartWorks *)
(* this is false: triggerRestart returns early when os.Executable fails.   *)
THEOREM BarrierGivenBack == RestartWorks => (BarrierSpec => []BarrierReleased)
<1> SUFFICES ASSUME RestartWorks PROVE BarrierSpec => []BarrierReleased
  OBVIOUS
<1>1. BarrierInit => BarrierReleased
  BY DEF BarrierInit, BarrierReleased
<1>2. BarrierInv /\ BarrierReleased /\ [BarrierNext]_barrierVars => BarrierReleased'
  <2> SUFFICES ASSUME BarrierInv, BarrierReleased, [BarrierNext]_barrierVars
               PROVE  BarrierReleased'
    OBVIOUS
  <2>0. barrier \in [claims : Int, pause : BOOLEAN] /\ UpdateHeld
    BY DEF BarrierInv, BarrierTypeOK
  <2>1. ASSUME barrier'.pause = barrier.pause, UNCHANGED updateVars
        PROVE  BarrierReleased'
    BY <2>1 DEF BarrierReleased, updateVars
  <2>2. CASE \E p \in Pollers : StartPoller(p) \/ CancelPoller(p) \/ PollerStep(p)
    <3>1. UNCHANGED updateVars
      BY <2>2
      DEF StartPoller, CancelPoller, PollerStep, CheckContext, AcquireSlot, NoSlot, TryEnterClaim,
          ClaimRefused, ClaimReturnsTask, ClaimReturnsNone, ClaimEmpty, RuntimeGone, HandOff
    <3>2. barrier' = barrier \/ EnterClaim \/ ExitClaim
      BY <2>2
      DEF StartPoller, CancelPoller, PollerStep, CheckContext, AcquireSlot, NoSlot, TryEnterClaim,
          ClaimRefused, ClaimReturnsTask, ClaimReturnsNone, ClaimEmpty, RuntimeGone, HandOff
    <3>3. barrier'.pause = barrier.pause
      BY <2>0, <3>2 DEF EnterClaim, ExitClaim
    <3> QED BY <2>1, <3>1, <3>3
  <2>3. CASE \E t \in Tasks : HandleTaskReturns(t) \/ TaskDefers(t)
    <3>1. UNCHANGED updateVars /\ (barrier' = barrier \/ ExitClaim)
      BY <2>3 DEF HandleTaskReturns, TaskDefers, TaskInactive, TaskExitsClaim
    <3>2. barrier'.pause = barrier.pause
      BY <2>0, <3>1 DEF ExitClaim
    <3> QED BY <2>1, <3>1, <3>2
  <2>4. CASE UpdateMove
    <3>1. barrier' = barrier
      BY <2>4, UpdateMoveFrame
    <3> USE <2>0, <3>1 DEF UpdateHeld, BarrierReleased
    <3>2. CASE AutoCheck \/ AutoLock \/ AutoDefers \/ AutoUnlock
      BY <3>2 DEF AutoCheck, AutoLock, AutoDefers, AutoUnlock
    <3>3. CASE AutoRestarts
      BY <3>3 DEF AutoRestarts, TriggerRestart
    <3>4. CASE ManualLock \/ ManualEnds \/ ManualUnlock \/ Shutdown
      BY <3>4 DEF ManualLock, ManualEnds, ManualUnlock, Shutdown, TriggerRestart
    <3> QED BY <2>4, <3>2, <3>3, <3>4 DEF UpdateMove
  <2>5. CASE AutoBarrier
    BY <2>5 DEF AutoBarrier, BarrierReleased
  <2>6. CASE AutoFails
    BY <2>6 DEF AutoFails, BarrierReleased
  <2>7. CASE LoopStep \/ UNCHANGED barrierVars
    BY <2>1, <2>7 DEF LoopStep, LoopStops, PollersGone, LoopExits, barrierVars
  <2> QED
    BY <2>2, <2>3, <2>4, <2>5, <2>6, <2>7 DEF BarrierNext, AutoStep, ManualStep, UpdateMove
<1> QED BY <1>1, <1>2, BarrierInvariant, PTL DEF BarrierSpec

=============================================================================
