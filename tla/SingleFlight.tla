----------------------------- MODULE SingleFlight -----------------------------
(***************************************************************************)
(* What the task queue promises about concurrent work, without attempts,   *)
(* runtimes, locks or deliveries: jobs are submitted to a lane (one agent  *)
(* on one issue), taken by at most one claim, never two of a lane at a     *)
(* time, and once done stay done.  Work in no lane is not ordered.         *)
(***************************************************************************)
CONSTANTS Jobs, Lanes, NoLane

VARIABLES phase, lane

vars == <<phase, lane>>

Init ==
  /\ phase = [j \in Jobs |-> "none"]
  /\ lane = [j \in Jobs |-> NoLane]

Submit(j, l) ==
  /\ phase[j] = "none"
  /\ phase' = [phase EXCEPT ![j] = "pending"]
  /\ lane' = [lane EXCEPT ![j] = l]

Take(j) ==
  /\ phase[j] = "pending"
  /\ lane[j] # NoLane => \A k \in Jobs : phase[k] = "owned" => lane[k] # lane[j]
  /\ phase' = [phase EXCEPT ![j] = "owned"]
  /\ UNCHANGED lane

(* Completed, failed, expired or cancelled, alone or in bulk.              *)
Finish(S) ==
  /\ \A j \in S : phase[j] \in {"pending", "owned"}
  /\ phase' = [j \in Jobs |-> IF j \in S THEN "done" ELSE phase[j]]
  /\ lane' = [j \in Jobs |-> IF j \in S THEN NoLane ELSE lane[j]]

Next ==
  \/ \E j \in Jobs, l \in Lanes \cup {NoLane} : Submit(j, l)
  \/ \E j \in Jobs : Take(j)
  \/ \E S \in SUBSET Jobs : Finish(S)

Spec == Init /\ [][Next]_vars

=============================================================================
