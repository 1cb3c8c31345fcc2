----------------------------- MODULE MCTaskQueue -----------------------------
(* Small instances of TaskQueue for TLC.                                   *)
EXTENDS TaskQueue, TLC

(* Chat tasks only, which no index keeps apart.                            *)
ChatOnly == {l \in EnqueuedLinks : l.chat # None /\ l.issue = None}

(* Issue tasks only.                                                       *)
IssueOnly == {l \in EnqueuedLinks : l.chat = None /\ l.issue # None}

Symm == Permutations(TaskIds) \cup Permutations(Handlers) \cup Permutations(Agents)

=============================================================================
