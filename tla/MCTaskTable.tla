----------------------------- MODULE MCTaskTable -----------------------------
(* Small instances of TaskTable for TLC.                                   *)
EXTENDS TaskTable, TLC

Symm == Permutations(TaskIds) \cup Permutations(Runtimes)

=============================================================================
