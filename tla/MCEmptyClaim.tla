----------------------------- MODULE MCEmptyClaim -----------------------------
(* Small instances of EmptyClaim for TLC.                                  *)
EXTENDS EmptyClaim, TLC

Symm == Permutations(Rows) \cup Permutations(Claims) \cup Permutations(Runtimes)

=============================================================================
