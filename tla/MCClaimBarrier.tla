---------------------------- MODULE MCClaimBarrier ----------------------------
(* Small instances of ClaimBarrier for TLC.                                *)
EXTENDS ClaimBarrier, TLC

=============================================================================
