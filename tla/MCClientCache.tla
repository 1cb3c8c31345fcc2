---- MODULE MCClientCache ----
(* Small instances of ClientCache for TLC. *)
EXTENDS ClientCache
====
