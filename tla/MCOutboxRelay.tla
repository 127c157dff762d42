----------------------------- MODULE MCOutboxRelay -----------------------------
(***************************************************************************)
(* Two replicas and up to three rows; see the .cfg files for the bounds.   *)
(***************************************************************************)
EXTENDS OutboxRelay, TLC

Symmetry == Permutations(Relays)
================================================================================
