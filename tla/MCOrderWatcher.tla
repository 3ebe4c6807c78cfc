---------------------------- MODULE MCOrderWatcher ----------------------------
(* Model checking of OrderWatcher.  No symmetry: one run checks liveness, and  *)
(* the case an owner may ask to cancel is not like the other.                  *)
EXTENDS OrderWatcher, TLC
=============================================================================
