---------------------------- MODULE MCChainSubmit ----------------------------
(* Model checking of ChainSubmit. *)
EXTENDS ChainSubmit, TLC
=============================================================================
