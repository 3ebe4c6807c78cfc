---------------------------- MODULE MCGdpContract ----------------------------
(* Model checking of GdpContract with small numbers: two points of a checklist, *)
(* a gram of two fractions, a second set of parameters without a reserve.      *)
EXTENDS GdpContract, TLC

MCParameters ==
    {[saleable |-> 2, reserve |-> 1, cap |-> 3], [saleable |-> 1, reserve |-> 0, cap |-> 2]}

Interchangeable == Permutations(Account) \cup Permutations(Checkpoint)
=============================================================================
