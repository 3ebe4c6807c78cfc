------------------------- MODULE MCWalletLifecycle -------------------------
(* Model checking of WalletLifecycle: rows of a kind are interchangeable.     *)
EXTENDS WalletLifecycle, TLC

Interchangeable ==
    Permutations(Device) \cup Permutations(Case) \cup Permutations(Transfer) \cup Permutations(Request)

\* Bound: two requests between their saves at the same time, or one beside a transfer.
TwoOrATransfer ==
    (\E t \in Transfer: transfers[t] # "NONE") => Cardinality({r \in Request: ~IsFree(r)}) <= 1
=============================================================================
