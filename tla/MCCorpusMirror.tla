---------------------------- MODULE MCCorpusMirror ----------------------------
(* Model checking of CorpusMirror: two deposits, a settlement with a reference *)
(* and one without.  The deposits together exceed their budget; bonuses are    *)
(* budgeted with the limit 0.                                                  *)
EXTENDS CorpusMirror, TLC

CONSTANTS d1, d2, s1, s2, irg_cf

Categories == {"gdp_minting_cost", "trust_beneficiary_income"}

MCDetail ==
    [k \in Key |-> IF k \in Settlement
                   THEN [type |-> "payment", category |-> "trust_beneficiary_income", amount |-> 1]
                   ELSE [type |-> "collection", category |-> "gdp_minting_cost", amount |-> 1]]

MCRouting == [c \in Categories |-> irg_cf]
MCRequired == [c \in Categories |-> {}]
MCLimit == [c \in Categories |-> IF c = "trust_beneficiary_income" THEN 0 ELSE 1]
MCThresholds == [dual |-> 3, board |-> 4, court |-> 5]

Interchangeable == Permutations(Deposit) \cup Permutations(Actor) \cup Permutations(Request)
=============================================================================
