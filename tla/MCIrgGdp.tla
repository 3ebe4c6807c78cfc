------------------------------- MODULE MCIrgGdp -------------------------------
(* The three parts of irg_gdp in one run: they share no row that their         *)
(* properties speak of, so one of them runs in each behaviour.                 *)
EXTENDS GdpMinting, GdpUnits, OrderBook, TLC
CONSTANTS a, b, m1, m2, jr, q1, q2
MCRecordUser == [r \in Record |-> a]
MCGrams == [r \in Record |-> IF r = m1 THEN 2 ELSE 1]
MCTotalUnits == [m \in Mint |-> 2]
Interchangeable == Permutations(Request)

VARIABLE part
Init == MintInit /\ UnitInit /\ BookInit /\ part \in {"minting", "units", "book"}
Next ==
    /\ UNCHANGED part
    /\ \/ part = "minting" /\ MintNext /\ UNCHANGED <<unitVars, bookVars>>
       \/ part = "units" /\ UnitNext /\ UNCHANGED <<mintVars, bookVars>>
       \/ part = "book" /\ BookNext /\ UNCHANGED <<mintVars, unitVars>>
Spec == Init /\ [][Next]_<<mintVars, unitVars, bookVars, part>>
=============================================================================
