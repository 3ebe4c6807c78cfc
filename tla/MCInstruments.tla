---------------------------- MODULE MCInstruments -----------------------------
(* Jewellery rights, designs, certificates, disputes, the inactivity watchdog  *)
(* and the escrow reconciliation in one run: they share no row, so one of them *)
(* runs in each behaviour.                                                     *)
EXTENDS JewelleryRights, DesignBank, Certificates, Disputes, Inactivity, Reconciliation, TLC
CONSTANTS o1, o2
MCJewel == [i \in Issuance |-> i]
MCRoyalty == o1 :> 1 @@ o2 :> 2
Interchangeable == Permutations(Request) \cup Permutations(Run)

VARIABLE part
instrumentVars == <<jrVars, jdbVars, gicVars>>
jobVars == <<inactivityVars, reconciliationVars>>
Init == /\ JrInit /\ JdbInit /\ GicInit /\ DisputeInit /\ InactivityInit /\ ReconciliationInit
        /\ part \in {"rights", "designs", "certificates", "disputes", "inactivity", "reconciliation"}
Next ==
    /\ UNCHANGED part
    /\ \/ part = "rights" /\ JrNext /\ UNCHANGED <<jdbVars, gicVars, disputeVars, jobVars>>
       \/ part = "designs" /\ JdbNext /\ UNCHANGED <<jrVars, gicVars, disputeVars, jobVars>>
       \/ part = "certificates" /\ GicNext /\ UNCHANGED <<jrVars, jdbVars, disputeVars, jobVars>>
       \/ part = "disputes" /\ DisputeNext /\ UNCHANGED <<instrumentVars, jobVars>>
       \/ part = "inactivity" /\ InactivityNext /\ UNCHANGED <<instrumentVars, disputeVars, reconciliationVars>>
       \/ part = "reconciliation" /\ ReconciliationNext /\ UNCHANGED <<instrumentVars, disputeVars, inactivityVars>>
Spec == Init /\ [][Next]_<<instrumentVars, disputeVars, jobVars, part>>

\* The rows of the instruments, the disputes and the jobs have the fields of the models.
InstrumentsTypeOK ==
    JrTypeOK /\ JdbTypeOK /\ GicTypeOK /\ DisputeTypeOK /\ InactivityTypeOK /\ ReconciliationTypeOK
=============================================================================
