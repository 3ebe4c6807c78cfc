----------------------------- MODULE MCDecisions ------------------------------
(* What several people decide, in one run: proposals, recalls, revisions of    *)
(* the budget and the transactions of the authority, an inflow that needs the  *)
(* board and a payment at the threshold of dual approval.  They share no row   *)
(* here, so one of them runs in each behaviour.                                *)
EXTENDS Governance, RuleChange, Recall, PaaTransactions, TLC
CONSTANTS q1, q2, c1, c2, b0, b1, b2, k1, k2, trustee, bank, irg_cf
MCNewBudget == c1 :> b1 @@ c2 :> b2
\* The users vote in all three parts, as operators of nodes and members of the board too.
Interchangeable == Permutations(Request) \cup Permutations(User) \cup Permutations(Unit)

Categories == {"roi_investment_proceeds", "trust_beneficiary_income"}
MCDetail ==
    k1 :> [type |-> "roi_credit", category |-> "roi_investment_proceeds", amount |-> 3] @@
    k2 :> [type |-> "payment", category |-> "trust_beneficiary_income", amount |-> 2]
MCRouting == [c \in Categories |-> irg_cf]
MCRequired == [c \in Categories |-> IF c = "trust_beneficiary_income" THEN {trustee}
                                    ELSE {trustee, bank}]
MCLimit == [c \in {"trust_beneficiary_income"} |-> 2]
MCThresholds == [dual |-> 2, board |-> 3, court |-> 4]

VARIABLE part
Init == /\ GovInit /\ ChangeInit /\ RecallInit /\ PaaInit
        /\ part \in {"governance", "rule_change", "recall", "transactions"}
Next ==
    /\ UNCHANGED part
    /\ \/ part = "governance" /\ GovNext /\ UNCHANGED <<changeVars, recallVars, paaVars>>
       \/ part = "rule_change" /\ ChangeNext /\ UNCHANGED <<govVars, recallVars, paaVars>>
       \/ part = "recall" /\ RecallNext /\ UNCHANGED <<govVars, changeVars, paaVars>>
       \/ part = "transactions" /\ PaaNext /\ UNCHANGED <<govVars, changeVars, recallVars>>
Spec == Init /\ [][Next]_<<govVars, changeVars, recallVars, paaVars, part>>

\* Two bounds on the rule changes: one change that is voted on, or two that only a
\* court approves.
VotedOrTwo ==
    \/ \E c \in Change: change[c] = Absent
    \/ \A c \in Change: change[c].votes = Unvoted
\* A recall names two things at most; one that names what is no unit is not voted on.
SmallRecall ==
    recall # Absent => /\ Cardinality(recall.targets) <= 2
                       /\ recall.targets \subseteq Unit \/ dac = Absent
=============================================================================
