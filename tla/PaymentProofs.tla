---------------------------- MODULE PaymentProofs ----------------------------
(* Proofs about PaaTransactions and CorpusMirror, for any keys, amounts, people *)
(* and oracles, and for the second any number of requests that overlap.         *)
EXTENDS CorpusMirror, SetTheorems

(* What the approvals of one row allow: an approved row has one unused approval *)
(* for its next execution, and every execution so far has used one.            *)
Covered(k) ==
    /\ IsFiniteSet(tx[k].approvals)
    /\ tx[k].status = "none" => executed[k] = 0
    /\ tx[k].status = "approved" => executed[k] + Needed(k) <= Cardinality(tx[k].approvals)
    /\ executed[k] > 0 =>
          /\ executed[k] + Needed(k) <= Cardinality(tx[k].approvals) + 1
          /\ Required[Detail[k].category] \subseteq tx[k].confirmed

Cleared == PaaTypeOK /\ \A k \in Key: Covered(k)

-----------------------------------------------------------------------------
(* The rules engine *)

\* The approval level is always one of the four that the tables know.
LEMMA LevelKnown ==
    ASSUME NEW k \in Key
    PROVE  /\ Level(k) \in {"court", "board", "dual", "single"}
           /\ Needed(k) \in 1..3
           /\ InitialStatus(k) \in TxStatus \ {"none", "approved"}
<1>1. Level(k) \in {"court", "board", "dual", "single"}
  BY DEF Level, ApprovalLevel
<1>2. QED
  BY <1>1 DEF Needed, InitialStatus, TxStatus

\* What an execution moves is a whole number.
LEMMA DeltaInt == ASSUME NEW k \in Key PROVE Delta(k) \in Int
  BY PaaConstants DEF Delta, Category

-----------------------------------------------------------------------------
(* The approvals: the initial state *)

\* Empty tables satisfy the inductive invariant.
LEMMA ClearedAtFirst == PaaInit => Cleared
<1> SUFFICES ASSUME PaaInit PROVE Cleared
  OBVIOUS
<1>1. PaaTypeOK
  BY PaaConstants DEF PaaInit, PaaTypeOK, NoTx, TxStatus
<1>2. ASSUME NEW k \in Key PROVE Covered(k)
  <2>1. tx[k] = NoTx /\ executed[k] = 0
    BY DEF PaaInit
  <2>2. tx[k].approvals = {} /\ tx[k].status = "none"
    BY <2>1 DEF NoTx
  <2>3. QED
    BY <2>1, <2>2, FS_EmptySet DEF Covered
<1>3. QED
  BY <1>1, <1>2 DEF Cleared

-----------------------------------------------------------------------------
(* The approvals: the steps, by what they do to a row *)

\* A row that a step leaves alone stays covered.
LEMMA Untouched ==
    ASSUME NEW k \in Key, Covered(k), UNCHANGED <<tx[k], executed[k]>>
    PROVE  Covered(k)'
  BY DEF Covered, Needed, Level

\* A step that leaves the transactions alone preserves every row's cover.
LEMMA NoRowTouched ==
    ASSUME \A k \in Key: Covered(k), UNCHANGED <<tx, executed>>
    PROVE  (\A k \in Key: Covered(k))'
<1> SUFFICES ASSUME NEW k \in Key PROVE Covered(k)'
  OBVIOUS
<1> QED
  BY Untouched

\* A new row has no approval to spend.
LEMMA Created ==
    ASSUME Cleared, NEW k \in Key, NEW account \in Fund \cup {NoFund}, NEW vouched \in SUBSET Oracle,
           CreateTransaction(k, account, vouched)
    PROVE  Cleared'
<1> DEFINE routed == Routing[Detail[k].category]
           row == [status |-> InitialStatus(k), approvals |-> {},
                   confirmed |-> vouched \cap Required[Detail[k].category],
                   account |-> IF account # NoFund THEN account
                               ELSE IF funds[routed].exists THEN routed ELSE NoFund]
<1>1. tx' = [tx EXCEPT ![k] = row] /\ UNCHANGED <<funds, budget, executed, revision>>
  BY DEF CreateTransaction
<1>2. routed \in Fund
  BY PaaConstants DEF Category
<1>3. row \in [status: TxStatus, approvals: SUBSET Actor, confirmed: SUBSET Oracle,
               account: Fund \cup {NoFund}]
  BY <1>2, LevelKnown
<1>4. PaaTypeOK'
  BY <1>1, <1>3 DEF Cleared, PaaTypeOK
<1>5. ASSUME NEW j \in Key PROVE Covered(j)'
  <2>1. CASE j # k
    <3>1. UNCHANGED <<tx[j], executed[j]>>
      BY <1>1, <2>1 DEF Cleared, PaaTypeOK
    <3>2. QED
      BY <3>1, Untouched DEF Cleared
  <2>2. CASE j = k
    <3>1. tx[k].status = "none"
      BY DEF CreateTransaction, Valid, NoTx
    <3>2. executed[k] = 0 /\ executed'[k] = 0
      BY <1>1, <3>1 DEF Cleared, Covered
    <3>3. tx'[k] = row
      BY <1>1 DEF Cleared, PaaTypeOK
    <3>4. tx'[k].approvals = {} /\ tx'[k].status \notin {"none", "approved"}
      BY <3>3, LevelKnown
    <3>5. QED
      BY <2>2, <3>2, <3>4, FS_EmptySet DEF Covered
  <2>3. QED
    BY <2>1, <2>2
<1>6. QED
  BY <1>4, <1>5 DEF Cleared

\* An approval adds a person: one more execution is covered, or still none.
LEMMA Approved ==
    ASSUME Cleared, NEW k \in Key, NEW a \in Actor, ApproveTransaction(k, a)
    PROVE  Cleared'
<1> DEFINE approvals == tx[k].approvals \cup {a}
           enough == Cardinality(approvals) >= Needed(k)
           status == IF enough THEN "approved" ELSE tx[k].status
<1>1. /\ tx' = [tx EXCEPT ![k].approvals = approvals, ![k].status = status]
      /\ UNCHANGED <<funds, budget, executed, revision>>
  BY DEF ApproveTransaction
<1>2. PaaTypeOK'
  <2>1. tx[k] \in [status: TxStatus, approvals: SUBSET Actor, confirmed: SUBSET Oracle,
                  account: Fund \cup {NoFund}]
    BY DEF Cleared, PaaTypeOK
  <2>2. approvals \in SUBSET Actor /\ status \in TxStatus
    BY <2>1 DEF TxStatus
  <2>3. [tx[k] EXCEPT !.approvals = approvals, !.status = status]
           \in [status: TxStatus, approvals: SUBSET Actor, confirmed: SUBSET Oracle,
               account: Fund \cup {NoFund}]
    BY <2>1, <2>2
  <2>4. tx' = [tx EXCEPT ![k] = [tx[k] EXCEPT !.approvals = approvals, !.status = status]]
    BY <1>1 DEF Cleared, PaaTypeOK
  <2>5. QED
    BY <1>1, <2>3, <2>4 DEF Cleared, PaaTypeOK
<1>3. ASSUME NEW j \in Key PROVE Covered(j)'
  <2>1. CASE j # k
    <3>1. UNCHANGED <<tx[j], executed[j]>>
      BY <1>1, <2>1 DEF Cleared, PaaTypeOK
    <3>2. QED
      BY <3>1, Untouched DEF Cleared
  <2>2. CASE j = k
    <3>1. /\ tx'[k].approvals = approvals /\ tx'[k].status = status
          /\ tx'[k].confirmed = tx[k].confirmed /\ executed'[k] = executed[k]
      BY <1>1 DEF Cleared, PaaTypeOK
    <3>2. Covered(k)
      BY DEF Cleared
    <3>3. /\ IsFiniteSet(approvals)
          /\ Cardinality(approvals) = Cardinality(tx[k].approvals) + 1
      BY <3>2, FS_AddElement DEF Covered, ApproveTransaction
    <3>4. Cardinality(tx[k].approvals) \in Nat /\ executed[k] \in Nat /\ Needed(k) \in 1..3
      BY <3>2, FS_CardinalityType, LevelKnown DEF Cleared, PaaTypeOK, Covered
    <3>5. status = "none" => executed[k] = 0
      BY <3>2 DEF Covered
    <3>6. status = "approved" => executed[k] + Needed(k) <= Cardinality(approvals)
      BY <3>2, <3>3, <3>4 DEF Covered
    <3>7. executed[k] > 0 => executed[k] + Needed(k) <= Cardinality(approvals) + 1
      BY <3>2, <3>3, <3>4 DEF Covered
    <3>8. executed[k] > 0 => Required[Detail[k].category] \subseteq tx[k].confirmed
      BY <3>2 DEF Covered
    <3>9. Covered(k)'
      BY <3>1, <3>3, <3>5, <3>6, <3>7, <3>8 DEF Covered, Needed, Level
    <3>10. QED
      BY <2>2, <3>9
  <2>3. QED
    BY <2>1, <2>2
<1>4. QED
  BY <1>2, <1>3 DEF Cleared

\* An execution spends the approval that an approved row has over.
LEMMA Spent ==
    ASSUME Cleared, NEW k \in Key, ExecuteTransaction(k)
    PROVE  Cleared'
<1> DEFINE f == tx[k].account
           c == Detail[k].category
<1>1. /\ tx[k].status = "approved" /\ Required[c] \subseteq tx[k].confirmed
      /\ tx' = [tx EXCEPT ![k].status = "executed"]
      /\ executed' = [executed EXCEPT ![k] = executed[k] + 1]
      /\ UNCHANGED revision
  BY DEF ExecuteTransaction
<1>2. PaaTypeOK'
  <2>1. funds' \in [Fund -> [exists: BOOLEAN, balance: Int]]
    BY DeltaInt DEF ExecuteTransaction, Cleared, PaaTypeOK
  <2>2. budget' \in [active: BOOLEAN, used: [DOMAIN Limit -> Nat]]
    <3>1. Detail[k].amount \in Nat
      BY PaaConstants
    <3>2. CASE budget.active /\ c \in DOMAIN Limit
      <4>1. budget' = [budget EXCEPT !.used[c] = budget.used[c] + Detail[k].amount]
        BY <3>2 DEF ExecuteTransaction
      <4>2. budget.used[c] + Detail[k].amount \in Nat
        BY <3>1, <3>2 DEF Cleared, PaaTypeOK
      <4>3. QED
        BY <4>1, <4>2 DEF Cleared, PaaTypeOK
    <3>3. CASE ~(budget.active /\ c \in DOMAIN Limit)
      <4>1. budget' = budget
        BY <3>3 DEF ExecuteTransaction
      <4>2. QED
        BY <4>1 DEF Cleared, PaaTypeOK
    <3>4. QED
      BY <3>2, <3>3
  <2>3. tx' \in [Key -> [status: TxStatus, approvals: SUBSET Actor, confirmed: SUBSET Oracle,
                        account: Fund \cup {NoFund}]]
    <3>1. tx \in [Key -> [status: TxStatus, approvals: SUBSET Actor, confirmed: SUBSET Oracle,
                          account: Fund \cup {NoFund}]]
      BY DEF Cleared, PaaTypeOK
    <3>2. "executed" \in TxStatus
      BY DEF TxStatus
    <3>3. QED
      BY <1>1, <3>1, <3>2
  <2>4. executed' \in [Key -> Nat]
    BY <1>1 DEF Cleared, PaaTypeOK
  <2>5. QED
    BY <1>1, <2>1, <2>2, <2>3, <2>4 DEF Cleared, PaaTypeOK
<1>3. ASSUME NEW j \in Key PROVE Covered(j)'
  <2>1. CASE j # k
    <3>1. UNCHANGED <<tx[j], executed[j]>>
      BY <1>1, <2>1 DEF Cleared, PaaTypeOK
    <3>2. QED
      BY <3>1, Untouched DEF Cleared
  <2>2. CASE j = k
    <3>1. /\ tx'[k].approvals = tx[k].approvals /\ tx'[k].status = "executed"
          /\ tx'[k].confirmed = tx[k].confirmed /\ executed'[k] = executed[k] + 1
      BY <1>1 DEF Cleared, PaaTypeOK
    <3>2. Covered(k)
      BY DEF Cleared
    <3>3. Cardinality(tx[k].approvals) \in Nat /\ executed[k] \in Nat /\ Needed(k) \in 1..3
      BY <3>2, FS_CardinalityType, LevelKnown DEF Cleared, PaaTypeOK, Covered
    <3>4. executed[k] + 1 + Needed(k) <= Cardinality(tx[k].approvals) + 1
      BY <1>1, <3>2, <3>3 DEF Covered
    <3>5. IsFiniteSet(tx[k].approvals)
      BY <3>2 DEF Covered
    <3>6. Covered(k)'
      BY <1>1, <3>1, <3>4, <3>5 DEF Covered, Needed, Level
    <3>7. QED
      BY <2>2, <3>6
  <2>3. QED
    BY <2>1, <2>2
<1>4. QED
  BY <1>2, <1>3 DEF Cleared

\* Cancelling and confirming change neither the approvals nor the executions,
\* lead to no approved row and take no confirmation back.
LEMMA Marked ==
    ASSUME Cleared, NEW k \in Key,
           CancelTransaction(k) \/ \E oracle \in Oracle: RecordOracleConfirmation(k, oracle)
    PROVE  Cleared'
<1>1. UNCHANGED <<funds, budget, executed, revision>>
  BY DEF CancelTransaction, RecordOracleConfirmation
<1>2. PaaTypeOK' /\ \A j \in Key:
         /\ tx'[j].approvals = tx[j].approvals
         /\ tx'[j].status \in {tx[j].status, "cancelled"}
         /\ tx[j].confirmed \subseteq tx'[j].confirmed
  <2>1. CASE CancelTransaction(k)
    <3>1. tx' = [tx EXCEPT ![k].status = "cancelled"]
      BY <2>1 DEF CancelTransaction
    <3>2. QED
      BY <1>1, <3>1 DEF Cleared, PaaTypeOK, TxStatus
  <2>2. CASE \E oracle \in Oracle: RecordOracleConfirmation(k, oracle)
    <3>1. PICK oracle \in Oracle: RecordOracleConfirmation(k, oracle)
      BY <2>2
    <3>2. tx' = [tx EXCEPT ![k].confirmed = tx[k].confirmed \cup {oracle}]
      BY <3>1 DEF RecordOracleConfirmation
    <3>3. QED
      BY <1>1, <3>2 DEF Cleared, PaaTypeOK
  <2>3. QED
    BY <2>1, <2>2
<1>3. PaaTypeOK'
  BY <1>2
<1>4. ASSUME NEW j \in Key PROVE Covered(j)'
  BY <1>1, <1>2 DEF Cleared, Covered, Needed, Level
<1>5. QED
  BY <1>3, <1>4 DEF Cleared

\* Creating a fund and replacing the budget touch no transaction.
LEMMA Aside ==
    ASSUME Cleared,
           \/ \E f \in Fund, opening \in Int: CreateCorpusFund(f, opening)
           \/ DeactivateBudgets \/ ActivateNewBudget
    PROVE  Cleared'
<1>1. UNCHANGED <<tx, executed>>
  BY DEF CreateCorpusFund, DeactivateBudgets, ActivateNewBudget
<1>2. PaaTypeOK'
  <2>1. CASE \E f \in Fund, opening \in Int: CreateCorpusFund(f, opening)
    BY <2>1 DEF CreateCorpusFund, Cleared, PaaTypeOK
  <2>2. CASE DeactivateBudgets
    <3>1. /\ revision.done < MaxRevision
          /\ revision' = [pc |-> "flipped", done |-> revision.done + 1]
          /\ budget' = [budget EXCEPT !.active = FALSE]
          /\ UNCHANGED <<tx, funds, executed>>
      BY <2>2 DEF DeactivateBudgets
    <3>2. MaxRevision \in Nat
      BY PaaConstants
    <3>3. revision.done \in 0..MaxRevision
      BY DEF Cleared, PaaTypeOK
    <3>4. revision.done + 1 \in 0..MaxRevision
      BY <3>1, <3>2, <3>3
    <3>5. revision' \in [pc: {"idle", "flipped"}, done: 0..MaxRevision]
      BY <3>1, <3>4
    <3>6. QED
      BY <3>1, <3>5 DEF Cleared, PaaTypeOK
  <2>3. CASE ActivateNewBudget
    <3>1. budget' = budget \/ budget' = [active |-> TRUE, used |-> [c \in DOMAIN Limit |-> 0]]
      BY <2>3 DEF ActivateNewBudget
    <3>2. budget' \in [active: BOOLEAN, used: [DOMAIN Limit -> Nat]]
      <4>1. [c \in DOMAIN Limit |-> 0] \in [DOMAIN Limit -> Nat]
        OBVIOUS
      <4>2. CASE budget' = budget
        BY <4>2 DEF Cleared, PaaTypeOK
      <4>3. CASE budget' = [active |-> TRUE, used |-> [c \in DOMAIN Limit |-> 0]]
        <5> DEFINE empty == [c \in DOMAIN Limit |-> 0]
        <5>1. empty \in [DOMAIN Limit -> Nat] /\ budget' = [active |-> TRUE, used |-> empty]
          BY <4>1, <4>3
        <5> HIDE DEF empty
        <5>2. QED
          BY <5>1
      <4>4. QED
        BY <3>1, <4>2, <4>3
    <3>3. revision' = [revision EXCEPT !.pc = "idle"] /\ UNCHANGED <<tx, funds, executed>>
      BY <2>3 DEF ActivateNewBudget
    <3>4. QED
      BY <3>2, <3>3 DEF Cleared, PaaTypeOK
  <2>4. QED
    BY <2>1, <2>2, <2>3
<1>3. QED
  BY <1>1, <1>2, NoRowTouched DEF Cleared

-----------------------------------------------------------------------------
(* All steps of the authority, whoever calls it: a fund may be created with any *)
(* balance its creator states.                                                  *)

AuthorityNext ==
    \/ Proceed
    \/ \E k \in Key, account \in Fund \cup {NoFund}, vouched \in SUBSET Oracle:
          CreateTransaction(k, account, vouched)
    \/ \E f \in Fund, opening \in Int: CreateCorpusFund(f, opening)

\* Every handler preserves what the approvals allow.
LEMMA ClearedStays == Cleared /\ [AuthorityNext]_paaVars => Cleared'
<1> SUFFICES ASSUME Cleared, [AuthorityNext]_paaVars PROVE Cleared'
  OBVIOUS
<1>1. CASE \E k \in Key, account \in Fund \cup {NoFund}, vouched \in SUBSET Oracle:
             CreateTransaction(k, account, vouched)
  BY <1>1, Created
<1>2. CASE Proceed
  <2>1. CASE \E k \in Key: ExecuteTransaction(k)
    BY <2>1, Spent
  <2>2. CASE \E k \in Key, a \in Actor: ApproveTransaction(k, a)
    BY <2>2, Approved
  <2>3. CASE \E k \in Key: \/ CancelTransaction(k)
                          \/ \E oracle \in Oracle: RecordOracleConfirmation(k, oracle)
    BY <2>3, Marked
  <2>4. CASE DeactivateBudgets \/ ActivateNewBudget
    BY <2>4, Aside
  <2>5. QED
    BY <1>2, <2>1, <2>2, <2>3, <2>4 DEF Proceed
<1>3. CASE \E f \in Fund, opening \in Int: CreateCorpusFund(f, opening)
  BY <1>3, Aside
<1>4. CASE UNCHANGED paaVars
  <2>1. PaaTypeOK'
    BY <1>4 DEF paaVars, Cleared, PaaTypeOK
  <2>2. QED
    BY <1>4, <2>1, NoRowTouched DEF paaVars, Cleared
<1>5. QED
  BY <1>1, <1>2, <1>3, <1>4 DEF AuthorityNext

-----------------------------------------------------------------------------
(* The budget *)

\* A replacement of the budget that is half done has been counted as one.
Counted == BudgetCounts /\ (revision.pc = "flipped" => revision.done > 0)

InCategory(c) == {k \in Key: Detail[k].category = c}
Executed == [k \in Key |-> executed[k] * Detail[k].amount]

\* What was executed is a number, key by key.
LEMMA ExecutedNat ==
    ASSUME PaaTypeOK
    PROVE  Executed \in [Key -> Nat] /\ \A c: IsFiniteSet(InCategory(c)) /\ InCategory(c) \subseteq Key
<1>1. ASSUME NEW k \in Key PROVE executed[k] * Detail[k].amount \in Nat
  BY PaaConstants DEF PaaTypeOK
<1>2. ASSUME NEW c PROVE IsFiniteSet(InCategory(c)) /\ InCategory(c) \subseteq Key
  BY FS_Subset, PaaConstants DEF InCategory
<1>3. QED
  BY <1>1, <1>2 DEF Executed

\* At the start nothing is executed, and nothing is used up.
LEMMA CountedAtFirst == PaaInit => Counted
<1> SUFFICES ASSUME PaaInit PROVE Counted
  OBVIOUS
<1>1. PaaTypeOK
  BY ClearedAtFirst DEF Cleared
<1>2. ASSUME NEW c \in DOMAIN Limit PROVE budget.used[c] = SumFunctionOnSet(Executed, InCategory(c))
  <2>1. \A k \in InCategory(c): Executed[k] = 0
    <3>1. ASSUME NEW k \in Key PROVE 0 * Detail[k].amount = 0
      BY PaaConstants
    <3>2. QED
      BY <3>1 DEF PaaInit, Executed, InCategory
  <2>2. IsFiniteSet(InCategory(c))
    BY <1>1, ExecutedNat
  <2>3. SumFunctionOnSet(Executed, InCategory(c)) = 0
    BY <2>1, <2>2, SumOfZeros
  <2>4. QED
    BY <2>3 DEF PaaInit
<1>3. BudgetCounts
  BY <1>2 DEF BudgetCounts, Executed, InCategory
<1>4. QED
  BY <1>3 DEF PaaInit, Counted

\* An execution adds its amount on both sides, in its category only.
LEMMA CountsExecution ==
    ASSUME PaaTypeOK, PaaTypeOK', Counted, NEW k \in Key, ExecuteTransaction(k)
    PROVE  Counted'
<1> DEFINE c == Detail[k].category
           amount == Detail[k].amount
<1>1. /\ executed' = [executed EXCEPT ![k] = executed[k] + 1]
      /\ revision' = revision
      /\ budget' = IF budget.active /\ c \in DOMAIN Limit
                   THEN [budget EXCEPT !.used[c] = budget.used[c] + amount] ELSE budget
  BY DEF ExecuteTransaction
<1>2. SUFFICES ASSUME budget'.active, revision'.done = 0, NEW d \in DOMAIN Limit
               PROVE  budget'.used[d] = SumFunctionOnSet(Executed', InCategory(d))
  BY <1>1 DEF Counted, BudgetCounts, Executed, InCategory
<1>3. budget.active /\ revision.done = 0
  BY <1>1, <1>2 DEF PaaTypeOK
<1>4. budget.used[d] = SumFunctionOnSet(Executed, InCategory(d))
  BY <1>3 DEF Counted, BudgetCounts, Executed, InCategory
<1>5. /\ Executed \in [Key -> Nat] /\ Executed' \in [Key -> Nat]
      /\ IsFiniteSet(InCategory(d)) /\ InCategory(d) \subseteq Key
  <2>1. Executed' \in [Key -> Nat]
    <3>1. ASSUME NEW j \in Key PROVE executed'[j] * Detail[j].amount \in Nat
      BY PaaConstants DEF PaaTypeOK
    <3>2. QED
      BY <3>1 DEF Executed
  <2>2. QED
    BY <2>1, ExecutedNat
<1>6. Executed'[k] = Executed[k] + amount /\ \A j \in Key \ {k}: Executed'[j] = Executed[j]
  <2>1. executed[k] \in Nat /\ amount \in Nat
    BY PaaConstants DEF PaaTypeOK
  <2>2. (executed[k] + 1) * amount = executed[k] * amount + amount
    BY <2>1
  <2>3. executed'[k] = executed[k] + 1 /\ \A j \in Key \ {k}: executed'[j] = executed[j]
    BY <1>1 DEF PaaTypeOK
  <2>4. Executed'[k] = executed'[k] * amount /\ Executed[k] = executed[k] * amount
    BY DEF Executed
  <2>5. \A j \in Key \ {k}: Executed'[j] = Executed[j]
    BY <2>3 DEF Executed
  <2>6. QED
    BY <2>2, <2>3, <2>4, <2>5
<1>7. CASE d = c
  <2>1. k \in InCategory(d)
    BY <1>7 DEF InCategory
  <2>2. SumFunctionOnSet(Executed', InCategory(d))
           = SumFunctionOnSet(Executed, InCategory(d)) - Executed[k] + Executed'[k]
    <3>1. \A j \in InCategory(d): Executed[j] \in Int /\ Executed'[j] \in Int
      BY <1>5
    <3>2. \A j \in InCategory(d) \ {k}: Executed'[j] = Executed[j]
      BY <1>5, <1>6
    <3> HIDE DEF InCategory, Executed
    <3>3. QED
      BY <1>5, <2>1, <3>1, <3>2, SumUpdate
  <2>3. budget'.used[d] = budget.used[d] + amount
    BY <1>1, <1>3, <1>7 DEF PaaTypeOK
  <2>4. budget.used[d] \in Nat /\ amount \in Nat /\ Executed[k] \in Nat
    BY <1>5, PaaConstants DEF PaaTypeOK
  <2> HIDE DEF amount
  <2>5. QED
    BY <1>4, <1>6, <2>2, <2>3, <2>4
<1>8. CASE d # c
  <2>1. SumFunctionOnSet(Executed, InCategory(d)) = SumFunctionOnSet(Executed', InCategory(d))
    <3>1. \A j \in InCategory(d): Executed[j] = Executed'[j]
      BY <1>5, <1>6, <1>8 DEF InCategory
    <3>2. QED
      BY <1>5, <3>1, SumSame
  <2>2. budget'.used[d] = budget.used[d]
    BY <1>1, <1>8 DEF PaaTypeOK
  <2>3. QED
    BY <1>4, <2>1, <2>2
<1>9. QED
  BY <1>7, <1>8

\* No other handler executes anything or changes a budget that still counts.
LEMMA CountedStays ==
    PaaTypeOK /\ PaaTypeOK' /\ Counted /\ [AuthorityNext]_paaVars => Counted'
<1> SUFFICES ASSUME PaaTypeOK, PaaTypeOK', Counted, [AuthorityNext]_paaVars PROVE Counted'
  OBVIOUS
<1>1. CASE \E k \in Key: ExecuteTransaction(k)
  BY <1>1, CountsExecution
<1>2. CASE UNCHANGED <<budget, executed, revision>>
  BY <1>2 DEF Counted, BudgetCounts
<1>3. CASE DeactivateBudgets
  <2>1. revision' = [pc |-> "flipped", done |-> revision.done + 1] /\ revision.done \in Nat
    BY <1>3, PaaConstants DEF DeactivateBudgets, PaaTypeOK
  <2>2. QED
    BY <2>1 DEF Counted, BudgetCounts
<1>4. CASE ActivateNewBudget
  <2>1. revision.pc = "flipped" /\ revision' = [revision EXCEPT !.pc = "idle"]
    BY <1>4 DEF ActivateNewBudget
  <2>2. revision'.done > 0 /\ revision'.pc = "idle"
    BY <2>1 DEF Counted, PaaTypeOK
  <2>3. QED
    BY <2>2, <2>1 DEF Counted, BudgetCounts, PaaTypeOK
<1>5. QED
  BY <1>1, <1>2, <1>3, <1>4
     DEF AuthorityNext, Proceed, paaVars, CreateTransaction, CancelTransaction,
         ApproveTransaction, RecordOracleConfirmation, CreateCorpusFund

-----------------------------------------------------------------------------
(* The theorems about the authority *)

PaaIInv == Cleared /\ Counted

LEMMA PaaInitially == PaaInit => PaaIInv
  BY ClearedAtFirst, CountedAtFirst DEF PaaIInv

LEMMA PaaPreserved == PaaIInv /\ [AuthorityNext]_paaVars => PaaIInv'
  BY ClearedStays, CountedStays DEF PaaIInv, Cleared

\* Callers of the API are among the callers AuthorityNext allows.
LEMMA CallersAllowed == PaaNext => AuthorityNext
<1>1. 0 \in Int
  OBVIOUS
<1>2. QED
  BY <1>1 DEF PaaNext, AuthorityNext

\* The inductive invariant holds in every state of the authority.
THEOREM PaaInductive == PaaSpec => []PaaIInv
<1>1. PaaIInv /\ [PaaNext]_paaVars => PaaIInv'
  BY PaaPreserved, CallersAllowed
<1>2. QED
  BY <1>1, PaaInitially, PTL DEF PaaSpec

\* Every row keeps its shape, whatever is called in whatever order.
THEOREM PaaTypeCorrect == PaaSpec => []PaaTypeOK
<1>1. PaaIInv => PaaTypeOK
  BY DEF PaaIInv, Cleared
<1>2. QED
  BY <1>1, PaaInductive, PTL

\* However a transaction is approved, cancelled, revived and executed again, every
\* execution has an approval of its own and all the oracles the category requires.
THEOREM ExecutionsCleared == PaaSpec => []ExecutionsAreCleared
<1>1. PaaIInv => ExecutionsAreCleared
  BY DEF PaaIInv, Cleared, Covered, ExecutionsAreCleared
<1>2. QED
  BY <1>1, PaaInductive, PTL

\* Until its first replacement the active budget shows, category by category, the
\* sum of what the audit log says was executed, revived transactions included.
THEOREM BudgetCounted == PaaSpec => []BudgetCounts
<1>1. PaaIInv => BudgetCounts
  BY DEF PaaIInv, Counted
<1>2. QED
  BY <1>1, PaaInductive, PTL
-----------------------------------------------------------------------------
(* The authority implements ClearedLedger *)

Requested == {k \in Key: tx[k].status # "none"}
Spoken == {k \in Key: tx[k].status # "none" /\ Required[Detail[k].category] \subseteq tx[k].confirmed}
Accounts == [k \in Key |-> tx[k].account]
Approvals == [k \in Key |-> tx[k].approvals]
Opened == {f \in Fund: funds[f].exists}
Balances == [f \in Fund |-> funds[f].balance]

TxRow == [status: TxStatus, approvals: SUBSET Actor, confirmed: SUBSET Oracle, account: Fund \cup {NoFund}]

\* Saving one row moves the ledger at its key only, and there by what the row changes.
LEMMA RowOnLedger ==
    ASSUME PaaTypeOK, NEW k \in Key, NEW row, tx' = [tx EXCEPT ![k] = row], row.status # "none"
    PROVE  /\ Requested' = Requested \cup {k}
           /\ Accounts' = [Accounts EXCEPT ![k] = row.account]
           /\ Approvals' = [Approvals EXCEPT ![k] = row.approvals]
           /\ Required[Detail[k].category] \subseteq row.confirmed => Spoken' = Spoken \cup {k}
           /\ ~ (Required[Detail[k].category] \subseteq row.confirmed) => Spoken' = Spoken \ {k}
           /\ row.account = tx[k].account => Accounts' = Accounts
           /\ row.approvals = tx[k].approvals => Approvals' = Approvals
<1>1. \A j \in Key: tx'[j] = IF j = k THEN row ELSE tx[j]
  BY DEF PaaTypeOK
<1>2. Requested' = Requested \cup {k}
  BY <1>1 DEF Requested
<1>3. Accounts' = [Accounts EXCEPT ![k] = row.account]
  <2>1. PICK a: a = row.account
    OBVIOUS
  <2>2. \A j \in Key: tx'[j].account = IF j = k THEN a ELSE tx[j].account
    BY <1>1, <2>1
  <2>3. Accounts' = [Accounts EXCEPT ![k] = a]
    BY <2>2 DEF Accounts
  <2>4. QED
    BY <2>1, <2>3
<1>4. Approvals' = [Approvals EXCEPT ![k] = row.approvals]
  <2>1. PICK s: s = row.approvals
    OBVIOUS
  <2>2. \A j \in Key: tx'[j].approvals = IF j = k THEN s ELSE tx[j].approvals
    BY <1>1, <2>1
  <2>3. Approvals' = [Approvals EXCEPT ![k] = s]
    BY <2>2 DEF Approvals
  <2>4. QED
    BY <2>1, <2>3
<1>5. Required[Detail[k].category] \subseteq row.confirmed => Spoken' = Spoken \cup {k}
  BY <1>1 DEF Spoken
<1>6. ~ (Required[Detail[k].category] \subseteq row.confirmed) => Spoken' = Spoken \ {k}
  BY <1>1 DEF Spoken
<1>7. row.account = tx[k].account => Accounts' = Accounts
  BY <1>1 DEF Accounts
<1>8. row.approvals = tx[k].approvals => Approvals' = Approvals
  BY <1>1 DEF Approvals
<1>9. QED
  BY <1>2, <1>3, <1>4, <1>5, <1>6, <1>7, <1>8

\* A step that leaves the funds leaves their side of the ledger.
LEMMA FundsOnLedger == UNCHANGED funds => Opened' = Opened /\ Balances' = Balances
  BY DEF Opened, Balances

\* A new row is a request: its status is not that of a missing one, and the account it
\* is created with is its account.
LEMMA CreatesOnLedger ==
    ASSUME PaaTypeOK, NEW k \in Key, NEW account \in Fund \cup {NoFund}, NEW vouched \in SUBSET Oracle,
           CreateTransaction(k, account, vouched)
    PROVE  \E f \in Fund \cup {NoFund}: Ledger!Register(k, f)
<1> DEFINE routed == Routing[Detail[k].category]
           f == IF account # NoFund THEN account ELSE IF funds[routed].exists THEN routed ELSE NoFund
           row == [status |-> InitialStatus(k), approvals |-> {},
                   confirmed |-> vouched \cap Required[Detail[k].category], account |-> f]
<1>1. tx' = [tx EXCEPT ![k] = row] /\ UNCHANGED <<funds, executed>> /\ tx[k] = NoTx
  BY DEF CreateTransaction, Valid
<1>2. PICK g \in Fund \cup {NoFund}: g = f
  BY PaaConstants DEF Category
<1>3. row.status # "none" /\ row.approvals = {} /\ row.account = g
  BY <1>2, LevelKnown
<1>4. k \notin Requested /\ k \notin Spoken /\ tx[k].approvals = {}
  BY <1>1 DEF NoTx, Requested, Spoken
<1> HIDE DEF f, row
<1>5. /\ Requested' = Requested \cup {k} /\ Accounts' = [Accounts EXCEPT ![k] = g]
      /\ Approvals' = Approvals /\ Spoken' \in {Spoken, Spoken \cup {k}}
  <2>1. /\ Requested' = Requested \cup {k} /\ Accounts' = [Accounts EXCEPT ![k] = row.account]
        /\ row.approvals = tx[k].approvals => Approvals' = Approvals
        /\ Spoken' = Spoken \cup {k} \/ Spoken' = Spoken \ {k}
    BY <1>1, <1>3, RowOnLedger
  <2>2. Spoken \ {k} = Spoken
    BY <1>4
  <2>3. QED
    BY <1>3, <1>4, <2>1, <2>2
<1>6. Opened' = Opened /\ Balances' = Balances
  BY <1>1, FundsOnLedger
<1>7. Ledger!Register(k, g)
  BY <1>1, <1>4, <1>5, <1>6 DEF Ledger!Register, Requested, Accounts, Approvals, Spoken, Opened, Balances
<1>8. QED
  BY <1>7

\* An approval is one on the ledger, whatever it does to the status.
LEMMA ApprovesOnLedger ==
    ASSUME PaaTypeOK, NEW k \in Key, NEW a \in Actor, ApproveTransaction(k, a)
    PROVE  Ledger!Approve(k, a)
<1> DEFINE approvals == tx[k].approvals \cup {a}
           status == IF Cardinality(approvals) >= Needed(k) THEN "approved" ELSE tx[k].status
           row == [tx[k] EXCEPT !.approvals = approvals, !.status = status]
<1>1. tx[k] \in TxRow
  BY DEF PaaTypeOK, TxRow
<1>2. /\ tx' = [tx EXCEPT ![k].approvals = approvals, ![k].status = status]
      /\ tx[k].status # "none" /\ a \notin tx[k].approvals /\ UNCHANGED <<funds, executed>>
  BY DEF ApproveTransaction
<1> HIDE DEF approvals
<1>3. status # "none"
  BY <1>2
<1> HIDE DEF status
<1>4. /\ row.status # "none" /\ row.approvals = approvals /\ row.account = tx[k].account
      /\ row.confirmed = tx[k].confirmed
  BY <1>1, <1>3 DEF TxRow
<1>5. tx' = [tx EXCEPT ![k] = row]
  BY <1>2 DEF PaaTypeOK
<1> HIDE DEF row
<1>6. /\ Requested' = Requested \cup {k} /\ Accounts' = Accounts
      /\ Approvals' = [Approvals EXCEPT ![k] = approvals]
      /\ Required[Detail[k].category] \subseteq tx[k].confirmed => Spoken' = Spoken \cup {k}
      /\ ~ (Required[Detail[k].category] \subseteq tx[k].confirmed) => Spoken' = Spoken \ {k}
  BY <1>4, <1>5, RowOnLedger
<1>7. k \in Requested /\ (k \in Spoken <=> Required[Detail[k].category] \subseteq tx[k].confirmed)
  BY <1>2 DEF Requested, Spoken
<1>8. Requested' = Requested /\ Spoken' = Spoken
  BY <1>6, <1>7
<1>9. Approvals[k] = tx[k].approvals
  BY DEF Approvals
<1>10. Approvals' = [Approvals EXCEPT ![k] = Approvals[k] \cup {a}] /\ a \notin Approvals[k]
  BY <1>2, <1>6, <1>9 DEF approvals
<1>11. Opened' = Opened /\ Balances' = Balances
  BY <1>2, FundsOnLedger
<1>12. QED
  BY <1>2, <1>6, <1>7, <1>8, <1>10, <1>11
     DEF Ledger!Approve, Requested, Accounts, Approvals, Spoken, Opened, Balances

\* A cancellation is nothing to the ledger; a confirmation is, if it was the last.
LEMMA MarksOnLedger ==
    ASSUME PaaTypeOK, NEW k \in Key,
           CancelTransaction(k) \/ \E oracle \in Oracle: RecordOracleConfirmation(k, oracle)
    PROVE  Ledger!Speak(k) \/ UNCHANGED Ledger!vars
<1>1. PICK row: /\ tx' = [tx EXCEPT ![k] = row] /\ row.status # "none"
                /\ row.approvals = tx[k].approvals /\ row.account = tx[k].account
                /\ tx[k].confirmed \subseteq row.confirmed
  <2>1. tx[k] \in TxRow
    BY DEF PaaTypeOK, TxRow
  <2>2. CASE CancelTransaction(k)
    <3> DEFINE row == [tx[k] EXCEPT !.status = "cancelled"]
    <3>1. tx' = [tx EXCEPT ![k] = row]
      BY <2>2 DEF CancelTransaction, PaaTypeOK
    <3>2. /\ row.status # "none" /\ row.approvals = tx[k].approvals /\ row.account = tx[k].account
          /\ tx[k].confirmed \subseteq row.confirmed
      BY <2>1 DEF TxRow
    <3> HIDE DEF row
    <3>3. QED
      BY <3>1, <3>2
  <2>3. ASSUME NEW oracle \in Oracle, RecordOracleConfirmation(k, oracle)
        PROVE  \E row: /\ tx' = [tx EXCEPT ![k] = row] /\ row.status # "none"
                       /\ row.approvals = tx[k].approvals /\ row.account = tx[k].account
                       /\ tx[k].confirmed \subseteq row.confirmed
    <3> DEFINE confirmed == tx[k].confirmed \cup {oracle}
               row == [tx[k] EXCEPT !.confirmed = confirmed]
    <3>1. tx' = [tx EXCEPT ![k] = row] /\ tx[k].status # "none"
      BY <2>3 DEF RecordOracleConfirmation, PaaTypeOK
    <3>2. tx[k].confirmed \subseteq confirmed
      OBVIOUS
    <3> HIDE DEF confirmed
    <3>3. /\ row.status = tx[k].status /\ row.approvals = tx[k].approvals
          /\ row.account = tx[k].account /\ row.confirmed = confirmed
      BY <2>1 DEF TxRow
    <3> HIDE DEF row
    <3>4. QED
      BY <3>1, <3>2, <3>3
  <2>4. QED
    BY <2>2, <2>3
<1>2. UNCHANGED <<funds, executed>> /\ tx[k].status # "none"
  BY DEF CancelTransaction, RecordOracleConfirmation
<1>2a. PaaTypeOK /\ tx' = [tx EXCEPT ![k] = row] /\ row.status # "none"
  BY <1>1
<1>3. /\ Requested' = Requested \cup {k} /\ Accounts' = Accounts /\ Approvals' = Approvals
      /\ Required[Detail[k].category] \subseteq row.confirmed => Spoken' = Spoken \cup {k}
      /\ ~ (Required[Detail[k].category] \subseteq row.confirmed) => Spoken' = Spoken \ {k}
  <2>1. /\ Requested' = Requested \cup {k}
        /\ Required[Detail[k].category] \subseteq row.confirmed => Spoken' = Spoken \cup {k}
        /\ ~ (Required[Detail[k].category] \subseteq row.confirmed) => Spoken' = Spoken \ {k}
        /\ row.account = tx[k].account => Accounts' = Accounts
        /\ row.approvals = tx[k].approvals => Approvals' = Approvals
    BY <1>2a, RowOnLedger
  <2>2. QED
    BY <1>1, <2>1
<1>4. k \in Requested /\ (k \in Spoken <=> Required[Detail[k].category] \subseteq tx[k].confirmed)
  BY <1>2 DEF Requested, Spoken
<1>5. Requested' = Requested /\ Opened' = Opened /\ Balances' = Balances
  BY <1>2, <1>3, <1>4, FundsOnLedger
<1>6. (k \notin Spoken /\ Spoken' = Spoken \cup {k}) \/ Spoken' = Spoken
  BY <1>1, <1>3, <1>4
<1>7. CASE k \notin Spoken /\ Spoken' = Spoken \cup {k}
  <2>1. Ledger!Speak(k)
    BY <1>2, <1>3, <1>4, <1>5, <1>7
       DEF Ledger!Speak, Requested, Accounts, Approvals, Spoken, Opened, Balances
  <2>2. QED
    BY <2>1
<1>8. CASE Spoken' = Spoken
  <2>1. UNCHANGED Ledger!vars
    BY <1>2, <1>3, <1>5, <1>8
       DEF Ledger!vars, Requested, Accounts, Approvals, Spoken, Opened, Balances
  <2>2. QED
    BY <2>1
<1>9. QED
  BY <1>6, <1>7, <1>8

\* What an execution does to the funds: the account's balance moves, if it is open.
LEMMA MovesBalance ==
    ASSUME PaaTypeOK, NEW k \in Key, ExecuteTransaction(k)
    PROVE  /\ Opened' = Opened
           /\ Balances' = IF Accounts[k] \in Opened THEN [Balances EXCEPT ![Accounts[k]] = @ + Delta(k)] ELSE Balances
<1>1. PICK f, d: f = tx[k].account /\ d = Delta(k)
  OBVIOUS
<1>2. funds' = IF f \in Fund /\ funds[f].exists THEN [funds EXCEPT ![f].balance = funds[f].balance + d] ELSE funds
  BY <1>1 DEF ExecuteTransaction
<1>3. f \in Opened <=> f \in Fund /\ funds[f].exists
  BY DEF Opened
<1>4. Accounts[k] = f
  BY <1>1 DEF Accounts
<1>5. CASE f \in Opened
  <2>1. PICK b: b = funds[f].balance + d
    OBVIOUS
  <2>2. f \in Fund /\ funds' = [funds EXCEPT ![f].balance = b]
    BY <1>2, <1>3, <1>5, <2>1
  <2>3. \A g \in Fund: funds'[g].exists = funds[g].exists /\ funds'[g].balance = IF g = f THEN b ELSE funds[g].balance
    BY <2>2 DEF PaaTypeOK
  <2>4. Opened' = Opened
    BY <2>3 DEF Opened
  <2>5. Balances' = [Balances EXCEPT ![f] = b]
    BY <2>3 DEF Balances
  <2>6. Balances[f] = funds[f].balance
    BY <2>2 DEF Balances
  <2>7. Balances' = [Balances EXCEPT ![f] = Balances[f] + d]
    BY <2>1, <2>5, <2>6
  <2>8. QED
    BY <1>1, <1>4, <1>5, <2>4, <2>7
<1>6. CASE f \notin Opened
  <2>1. UNCHANGED funds
    BY <1>2, <1>3, <1>6
  <2>2. QED
    BY <1>4, <1>6, <2>1, FundsOnLedger
<1>7. QED
  BY <1>5, <1>6

\* The ledger counts as the authority does.
LEMMA SameCount == ASSUME NEW S PROVE Ledger!Cardinality(S) = Cardinality(S)
  BY DEF Cardinality, Ledger!Cardinality

\* An execution is a payment: an approved row has the approvals for one more.
LEMMA PaysOnLedger ==
    ASSUME Cleared, NEW k \in Key, ExecuteTransaction(k)
    PROVE  Ledger!Pay(k)
<1> DEFINE row == [tx[k] EXCEPT !.status = "executed"]
<1>1. PaaTypeOK /\ Covered(k)
  BY DEF Cleared
<1>2. /\ tx[k].status = "approved" /\ Required[Detail[k].category] \subseteq tx[k].confirmed
      /\ tx' = [tx EXCEPT ![k].status = "executed"] /\ executed' = [executed EXCEPT ![k] = @ + 1]
  BY DEF ExecuteTransaction
<1>3. tx' = [tx EXCEPT ![k] = row]
  BY <1>1, <1>2 DEF PaaTypeOK
<1>4. /\ row.status = "executed" /\ row.approvals = tx[k].approvals /\ row.account = tx[k].account
      /\ row.confirmed = tx[k].confirmed
  BY <1>1 DEF PaaTypeOK
<1> HIDE DEF row
<1>5. /\ Requested' = Requested \cup {k} /\ Accounts' = Accounts /\ Approvals' = Approvals
      /\ Spoken' = Spoken \cup {k}
  BY <1>1, <1>2, <1>3, <1>4, RowOnLedger
<1>6. k \in Requested /\ k \in Spoken
  BY <1>2 DEF Requested, Spoken
<1>7. Requested' = Requested /\ Spoken' = Spoken
  BY <1>5, <1>6
<1>8. executed[k] + Needed(k) <= Cardinality(tx[k].approvals)
  BY <1>1, <1>2 DEF Covered
<1>9. /\ Opened' = Opened
      /\ Balances' = IF Accounts[k] \in Opened THEN [Balances EXCEPT ![Accounts[k]] = @ + Delta(k)] ELSE Balances
  BY <1>1, MovesBalance
<1>10. [j \in Key |-> Needed(j)][k] = Needed(k) /\ [j \in Key |-> Delta(j)][k] = Delta(k)
  OBVIOUS
<1>11. executed[k] + [j \in Key |-> Needed(j)][k] <= Ledger!Cardinality(Approvals[k])
  <2>1. Approvals[k] = tx[k].approvals
    BY DEF Approvals
  <2>2. QED
    BY <1>8, <1>10, <2>1, SameCount
<1>12. Balances' = IF Accounts[k] \in Opened
                   THEN [Balances EXCEPT ![Accounts[k]] = @ + [j \in Key |-> Delta(j)][k]] ELSE Balances
  BY <1>9, <1>10
<1>13. k \in Spoken /\ executed' = [executed EXCEPT ![k] = @ + 1]
  BY <1>2, <1>6
<1>14. Requested' = Requested /\ Accounts' = Accounts /\ Approvals' = Approvals
       /\ Spoken' = Spoken /\ Opened' = Opened
  BY <1>5, <1>7, <1>9
<1>15. QED
  BY ONLY <1>11, <1>12, <1>13, <1>14 DEF Ledger!Pay, Requested, Accounts, Approvals, Spoken, Opened, Balances

\* A fund is opened with the balance its creator states.
LEMMA OpensOnLedger ==
    ASSUME PaaTypeOK, NEW f \in Fund, NEW opening \in Int, CreateCorpusFund(f, opening)
    PROVE  Ledger!Open(f)
<1>1. /\ ~ funds[f].exists /\ UNCHANGED <<tx, executed>>
      /\ funds' = [funds EXCEPT ![f] = [exists |-> TRUE, balance |-> opening]]
  BY DEF CreateCorpusFund
<1>2. \A g \in Fund: /\ funds'[g].exists <=> g = f \/ funds[g].exists
                     /\ funds'[g].balance = IF g = f THEN opening ELSE funds[g].balance
  BY <1>1 DEF PaaTypeOK
<1>3. f \notin Opened /\ Opened' = Opened \cup {f}
  BY <1>1, <1>2 DEF Opened
<1>4. Balances' = [Balances EXCEPT ![f] = opening] /\ Balances'[f] = opening
  BY <1>2 DEF Balances
<1>5. Requested' = Requested /\ Accounts' = Accounts /\ Approvals' = Approvals /\ Spoken' = Spoken
  BY <1>1 DEF Requested, Accounts, Approvals, Spoken
<1>6. QED
  BY <1>1, <1>3, <1>4, <1>5 DEF Ledger!Open, Requested, Accounts, Approvals, Spoken, Opened, Balances

\* Every step of the authority is a step of the ledger or nothing to it.
LEMMA StepOnLedger == Cleared /\ [AuthorityNext]_paaVars => [Ledger!Next]_(Ledger!vars)
<1> SUFFICES ASSUME Cleared, [AuthorityNext]_paaVars PROVE [Ledger!Next]_(Ledger!vars)
  OBVIOUS
<1>1. PaaTypeOK
  BY DEF Cleared
<1>2. ASSUME NEW k \in Key, NEW account \in Fund \cup {NoFund}, NEW vouched \in SUBSET Oracle,
             CreateTransaction(k, account, vouched)
      PROVE  Ledger!Next
  BY <1>1, <1>2, CreatesOnLedger DEF Ledger!Next
<1>3. ASSUME NEW k \in Key, NEW a \in Actor, ApproveTransaction(k, a) PROVE Ledger!Next
  BY <1>1, <1>3, ApprovesOnLedger DEF Ledger!Next
<1>4. ASSUME NEW k \in Key, ExecuteTransaction(k) PROVE Ledger!Next
  BY <1>4, PaysOnLedger DEF Ledger!Next
<1>5. ASSUME NEW k \in Key, CancelTransaction(k) \/ \E oracle \in Oracle: RecordOracleConfirmation(k, oracle)
      PROVE  [Ledger!Next]_(Ledger!vars)
  BY <1>1, <1>5, MarksOnLedger DEF Ledger!Next
<1>6. ASSUME NEW f \in Fund, NEW opening \in Int, CreateCorpusFund(f, opening) PROVE Ledger!Next
  BY <1>1, <1>6, OpensOnLedger DEF Ledger!Next
<1>7. ASSUME DeactivateBudgets \/ ActivateNewBudget \/ UNCHANGED paaVars PROVE UNCHANGED Ledger!vars
  <2>1. UNCHANGED <<tx, funds, executed>>
    BY <1>7 DEF DeactivateBudgets, ActivateNewBudget, paaVars
  <2>2. QED
    BY <2>1 DEF Ledger!vars
<1>8. QED
  BY <1>2, <1>3, <1>4, <1>5, <1>6, <1>7 DEF AuthorityNext, Proceed

\* The ledger begins empty.
LEMMA LedgerEmpty == PaaInit => Ledger!Init
<1> SUFFICES ASSUME PaaInit PROVE Ledger!Init
  OBVIOUS
<1>1. \A k \in Key: tx[k].status = "none" /\ tx[k].approvals = {} /\ tx[k].account = NoFund
  BY DEF PaaInit, NoTx
<1>2. \A f \in Fund: ~ funds[f].exists /\ funds[f].balance = 0
  BY DEF PaaInit
<1>3. QED
  BY <1>1, <1>2 DEF PaaInit, Ledger!Init

\* The authority is a ledger: forget the statuses, and every execution is a payment
\* with approvals of its own, on the account of the request (paa_service.py,
\* executeTransaction, approveTransaction and createCorpusFund).
THEOREM AuthorityIsLedger == PaaSpec => PaysAsCleared
<1>1. PaaIInv /\ [PaaNext]_paaVars => [Ledger!Next]_(Ledger!vars)
  BY StepOnLedger, CallersAllowed DEF PaaIInv
<1>2. QED
  BY PaaInductive, LedgerEmpty, <1>1, PTL DEF PaaSpec, PaysAsCleared, Ledger!Spec

-----------------------------------------------------------------------------
(* The mirror: its types                                                       *)

MirrorTypeOK ==
    /\ total \in Nat
    /\ deposit \in [Deposit -> {"PENDING", "CONFIRMED"}]
    /\ settled \in [Settlement -> Nat]
    /\ request \in [Request -> {Idle} \cup Underway]
    /\ posted \in [Deposit -> Nat]
    /\ deaths \in 0..MaxDeath

\* A request that is not idle has a row of its own in hand.
LEMMA AtWork ==
    ASSUME MirrorTypeOK, NEW r \in Request, request[r].pc # "idle"
    PROVE  /\ request[r] \in Underway
           /\ request[r].key \in Key /\ request[r].total \in Nat
           /\ request[r].pc \in {"loaded", "ensured", "posted", "confirmed"}
           /\ request[r] # Idle
<1>1. request[r] = Idle \/ request[r] \in Underway
  BY DEF MirrorTypeOK
<1>2. request[r] \in Underway
  BY <1>1 DEF Idle
<1>3. QED
  BY <1>2, MirrorConstants DEF Underway, Idle

\* A step of a request to another place.
LEMMA Moved ==
    ASSUME MirrorTypeOK, NEW r \in Request, request[r].pc # "idle",
           NEW pc \in {"ensured", "posted", "confirmed"}, Goto(r, pc)
    PROVE  /\ request' \in [Request -> {Idle} \cup Underway]
           /\ request'[r].pc = pc /\ request'[r].key = request[r].key
           /\ request'[r].total = request[r].total
           /\ \A q \in Request \ {r}: request'[q] = request[q]
<1>1. request[r] \in Underway
  BY AtWork
<1>2. [request[r] EXCEPT !.pc = pc] \in Underway
  BY <1>1 DEF Underway
<1>3. request' = [request EXCEPT ![r] = [request[r] EXCEPT !.pc = pc]]
  BY DEF Goto, MirrorTypeOK
<1>4. request' \in [Request -> {Idle} \cup Underway] /\ request'[r] = [request[r] EXCEPT !.pc = pc]
  BY <1>2, <1>3 DEF MirrorTypeOK
<1>5. QED
  BY <1>1, <1>3, <1>4 DEF MirrorTypeOK, Underway

\* A request that ends leaves the others where they are.
LEMMA Ended ==
    ASSUME MirrorTypeOK, NEW r \in Request, request' = [request EXCEPT ![r] = Idle]
    PROVE  /\ request' \in [Request -> {Idle} \cup Underway]
           /\ request'[r].pc = "idle"
           /\ \A q \in Request \ {r}: request'[q] = request[q]
  BY DEF MirrorTypeOK, Idle

\* So does one that begins.
LEMMA Begun ==
    ASSUME MirrorTypeOK, NEW r \in Request, NEW k \in Key,
           request' = [request EXCEPT ![r] = [pc |-> "loaded", key |-> k, total |-> total]]
    PROVE  /\ request' \in [Request -> {Idle} \cup Underway]
           /\ request'[r] = [pc |-> "loaded", key |-> k, total |-> total]
           /\ \A q \in Request \ {r}: request'[q] = request[q]
<1>1. [pc |-> "loaded", key |-> k, total |-> total] \in Underway
  BY MirrorConstants DEF Underway, MirrorTypeOK
<1>2. QED
  BY <1>1 DEF MirrorTypeOK

\* What the requests do to the authority is what its callers may do.
LEMMA AuthorityOnly == MirrorTypeOK /\ [Next]_vars => [AuthorityNext]_paaVars
<1> SUFFICES ASSUME MirrorTypeOK, Next PROVE [AuthorityNext]_paaVars
  BY DEF vars, paaVars
<1>1. CASE AuthorityStep
  <2>1. 0 \in Int
    OBVIOUS
  <2>2. QED
    BY <1>1, <2>1 DEF AuthorityStep, AuthorityNext
<1>2. ASSUME NEW r \in Request, EnsureBridgeCF(r) PROVE [AuthorityNext]_paaVars
  <2>1. request[r].total \in Int /\ JewelerCF \in Fund
    BY <1>2, AtWork, MirrorConstants DEF EnsureBridgeCF, At
  <2>2. QED
    BY <1>2, <2>1 DEF EnsureBridgeCF, AuthorityNext
<1>3. ASSUME NEW r \in Request, PostCollection(r) \/ PostPayment(r) PROVE [AuthorityNext]_paaVars
  <2>1. request[r].key \in Key /\ CreateTransaction(request[r].key, NoFund, {})
    BY <1>3, AtWork DEF PostCollection, PostPayment, At
  <2>2. QED
    BY <2>1 DEF AuthorityNext
<1>4. ASSUME NEW r \in Request,
             \/ PostRefused(r) \/ SaveDeposit(r) \/ SaveFund(r) \/ SaveSettlement(r) \/ Dies(r)
             \/ \E d \in Deposit: ConfirmLoads(r, d)
             \/ \E s \in Settlement: SettlementLoads(r, s)
      PROVE  [AuthorityNext]_paaVars
  BY <1>4 DEF PostRefused, SaveDeposit, SaveFund, SaveSettlement, Dies, ConfirmLoads, SettlementLoads
<1>5. QED
  BY <1>1, <1>2, <1>3, <1>4 DEF Next, RequestStep

-----------------------------------------------------------------------------
(* The mirror: the transactions                                                *)

HasTx(k) == tx[k] # NoTx

\* A row that is there has a status.
RowsHaveStatus == \A k \in Key: HasTx(k) => tx[k].status # "none"

\* What else is done with a row than making it.
RowWorked(k) ==
    \/ ExecuteTransaction(k) \/ CancelTransaction(k)
    \/ \E a \in Actor: ApproveTransaction(k, a)
    \/ \E oracle \in Oracle: RecordOracleConfirmation(k, oracle)

\* A creation writes one row, which has the status its amount calls for.
LEMMA OneRowWritten ==
    ASSUME PaaTypeOK, NEW k \in Key, NEW account \in Fund \cup {NoFund}, NEW vouched \in SUBSET Oracle,
           CreateTransaction(k, account, vouched)
    PROVE  /\ tx'[k].status = InitialStatus(k) /\ ~HasTx(k) /\ HasTx(k)'
           /\ \A j \in Key \ {k}: tx'[j] = tx[j]
<1> DEFINE routed == Routing[Detail[k].category]
           row == [status |-> InitialStatus(k), approvals |-> {},
                   confirmed |-> vouched \cap Required[Detail[k].category],
                   account |-> IF account # NoFund THEN account
                               ELSE IF funds[routed].exists THEN routed ELSE NoFund]
<1>1. tx' = [tx EXCEPT ![k] = row] /\ Valid(k)
  BY DEF CreateTransaction
<1>2. row.status = InitialStatus(k)
  OBVIOUS
<1>3. tx'[k] = row /\ \A j \in Key \ {k}: tx'[j] = tx[j]
  <2> HIDE DEF row
  <2>1. QED
    BY <1>1 DEF PaaTypeOK
<1>4. row # NoTx
  BY <1>2, LevelKnown DEF NoTx
<1>5. QED
  BY <1>1, <1>2, <1>3, <1>4 DEF Valid, HasTx

\* Only a creation makes a row, and nothing takes one away.
LEMMA RowsStay ==
    ASSUME PaaTypeOK, RowsHaveStatus, [AuthorityNext]_paaVars
    PROVE  /\ RowsHaveStatus'
           /\ \A k \in Key: HasTx(k) => HasTx(k)'
<1>1. CASE \E k \in Key, account \in Fund \cup {NoFund}, vouched \in SUBSET Oracle:
             CreateTransaction(k, account, vouched)
  <2>1. PICK k \in Key, account \in Fund \cup {NoFund}, vouched \in SUBSET Oracle:
             CreateTransaction(k, account, vouched)
    BY <1>1
  <2>2. tx'[k].status # "none" /\ ~HasTx(k) /\ \A j \in Key \ {k}: tx'[j] = tx[j]
    BY <2>1, OneRowWritten, LevelKnown
  <2>3. QED
    BY <2>2 DEF RowsHaveStatus, HasTx
<1>2. CASE \E k \in Key: RowWorked(k)
  <2>1. PICK k \in Key: RowWorked(k)
    BY <1>2
  <2>2. tx[k].status # "none" /\ \A j \in Key \ {k}: tx'[j] = tx[j]
    BY <2>1 DEF RowWorked, ExecuteTransaction, CancelTransaction, ApproveTransaction,
                RecordOracleConfirmation, PaaTypeOK
  <2>3. tx'[k].status # "none"
    <3>1. CASE ExecuteTransaction(k) \/ CancelTransaction(k)
      BY <3>1 DEF ExecuteTransaction, CancelTransaction, PaaTypeOK
    <3>2. CASE \E a \in Actor: ApproveTransaction(k, a)
      BY <2>2, <3>2 DEF ApproveTransaction, PaaTypeOK
    <3>3. CASE \E oracle \in Oracle: RecordOracleConfirmation(k, oracle)
      BY <2>2, <3>3 DEF RecordOracleConfirmation, PaaTypeOK
    <3>4. QED
      BY <2>1, <3>1, <3>2, <3>3 DEF RowWorked
  <2>4. HasTx(k)'
    BY <2>3 DEF HasTx, NoTx
  <2>5. QED
    BY <2>2, <2>3, <2>4 DEF RowsHaveStatus, HasTx
<1>3. CASE UNCHANGED tx
  BY <1>3 DEF RowsHaveStatus, HasTx
<1>4. QED
  BY <1>1, <1>2, <1>3
     DEF RowWorked, AuthorityNext, Proceed, paaVars, DeactivateBudgets, ActivateNewBudget,
         CreateCorpusFund

\* The steps beside the creations make no row at all.
LEMMA NoRowMade ==
    ASSUME PaaTypeOK, RowsHaveStatus,
           \/ Proceed
           \/ \E f \in Fund, opening \in Int: CreateCorpusFund(f, opening)
           \/ UNCHANGED paaVars,
           NEW k \in Key
    PROVE  HasTx(k)' = HasTx(k)
<1>1. CASE UNCHANGED tx
  BY <1>1 DEF HasTx
<1>2. CASE \E j \in Key: RowWorked(j)
  <2>1. PICK j \in Key: RowWorked(j)
    BY <1>2
  <2>2. tx[j].status # "none" /\ \A i \in Key \ {j}: tx'[i] = tx[i]
    BY <2>1 DEF RowWorked, ExecuteTransaction, CancelTransaction, ApproveTransaction,
                RecordOracleConfirmation, PaaTypeOK
  <2>3. HasTx(j)
    BY <2>2 DEF HasTx, NoTx
  <2>4. [AuthorityNext]_paaVars
    BY <2>1 DEF RowWorked, AuthorityNext, Proceed
  <2>5. HasTx(j)'
    BY <2>3, <2>4, RowsStay
  <2>6. QED
    BY <2>2, <2>3, <2>5 DEF HasTx
<1>3. QED
  BY <1>1, <1>2 DEF RowWorked, Proceed, paaVars, DeactivateBudgets, ActivateNewBudget, CreateCorpusFund
-----------------------------------------------------------------------------
(* The mirror: one transaction for a deposit or a settlement                   *)

PostedSettlement(r, s) == request[r].pc = "posted" /\ request[r].key = s

(* A posted transaction is there; the settlement row follows it once, and only  *)
(* one request can be about to write it.                                        *)
Posts ==
    /\ \A d \in Deposit: posted[d] = IF HasTx(d) THEN 1 ELSE 0
    /\ \A d \in Deposit: deposit[d] = "CONFIRMED" => HasTx(d)
    /\ \A r \in Request: request[r].pc = "posted" => HasTx(request[r].key)
    /\ \A s \in Settlement: settled[s] # 0 =>
          settled[s] = 1 /\ HasTx(s) /\ \A r \in Request: ~PostedSettlement(r, s)
    /\ \A s \in Settlement, r, q \in Request:
          PostedSettlement(r, s) /\ PostedSettlement(q, s) => r = q

\* A step that makes no row and has no request post anything changes none of it.
LEMMA PostsCalm ==
    ASSUME Posts, UNCHANGED <<posted, settled>>, \A k \in Key: HasTx(k)' = HasTx(k),
           \A d \in Deposit: deposit'[d] = "CONFIRMED" => deposit[d] = "CONFIRMED" \/ HasTx(d),
           \A r \in Request: request'[r].pc = "posted" =>
              /\ request[r].pc = "posted" /\ request'[r].key = request[r].key
              /\ request[r].key \in Key
    PROVE  Posts'
<1>1. Deposit \subseteq Key /\ Settlement \subseteq Key
  BY MirrorConstants
<1>2. \A r \in Request, s \in Settlement: PostedSettlement(r, s)' => PostedSettlement(r, s)
  BY DEF PostedSettlement
<1>3. /\ (\A d \in Deposit: posted[d] = IF HasTx(d) THEN 1 ELSE 0)'
      /\ (\A d \in Deposit: deposit[d] = "CONFIRMED" => HasTx(d))'
  BY <1>1 DEF Posts
<1>4. (\A r \in Request: request[r].pc = "posted" => HasTx(request[r].key))'
  <2> SUFFICES ASSUME NEW r \in Request, request'[r].pc = "posted" PROVE HasTx(request[r].key)'
    BY DEF HasTx
  <2>1. HasTx(request[r].key)
    BY DEF Posts
  <2>2. tx'[request[r].key] # NoTx
    BY <2>1 DEF HasTx
  <2>3. request'[r].key = request[r].key
    OBVIOUS
  <2>4. QED
    BY <2>2, <2>3 DEF HasTx
<1>5. (\A s \in Settlement: settled[s] # 0 =>
          settled[s] = 1 /\ HasTx(s) /\ \A r \in Request: ~PostedSettlement(r, s))'
  BY <1>1, <1>2 DEF Posts
<1>6. (\A s \in Settlement, r, q \in Request:
          PostedSettlement(r, s) /\ PostedSettlement(q, s) => r = q)'
  BY <1>2 DEF Posts
<1>7. QED
  BY <1>3, <1>4, <1>5, <1>6 DEF Posts

\* The transaction of a deposit is made, counted and in the hands of one request.
LEMMA PostsCollection ==
    ASSUME PaaTypeOK, MirrorTypeOK, Posts, NEW r \in Request, PostCollection(r)
    PROVE  Posts'
<1>0. PICK k: k = request[r].key
  OBVIOUS
<1>1. /\ k \in Deposit /\ k \in Key /\ request[r].pc = "ensured" /\ CreateTransaction(k, NoFund, {})
      /\ posted' = [posted EXCEPT ![k] = posted[k] + 1] /\ Goto(r, "posted")
      /\ UNCHANGED <<total, deposit, settled, deaths>>
  BY <1>0, MirrorConstants DEF PostCollection, At
<1>2. /\ request'[r].pc = "posted" /\ request'[r].key = k
      /\ \A q \in Request \ {r}: request'[q] = request[q]
  BY <1>0, <1>1, Moved
<1>3. ~HasTx(k) /\ HasTx(k)' /\ \A j \in Key \ {k}: HasTx(j)' = HasTx(j)
  <2>1. NoFund \in Fund \cup {NoFund} /\ {} \in SUBSET Oracle
    OBVIOUS
  <2>2. QED
    BY <1>1, <2>1, OneRowWritten DEF HasTx
<1>4. (\A d \in Deposit: posted[d] = IF HasTx(d) THEN 1 ELSE 0)'
  BY <1>1, <1>3, MirrorConstants DEF Posts, MirrorTypeOK
<1>5. (\A d \in Deposit: deposit[d] = "CONFIRMED" => HasTx(d))'
  BY <1>1, <1>3, MirrorConstants DEF Posts
<1>6. (\A q \in Request: request[q].pc = "posted" => HasTx(request[q].key))'
  <2>1. ASSUME NEW q \in Request, request'[q].pc = "posted" PROVE tx'[request'[q].key] # NoTx
    <3>1. CASE q = r
      BY <1>2, <1>3, <3>1 DEF HasTx
    <3>2. CASE q # r
      <4>1. request'[q] = request[q] /\ request[q].pc = "posted"
        BY <1>2, <2>1, <3>2
      <4>2. request[q].key \in Key /\ HasTx(request[q].key)
        BY <4>1, AtWork DEF Posts
      <4>3. HasTx(request[q].key)'
        BY <1>1, <1>3, <4>1, <4>2 DEF HasTx
      <4>4. QED
        BY <4>1, <4>3 DEF HasTx
    <3>3. QED
      BY <3>1, <3>2
  <2>2. QED
    BY <2>1 DEF HasTx
<1>7. \A q \in Request, s \in Settlement: PostedSettlement(q, s)' => PostedSettlement(q, s)
  BY <1>1, <1>2, MirrorConstants DEF PostedSettlement
<1>8. (\A s \in Settlement: settled[s] # 0 =>
          settled[s] = 1 /\ HasTx(s) /\ \A q \in Request: ~PostedSettlement(q, s))'
  <2>1. \A s \in Settlement: s \in Key /\ s # k
    BY <1>1, MirrorConstants
  <2>2. QED
    BY <1>1, <1>3, <1>7, <2>1 DEF Posts
<1>9. (\A s \in Settlement, p, q \in Request:
          PostedSettlement(p, s) /\ PostedSettlement(q, s) => p = q)'
  BY <1>7 DEF Posts
<1>10. QED
  BY <1>4, <1>5, <1>6, <1>8, <1>9 DEF Posts

\* The transaction of a settlement is made by one request: nobody else was about to
\* write its row, and it has none.
LEMMA PostsPayment ==
    ASSUME PaaTypeOK, MirrorTypeOK, Posts, NEW r \in Request, PostPayment(r)
    PROVE  Posts'
<1>0. PICK k: k = request[r].key
  OBVIOUS
<1>1. /\ k \in Settlement /\ k \in Key /\ request[r].pc = "ensured" /\ CreateTransaction(k, NoFund, {})
      /\ Goto(r, "posted") /\ UNCHANGED <<total, deposit, settled, posted, deaths>>
  BY <1>0, MirrorConstants DEF PostPayment, At
<1>2. /\ request'[r].pc = "posted" /\ request'[r].key = k
      /\ \A q \in Request \ {r}: request'[q] = request[q]
  BY <1>0, <1>1, Moved
<1>3. ~HasTx(k) /\ HasTx(k)' /\ \A j \in Key \ {k}: HasTx(j)' = HasTx(j)
  <2>1. NoFund \in Fund \cup {NoFund} /\ {} \in SUBSET Oracle
    OBVIOUS
  <2>2. QED
    BY <1>1, <2>1, OneRowWritten DEF HasTx
<1>4. \A q \in Request: request[q].pc = "posted" => request[q].key # k /\ request[q].key \in Key
  <2>1. \A q \in Request: request[q].pc = "posted" => HasTx(request[q].key)
    BY DEF Posts
  <2>2. QED
    BY <1>3, <2>1, AtWork DEF HasTx
<1>5. \A d \in Deposit: d \in Key /\ d # k
  BY <1>1, MirrorConstants
<1>6. (\A d \in Deposit: posted[d] = IF HasTx(d) THEN 1 ELSE 0)'
  BY <1>1, <1>3, <1>5 DEF Posts
<1>7. (\A d \in Deposit: deposit[d] = "CONFIRMED" => HasTx(d))'
  BY <1>1, <1>3, <1>5 DEF Posts
<1>8. (\A q \in Request: request[q].pc = "posted" => HasTx(request[q].key))'
  <2>1. ASSUME NEW q \in Request, request'[q].pc = "posted" PROVE tx'[request'[q].key] # NoTx
    <3>1. CASE q = r
      BY <1>2, <1>3, <3>1 DEF HasTx
    <3>2. CASE q # r
      <4>1. request'[q] = request[q] /\ request[q].pc = "posted"
        BY <1>2, <2>1, <3>2
      <4>2. HasTx(request[q].key)
        BY <4>1 DEF Posts
      <4>3. HasTx(request[q].key)'
        BY <1>3, <1>4, <4>1, <4>2 DEF HasTx
      <4>4. QED
        BY <4>1, <4>3 DEF HasTx
    <3>3. QED
      BY <3>1, <3>2
  <2>2. QED
    BY <2>1 DEF HasTx
<1>9. \A q \in Request, s \in Settlement:
         PostedSettlement(q, s)' => PostedSettlement(q, s) \/ (q = r /\ s = k)
  BY <1>2 DEF PostedSettlement
<1>10. \A q \in Request: ~PostedSettlement(q, k)
  BY <1>4 DEF PostedSettlement
<1>11. (\A s \in Settlement: settled[s] # 0 =>
          settled[s] = 1 /\ HasTx(s) /\ \A q \in Request: ~PostedSettlement(q, s))'
  <2>1. \A s \in Settlement: s \in Key /\ (settled[s] # 0 => s # k)
    BY <1>3, MirrorConstants DEF Posts
  <2>2. QED
    BY <1>1, <1>3, <1>9, <2>1 DEF Posts
<1>12. (\A s \in Settlement, p, q \in Request:
          PostedSettlement(p, s) /\ PostedSettlement(q, s) => p = q)'
  BY <1>9, <1>10 DEF Posts
<1>13. QED
  BY <1>6, <1>7, <1>8, <1>11, <1>12 DEF Posts

\* The request that posted a settlement writes its row and is done with it.
LEMMA PostsSettled ==
    ASSUME MirrorTypeOK, Posts, NEW r \in Request, SaveSettlement(r)
    PROVE  Posts'
<1>0. PICK k: k = request[r].key
  OBVIOUS
<1>1. /\ k \in Settlement /\ request[r].pc = "posted"
      /\ settled' = [settled EXCEPT ![k] = settled[k] + 1]
      /\ request' = [request EXCEPT ![r] = Idle]
      /\ UNCHANGED <<paaVars, total, deposit, posted, deaths>>
  BY <1>0 DEF SaveSettlement, At
<1>2. request'[r].pc = "idle" /\ \A q \in Request \ {r}: request'[q] = request[q]
  BY <1>1, Ended
<1>3. PostedSettlement(r, k)
  BY <1>0, <1>1 DEF PostedSettlement
<1>4. settled[k] = 0 /\ HasTx(k)
  <2>1. HasTx(request[r].key)
    BY <1>1 DEF Posts
  <2>2. QED
    BY <1>0, <1>1, <1>3, <2>1 DEF Posts
<1>5. \A q \in Request, s \in Settlement: PostedSettlement(q, s)' => PostedSettlement(q, s) /\ q # r
  BY <1>2 DEF PostedSettlement
<1>6. /\ (\A d \in Deposit: posted[d] = IF HasTx(d) THEN 1 ELSE 0)'
      /\ (\A d \in Deposit: deposit[d] = "CONFIRMED" => HasTx(d))'
  BY <1>1 DEF Posts, HasTx, paaVars
<1>7. (\A q \in Request: request[q].pc = "posted" => HasTx(request[q].key))'
  <2>1. \A q \in Request: request'[q].pc = "posted" => request'[q] = request[q]
    BY <1>2
  <2>2. QED
    BY <1>1, <2>1 DEF Posts, HasTx, paaVars
<1>8. (\A s \in Settlement: settled[s] # 0 =>
          settled[s] = 1 /\ HasTx(s) /\ \A q \in Request: ~PostedSettlement(q, s))'
  <2> SUFFICES ASSUME NEW s \in Settlement, settled'[s] # 0
               PROVE  settled'[s] = 1 /\ HasTx(s)' /\ \A q \in Request: ~PostedSettlement(q, s)'
    OBVIOUS
  <2>1. CASE s = k
    BY <1>1, <1>3, <1>4, <1>5, <2>1 DEF Posts, MirrorTypeOK, HasTx, paaVars
  <2>2. CASE s # k
    BY <1>1, <1>5, <2>2 DEF Posts, MirrorTypeOK, HasTx, paaVars
  <2>3. QED
    BY <2>1, <2>2
<1>9. (\A s \in Settlement, p, q \in Request:
          PostedSettlement(p, s) /\ PostedSettlement(q, s) => p = q)'
  BY <1>5 DEF Posts
<1>10. QED
  BY <1>6, <1>7, <1>8, <1>9 DEF Posts

-----------------------------------------------------------------------------
(* The mirror: the balance                                                     *)

Amount == [d \in Deposit |-> Detail[d].amount]

(* A request about a deposit has read a balance made of other deposits: its own *)
(* was pending when it read, and what was confirmed stays confirmed.            *)
Reads ==
    /\ MirrorNotInflated
    /\ \A r \in Request:
          /\ request[r].pc # "idle" /\ request[r].key \in Deposit =>
                request[r].total <= SumFunctionOnSet(Amount, Confirmed \ {request[r].key})
          /\ request[r].pc = "confirmed" => request[r].key \in Confirmed

\* Amounts of more deposits are more.
LEMMA AmountsGrow ==
    ASSUME NEW A, NEW B, A \subseteq B, B \subseteq Deposit
    PROVE  /\ SumFunctionOnSet(Amount, A) \in Nat /\ SumFunctionOnSet(Amount, B) \in Nat
           /\ SumFunctionOnSet(Amount, A) <= SumFunctionOnSet(Amount, B)
<1>1. \A d \in Deposit: Amount[d] \in Nat
  BY PaaConstants, MirrorConstants DEF Amount
<1>2. IsFiniteSet(B) /\ IsFiniteSet(A)
  <2>1. B \subseteq Key
    BY MirrorConstants
  <2>2. QED
    BY <2>1, FS_Subset, PaaConstants
<1>3. \A d \in A: Amount[d] \in Nat
  BY <1>1
<1>4. \A d \in B: Amount[d] \in Nat
  BY <1>1
<1>5. QED
  BY <1>2, <1>3, <1>4, SumIsNat, SumSubset

\* A step that writes no balance leaves it covered, if it takes no confirmation
\* back and its requests read what is there.
LEMMA ReadsCalm ==
    ASSUME MirrorTypeOK, MirrorTypeOK', Reads, UNCHANGED total, Confirmed \subseteq Confirmed',
           \A r \in Request: request'[r].pc # "idle" =>
              /\ \/ request[r].pc # "idle" /\ request'[r].key = request[r].key
                                          /\ request'[r].total = request[r].total
                 \/ request'[r].total = total /\ request'[r].key \notin Confirmed'
              /\ request'[r].pc = "confirmed" =>
                    \/ request[r].pc = "confirmed" /\ request'[r].key = request[r].key
                    \/ request'[r].key \in Confirmed'
    PROVE  Reads'
<1>1. Confirmed \subseteq Deposit /\ Confirmed' \subseteq Deposit
  BY DEF Confirmed
<1>2. MirrorNotInflated'
  <2>1. total <= SumFunctionOnSet(Amount, Confirmed) /\ total \in Nat
    BY DEF Reads, MirrorNotInflated, MirrorTypeOK, Amount
  <2>2. /\ SumFunctionOnSet(Amount, Confirmed) \in Nat /\ SumFunctionOnSet(Amount, Confirmed') \in Nat
        /\ SumFunctionOnSet(Amount, Confirmed) <= SumFunctionOnSet(Amount, Confirmed')
    BY <1>1, AmountsGrow
  <2>3. total' <= SumFunctionOnSet(Amount, Confirmed')
    BY <2>1, <2>2
  <2>4. QED
    BY <2>3 DEF MirrorNotInflated, Amount
<1>3. ASSUME NEW r \in Request, request'[r].pc # "idle", request'[r].key \in Deposit
      PROVE  request'[r].total <= SumFunctionOnSet(Amount, Confirmed' \ {request'[r].key})
  <2>1. CASE request[r].pc # "idle" /\ request'[r].key = request[r].key
                                   /\ request'[r].total = request[r].total
    <3>1. PICK d: d = request[r].key /\ d \in Deposit
      BY <1>3, <2>1
    <3>2. request[r].total <= SumFunctionOnSet(Amount, Confirmed \ {d})
      BY <2>1, <3>1 DEF Reads
    <3>3. Confirmed \ {d} \subseteq Confirmed' \ {d} /\ Confirmed' \ {d} \subseteq Deposit
      BY <1>1
    <3>4. /\ SumFunctionOnSet(Amount, Confirmed \ {d}) \in Nat
          /\ SumFunctionOnSet(Amount, Confirmed' \ {d}) \in Nat
          /\ SumFunctionOnSet(Amount, Confirmed \ {d}) <= SumFunctionOnSet(Amount, Confirmed' \ {d})
      BY <3>3, AmountsGrow
    <3>5. request[r].total \in Nat
      BY <2>1, AtWork
    <3>6. request'[r].total <= SumFunctionOnSet(Amount, Confirmed' \ {d})
      BY <2>1, <3>2, <3>4, <3>5
    <3>7. QED
      BY <2>1, <3>1, <3>6
  <2>2. CASE request'[r].total = total /\ request'[r].key \notin Confirmed'
    <3>1. Confirmed' \ {request'[r].key} = Confirmed'
      BY <2>2
    <3>2. total' <= SumFunctionOnSet(Amount, Confirmed')
      BY <1>2 DEF MirrorNotInflated, Amount
    <3>3. QED
      BY <2>2, <3>1, <3>2
  <2>3. QED
    BY <1>3, <2>1, <2>2
<1>4. ASSUME NEW r \in Request, request'[r].pc = "confirmed"
      PROVE  request'[r].key \in Confirmed'
  BY <1>4 DEF Reads
<1>5. QED
  BY <1>2, <1>3, <1>4 DEF Reads, Amount

\* The balance that is saved is made of deposits that are confirmed, its own once.
LEMMA ReadsSaved ==
    ASSUME MirrorTypeOK, Reads, NEW r \in Request, SaveFund(r)
    PROVE  Reads'
<1>0. PICK d: d = request[r].key
  OBVIOUS
<1>1. /\ request[r].pc = "confirmed" /\ total' = request[r].total + Detail[d].amount
      /\ request' = [request EXCEPT ![r] = Idle] /\ UNCHANGED deposit
  BY <1>0 DEF SaveFund, At
<1>2. request'[r].pc = "idle" /\ \A q \in Request \ {r}: request'[q] = request[q]
  BY <1>1, Ended
<1>3. d \in Confirmed /\ Confirmed \subseteq Deposit /\ Confirmed' = Confirmed
  BY <1>0, <1>1 DEF Reads, Confirmed
<1>4. request[r].total <= SumFunctionOnSet(Amount, Confirmed \ {d})
  BY <1>0, <1>1, <1>3 DEF Reads
<1>5. SumFunctionOnSet(Amount, Confirmed) = Amount[d] + SumFunctionOnSet(Amount, Confirmed \ {d})
  <2>1. \A e \in Confirmed: Amount[e] \in Int
    BY <1>3, PaaConstants, MirrorConstants DEF Amount
  <2>2. IsFiniteSet(Confirmed)
    <3>1. Confirmed \subseteq Key
      BY <1>3, MirrorConstants
    <3>2. QED
      BY <3>1, FS_Subset, PaaConstants
  <2>3. QED
    BY <1>3, <2>1, <2>2, SumPick
<1>6. Amount[d] = Detail[d].amount /\ Detail[d].amount \in Nat
  BY <1>3, PaaConstants, MirrorConstants DEF Amount
<1>7. request[r].total \in Nat /\ SumFunctionOnSet(Amount, Confirmed \ {d}) \in Nat
  <2>1. Confirmed \ {d} \subseteq Confirmed
    OBVIOUS
  <2>2. QED
    BY <1>1, <1>3, <2>1, AtWork, AmountsGrow
<1>8. total' <= SumFunctionOnSet(Amount, Confirmed')
  BY <1>1, <1>3, <1>4, <1>5, <1>6, <1>7
<1>9. ASSUME NEW q \in Request
      PROVE  /\ request'[q].pc # "idle" /\ request'[q].key \in Deposit =>
                    request'[q].total <= SumFunctionOnSet(Amount, Confirmed' \ {request'[q].key})
             /\ request'[q].pc = "confirmed" => request'[q].key \in Confirmed'
  <2>1. CASE q = r
    BY <1>2, <2>1
  <2>2. CASE q # r
    BY <1>2, <1>3, <2>2 DEF Reads
  <2>3. QED
    BY <2>1, <2>2
<1>10. QED
  BY <1>8, <1>9 DEF Reads, MirrorNotInflated, Amount

-----------------------------------------------------------------------------
(* The mirror: all steps                                                       *)

MirrorIInv ==
    /\ PaaIInv /\ MirrorTypeOK /\ RowsHaveStatus
    /\ Posts /\ Reads

\* The empty mirror of an empty authority.
LEMMA MirrorInitially == Init => MirrorIInv
<1> SUFFICES ASSUME Init PROVE MirrorIInv
  OBVIOUS
<1>1. PaaIInv
  BY PaaInitially DEF Init
<1>2. MirrorTypeOK
  BY MirrorConstants DEF Init, MirrorTypeOK
<1>3. \A k \in Key: ~HasTx(k)
  BY DEF Init, PaaInit, HasTx
<1>4. \A r \in Request: request[r].pc = "idle"
  BY DEF Init, Idle
<1>5. Posts
  BY <1>3, <1>4, MirrorConstants DEF Init, Posts, PostedSettlement
<1>6. Confirmed = {}
  BY DEF Init, Confirmed
<1>7. Reads
  <2>1. SumFunctionOnSet(Amount, Confirmed) = 0
    BY <1>6, SumOfNone
  <2>2. QED
    BY <1>4, <2>1 DEF Init, Reads, MirrorNotInflated, Amount
<1>8. QED
  BY <1>1, <1>2, <1>3, <1>5, <1>7 DEF MirrorIInv, RowsHaveStatus

\* What else goes on in the authority leaves the mirror as it is.
LEMMA BesideMirror ==
    ASSUME MirrorIInv, AuthorityStep \/ UNCHANGED vars
    PROVE  MirrorTypeOK' /\ Posts' /\ Reads'
<1>1. UNCHANGED <<total, deposit, settled, request, posted, deaths>>
  BY DEF AuthorityStep, vars, mirrorVars
<1>2. MirrorTypeOK'
  BY <1>1 DEF MirrorIInv, MirrorTypeOK
<1>3. \A k \in Key: HasTx(k)' = HasTx(k)
  <2>1. 0 \in Int
    OBVIOUS
  <2>2. \/ Proceed
        \/ \E f \in Fund, opening \in Int: CreateCorpusFund(f, opening)
        \/ UNCHANGED paaVars
    BY <2>1 DEF AuthorityStep, vars
  <2>3. QED
    BY <2>2, NoRowMade DEF MirrorIInv, PaaIInv, Cleared
<1>4. Posts'
  <2>1. \A r \in Request: request[r].pc = "posted" => request[r].key \in Key
    BY AtWork DEF MirrorIInv
  <2>2. QED
    BY <1>1, <1>3, <2>1, PostsCalm DEF MirrorIInv
<1>5. Reads'
  <2>1. Confirmed' = Confirmed
    BY <1>1 DEF Confirmed
  <2>2. \A r \in Request: request[r].pc = "confirmed" => request[r].key \in Confirmed
    BY DEF MirrorIInv, Reads
  <2>3. QED
    BY <1>1, <1>2, <2>1, <2>2, ReadsCalm DEF MirrorIInv
<1>6. QED
  BY <1>2, <1>4, <1>5

\* A request that begins, makes sure of the fund, is refused or dies changes nothing
\* that was posted or confirmed.
LEMMA OnTheWay ==
    ASSUME MirrorIInv, NEW r \in Request,
           \/ EnsureBridgeCF(r) \/ PostRefused(r) \/ Dies(r)
           \/ \E d \in Deposit: ConfirmLoads(r, d)
           \/ \E s \in Settlement: SettlementLoads(r, s)
    PROVE  MirrorTypeOK' /\ Posts' /\ Reads'
<1>1. UNCHANGED <<total, deposit, settled, posted>>
  BY DEF EnsureBridgeCF, PostRefused, Dies, ConfirmLoads, SettlementLoads
<1>2. /\ request' \in [Request -> {Idle} \cup Underway]
      /\ \A q \in Request \ {r}: request'[q] = request[q]
      /\ \/ request'[r].pc = "idle"
         \/ /\ request[r].pc = "loaded" /\ request'[r].pc = "ensured"
            /\ request'[r].key = request[r].key /\ request'[r].total = request[r].total
         \/ /\ request'[r].pc = "loaded" /\ request'[r].total = total
            /\ request'[r].key \notin Confirmed
  <2>1. CASE EnsureBridgeCF(r)
    BY <2>1, Moved DEF EnsureBridgeCF, At, MirrorIInv
  <2>2. CASE PostRefused(r) \/ Dies(r)
    BY <2>2, Ended DEF PostRefused, Dies, MirrorIInv
  <2>3. CASE \E d \in Deposit: ConfirmLoads(r, d)
    <3>1. PICK d \in Deposit: ConfirmLoads(r, d)
      BY <2>3
    <3>2. d \in Key /\ d \notin Confirmed
      BY <3>1, MirrorConstants DEF ConfirmLoads, Confirmed
    <3>3. request' = [request EXCEPT ![r] = [pc |-> "loaded", key |-> d, total |-> total]]
      BY <3>1 DEF ConfirmLoads
    <3>4. QED
      BY <3>2, <3>3, Begun DEF MirrorIInv
  <2>4. CASE \E s \in Settlement: SettlementLoads(r, s)
    <3>1. PICK s \in Settlement: SettlementLoads(r, s)
      BY <2>4
    <3>2. s \in Key /\ s \notin Confirmed
      BY <3>1, MirrorConstants DEF Confirmed
    <3>3. request' = [request EXCEPT ![r] = [pc |-> "loaded", key |-> s, total |-> total]]
      BY <3>1 DEF SettlementLoads
    <3>4. QED
      BY <3>2, <3>3, Begun DEF MirrorIInv
  <2>5. QED
    BY <2>1, <2>2, <2>3, <2>4
<1>3. MirrorTypeOK'
  <2>1. deaths' \in 0..MaxDeath
    BY MirrorConstants DEF EnsureBridgeCF, PostRefused, Dies, ConfirmLoads, SettlementLoads,
                           MirrorIInv, MirrorTypeOK
  <2>2. QED
    BY <1>1, <1>2, <2>1 DEF MirrorIInv, MirrorTypeOK
<1>4. \A k \in Key: HasTx(k)' = HasTx(k)
  <2>1. (\E f \in Fund, opening \in Int: CreateCorpusFund(f, opening)) \/ UNCHANGED paaVars
    <3>1. CASE EnsureBridgeCF(r)
      <4>1. request[r].total \in Int /\ JewelerCF \in Fund
        BY <3>1, AtWork, MirrorConstants DEF EnsureBridgeCF, At, MirrorIInv
      <4>2. QED
        BY <3>1, <4>1 DEF EnsureBridgeCF
    <3>2. CASE ~EnsureBridgeCF(r)
      BY <3>2 DEF PostRefused, Dies, ConfirmLoads, SettlementLoads
    <3>3. QED
      BY <3>1, <3>2
  <2>2. QED
    BY <2>1, NoRowMade DEF MirrorIInv, PaaIInv, Cleared
<1>5. Posts'
  <2>1. \A q \in Request: request'[q].pc = "posted" =>
           /\ request[q].pc = "posted" /\ request'[q].key = request[q].key
           /\ request[q].key \in Key
    BY <1>2, AtWork DEF MirrorIInv
  <2>2. QED
    BY <1>1, <1>4, <2>1, PostsCalm DEF MirrorIInv
<1>6. Reads'
  <2>1. Confirmed' = Confirmed
    BY <1>1 DEF Confirmed
  <2>2. \A q \in Request: request'[q].pc # "idle" =>
              /\ \/ request[q].pc # "idle" /\ request'[q].key = request[q].key
                                          /\ request'[q].total = request[q].total
                 \/ request'[q].total = total /\ request'[q].key \notin Confirmed'
              /\ request'[q].pc = "confirmed" =>
                    \/ request[q].pc = "confirmed" /\ request'[q].key = request[q].key
                    \/ request'[q].key \in Confirmed'
    BY <1>2, <2>1
  <2>3. QED
    BY <1>1, <1>3, <2>1, <2>2, ReadsCalm DEF MirrorIInv
<1>7. QED
  BY <1>3, <1>5, <1>6

\* Posting moves one request and no balance.
LEMMA Posting ==
    ASSUME MirrorIInv, NEW r \in Request, PostCollection(r) \/ PostPayment(r)
    PROVE  MirrorTypeOK' /\ Posts' /\ Reads'
<1>1. /\ request[r].pc = "ensured" /\ Goto(r, "posted")
      /\ UNCHANGED <<total, deposit, settled, deaths>>
  BY DEF PostCollection, PostPayment, At
<1>2. /\ request' \in [Request -> {Idle} \cup Underway]
      /\ request'[r].pc = "posted" /\ request'[r].key = request[r].key
      /\ request'[r].total = request[r].total
      /\ \A q \in Request \ {r}: request'[q] = request[q]
  BY <1>1, Moved DEF MirrorIInv
<1>3. MirrorTypeOK'
  <2>1. posted' \in [Deposit -> Nat]
    BY DEF PostCollection, PostPayment, MirrorIInv, MirrorTypeOK
  <2>2. QED
    BY <1>1, <1>2, <2>1 DEF MirrorIInv, MirrorTypeOK
<1>4. Posts'
  BY PostsCollection, PostsPayment DEF MirrorIInv, PaaIInv, Cleared
<1>5. Reads'
  <2>1. Confirmed' = Confirmed
    BY <1>1 DEF Confirmed
  <2>2. \A q \in Request: request'[q].pc # "idle" =>
              /\ request[q].pc # "idle" /\ request'[q].key = request[q].key
                                       /\ request'[q].total = request[q].total
              /\ request'[q].pc = "confirmed" => request[q].pc = "confirmed"
    BY <1>1, <1>2
  <2>3. QED
    BY <1>1, <1>3, <2>1, <2>2, ReadsCalm DEF MirrorIInv
<1>6. QED
  BY <1>3, <1>4, <1>5

\* The deposit that is confirmed has its transaction.
LEMMA DepositSaved ==
    ASSUME MirrorIInv, NEW r \in Request, SaveDeposit(r)
    PROVE  MirrorTypeOK' /\ Posts' /\ Reads'
<1>0. PICK d: d = request[r].key
  OBVIOUS
<1>1. /\ request[r].pc = "posted" /\ d \in Deposit /\ Goto(r, "confirmed")
      /\ deposit' = [deposit EXCEPT ![d] = "CONFIRMED"]
      /\ UNCHANGED <<paaVars, total, settled, posted, deaths>>
  BY <1>0 DEF SaveDeposit, At
<1>2. /\ request' \in [Request -> {Idle} \cup Underway]
      /\ request'[r].pc = "confirmed" /\ request'[r].key = request[r].key
      /\ request'[r].total = request[r].total
      /\ \A q \in Request \ {r}: request'[q] = request[q]
  BY <1>1, Moved DEF MirrorIInv
<1>3. MirrorTypeOK'
  BY <1>1, <1>2 DEF MirrorIInv, MirrorTypeOK
<1>4. Confirmed' = Confirmed \cup {d}
  BY <1>1 DEF Confirmed, MirrorIInv, MirrorTypeOK
<1>5. Posts'
  <2>1. HasTx(d)
    BY <1>0, <1>1 DEF MirrorIInv, Posts, HasTx
  <2>2. \A k \in Key: HasTx(k)' = HasTx(k)
    BY <1>1 DEF paaVars, HasTx
  <2>3. \A e \in Deposit: deposit'[e] = "CONFIRMED" => deposit[e] = "CONFIRMED" \/ HasTx(e)
    BY <1>1, <2>1 DEF MirrorIInv, MirrorTypeOK
  <2>4. \A q \in Request: request'[q].pc = "posted" =>
           /\ request[q].pc = "posted" /\ request'[q].key = request[q].key
           /\ request[q].key \in Key
    BY <1>2, AtWork DEF MirrorIInv
  <2>5. QED
    BY <1>1, <2>2, <2>3, <2>4, PostsCalm DEF MirrorIInv
<1>6. Reads'
  <2>1. \A q \in Request: request'[q].pc # "idle" =>
              /\ request[q].pc # "idle" /\ request'[q].key = request[q].key
                                       /\ request'[q].total = request[q].total
              /\ request'[q].pc = "confirmed" =>
                    \/ request[q].pc = "confirmed" /\ request'[q].key = request[q].key
                    \/ request'[q].key \in Confirmed'
    BY <1>0, <1>1, <1>2, <1>4
  <2>2. QED
    BY <1>1, <1>3, <1>4, <2>1, ReadsCalm DEF MirrorIInv
<1>7. QED
  BY <1>3, <1>5, <1>6

\* The balance is saved by the request that confirmed its deposit.
LEMMA FundSaved ==
    ASSUME MirrorIInv, NEW r \in Request, SaveFund(r)
    PROVE  MirrorTypeOK' /\ Posts' /\ Reads'
<1>0. PICK d: d = request[r].key
  OBVIOUS
<1>1. /\ request[r].pc = "confirmed" /\ total' = request[r].total + Detail[d].amount
      /\ request' = [request EXCEPT ![r] = Idle]
      /\ UNCHANGED <<paaVars, deposit, settled, posted, deaths>>
  BY <1>0 DEF SaveFund, At
<1>2. /\ request' \in [Request -> {Idle} \cup Underway] /\ request'[r].pc = "idle"
      /\ \A q \in Request \ {r}: request'[q] = request[q]
  BY <1>1, Ended DEF MirrorIInv
<1>3. d \in Key /\ request[r].total \in Nat
  BY <1>0, <1>1, AtWork DEF MirrorIInv
<1>4. total' \in Nat
  BY <1>1, <1>3, PaaConstants
<1>5. MirrorTypeOK'
  BY <1>1, <1>2, <1>4 DEF MirrorIInv, MirrorTypeOK
<1>6. Posts'
  <2>1. \A k \in Key: HasTx(k)' = HasTx(k)
    BY <1>1 DEF paaVars, HasTx
  <2>2. \A q \in Request: request'[q].pc = "posted" =>
           /\ request[q].pc = "posted" /\ request'[q].key = request[q].key
           /\ request[q].key \in Key
    BY <1>2, AtWork DEF MirrorIInv
  <2>3. QED
    BY <1>1, <2>1, <2>2, PostsCalm DEF MirrorIInv
<1>7. Reads'
  BY ReadsSaved DEF MirrorIInv
<1>8. QED
  BY <1>5, <1>6, <1>7

\* The settlement's row is counted, and its request ends.
LEMMA SettlementSaved ==
    ASSUME MirrorIInv, NEW r \in Request, SaveSettlement(r)
    PROVE  MirrorTypeOK' /\ Posts' /\ Reads'
<1>1. /\ settled' = [settled EXCEPT ![request[r].key] = settled[request[r].key] + 1]
      /\ request[r].key \in Settlement /\ request' = [request EXCEPT ![r] = Idle]
      /\ UNCHANGED <<paaVars, total, deposit, posted, deaths>>
  BY DEF SaveSettlement
<1>2. /\ request' \in [Request -> {Idle} \cup Underway] /\ request'[r].pc = "idle"
      /\ \A q \in Request \ {r}: request'[q] = request[q]
  BY <1>1, Ended DEF MirrorIInv
<1>3. MirrorTypeOK'
  BY <1>1, <1>2 DEF MirrorIInv, MirrorTypeOK
<1>4. Confirmed' = Confirmed
  BY <1>1 DEF Confirmed
<1>5. \A q \in Request: request'[q].pc # "idle" =>
            /\ request[q].pc # "idle" /\ request'[q].key = request[q].key
                                     /\ request'[q].total = request[q].total
            /\ request'[q].pc = "confirmed" => request[q].pc = "confirmed"
  BY <1>2
<1>6. Reads'
  BY <1>1, <1>3, <1>4, <1>5, ReadsCalm DEF MirrorIInv
<1>7. QED
  BY <1>3, <1>6, PostsSettled DEF MirrorIInv

\* Every step, of a request or beside them, preserves the inductive invariant.
LEMMA MirrorPreserved == MirrorIInv /\ [Next]_vars => MirrorIInv'
<1> SUFFICES ASSUME MirrorIInv, [Next]_vars PROVE MirrorIInv'
  OBVIOUS
<1>1. [AuthorityNext]_paaVars
  BY AuthorityOnly DEF MirrorIInv
<1>2. PaaIInv' /\ RowsHaveStatus'
  BY <1>1, PaaPreserved, RowsStay DEF MirrorIInv, PaaIInv, Cleared
<1>3. MirrorTypeOK' /\ Posts' /\ Reads'
  <2>1. CASE AuthorityStep \/ UNCHANGED vars
    BY <2>1, BesideMirror
  <2>2. CASE \E r \in Request: RequestStep(r)
    BY <2>2, OnTheWay, Posting, DepositSaved, FundSaved, SettlementSaved DEF RequestStep
  <2>3. CASE \E r \in Request: \/ Dies(r)
                               \/ \E d \in Deposit: ConfirmLoads(r, d)
                               \/ \E s \in Settlement: SettlementLoads(r, s)
    BY <2>3, OnTheWay
  <2>4. QED
    BY <2>1, <2>2, <2>3 DEF Next
<1>4. QED
  BY <1>2, <1>3 DEF MirrorIInv

-----------------------------------------------------------------------------
(* The theorems about the mirror *)

THEOREM MirrorInductive == Spec => []MirrorIInv
  BY MirrorInitially, MirrorPreserved, PTL DEF Spec

\* However confirmations and settlements overlap, are repeated or die half-way, the
\* authority has one transaction for each deposit and each key of a settlement, and a
\* local row only after it.  A settlement's key is its reference; repeated without
\* one it takes a key of the moment, which has a transaction of its own.
THEOREM OnePost == Spec => []OnePostEach
<1>1. MirrorIInv => OnePostEach
  <2> SUFFICES ASSUME MirrorIInv PROVE OnePostEach
    OBVIOUS
  <2>1. ASSUME NEW d \in Deposit PROVE posted[d] <= 1 /\ (d \in Confirmed => tx[d] # NoTx)
    BY DEF MirrorIInv, Posts, Confirmed, HasTx
  <2>2. ASSUME NEW s \in Settlement PROVE settled[s] <= 1 /\ (settled[s] = 1 => tx[s] # NoTx)
    BY DEF MirrorIInv, Posts, HasTx
  <2>3. QED
    BY <2>1, <2>2 DEF OnePostEach
<1>2. QED
  BY <1>1, MirrorInductive, PTL

\* The unlocked read-add-write of the balance may lose deposits, in any number and
\* from any number of requests; it never shows money that was not confirmed.
THEOREM NotInflated == Spec => []MirrorNotInflated
<1>1. MirrorIInv => MirrorNotInflated
  BY DEF MirrorIInv, Reads
<1>2. QED
  BY <1>1, MirrorInductive, PTL

\* The rows of the mirror and of the authority keep their shape.
THEOREM MirrorTypeCorrect == Spec => []TypeOK
<1>1. MirrorIInv => TypeOK
  BY DEF MirrorIInv, PaaIInv, Cleared, MirrorTypeOK, TypeOK
<1>2. QED
  BY <1>1, MirrorInductive, PTL
\* Behind the corpus handlers the authority is the same ledger: whatever requests
\* overlap, repeat or die, money moves in it as cleared.
THEOREM MirrorIsLedger == Spec => PaysAsCleared
<1>1. Init => Ledger!Init
  BY LedgerEmpty DEF Init
<1>2. MirrorIInv /\ [Next]_vars => [Ledger!Next]_(Ledger!vars)
  <2> SUFFICES ASSUME MirrorIInv, [Next]_vars PROVE [Ledger!Next]_(Ledger!vars)
    OBVIOUS
  <2>1. MirrorTypeOK /\ Cleared
    BY DEF MirrorIInv, PaaIInv
  <2>2. [AuthorityNext]_paaVars
    BY <2>1, AuthorityOnly
  <2>3. QED
    BY <2>1, <2>2, StepOnLedger
<1>3. QED
  BY MirrorInductive, <1>1, <1>2, PTL DEF Spec, PaysAsCleared, Ledger!Spec
=============================================================================
