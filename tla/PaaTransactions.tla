--------------------------- MODULE PaaTransactions ---------------------------
(* The payment authority of payment_bridge/paa_service.py on its own database  *)
(* (transport django_local): transactions that are created, approved by        *)
(* several people, confirmed by oracles, executed against a corpus fund and    *)
(* counted in the active budget.  Every handler here is a database transaction *)
(* on locked rows, hence one action; a transaction is named by its idempotency *)
(* key, a unique column.  The one handler that is not atomic, the replacement  *)
(* of the budget, takes two steps; the votes that lead to it are left out.     *)
EXTENDS Integers, FiniteSetsExt

CONSTANTS
    Key,        \* idempotency keys
    Detail,     \* Key -> type, category and amount in USD, which the key names
    Actor,      \* users who approve
    Oracle,     \* oracle types
    Fund,       \* PAA corpus funds
    NoFund,     \* no account
    Routing,    \* category -> the first fund of the type it is routed to
    Required,   \* category -> the oracles it requires
    Limit,      \* budgeted category -> maxLimit
    BudgetAtStart, \* there is an active budget at the start
    Thresholds, \* USD amounts from which two, three and a court's approvals are needed
    MaxRevision \* bound: replacements of the budget

Category == DOMAIN Routing

ASSUME PaaConstants ==
    /\ Detail \in [Key -> [type: {"collection", "payment", "roi_credit", "system_charge"},
                           category: Category, amount: Nat \ {0}]]
    /\ Routing \in [Category -> Fund]
    /\ Required \in [Category -> SUBSET Oracle]
    /\ NoFund \notin Fund
    /\ IsFiniteSet(Key)
    /\ DOMAIN Limit \subseteq Category /\ \A c \in DOMAIN Limit: Limit[c] \in Nat
    /\ Thresholds \in [dual: Nat, board: Nat, court: Nat]
    /\ BudgetAtStart \in BOOLEAN /\ MaxRevision \in Nat

VARIABLES
    tx,        \* Key -> PaaTransaction row
    funds,     \* Fund -> PaaCorpusFund row
    budget,    \* the active PaaBudget row: whether there is one, its utilisation
    executed,  \* Key -> number of TRANSACTION_EXECUTED entries in the audit log
    revision   \* applyApprovedRuleChange: where it is, how often it ran

paaVars == <<tx, funds, budget, executed, revision>>

NoTx == [status |-> "none", approvals |-> {}, confirmed |-> {}, account |-> NoFund]

PaaInit ==
    /\ tx = [k \in Key |-> NoTx]
    /\ funds = [f \in Fund |-> [exists |-> FALSE, balance |-> 0]]
    /\ budget = [active |-> BudgetAtStart, used |-> [c \in DOMAIN Limit |-> 0]]
    /\ executed = [k \in Key |-> 0]
    /\ revision = [pc |-> "idle", done |-> 0]

-----------------------------------------------------------------------------
(* The rules engine *)

ApprovalLevel(amount) ==
    IF amount >= Thresholds.court THEN "court"
    ELSE IF amount >= Thresholds.board THEN "board"
    ELSE IF amount >= Thresholds.dual THEN "dual" ELSE "single"

Level(k) == ApprovalLevel(Detail[k].amount)

InitialStatus(k) ==
    [court |-> "court_pending", board |-> "pending_board",
     dual |-> "pending_dual", single |-> "pending_approval"][Level(k)]

Needed(k) == [single |-> 1, dual |-> 2, board |-> 3, court |-> 3][Level(k)]

\* utilizationPercent is 0 under a limit of 0: such a limit never binds.
WithinBudget(k) ==
    LET c == Detail[k].category IN
    budget.active =>
        /\ c \in DOMAIN Limit
        /\ Limit[c] = 0 \/ budget.used[c] + Detail[k].amount <= Limit[c]

TotalCorpus == MapThenSumSet(LAMBDA f: funds[f].balance, Fund)

\* A payment leaves 60% of the corpus, unless there is no corpus to take 60% of.
KeepsCorpusRatio(k) ==
    Detail[k].type = "payment" /\ TotalCorpus > 0 =>
        5 * (TotalCorpus - Detail[k].amount) >= 3 * TotalCorpus

Valid(k) == tx[k] = NoTx /\ WithinBudget(k) /\ KeepsCorpusRatio(k)

-----------------------------------------------------------------------------
(* The handlers *)

CreateTransaction(k, account, vouched) ==
    /\ Valid(k)
    /\ LET routed == Routing[Detail[k].category] IN
       tx' = [tx EXCEPT ![k] =
                [status |-> InitialStatus(k), approvals |-> {},
                 confirmed |-> vouched \cap Required[Detail[k].category],
                 account |-> IF account # NoFund THEN account
                             ELSE IF funds[routed].exists THEN routed ELSE NoFund]]
    /\ UNCHANGED <<funds, budget, executed, revision>>

\* (mutant of ApproveTransaction: the number of approvals needed is not looked at)
ApproveTransactionAtOnce(k, a) ==
    /\ tx[k].status # "none"
    /\ a \notin tx[k].approvals
    /\ tx' = [tx EXCEPT ![k].approvals = @ \cup {a}, ![k].status = "approved"]
    /\ UNCHANGED <<funds, budget, executed, revision>>

\* The status is not looked at: an approval also revives what was executed or
\* cancelled.
ApproveTransaction(k, a) ==
    /\ tx[k].status # "none"
    /\ a \notin tx[k].approvals
    /\ LET approvals == tx[k].approvals \cup {a} IN
       tx' = [tx EXCEPT ![k].approvals = approvals,
                        ![k].status = IF Cardinality(approvals) >= Needed(k) THEN "approved" ELSE @]
    /\ UNCHANGED <<funds, budget, executed, revision>>

\* What an execution adds to the balance of the account.
Delta(k) ==
    IF Detail[k].type \in {"payment", "system_charge"} THEN -Detail[k].amount ELSE Detail[k].amount

\* (mutant of ExecuteTransaction: a failure to lock the budget is passed over)
ExecuteTransactionUncounted(k) ==
    /\ tx[k].status = "approved"
    /\ Required[Detail[k].category] \subseteq tx[k].confirmed
    /\ funds' = IF tx[k].account \in Fund /\ funds[tx[k].account].exists
                THEN [funds EXCEPT ![tx[k].account].balance = @ + Delta(k)] ELSE funds
    /\ tx' = [tx EXCEPT ![k].status = "executed"]
    /\ executed' = [executed EXCEPT ![k] = @ + 1]
    /\ UNCHANGED <<budget, revision>>

\* (mutant of ExecuteTransaction: the account is looked up by the category again)
ExecuteTransactionRouted(k) ==
    /\ tx[k].status = "approved"
    /\ Required[Detail[k].category] \subseteq tx[k].confirmed
    /\ LET routed == Routing[Detail[k].category] IN
       funds' = IF funds[routed].exists THEN [funds EXCEPT ![routed].balance = @ + Delta(k)] ELSE funds
    /\ budget' = IF budget.active /\ Detail[k].category \in DOMAIN Limit
                 THEN [budget EXCEPT !.used[Detail[k].category] = @ + Detail[k].amount]
                 ELSE budget
    /\ tx' = [tx EXCEPT ![k].status = "executed"]
    /\ executed' = [executed EXCEPT ![k] = @ + 1]
    /\ UNCHANGED revision

ExecuteTransaction(k) ==
    /\ tx[k].status = "approved"
    /\ Required[Detail[k].category] \subseteq tx[k].confirmed
    /\ funds' = IF tx[k].account \in Fund /\ funds[tx[k].account].exists
                THEN [funds EXCEPT ![tx[k].account].balance = @ + Delta(k)] ELSE funds
    /\ budget' = IF budget.active /\ Detail[k].category \in DOMAIN Limit
                 THEN [budget EXCEPT !.used[Detail[k].category] = @ + Detail[k].amount]
                 ELSE budget
    /\ tx' = [tx EXCEPT ![k].status = "executed"]
    /\ executed' = [executed EXCEPT ![k] = @ + 1]
    /\ UNCHANGED revision

CancelTransaction(k) ==
    /\ tx[k].status \notin {"none", "executed", "cancelled"}
    /\ tx' = [tx EXCEPT ![k].status = "cancelled"]
    /\ UNCHANGED <<funds, budget, executed, revision>>

\* A confirmation the category does not require is stored and never read.
RecordOracleConfirmation(k, oracle) ==
    /\ tx[k].status # "none" /\ oracle \in Required[Detail[k].category]
    /\ tx' = [tx EXCEPT ![k].confirmed = @ \cup {oracle}]
    /\ UNCHANGED <<funds, budget, executed, revision>>

\* A fund is created with the balances its creator states.
CreateCorpusFund(f, opening) ==
    /\ ~funds[f].exists
    /\ funds' = [funds EXCEPT ![f] = [exists |-> TRUE, balance |-> opening]]
    /\ UNCHANGED <<tx, budget, executed, revision>>

-----------------------------------------------------------------------------
(* applyApprovedRuleChange of an approved change with a new budget.  It may    *)
(* die between the two statements.                                             *)

DeactivateBudgets ==
    /\ revision.pc = "idle" /\ revision.done < MaxRevision
    /\ revision' = [pc |-> "flipped", done |-> revision.done + 1]
    /\ budget' = [budget EXCEPT !.active = FALSE]
    /\ UNCHANGED <<tx, funds, executed>>

ActivateNewBudget ==
    /\ revision.pc = "flipped"
    /\ revision' = [revision EXCEPT !.pc = "idle"]
    /\ \/ budget' = [active |-> TRUE, used |-> [c \in DOMAIN Limit |-> 0]]
       \/ UNCHANGED budget
    /\ UNCHANGED <<tx, funds, executed>>

-----------------------------------------------------------------------------
\* What the people and services around a transaction do with it.
Proceed ==
    \/ \E k \in Key: \/ ExecuteTransaction(k) \/ CancelTransaction(k)
                     \/ \E a \in Actor: ApproveTransaction(k, a)
                     \/ \E oracle \in Oracle: RecordOracleConfirmation(k, oracle)
    \/ DeactivateBudgets \/ ActivateNewBudget

\* Callers of the API name an account or none, and state confirmations.
PaaNext ==
    \/ Proceed
    \/ \E k \in Key, account \in Fund \cup {NoFund}, vouched \in SUBSET Oracle:
          CreateTransaction(k, account, vouched)
    \/ \E f \in Fund: CreateCorpusFund(f, 0)

PaaSpec == PaaInit /\ [][PaaNext]_paaVars

-----------------------------------------------------------------------------
TxStatus == {"none", "pending_approval", "pending_dual", "pending_board", "court_pending",
             "approved", "executed", "cancelled"}

\* Rows have the shape of their Django models, and no handler leaves the statuses
\* pending, validated and failed, which the model declares, in a row.
PaaTypeOK ==
    /\ tx \in [Key -> [status: TxStatus, approvals: SUBSET Actor, confirmed: SUBSET Oracle,
                       account: Fund \cup {NoFund}]]
    /\ funds \in [Fund -> [exists: BOOLEAN, balance: Int]]
    /\ budget \in [active: BOOLEAN, used: [DOMAIN Limit -> Nat]]
    /\ executed \in [Key -> Nat]
    /\ revision \in [pc: {"idle", "flipped"}, done: 0..MaxRevision]

\* Each execution of a transaction is paid for by the approval of a different
\* person, at or beyond the number its amount calls for, and all its oracles
\* have spoken: cancelling, approving out of turn and executing again included.
ExecutionsAreCleared ==
    \A k \in Key: executed[k] > 0 =>
        /\ executed[k] + Needed(k) <= Cardinality(tx[k].approvals) + 1
        /\ Required[Detail[k].category] \subseteq tx[k].confirmed

\* Until the first revision, the utilisation of the budget is what the audit log
\* says was executed in its categories, revived transactions counted each time.
BudgetCounts ==
    budget.active /\ revision.done = 0 =>
        \A c \in DOMAIN Limit:
            budget.used[c] = SumFunctionOnSet([k \in Key |-> executed[k] * Detail[k].amount],
                                              {k \in Key: Detail[k].category = c})

\* Without its statuses the authority is a ledger that moves money only with a
\* payment that has approvals to spare, and only on the account that was fixed when
\* the payment was requested.  Cancelling does nothing to it, and reviving a payment
\* is one approval more.
Ledger == INSTANCE ClearedLedger WITH
              Quorum <- [k \in Key |-> Needed(k)],
              Worth <- [k \in Key |-> Delta(k)],
              requested <- {k \in Key: tx[k].status # "none"},
              account <- [k \in Key |-> tx[k].account],
              approvals <- [k \in Key |-> tx[k].approvals],
              spoken <- {k \in Key: tx[k].status # "none" /\ Required[Detail[k].category] \subseteq tx[k].confirmed},
              paid <- executed,
              open <- {f \in Fund: funds[f].exists},
              balance <- [f \in Fund |-> funds[f].balance]
PaysAsCleared == Ledger!Spec
=============================================================================
