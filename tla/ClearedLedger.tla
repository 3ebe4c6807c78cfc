---------------------------- MODULE ClearedLedger ----------------------------
(* What the payment authority comes to once its statuses are forgotten.  A     *)
(* payment is requested once, with an account that stays its account.  People  *)
(* approve it.  It is paid when its oracles have spoken and there are the      *)
(* approvals its amount needs beyond one for each time it was paid before; and *)
(* once its fund is open, a fund's balance moves by what is paid and by        *)
(* nothing else.                                                               *)
EXTENDS Integers, FiniteSets

CONSTANTS
    Key,      \* payments
    Actor,    \* people who approve
    Fund,     \* accounts
    NoFund,   \* no account
    Quorum,   \* Key -> the approvals its amount needs
    Worth     \* Key -> what paying it adds to its account

VARIABLES
    requested,  \* payments that were requested
    account,    \* Key -> the account of a payment
    approvals,  \* Key -> who has approved it
    spoken,     \* payments whose oracles have all spoken
    paid,       \* Key -> how often it was paid
    open,       \* accounts that were opened
    balance     \* Fund -> its balance

vars == <<requested, account, approvals, spoken, paid, open, balance>>

Init ==
    /\ requested = {} /\ spoken = {} /\ open = {}
    /\ account = [k \in Key |-> NoFund]
    /\ approvals = [k \in Key |-> {}]
    /\ paid = [k \in Key |-> 0]
    /\ balance = [f \in Fund |-> 0]

\* The oracles may have spoken before.
Register(k, f) ==
    /\ k \notin requested
    /\ requested' = requested \cup {k}
    /\ account' = [account EXCEPT ![k] = f]
    /\ spoken' \in {spoken, spoken \cup {k}}
    /\ UNCHANGED <<approvals, paid, open, balance>>

Speak(k) ==
    /\ k \in requested \ spoken
    /\ spoken' = spoken \cup {k}
    /\ UNCHANGED <<requested, account, approvals, paid, open, balance>>

Approve(k, a) ==
    /\ k \in requested /\ a \notin approvals[k]
    /\ approvals' = [approvals EXCEPT ![k] = @ \cup {a}]
    /\ UNCHANGED <<requested, account, spoken, paid, open, balance>>

Pay(k) ==
    /\ k \in spoken
    /\ paid[k] + Quorum[k] <= Cardinality(approvals[k])
    /\ paid' = [paid EXCEPT ![k] = @ + 1]
    /\ balance' = IF account[k] \in open THEN [balance EXCEPT ![account[k]] = @ + Worth[k]] ELSE balance
    /\ UNCHANGED <<requested, account, approvals, spoken, open>>

\* With whatever balance its owner states.
Open(f) ==
    /\ f \notin open
    /\ open' = open \cup {f}
    /\ balance'[f] \in Int /\ balance' = [balance EXCEPT ![f] = balance'[f]]
    /\ UNCHANGED <<requested, account, approvals, spoken, paid>>

Next ==
    \/ \E k \in Key: \/ \E f \in Fund \cup {NoFund}: Register(k, f)
                     \/ \E a \in Actor: Approve(k, a)
                     \/ Speak(k) \/ Pay(k)
    \/ \E f \in Fund: Open(f)

Spec == Init /\ [][Next]_vars
=============================================================================
