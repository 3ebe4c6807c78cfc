----------------------------- MODULE CorpusMirror -----------------------------
(* The corpus application in front of the payment authority: confirming a      *)
(* deposit and processing a settlement post a transaction to PaaTransactions   *)
(* and then write the local mirror (Deposit, Settlement and CorpusFund rows)   *)
(* in separate saves, from rows read before.  Requests overlap, are repeated   *)
(* and die half-way; approvals and executions go on beside them.  One jeweler. *)
EXTENDS PaaTransactions

CONSTANTS
    Deposit,     \* the keys of deposits: source_ref gdp-deposit-<id>
    Settlement,  \* the keys of settlements: source_ref gdp-settlement-<reference or time>
    Referenced,  \* those made of a reference_id; each of the others is one moment's
    JewelerCF,   \* the fund cf_jeweler_<id>
    Request,     \* requests the web workers serve at the same time
    MaxDeath     \* bound: requests that die

ASSUME MirrorConstants ==
    /\ Key = Deposit \cup Settlement /\ Deposit \cap Settlement = {}
    /\ Referenced \subseteq Settlement
    /\ JewelerCF \in Fund /\ \A c \in Category: Routing[c] # JewelerCF
    /\ MaxDeath \in Nat

VARIABLES
    total,    \* CorpusFund.total_balance
    deposit,  \* Deposit -> status of the Deposit row
    settled,  \* Settlement -> number of Settlement rows
    request,  \* Request -> where it is, what it is about, total_balance as it read it
    posted,   \* Deposit -> number of transactions posted for it
    deaths    \* requests that have died

mirrorVars == <<total, deposit, settled, request, posted, deaths>>
vars == <<paaVars, mirrorVars>>

Idle == [pc |-> "idle"]

Init ==
    /\ PaaInit
    /\ total = 0
    /\ deposit = [d \in Deposit |-> "PENDING"]
    /\ settled = [s \in Settlement |-> 0]
    /\ request = [r \in Request |-> Idle]
    /\ posted = [d \in Deposit |-> 0]
    /\ deaths = 0

At(r, pc) == request[r].pc = pc
Goto(r, pc) == request' = [request EXCEPT ![r].pc = pc]

-----------------------------------------------------------------------------
(* Both handlers *)

\* The jeweler's fund is created once, with the local balance; creating it a
\* second time raises, and the bridge's error is not looked at.
EnsureBridgeCF(r) ==
    /\ At(r, "loaded")
    /\ IF funds[JewelerCF].exists THEN UNCHANGED paaVars
       ELSE CreateCorpusFund(JewelerCF, request[r].total)
    /\ Goto(r, "ensured")
    /\ UNCHANGED <<total, deposit, settled, posted, deaths>>

\* A refused transaction comes back as ok with nothing in it: a KeyError, a 500.
PostRefused(r) ==
    /\ At(r, "ensured") /\ ~Valid(request[r].key)
    /\ request' = [request EXCEPT ![r] = Idle]
    /\ UNCHANGED <<paaVars, total, deposit, settled, posted, deaths>>

Dies(r) ==
    /\ ~At(r, "idle") /\ deaths < MaxDeath
    /\ request' = [request EXCEPT ![r] = Idle]
    /\ deaths' = deaths + 1
    /\ UNCHANGED <<paaVars, total, deposit, settled, posted>>

-----------------------------------------------------------------------------
(* DepositViewSet.confirm *)

ConfirmLoads(r, d) ==
    /\ At(r, "idle") /\ deposit[d] = "PENDING"
    /\ request' = [request EXCEPT ![r] = [pc |-> "loaded", key |-> d, total |-> total]]
    /\ UNCHANGED <<paaVars, total, deposit, settled, posted, deaths>>

\* (mutant of PostCollection: the authority does not look for the source_ref)
PostCollectionUnkeyed(r) ==
    /\ At(r, "ensured") /\ request[r].key \in Deposit
    /\ posted' = [posted EXCEPT ![request[r].key] = @ + 1]
    /\ Goto(r, "posted")
    /\ UNCHANGED <<paaVars, total, deposit, settled, deaths>>

PostCollection(r) ==
    /\ At(r, "ensured") /\ request[r].key \in Deposit
    /\ CreateTransaction(request[r].key, NoFund, {})
    /\ posted' = [posted EXCEPT ![request[r].key] = @ + 1]
    /\ Goto(r, "posted")
    /\ UNCHANGED <<total, deposit, settled, deaths>>

\* (mutant of SaveDeposit: the status is not among the columns saved)
SaveDepositHashOnly(r) ==
    /\ At(r, "posted") /\ request[r].key \in Deposit
    /\ Goto(r, "confirmed")
    /\ UNCHANGED <<paaVars, total, deposit, settled, posted, deaths>>

SaveDeposit(r) ==
    /\ At(r, "posted") /\ request[r].key \in Deposit
    /\ deposit' = [deposit EXCEPT ![request[r].key] = "CONFIRMED"]
    /\ Goto(r, "confirmed")
    /\ UNCHANGED <<paaVars, total, settled, posted, deaths>>

\* The sum is made of the balance that was read with the deposit.
SaveFund(r) ==
    /\ At(r, "confirmed")
    /\ total' = request[r].total + Detail[request[r].key].amount
    /\ request' = [request EXCEPT ![r] = Idle]
    /\ UNCHANGED <<paaVars, deposit, settled, posted, deaths>>

-----------------------------------------------------------------------------
(* SettlementViewSet.process_settlement *)

\* A key that no request works under and no transaction bears.
Fresh(k) == tx[k] = NoTx /\ ~\E r \in Request: ~At(r, "idle") /\ request[r].key = k

\* The key is the reference's, the same at each repeat; without a reference it is
\* the clock's, another one each time.
SettlementLoads(r, s) ==
    /\ At(r, "idle") /\ total >= Detail[s].amount
    /\ s \in Settlement \ Referenced => Fresh(s)
    /\ request' = [request EXCEPT ![r] = [pc |-> "loaded", key |-> s, total |-> total]]
    /\ UNCHANGED <<paaVars, total, deposit, settled, posted, deaths>>

PostPayment(r) ==
    /\ At(r, "ensured") /\ request[r].key \in Settlement
    /\ CreateTransaction(request[r].key, NoFund, {})
    /\ Goto(r, "posted")
    /\ UNCHANGED <<total, deposit, settled, posted, deaths>>

SaveSettlement(r) ==
    /\ At(r, "posted") /\ request[r].key \in Settlement
    /\ settled' = [settled EXCEPT ![request[r].key] = @ + 1]
    /\ request' = [request EXCEPT ![r] = Idle]
    /\ UNCHANGED <<paaVars, total, deposit, posted, deaths>>

-----------------------------------------------------------------------------
(* Everything else that happens in the authority *)

AuthorityStep ==
    /\ Proceed \/ \E f \in Fund \ {JewelerCF}: CreateCorpusFund(f, 0)
    /\ UNCHANGED mirrorVars

RequestStep(r) ==
    \/ EnsureBridgeCF(r) \/ PostRefused(r) \/ PostCollection(r) \/ SaveDeposit(r)
    \/ SaveFund(r) \/ PostPayment(r) \/ SaveSettlement(r)

Next ==
    \/ AuthorityStep
    \/ \E r \in Request: \/ RequestStep(r) \/ Dies(r)
                         \/ \E d \in Deposit: ConfirmLoads(r, d)
                         \/ \E s \in Settlement: SettlementLoads(r, s)

Spec == Init /\ [][Next]_vars

-----------------------------------------------------------------------------
Underway == [pc: {"loaded", "ensured", "posted", "confirmed"},
             key: Deposit \cup Settlement, total: Nat]

TypeOK ==
    /\ PaaTypeOK
    /\ total \in Nat
    /\ deposit \in [Deposit -> {"PENDING", "CONFIRMED"}]
    /\ settled \in [Settlement -> Nat]
    /\ request \in [Request -> {Idle} \cup Underway]
    /\ posted \in [Deposit -> Nat]
    /\ deaths \in 0..MaxDeath

Confirmed == {d \in Deposit: deposit[d] = "CONFIRMED"}

\* However confirmations overlap, are repeated or die, the authority gets one
\* transaction for a deposit or a settlement's key, and a local row only after it.
\* Of a settlement with a reference that is one payment, however often repeated;
\* without one a repeat has a key, and a payment, of its own.
OnePostEach ==
    /\ \A d \in Deposit: posted[d] <= 1 /\ (d \in Confirmed => tx[d] # NoTx)
    /\ \A s \in Settlement: settled[s] <= 1 /\ (settled[s] = 1 => tx[s] # NoTx)

\* The mirror is never ahead of the deposits: the unlocked read-add-write of the
\* balance may lose a deposit, but it never shows money that was not confirmed.
MirrorNotInflated ==
    total <= SumFunctionOnSet([d \in Deposit |-> Detail[d].amount], Confirmed)
=============================================================================
