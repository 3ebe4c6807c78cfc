---------------------------- MODULE JewelleryRights ---------------------------
(* Jewellery rights (irg_jr): issuance with a verified payment or in one step, *)
(* the GDP units minted with it or backfilled by the admin, and buybacks.  The *)
(* chain is called before the row that records the call is stored, and rows    *)
(* are stored one by one, without a transaction or a lock.                     *)
EXTENDS Handlers

CONSTANTS
    Issuance,    \* issuance records
    Jewel,       \* Issuance -> customer, jeweler, weight and purity: what backfill compares
    MaxRights,   \* bound: JR units
    MaxBuyback   \* bound: buyback records

\* Issuances and buybacks are rows of two tables, named apart.
ASSUME JrConstants == MaxRights \in Nat /\ MaxBuyback \in Nat /\ Issuance \cap (1..MaxBuyback) = {}

VARIABLES
    issuance,    \* Issuance -> status of the row, the JR unit it links
    right,       \* the JRUnit rows: status, issuance
    recorded,    \* issuances with a MintingRecord
    produced,    \* Issuance -> issue_jr and mint_gdp transactions sent for it, its GDPUnit rows
    buyback,     \* the BuybackRecord rows: status, right
    paid,        \* buyback -> times it was paid on the chain
    issuing,     \* Request -> what it is doing
    crossed,     \* history: issuances and buybacks two requests worked on at a time
    dropped,     \* history: issuances and buybacks a request died over
    lost         \* history: issuances with a mint on the chain that no record followed

jrVars == <<issuance, right, recorded, produced, buyback, paid, issuing, crossed, dropped, lost>>

Rights == 1..MaxRights
Buybacks == 1..MaxBuyback
NoRight == 0

JrInit ==
    /\ issuance = [i \in Issuance |-> [status |-> "none", right |-> NoRight]]
    /\ right = [r \in Rights |-> Absent]
    /\ recorded = {} /\ produced = [i \in Issuance |-> [issued |-> 0, minted |-> 0, units |-> 0]]
    /\ buyback = [b \in Buybacks |-> Absent] /\ paid = [b \in Buybacks |-> 0]
    /\ issuing = [q \in Request |-> Free]
    /\ crossed = {} /\ dropped = {} /\ lost = {}

JrAt(q, pc) == issuing[q].pc = pc
JrStep(q, pc) == issuing' = [issuing EXCEPT ![q].pc = pc]
JrEnds(q) == issuing' = [issuing EXCEPT ![q] = Free]

\* Begins to work on an issuance or a buyback.
Takes(q, pc, paper) ==
    /\ JrAt(q, "free")
    /\ issuing' = [issuing EXCEPT ![q] = [pc |-> pc, paper |-> paper, right |-> NoRight]]
    /\ crossed' = IF \E p \in Request: ~JrAt(p, "free") /\ issuing[p].paper = paper
                  THEN crossed \cup {paper} ELSE crossed

\* No record, and no request that is about to store it.
Unused(i) == issuance[i].status = "none" /\ \A p \in Request: ~JrAt(p, "free") => issuing[p].paper # i

InitiateIssuance(i) ==
    /\ Unused(i)
    /\ issuance' = [issuance EXCEPT ![i].status = "PENDING_PAYMENT"]
    /\ UNCHANGED <<right, recorded, produced, buyback, paid, issuing, crossed, dropped, lost>>

VerifyPaymentLoads(q, i) ==
    /\ issuance[i].status = "PENDING_PAYMENT"
    /\ Takes(q, "verify", i)
    /\ UNCHANGED <<issuance, right, recorded, produced, buyback, paid, dropped, lost>>

\* The row is saved as it was read: without a JR unit.
VerifyPaymentSaves(q) ==
    /\ JrAt(q, "verify")
    /\ issuance' = [issuance EXCEPT ![issuing[q].paper] = [status |-> "PAYMENT_VERIFIED", right |-> NoRight]]
    /\ JrEnds(q)
    /\ UNCHANGED <<right, recorded, produced, buyback, paid, crossed, dropped, lost>>

\* (mutant of ConfirmPaymentLoads: a completed issuance may be confirmed again)
ConfirmPaymentAgain(q, i) ==
    /\ issuance[i].status \in {"PAYMENT_VERIFIED", "COMPLETED"}
    /\ Takes(q, "confirm", i)
    /\ UNCHANGED <<issuance, right, recorded, produced, buyback, paid, dropped, lost>>

\* By the view or by the admin action.
ConfirmPaymentLoads(q, i) ==
    /\ issuance[i].status = "PAYMENT_VERIFIED"
    /\ Takes(q, "confirm", i)
    /\ UNCHANGED <<issuance, right, recorded, produced, buyback, paid, dropped, lost>>

\* issue, the older way, has no record until it has the unit.
IssueBegins(q, i) ==
    /\ Unused(i)
    /\ Takes(q, "issue", i)
    /\ UNCHANGED <<issuance, right, recorded, produced, buyback, paid, dropped, lost>>

\* blockchain.issue_jr, before there is a JR unit.
IssuesOnChain(q) ==
    /\ issuing[q].pc \in {"confirm", "issue"} /\ produced[issuing[q].paper].issued < MaxRights
    /\ produced' = [produced EXCEPT ![issuing[q].paper].issued = @ + 1]
    /\ JrStep(q, IF JrAt(q, "confirm") THEN "create" ELSE "new")
    /\ UNCHANGED <<issuance, right, recorded, buyback, paid, crossed, dropped, lost>>

CreatesRight(q) ==
    /\ issuing[q].pc \in {"create", "new"} /\ HasRoom(right)
    /\ LET r == NextRow(right) IN
       /\ right' = [right EXCEPT ![r] = [status |-> "ACTIVE", issuance |-> issuing[q].paper]]
       /\ issuing' = [issuing EXCEPT ![q].right = r,
                                     ![q].pc = IF @ = "create" THEN "complete" ELSE "record"]
    /\ UNCHANGED <<issuance, recorded, produced, buyback, paid, crossed, dropped, lost>>

Completed(q) ==
    issuance' = [issuance EXCEPT ![issuing[q].paper] = [status |-> "COMPLETED", right |-> issuing[q].right]]

IssueRecords(q) ==
    /\ JrAt(q, "record") /\ Completed(q) /\ JrEnds(q)
    /\ UNCHANGED <<right, recorded, produced, buyback, paid, crossed, dropped, lost>>

ConfirmCompletes(q) ==
    /\ JrAt(q, "complete") /\ Completed(q) /\ JrStep(q, "mint")
    /\ UNCHANGED <<right, recorded, produced, buyback, paid, crossed, dropped, lost>>

BackfillChecks(q, i) ==
    /\ issuance[i].status = "COMPLETED" /\ issuance[i].right # NoRight
    /\ \A j \in recorded: Jewel[j] # Jewel[i]
    /\ Takes(q, "mint", i)
    /\ UNCHANGED <<issuance, right, recorded, produced, buyback, paid, dropped, lost>>

\* Confirmation and backfill end alike: blockchain.mint_gdp, the minting record, the unit.
MintsOnChain(q) ==
    /\ JrAt(q, "mint") /\ produced[issuing[q].paper].minted < MaxRights
    /\ produced' = [produced EXCEPT ![issuing[q].paper].minted = @ + 1]
    /\ JrStep(q, "recording")
    /\ UNCHANGED <<issuance, right, recorded, buyback, paid, crossed, dropped, lost>>

RecordsMint(q) ==
    /\ JrAt(q, "recording")
    /\ recorded' = recorded \cup {issuing[q].paper}
    /\ JrStep(q, "unit")
    /\ UNCHANGED <<issuance, right, produced, buyback, paid, crossed, dropped, lost>>

MintsGdp(q) ==
    /\ JrAt(q, "unit") /\ produced[issuing[q].paper].units < MaxRights
    /\ produced' = [produced EXCEPT ![issuing[q].paper].units = @ + 1]
    /\ JrEnds(q)
    /\ UNCHANGED <<issuance, right, recorded, buyback, paid, crossed, dropped, lost>>

\* The minting ends before its record: a mint that was sent is on no record.
LosesMint(q) == lost' = IF JrAt(q, "recording") THEN lost \cup {issuing[q].paper} ELSE lost

\* What raises while minting, the chain's call included, is logged.
MintFails(q) ==
    /\ issuing[q].pc \in {"mint", "recording", "unit"} /\ JrEnds(q) /\ LosesMint(q)
    /\ UNCHANGED <<issuance, right, recorded, produced, buyback, paid, crossed, dropped>>

-----------------------------------------------------------------------------
\* Past the lock-in.  Other requests for the same right are not looked at.
RequestBuyback(r) ==
    /\ right[r] # Absent /\ right[r].status = "ACTIVE" /\ HasRoom(buyback)
    /\ buyback' = [buyback EXCEPT ![NextRow(buyback)] = [status |-> "REQUESTED", right |-> r]]
    /\ UNCHANGED <<issuance, right, recorded, produced, paid, issuing, crossed, dropped, lost>>

ApproveBuybackLoads(q, b) ==
    /\ buyback[b] # Absent /\ buyback[b].status = "REQUESTED"
    /\ Takes(q, "buyback", b)
    /\ UNCHANGED <<issuance, right, recorded, produced, buyback, paid, dropped, lost>>

PaysBuyback(q) ==
    /\ JrAt(q, "buyback") /\ paid[issuing[q].paper] < MaxRights
    /\ paid' = [paid EXCEPT ![issuing[q].paper] = @ + 1]
    /\ JrStep(q, "bought")
    /\ UNCHANGED <<issuance, right, recorded, produced, buyback, crossed, dropped, lost>>

CompletesBuyback(q) ==
    /\ JrAt(q, "bought")
    /\ buyback' = [buyback EXCEPT ![issuing[q].paper].status = "COMPLETED"]
    /\ JrStep(q, "return")
    /\ UNCHANGED <<issuance, right, recorded, produced, paid, crossed, dropped, lost>>

ReturnsRight(q) ==
    /\ JrAt(q, "return")
    /\ right' = [right EXCEPT ![buyback[issuing[q].paper].right].status = "BUYBACK"]
    /\ JrEnds(q)
    /\ UNCHANGED <<issuance, recorded, produced, buyback, paid, crossed, dropped, lost>>

JrDies(q) ==
    /\ ~JrAt(q, "free")
    /\ dropped' = dropped \cup {issuing[q].paper} /\ LosesMint(q)
    /\ JrEnds(q)
    /\ UNCHANGED <<issuance, right, recorded, produced, buyback, paid, crossed>>

JrNext ==
    \/ \E q \in Request:
          \/ \E i \in Issuance: \/ VerifyPaymentLoads(q, i) \/ ConfirmPaymentLoads(q, i)
                                \/ IssueBegins(q, i) \/ BackfillChecks(q, i)
          \/ \E b \in Buybacks: ApproveBuybackLoads(q, b)
          \/ VerifyPaymentSaves(q) \/ IssuesOnChain(q) \/ CreatesRight(q) \/ IssueRecords(q) \/ ConfirmCompletes(q)
          \/ MintsOnChain(q) \/ RecordsMint(q) \/ MintsGdp(q) \/ MintFails(q)
          \/ PaysBuyback(q) \/ CompletesBuyback(q) \/ ReturnsRight(q) \/ JrDies(q)
    \/ \E i \in Issuance: InitiateIssuance(i)
    \/ \E r \in Rights: RequestBuyback(r)

JrSpec == JrInit /\ [][JrNext]_jrVars

-----------------------------------------------------------------------------
IssuanceRow == [status: {"none", "PENDING_PAYMENT", "PAYMENT_VERIFIED", "COMPLETED"},
                right: Rights \cup {NoRight}]
ProducedRow == [issued: Nat, minted: Nat, units: Nat]
RightRow == [status: {"ACTIVE", "BUYBACK"}, issuance: Issuance]
BuybackRow == [status: {"REQUESTED", "COMPLETED"}, right: Rights]

\* The rows have the fields of the models.
JrTypeOK ==
    /\ issuance \in [Issuance -> IssuanceRow]
    /\ right \in [Rights -> {Absent} \cup RightRow]
    /\ recorded \subseteq Issuance /\ produced \in [Issuance -> ProducedRow]
    /\ buyback \in [Buybacks -> {Absent} \cup BuybackRow]
    /\ paid \in [Buybacks -> Nat] /\ crossed \cup dropped \subseteq Issuance \cup Buybacks
    /\ lost \subseteq Issuance

RightsOf(i) == {r \in Rights: right[r] # Absent /\ right[r].issuance = i}

\* Unless two requests work on it at a time, an issuance never has two GDP units; its
\* gold is minted on the chain once, unless a mint was left without its record, by a
\* death or by whatever raised between the two: backfill looks for the record, not for
\* the mint, and mints again.  A right is issued once and a buyback paid once, unless a
\* request died over it, whose work before its save is done again.
IssuesOnce ==
    /\ \A i \in Issuance \ crossed:
          /\ produced[i].units <= 1
          /\ i \notin lost => produced[i].minted <= 1
          /\ i \notin dropped => produced[i].issued <= 1 /\ Cardinality(RightsOf(i)) <= 1
    /\ \A p \in Buybacks \ (crossed \cup dropped): paid[p] <= 1
=============================================================================
