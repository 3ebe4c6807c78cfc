----------------------------- MODULE GdpContract -----------------------------
(* contracts/IRGGDP.sol: minting requests with their checklist, the units they *)
(* become, transfer, swap, earmark and recall.  A call is a transaction of its *)
(* own, so each function is one action; a call that reverts is no step.  The   *)
(* mappings answer zeros for every id, given out or not, and most functions    *)
(* never ask which: an id is used before and after it is given out.            *)
EXTENDS Integers, FiniteSetsExt

CONSTANTS
    Account,     \* addresses that sign transactions
    Zero,        \* address(0)
    Checkpoint,  \* the points of the checklist
    Gold,        \* amounts of gold requested, in fractions of a gram
    OneGram,     \* the fractions of a gram: 1e18 in the contract
    Purity,      \* purities requested, in carat
    Parameters,  \* what governance may set: units per gram, cap of a request
    MaxRequest,  \* bound: requests
    MaxUnit,     \* bound: units
    MaxEarmark,  \* bound: earmarks
    MaxTime      \* bound: block timestamps

ASSUME ContractConstants ==
    /\ Zero \notin Account
    /\ Gold \subseteq Nat /\ OneGram \in Nat \ {0}
    /\ Purity \subseteq {24, 22, 18, 14}
    /\ Parameters \subseteq [saleable: Nat, reserve: Nat, cap: Nat] /\ Parameters # {}
    /\ MaxRequest \in Nat /\ MaxUnit \in Nat \ {0} /\ MaxEarmark \in Nat /\ MaxTime \in Nat

VARIABLES
    requests,     \* mintingRequests
    nextRequest,
    units,        \* gdpUnits
    nextUnit,
    userUnits,    \* the ids in each account's list, in any order and number
    totalSupply,
    earmarks,
    nextEarmark,
    parameters,   \* saleablePerGram, reservePerGram, maxMintingCap
    paused,
    now           \* block.timestamp

minting == <<requests, nextRequest>>
ledger == <<units, nextUnit, userUnits, totalSupply>>
locks == <<earmarks, nextEarmark>>
settings == <<parameters, paused>>
vars == <<minting, ledger, locks, settings, now>>

RequestId == 0..MaxRequest - 1
UnitId == 0..MaxUnit - 1
EarmarkId == 0..MaxEarmark - 1
Address == Account \cup {Zero}

RequestStatus == {"Pending", "Approved", "Minted"}
UnitStatus == {"Active", "Earmarked", "Swapped", "Recalled"}

MintingRequest == [requester: Address, gold: Nat, purity: Purity \cup {0},
                   checklist: SUBSET Checkpoint, status: RequestStatus]
GDPUnit == [owner: Address, saleable: Nat, reserve: Nat, status: UnitStatus]
EarmarkRecord == [unit: UnitId, release: Nat, released: BOOLEAN]

NoRequest == [requester |-> Zero, gold |-> 0, purity |-> 0, checklist |-> {}, status |-> "Pending"]
NoUnit == [owner |-> Zero, saleable |-> 0, reserve |-> 0, status |-> "Active"]
NoEarmark == [unit |-> 0, release |-> 0, released |-> FALSE]

Init ==
    /\ requests = [r \in RequestId |-> NoRequest] /\ nextRequest = 0
    /\ units = [u \in UnitId |-> NoUnit] /\ nextUnit = 0
    /\ userUnits = [a \in Account |-> {}]
    /\ totalSupply = 0
    /\ earmarks = [e \in EarmarkId |-> NoEarmark] /\ nextEarmark = 0
    /\ parameters \in Parameters /\ paused = FALSE
    /\ now = 0

-----------------------------------------------------------------------------
(* Minting *)

RequestMinting(sender, gold, purity) ==
    /\ ~paused
    /\ gold > 0 /\ gold <= parameters.cap
    /\ nextRequest < MaxRequest
    /\ requests' = [requests EXCEPT ![nextRequest] =
                      [requester |-> sender, gold |-> gold, purity |-> purity,
                       checklist |-> {}, status |-> "Pending"]]
    /\ nextRequest' = nextRequest + 1
    /\ UNCHANGED <<ledger, locks, settings, now>>

\* (mutant of VerifyCheckpoint: the status is not looked at)
VerifyCheckpointAnyStatus(r, point) ==
    /\ LET checklist == requests[r].checklist \cup {point} IN
       requests' = [requests EXCEPT ![r].checklist = checklist,
                                    ![r].status = IF checklist = Checkpoint THEN "Approved" ELSE @]
    /\ UNCHANGED <<nextRequest, ledger, locks, settings, now>>

\* Also of a request that was never made; making it starts the checklist over.
VerifyCheckpoint(r, point) ==
    /\ requests[r].status = "Pending"
    /\ LET checklist == requests[r].checklist \cup {point} IN
       requests' = [requests EXCEPT ![r].checklist = checklist,
                                    ![r].status = IF checklist = Checkpoint THEN "Approved" ELSE @]
    /\ UNCHANGED <<nextRequest, ledger, locks, settings, now>>

\* getPurityFactor in 1/10000; it reverts on the 0 of a request never made.
PurityFactor(purity) ==
    CASE purity = 24 -> 10000 [] purity = 22 -> 9167 [] purity = 18 -> 7500 [] purity = 14 -> 5833

PureGold(r) == (requests[r].gold * PurityFactor(requests[r].purity)) \div 10000
UnitsFor(pure, perGram) == (pure * perGram) \div OneGram

ExecuteMint(r) ==
    /\ ~paused
    /\ requests[r].status = "Approved" /\ requests[r].purity # 0
    /\ nextUnit < MaxUnit
    /\ LET saleable == UnitsFor(PureGold(r), parameters.saleable)
           reserve == UnitsFor(PureGold(r), parameters.reserve)
           owner == requests[r].requester
       IN /\ units' = [units EXCEPT ![nextUnit] =
                         [owner |-> owner, saleable |-> saleable, reserve |-> reserve,
                          status |-> "Active"]]
          /\ userUnits' = [userUnits EXCEPT ![owner] = @ \cup {nextUnit}]
          /\ totalSupply' = totalSupply + saleable + reserve
    /\ nextUnit' = nextUnit + 1
    /\ requests' = [requests EXCEPT ![r].status = "Minted"]
    /\ UNCHANGED <<nextRequest, locks, settings, now>>

-----------------------------------------------------------------------------
(* What an owner does with a unit *)

OwnedActive(u, sender) == units[u].owner = sender /\ units[u].status = "Active"

Transfer(u, sender, to) ==
    /\ ~paused /\ OwnedActive(u, sender)
    /\ units' = [units EXCEPT ![u].owner = to]
    /\ userUnits' = [userUnits EXCEPT ![to] = @ \cup {u}]
    /\ UNCHANGED <<nextUnit, totalSupply, minting, locks, settings, now>>

Swap(u, sender) ==
    /\ ~paused /\ OwnedActive(u, sender)
    /\ units' = [units EXCEPT ![u].status = "Swapped"]
    /\ UNCHANGED <<nextUnit, userUnits, totalSupply, minting, locks, settings, now>>

\* (mutant of Earmark: the status of the unit is not looked at)
EarmarkAnyStatus(u, sender, release) ==
    /\ ~paused /\ units[u].owner = sender
    /\ release > now
    /\ nextEarmark < MaxEarmark
    /\ earmarks' = [earmarks EXCEPT ![nextEarmark] =
                      [unit |-> u, release |-> release, released |-> FALSE]]
    /\ nextEarmark' = nextEarmark + 1
    /\ units' = [units EXCEPT ![u].status = "Earmarked"]
    /\ UNCHANGED <<nextUnit, userUnits, totalSupply, minting, settings, now>>

Earmark(u, sender, release) ==
    /\ ~paused /\ OwnedActive(u, sender)
    /\ release > now
    /\ nextEarmark < MaxEarmark
    /\ earmarks' = [earmarks EXCEPT ![nextEarmark] =
                      [unit |-> u, release |-> release, released |-> FALSE]]
    /\ nextEarmark' = nextEarmark + 1
    /\ units' = [units EXCEPT ![u].status = "Earmarked"]
    /\ UNCHANGED <<nextUnit, userUnits, totalSupply, minting, settings, now>>

\* (mutant of ReleaseEarmark: a record is released again)
ReleaseEarmarkAgain(e, sender) ==
    LET record == earmarks[e] IN
    /\ now >= record.release
    /\ units[record.unit].owner = sender
    /\ earmarks' = [earmarks EXCEPT ![e].released = TRUE]
    /\ units' = [units EXCEPT ![record.unit].status = "Active"]
    /\ UNCHANGED <<nextEarmark, nextUnit, userUnits, totalSupply, minting, settings, now>>

\* Paused or not.  A record never made names unit 0 and is due at once.
ReleaseEarmark(e, sender) ==
    LET record == earmarks[e] IN
    /\ ~record.released /\ now >= record.release
    /\ units[record.unit].owner = sender
    /\ earmarks' = [earmarks EXCEPT ![e].released = TRUE]
    /\ units' = [units EXCEPT ![record.unit].status = "Active"]
    /\ UNCHANGED <<nextEarmark, nextUnit, userUnits, totalSupply, minting, settings, now>>

-----------------------------------------------------------------------------
(* Recall, governance, time *)

Value(u) == units[u].saleable + units[u].reserve
Total(ids) == SumFunctionOnSet([u \in UnitId |-> Value(u)], ids)

\* (mutant of Recall: a recalled unit is taken off the supply again)
RecallAgain(ids) ==
    /\ units' = [u \in UnitId |->
                   IF u \in ids THEN [units[u] EXCEPT !.status = "Recalled", !.owner = Zero]
                   ELSE units[u]]
    /\ totalSupply' \in 0..totalSupply
    /\ totalSupply' + Total(ids) = totalSupply
    /\ UNCHANGED <<nextUnit, userUnits, minting, locks, settings, now>>

\* (mutant of Recall: the unit is burned)
RecallBurns(ids) ==
    LET recalled == {u \in ids: units[u].status # "Recalled"} IN
    /\ units' = [u \in UnitId |->
                   IF u \in recalled THEN [units[u] EXCEPT !.status = "Burned", !.owner = Zero]
                   ELSE units[u]]
    /\ totalSupply' \in 0..totalSupply
    /\ totalSupply' + Total(recalled) = totalSupply
    /\ UNCHANGED <<nextUnit, userUnits, minting, locks, settings, now>>

\* A list of ids: one that is recalled already, or listed twice, is skipped.
\* The subtraction is checked: more than the supply would revert.
Recall(ids) ==
    LET recalled == {u \in ids: units[u].status # "Recalled"} IN
    /\ units' = [u \in UnitId |->
                   IF u \in recalled THEN [units[u] EXCEPT !.status = "Recalled", !.owner = Zero]
                   ELSE units[u]]
    /\ totalSupply' \in 0..totalSupply
    /\ totalSupply' + Total(recalled) = totalSupply
    /\ UNCHANGED <<nextUnit, userUnits, minting, locks, settings, now>>

UpdateParameters(new) ==
    /\ parameters' = new
    /\ UNCHANGED <<paused, minting, ledger, locks, now>>

Pause == ~paused /\ paused' = TRUE /\ UNCHANGED <<parameters, minting, ledger, locks, now>>

Unpause == paused /\ paused' = FALSE /\ UNCHANGED <<parameters, minting, ledger, locks, now>>

Tick == now < MaxTime /\ now' = now + 1 /\ UNCHANGED <<minting, ledger, locks, settings>>

-----------------------------------------------------------------------------
OwnerCall(sender) ==
    \/ \E gold \in Gold, purity \in Purity: RequestMinting(sender, gold, purity)
    \/ \E u \in UnitId: \/ \E to \in Account: Transfer(u, sender, to)
                        \/ Swap(u, sender)
                        \/ \E release \in 1..MaxTime: Earmark(u, sender, release)
    \/ \E e \in EarmarkId: ReleaseEarmark(e, sender)

\* Holders of MINTER_ROLE, RECALL_ROLE and ADMIN_ROLE; who they are is not asked.
RoleCall ==
    \/ \E r \in RequestId, point \in Checkpoint: VerifyCheckpoint(r, point)
    \/ \E r \in RequestId: ExecuteMint(r)
    \/ \E ids \in SUBSET UnitId: Recall(ids)
    \/ \E new \in Parameters: UpdateParameters(new)
    \/ Pause \/ Unpause

Next == (\E sender \in Account: OwnerCall(sender)) \/ RoleCall \/ Tick

Spec == Init /\ [][Next]_vars

-----------------------------------------------------------------------------
\* Every mapping holds values of its struct; Rejected, Transferred, Redeemed and
\* Burned are declared, and no function sets them.
TypeOK ==
    /\ requests \in [RequestId -> MintingRequest]
    /\ nextRequest \in 0..MaxRequest
    /\ units \in [UnitId -> GDPUnit]
    /\ nextUnit \in 0..MaxUnit
    /\ userUnits \in [Account -> SUBSET UnitId]
    /\ totalSupply \in Nat
    /\ earmarks \in [EarmarkId -> EarmarkRecord]
    /\ nextEarmark \in 0..MaxEarmark
    /\ parameters \in Parameters /\ paused \in BOOLEAN
    /\ now \in 0..MaxTime

Circulating == {u \in UnitId: u < nextUnit /\ units[u].status # "Recalled"}

\* totalSupply counts the units in circulation: what was minted, under whichever
\* parameters, and not recalled, also when a recall names a unit twice, one that
\* is recalled already, or an id that is minted only later.
SupplyIsCirculating == totalSupply = Total(Circulating)

Minted == {r \in RequestId: requests[r].status = "Minted"}

\* Every unit was minted from a request of its own that somebody made and whose
\* checklist is complete; points verified before the request do not count.
MintsAreChecked ==
    /\ \A r \in Minted: r < nextRequest /\ requests[r].checklist = Checkpoint
    /\ nextUnit = Cardinality(Minted)

Open(u) == {e \in EarmarkId: e < nextEarmark /\ earmarks[e].unit = u /\ ~earmarks[e].released}

\* An earmarked unit has the open record that locks it, and a locked unit has
\* only that one and is neither swapped nor free until it is released or
\* recalled.  Unit 0 alone may be freed early: a record never made names it.
EarmarkHolds ==
    \A u \in UnitId:
        /\ units[u].status = "Earmarked" => Open(u) # {}
        /\ u # 0 /\ Open(u) # {} => /\ units[u].status \in {"Earmarked", "Recalled"}
                                    /\ \A e, f \in Open(u): e = f

\* What a step may do to a minted unit.
OnPath(u) ==
    u < nextUnit =>
        /\ units[u].status = "Recalled" => units'[u] = units[u]
        /\ u # 0 /\ units[u].status = "Swapped" => units'[u].status \in {"Swapped", "Recalled"}
        /\ u # 0 /\ units[u].status = "Earmarked" /\ units'[u].status = "Active" =>
              \E e \in Open(u): earmarks'[e].released /\ now >= earmarks[e].release

\* A recalled unit never comes back to anybody; a swapped one is only recalled;
\* an earmarked one is set free only when its term has run (unit 0 as above).
StatusPath == [][\A u \in UnitId: OnPath(u)]_vars
=============================================================================
