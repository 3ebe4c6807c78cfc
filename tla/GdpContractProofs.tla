-------------------------- MODULE GdpContractProofs --------------------------
(* Proofs about GdpContract, for any accounts, amounts, parameters and bounds.  *)
EXTENDS GdpContract, SetTheorems

(* The inductive invariant.  A request that was never made has no purity, so it *)
(* cannot be minted; a request is Approved only with a full checklist; a unit   *)
(* with an owner is minted and not recalled; a record names a minted unit, and  *)
(* one that was never made names unit 0.                                        *)
RequestsMade ==
    /\ \A r \in RequestId: r >= nextRequest => requests[r].purity = 0
    /\ \A r \in RequestId: requests[r].status = "Approved" => requests[r].checklist = Checkpoint

Owned ==
    \A u \in UnitId: units[u].owner # Zero => u < nextUnit /\ units[u].status # "Recalled"

RecordsMade ==
    \A e \in EarmarkId: IF e < nextEarmark THEN earmarks[e].unit < nextUnit
                                           ELSE earmarks[e].unit = 0

IInv == TypeOK /\ RequestsMade /\ MintsAreChecked /\ Owned /\ RecordsMade /\ EarmarkHolds

-----------------------------------------------------------------------------
(* Amounts *)

\* Dividing natural numbers gives one.
LEMMA DivNat == ASSUME NEW a \in Nat, NEW b \in Nat \ {0} PROVE a \div b \in Nat
  OBVIOUS

\* The product of natural numbers is one.
LEMMA MulNat == ASSUME NEW a \in Nat, NEW b \in Nat PROVE a * b \in Nat
  OBVIOUS

\* What a request is minted to is a natural number of units.
LEMMA UnitsNat ==
    ASSUME TypeOK, NEW r \in RequestId, requests[r].purity # 0, NEW n \in Nat
    PROVE  UnitsFor(PureGold(r), n) \in Nat
<1> DEFINE gold == requests[r].gold
           factor == PurityFactor(requests[r].purity)
<1>1. gold \in Nat /\ requests[r].purity \in {24, 22, 18, 14}
  <2>1. requests[r] \in MintingRequest
    BY DEF TypeOK
  <2>2. gold \in Nat /\ requests[r].purity \in Purity
    BY <2>1 DEF MintingRequest
  <2>3. QED
    BY <2>2, ContractConstants
<1>2. factor \in Nat
  BY <1>1 DEF PurityFactor
<1>3. PureGold(r) \in Nat
  <2> HIDE DEF gold, factor
  <2>1. gold * factor \in Nat
    BY <1>1, <1>2, MulNat
  <2>2. (gold * factor) \div 10000 \in Nat
    BY <2>1, DivNat
  <2>3. QED
    BY <2>2 DEF PureGold, gold, factor
<1>4. PureGold(r) * n \in Nat
  BY <1>3, MulNat
<1>5. QED
  BY <1>4, DivNat, ContractConstants DEF UnitsFor

-----------------------------------------------------------------------------
(* Types *)

\* Zeros are values of every struct.
LEMMA DefaultsTyped ==
    NoRequest \in MintingRequest /\ NoUnit \in GDPUnit /\ NoEarmark \in EarmarkRecord
<1>1. NoRequest \in MintingRequest
  BY DEF NoRequest, MintingRequest, Address, RequestStatus
<1>2. NoUnit \in GDPUnit
  BY DEF NoUnit, GDPUnit, Address, UnitStatus
<1>3. NoEarmark \in EarmarkRecord
  BY ContractConstants DEF NoEarmark, EarmarkRecord, UnitId
<1>4. QED
  BY <1>1, <1>2, <1>3

\* The mappings of a new contract are well typed.
LEMMA TypeInit == Init => TypeOK
<1> SUFFICES ASSUME Init PROVE TypeOK
  OBVIOUS
<1>1. /\ requests \in [RequestId -> MintingRequest]
      /\ units \in [UnitId -> GDPUnit]
      /\ earmarks \in [EarmarkId -> EarmarkRecord]
  BY DefaultsTyped DEF Init
<1>2. userUnits \in [Account -> SUBSET UnitId] /\ totalSupply \in Nat
  BY DEF Init
<1>3. /\ nextRequest \in 0..MaxRequest /\ nextUnit \in 0..MaxUnit
      /\ nextEarmark \in 0..MaxEarmark /\ now \in 0..MaxTime
  BY ContractConstants DEF Init
<1>4. parameters \in Parameters /\ paused \in BOOLEAN
  BY DEF Init
<1>5. QED
  BY <1>1, <1>2, <1>3, <1>4 DEF TypeOK

\* A row of a mapping that changes keeps the mapping well typed.
LEMMA RowsTyped ==
    /\ \A f \in [RequestId -> MintingRequest], r \in RequestId, x \in MintingRequest:
          [f EXCEPT ![r] = x] \in [RequestId -> MintingRequest]
    /\ \A f \in [UnitId -> GDPUnit], u \in UnitId, x \in GDPUnit:
          [f EXCEPT ![u] = x] \in [UnitId -> GDPUnit]
    /\ \A f \in [EarmarkId -> EarmarkRecord], e \in EarmarkId, x \in EarmarkRecord:
          [f EXCEPT ![e] = x] \in [EarmarkId -> EarmarkRecord]
  OBVIOUS

\* Setting the status of a unit, and nothing else, keeps the units well typed.
LEMMA StatusTyped ==
    ASSUME TypeOK, NEW u \in UnitId, NEW status \in UnitStatus,
           units' = [units EXCEPT ![u].status = status]
    PROVE  units' \in [UnitId -> GDPUnit]
  BY DEF TypeOK, GDPUnit

\* Every function keeps the mappings well typed.
LEMMA TypeStep == TypeOK /\ [Next]_vars => TypeOK'
<1> SUFFICES ASSUME TypeOK, [Next]_vars PROVE TypeOK'
  OBVIOUS
<1> USE ContractConstants DEF minting, ledger, locks, settings
<1>1. ASSUME NEW s \in Account, NEW g \in Gold, NEW p \in Purity, RequestMinting(s, g, p)
      PROVE  TypeOK'
  <2>1. [requester |-> s, gold |-> g, purity |-> p, checklist |-> {}, status |-> "Pending"]
           \in MintingRequest
    BY DEF MintingRequest, Address, RequestStatus
  <2>2. nextRequest \in RequestId /\ nextRequest + 1 \in 0..MaxRequest
    BY <1>1 DEF RequestMinting, RequestId, TypeOK
  <2>3. QED
    BY <1>1, <2>1, <2>2, RowsTyped DEF RequestMinting, TypeOK
<1>2. ASSUME NEW s \in Account, NEW u \in UnitId, NEW t \in Account, Transfer(u, s, t)
      PROVE  TypeOK'
  <2>1. units' \in [UnitId -> GDPUnit]
    BY <1>2 DEF Transfer, TypeOK, GDPUnit, Address
  <2>2. userUnits' \in [Account -> SUBSET UnitId]
    BY <1>2 DEF Transfer, TypeOK
  <2>3. QED
    BY <1>2, <2>1, <2>2 DEF Transfer, TypeOK
<1>3. ASSUME NEW s \in Account, NEW u \in UnitId, Swap(u, s) PROVE TypeOK'
  <2>1. units' \in [UnitId -> GDPUnit]
    BY <1>3, StatusTyped DEF Swap, UnitStatus
  <2>2. QED
    BY <1>3, <2>1 DEF Swap, TypeOK
<1>4. ASSUME NEW s \in Account, NEW u \in UnitId, NEW l \in 1..MaxTime, Earmark(u, s, l)
      PROVE  TypeOK'
  <2>1. units' \in [UnitId -> GDPUnit]
    BY <1>4, StatusTyped DEF Earmark, UnitStatus
  <2>2. nextEarmark \in EarmarkId /\ nextEarmark + 1 \in 0..MaxEarmark
    <3>1. nextEarmark < MaxEarmark
      BY <1>4 DEF Earmark
    <3>2. QED
      BY <3>1 DEF EarmarkId, TypeOK
  <2>3. [unit |-> u, release |-> l, released |-> FALSE] \in EarmarkRecord
    BY DEF EarmarkRecord
  <2>4. earmarks' \in [EarmarkId -> EarmarkRecord]
    BY <1>4, <2>2, <2>3, RowsTyped DEF Earmark, TypeOK
  <2>5. QED
    BY <1>4, <2>1, <2>2, <2>4 DEF Earmark, TypeOK
<1>5. ASSUME NEW s \in Account, NEW e \in EarmarkId, ReleaseEarmark(e, s) PROVE TypeOK'
  <2>1. earmarks[e].unit \in UnitId
    BY DEF TypeOK, EarmarkRecord
  <2>2. units' \in [UnitId -> GDPUnit]
    BY <1>5, <2>1, StatusTyped DEF ReleaseEarmark, UnitStatus
  <2>3. earmarks' \in [EarmarkId -> EarmarkRecord]
    <3>1. earmarks' = [earmarks EXCEPT ![e].released = TRUE]
      BY <1>5 DEF ReleaseEarmark
    <3>2. QED
      BY <3>1 DEF TypeOK, EarmarkRecord
  <2>4. QED
    BY <1>5, <2>2, <2>3 DEF ReleaseEarmark, TypeOK
<1>6. ASSUME NEW r \in RequestId, NEW p \in Checkpoint, VerifyCheckpoint(r, p) PROVE TypeOK'
  <2> DEFINE checklist == requests[r].checklist \cup {p}
             status == IF checklist = Checkpoint THEN "Approved" ELSE requests[r].status
  <2>1. requests' \in [RequestId -> MintingRequest]
    <3>1. requests' = [requests EXCEPT ![r].checklist = checklist, ![r].status = status]
      BY <1>6 DEF VerifyCheckpoint
    <3>2. checklist \in SUBSET Checkpoint /\ status \in RequestStatus
      BY DEF TypeOK, MintingRequest, RequestStatus
    <3> HIDE DEF checklist, status
    <3> DEFINE row == [requests[r] EXCEPT !.checklist = checklist, !.status = status]
    <3>0. requests[r] \in MintingRequest
      BY DEF TypeOK
    <3>3. row \in MintingRequest
      BY <3>0, <3>2 DEF MintingRequest
    <3>4. requests' = [requests EXCEPT ![r] = row]
      BY <3>1
    <3> HIDE DEF row
    <3>5. QED
      BY <3>3, <3>4, RowsTyped DEF TypeOK
  <2>2. QED
    BY <1>6, <2>1 DEF VerifyCheckpoint, TypeOK
<1>7. ASSUME NEW r \in RequestId, ExecuteMint(r) PROVE TypeOK'
  <2> DEFINE saleable == UnitsFor(PureGold(r), parameters.saleable)
             reserve == UnitsFor(PureGold(r), parameters.reserve)
             unit == [owner |-> requests[r].requester, saleable |-> saleable,
                      reserve |-> reserve, status |-> "Active"]
  <2>1. parameters.saleable \in Nat /\ parameters.reserve \in Nat
    BY DEF TypeOK
  <2>2. saleable \in Nat /\ reserve \in Nat
    BY <1>7, <2>1, UnitsNat DEF ExecuteMint
  <2>3. nextUnit \in UnitId /\ nextUnit + 1 \in 0..MaxUnit
    <3>1. nextUnit \in 0..MaxUnit /\ MaxUnit \in Nat
      BY ContractConstants DEF TypeOK
    <3>2. nextUnit < MaxUnit
      BY <1>7 DEF ExecuteMint
    <3>3. QED
      BY <3>1, <3>2 DEF UnitId
  <2>4. requests[r].requester \in Address
    BY DEF TypeOK, MintingRequest
  <2>5. /\ units' = [units EXCEPT ![nextUnit] = unit]
        /\ totalSupply' = totalSupply + saleable + reserve
    BY <1>7 DEF ExecuteMint
  <2> HIDE DEF saleable, reserve
  <2>6. unit \in GDPUnit
    BY <2>2, <2>4 DEF GDPUnit, UnitStatus
  <2>7. units' \in [UnitId -> GDPUnit] /\ totalSupply' \in Nat
    BY <2>2, <2>3, <2>5, <2>6, RowsTyped DEF TypeOK
  <2>8. requests' \in [RequestId -> MintingRequest]
    <3>1. requests' = [requests EXCEPT ![r].status = "Minted"]
      BY <1>7 DEF ExecuteMint
    <3>2. QED
      BY <3>1 DEF TypeOK, MintingRequest, RequestStatus
  <2>9. userUnits' \in [Account -> SUBSET UnitId]
    BY <1>7, <2>3 DEF ExecuteMint, TypeOK
  <2>10. QED
    BY <1>7, <2>3, <2>7, <2>8, <2>9 DEF ExecuteMint, TypeOK
<1>8. ASSUME NEW ids \in SUBSET UnitId, Recall(ids) PROVE TypeOK'
  <2>1. units' \in [UnitId -> GDPUnit]
    <3>1. PICK gone \in SUBSET UnitId:
             units' = [u \in UnitId |->
                         IF u \in gone THEN [units[u] EXCEPT !.status = "Recalled", !.owner = Zero] ELSE units[u]]
      BY <1>8 DEF Recall
    <3>2. ASSUME NEW u \in UnitId
          PROVE  units[u] \in GDPUnit /\ [units[u] EXCEPT !.status = "Recalled", !.owner = Zero] \in GDPUnit
      <4>1. units[u] \in GDPUnit
        BY DEF TypeOK
      <4>2. "Recalled" \in UnitStatus /\ Zero \in Address
        BY DEF UnitStatus, Address
      <4>3. QED
        BY <4>1, <4>2 DEF GDPUnit
    <3>3. QED
      BY <3>1, <3>2
  <2>2. totalSupply' \in Nat
    <3>1. totalSupply' \in 0..totalSupply
      BY <1>8 DEF Recall
    <3>2. QED
      BY <3>1 DEF TypeOK
  <2>3. QED
    BY <1>8, <2>1, <2>2 DEF Recall, TypeOK
<1>9. ASSUME NEW new \in Parameters, UpdateParameters(new) PROVE TypeOK'
  BY <1>9 DEF UpdateParameters, TypeOK
<1>10. CASE Pause \/ Unpause
  BY <1>10 DEF Pause, Unpause, TypeOK
<1>11. CASE Tick
  BY <1>11 DEF Tick, TypeOK
<1>12. CASE UNCHANGED vars
  BY <1>12 DEF vars, TypeOK
<1>13. QED
  BY <1>1, <1>2, <1>3, <1>4, <1>5, <1>6, <1>7, <1>8, <1>9, <1>10, <1>11, <1>12
     DEF Next, OwnerCall, RoleCall

\* The mappings hold values of their structs in every reachable state.
THEOREM TypeCorrect == Spec => []TypeOK
<1>1. QED
  BY TypeInit, TypeStep, PTL DEF Spec

-----------------------------------------------------------------------------
(* What each action does to the rest of the state: the invariants below are     *)
(* proved from these facts and not from the definitions.                       *)

\* The functions that leave units, records and their counters alone.
Elsewhere == UNCHANGED <<units, nextUnit, earmarks, nextEarmark>>

\* A step that leaves minting requests alone keeps what is known of them.
LEMMA RequestsKept ==
    ASSUME IInv, UNCHANGED <<requests, nextRequest, nextUnit>>
    PROVE  RequestsMade' /\ MintsAreChecked'
  BY DEF IInv, RequestsMade, MintsAreChecked, Minted

\* A step that leaves units and records alone keeps what is known of them.
LEMMA LocksKept ==
    ASSUME IInv, Elsewhere
    PROVE  Owned' /\ RecordsMade' /\ EarmarkHolds'
  BY DEF IInv, Elsewhere, Owned, RecordsMade, EarmarkHolds, Open

\* Asking for units adds a request without a minting to its name.
LEMMA RequestMintingKeeps ==
    ASSUME IInv, NEW s \in Account, NEW g \in Gold, NEW p \in Purity, RequestMinting(s, g, p)
    PROVE  RequestsMade' /\ MintsAreChecked'
<1> DEFINE new == [requester |-> s, gold |-> g, purity |-> p, checklist |-> {}, status |-> "Pending"]
<1>1. nextRequest \in RequestId /\ nextRequest' = nextRequest + 1 /\ nextUnit' = nextUnit
  <2>1. nextRequest < MaxRequest /\ nextRequest' = nextRequest + 1 /\ nextUnit' = nextUnit
    BY DEF RequestMinting, ledger
  <2>2. QED
    BY <2>1, ContractConstants DEF IInv, TypeOK, RequestId
<1>2. requests' = [requests EXCEPT ![nextRequest] = new]
  BY DEF RequestMinting
<1>3. \A r \in RequestId: requests'[r] = IF r = nextRequest THEN new ELSE requests[r]
  BY <1>1, <1>2 DEF IInv, TypeOK
<1>4. RequestsMade'
  <2>1. ASSUME NEW r \in RequestId, r >= nextRequest' PROVE requests'[r].purity = 0
    BY <1>1, <1>3, <2>1 DEF IInv, RequestsMade, RequestId
  <2>2. ASSUME NEW r \in RequestId, requests'[r].status = "Approved"
        PROVE  requests'[r].checklist = Checkpoint
    BY <1>3, <2>2 DEF IInv, RequestsMade
  <2>3. QED
    BY <2>1, <2>2 DEF RequestsMade
<1>5. nextRequest \notin Minted
  BY <1>1 DEF IInv, MintsAreChecked, RequestId
<1>6. Minted' = Minted
  BY <1>3, <1>5 DEF Minted
<1>7. ASSUME NEW r \in Minted PROVE r < nextRequest' /\ requests'[r].checklist = Checkpoint
  BY <1>1, <1>3, <1>5 DEF IInv, MintsAreChecked, Minted, RequestId
<1>8. QED
  BY <1>1, <1>4, <1>6, <1>7 DEF IInv, MintsAreChecked

\* A checkpoint is passed only by a pending request.
LEMMA VerifyCheckpointKeeps ==
    ASSUME IInv, NEW r \in RequestId, NEW p \in Checkpoint, VerifyCheckpoint(r, p)
    PROVE  RequestsMade' /\ MintsAreChecked'
<1> DEFINE checklist == requests[r].checklist \cup {p}
           status == IF checklist = Checkpoint THEN "Approved" ELSE requests[r].status
<1>1. requests' = [requests EXCEPT ![r].checklist = checklist, ![r].status = status]
  BY DEF VerifyCheckpoint
<1>2. requests[r].status = "Pending" /\ UNCHANGED <<nextRequest, nextUnit>>
  BY DEF VerifyCheckpoint, ledger
<1>3. /\ \A q \in RequestId: q # r => requests'[q] = requests[q]
      /\ requests'[r].purity = requests[r].purity
      /\ requests'[r].checklist = checklist /\ requests'[r].status = status
  <2> HIDE DEF checklist, status
  <2>1. requests[r] \in MintingRequest /\ requests \in [RequestId -> MintingRequest]
    BY DEF IInv, TypeOK
  <2>2. QED
    BY <1>1, <2>1 DEF MintingRequest
<1>4. RequestsMade'
  <2>1. ASSUME NEW q \in RequestId, q >= nextRequest' PROVE requests'[q].purity = 0
    BY <1>2, <1>3, <2>1 DEF IInv, RequestsMade
  <2>2. ASSUME NEW q \in RequestId, requests'[q].status = "Approved"
        PROVE  requests'[q].checklist = Checkpoint
    BY <1>2, <1>3, <2>2 DEF IInv, RequestsMade
  <2>3. QED
    BY <2>1, <2>2 DEF RequestsMade
<1>5. Minted' = Minted /\ r \notin Minted
  BY <1>2, <1>3 DEF Minted
<1>6. QED
  BY <1>2, <1>3, <1>4, <1>5 DEF IInv, MintsAreChecked, Minted

\* Minting uses up an approved request that somebody made.
LEMMA ExecuteMintKeeps ==
    ASSUME IInv, NEW r \in RequestId, ExecuteMint(r)
    PROVE  RequestsMade' /\ MintsAreChecked'
<1>1. /\ requests[r].status = "Approved" /\ requests[r].purity # 0
      /\ nextUnit' = nextUnit + 1 /\ nextRequest' = nextRequest
      /\ requests' = [requests EXCEPT ![r].status = "Minted"]
  BY DEF ExecuteMint
<1>2. /\ \A q \in RequestId: q # r => requests'[q] = requests[q]
      /\ requests'[r].purity = requests[r].purity
      /\ requests'[r].checklist = requests[r].checklist /\ requests'[r].status = "Minted"
  <2>1. requests[r] \in MintingRequest /\ requests \in [RequestId -> MintingRequest]
    BY DEF IInv, TypeOK
  <2>2. QED
    BY <1>1, <2>1 DEF MintingRequest
<1>3. r < nextRequest /\ requests[r].checklist = Checkpoint
  BY <1>1 DEF IInv, TypeOK, RequestsMade, RequestId
<1>4. RequestsMade'
  BY <1>1, <1>2 DEF IInv, RequestsMade
<1>5. Minted' = Minted \cup {r} /\ r \notin Minted
  BY <1>1, <1>2 DEF Minted
<1>6. IsFiniteSet(Minted)
  <2>1. IsFiniteSet(RequestId)
    BY FS_Interval, ContractConstants DEF RequestId
  <2>2. QED
    BY <2>1, FS_Subset DEF Minted
<1>7. Cardinality(Minted') = Cardinality(Minted) + 1
  BY <1>5, <1>6, FS_AddElement
<1>8. \A q \in Minted': q < nextRequest' /\ requests'[q].checklist = Checkpoint
  BY <1>1, <1>2, <1>3, <1>5 DEF IInv, MintsAreChecked, Minted
<1>9. QED
  BY <1>1, <1>4, <1>7, <1>8 DEF IInv, MintsAreChecked

-----------------------------------------------------------------------------
(* Units and the records that lock them *)

\* A unit that somebody owns is minted and not recalled.
LEMMA OwnedMinted ==
    ASSUME IInv, NEW u \in UnitId, NEW s \in Account, units[u].owner = s
    PROVE  u < nextUnit /\ units[u].status # "Recalled"
  BY ContractConstants DEF IInv, Owned

\* An active unit other than unit 0 has no open record.
LEMMA ActiveUnlocked ==
    ASSUME IInv, NEW u \in UnitId, u # 0, units[u].status = "Active"
    PROVE  Open(u) = {}
  BY DEF IInv, EarmarkHolds

\* Only the new owner of a transferred unit is different.
LEMMA TransferKeeps ==
    ASSUME IInv, NEW u \in UnitId, NEW s \in Account, NEW t \in Account, Transfer(u, s, t)
    PROVE  Owned' /\ RecordsMade' /\ EarmarkHolds'
<1>1. /\ units' = [units EXCEPT ![u].owner = t]
      /\ units[u].owner = s /\ UNCHANGED <<nextUnit, earmarks, nextEarmark>>
  BY DEF Transfer, OwnedActive, locks
<1>2. \A v \in UnitId: /\ units'[v].status = units[v].status
                       /\ v # u => units'[v] = units[v]
  BY <1>1 DEF IInv, TypeOK, GDPUnit
<1>3. Owned'
  BY <1>1, <1>2, OwnedMinted DEF IInv, Owned
<1>4. RecordsMade' /\ EarmarkHolds'
  BY <1>1, <1>2 DEF IInv, RecordsMade, EarmarkHolds, Open
<1>5. QED
  BY <1>3, <1>4

\* A swapped unit was active, so nothing locks it.
LEMMA SwapKeeps ==
    ASSUME IInv, NEW u \in UnitId, NEW s \in Account, Swap(u, s)
    PROVE  Owned' /\ RecordsMade' /\ EarmarkHolds'
<1>1. /\ units' = [units EXCEPT ![u].status = "Swapped"]
      /\ units[u].status = "Active" /\ UNCHANGED <<nextUnit, earmarks, nextEarmark>>
  BY DEF Swap, OwnedActive, locks
<1>2. /\ \A v \in UnitId: units'[v].owner = units[v].owner /\ (v # u => units'[v] = units[v])
      /\ units'[u].status = "Swapped"
  BY <1>1 DEF IInv, TypeOK, GDPUnit
<1>3. Owned'
  BY <1>1, <1>2 DEF IInv, Owned
<1>4. \A v \in UnitId: Open(v)' = Open(v)
  BY <1>1 DEF Open
<1>5. RecordsMade' /\ EarmarkHolds'
  BY <1>1, <1>2, <1>4, ActiveUnlocked DEF IInv, RecordsMade, EarmarkHolds
<1>6. QED
  BY <1>3, <1>5

\* An earmarked unit gets the one record that locks it.
LEMMA EarmarkKeeps ==
    ASSUME IInv, NEW u \in UnitId, NEW s \in Account, NEW l \in 1..MaxTime, Earmark(u, s, l)
    PROVE  Owned' /\ RecordsMade' /\ EarmarkHolds'
<1> DEFINE new == [unit |-> u, release |-> l, released |-> FALSE]
<1>1. /\ units' = [units EXCEPT ![u].status = "Earmarked"]
      /\ earmarks' = [earmarks EXCEPT ![nextEarmark] = new]
      /\ nextEarmark' = nextEarmark + 1 /\ nextEarmark < MaxEarmark /\ nextUnit' = nextUnit
      /\ units[u].status = "Active" /\ units[u].owner = s
  BY DEF Earmark, OwnedActive
<1>2. nextEarmark \in EarmarkId /\ u < nextUnit
  <2>1. nextEarmark \in EarmarkId
    BY <1>1, ContractConstants DEF IInv, TypeOK, EarmarkId
  <2>2. QED
    BY <1>1, <2>1, OwnedMinted
<1>3. /\ \A v \in UnitId: units'[v].owner = units[v].owner /\ (v # u => units'[v] = units[v])
      /\ units'[u].status = "Earmarked"
  BY <1>1 DEF IInv, TypeOK, GDPUnit
<1>4. \A e \in EarmarkId: earmarks'[e] = IF e = nextEarmark THEN new ELSE earmarks[e]
  BY <1>1, <1>2 DEF IInv, TypeOK
<1>5. Owned'
  BY <1>1, <1>2, <1>3 DEF IInv, Owned
<1>6. RecordsMade'
  BY <1>1, <1>2, <1>4 DEF IInv, RecordsMade, EarmarkId
<1>7. \A v \in UnitId: Open(v)' = IF v = u THEN Open(u) \cup {nextEarmark} ELSE Open(v)
  <2>1. ASSUME NEW v \in UnitId, NEW e \in EarmarkId
        PROVE  e \in Open(v)' <=> e \in Open(v) \/ (e = nextEarmark /\ v = u)
    BY <1>1, <1>2, <1>4 DEF Open, EarmarkId, IInv, TypeOK
  <2>2. QED
    BY <1>2, <2>1 DEF Open
<1>8. EarmarkHolds'
  <2>1. ASSUME NEW v \in UnitId, v # u
        PROVE  /\ units'[v].status = "Earmarked" => Open(v)' # {}
               /\ v # 0 /\ Open(v)' # {} => /\ units'[v].status \in {"Earmarked", "Recalled"}
                                           /\ \A e, f \in Open(v)': e = f
    BY <1>3, <1>7, <2>1 DEF IInv, EarmarkHolds
  <2>2. Open(u)' # {} /\ (u # 0 => \A e, f \in Open(u)': e = f)
    BY <1>1, <1>7, ActiveUnlocked
  <2>3. QED
    BY <1>3, <2>1, <2>2 DEF EarmarkHolds
<1>9. QED
  BY <1>5, <1>6, <1>8

\* A release frees the unit of the record; unit 0 also by a record never made.
LEMMA ReleaseKeeps ==
    ASSUME IInv, NEW e \in EarmarkId, NEW s \in Account, ReleaseEarmark(e, s)
    PROVE  Owned' /\ RecordsMade' /\ EarmarkHolds'
<1>0. PICK u \in UnitId: u = earmarks[e].unit
  BY DEF IInv, TypeOK, EarmarkRecord
<1>1. /\ units' = [units EXCEPT ![u].status = "Active"]
      /\ earmarks' = [earmarks EXCEPT ![e].released = TRUE]
      /\ ~earmarks[e].released /\ units[u].owner = s
      /\ UNCHANGED <<nextUnit, nextEarmark>>
  BY <1>0 DEF ReleaseEarmark
<1>2. /\ \A v \in UnitId: units'[v].owner = units[v].owner /\ (v # u => units'[v] = units[v])
      /\ units'[u].status = "Active"
  BY <1>1 DEF IInv, TypeOK, GDPUnit
<1>3. /\ \A f \in EarmarkId: earmarks'[f].unit = earmarks[f].unit /\ (f # e => earmarks'[f] = earmarks[f])
      /\ earmarks'[e].released
  BY <1>1 DEF IInv, TypeOK, EarmarkRecord
<1>4. Owned'
  BY <1>1, <1>2, OwnedMinted DEF IInv, Owned
<1>5. RecordsMade'
  BY <1>1, <1>3 DEF IInv, RecordsMade
<1>6. \A v \in UnitId: Open(v)' = Open(v) \ {e}
  BY <1>1, <1>3 DEF Open
<1>7. \A v \in UnitId: v # u => Open(v)' = Open(v)
  BY <1>0, <1>6 DEF Open
<1>8. u # 0 => e \in Open(u)
  BY <1>0, <1>1 DEF IInv, RecordsMade, Open
<1>9. u # 0 => Open(u)' = {}
  <2>1. u # 0 => \A f \in Open(u): f = e
    BY <1>8 DEF IInv, EarmarkHolds
  <2>2. QED
    BY <1>6, <2>1
<1>10. EarmarkHolds'
  <2>1. ASSUME NEW v \in UnitId, v # u
        PROVE  /\ units'[v].status = "Earmarked" => Open(v)' # {}
               /\ v # 0 /\ Open(v)' # {} => /\ units'[v].status \in {"Earmarked", "Recalled"}
                                           /\ \A f, g \in Open(v)': f = g
    BY <1>2, <1>7, <2>1 DEF IInv, EarmarkHolds
  <2>2. /\ units'[u].status # "Earmarked"
        /\ u # 0 => Open(u)' = {}
    BY <1>2, <1>9
  <2>3. QED
    BY <2>1, <2>2 DEF EarmarkHolds
<1>11. QED
  BY <1>4, <1>5, <1>10

\* A new unit has an id that no record names yet.
LEMMA MintKeeps ==
    ASSUME IInv, NEW r \in RequestId, ExecuteMint(r)
    PROVE  Owned' /\ RecordsMade' /\ EarmarkHolds'
<1> DEFINE unit == [owner |-> requests[r].requester,
                    saleable |-> UnitsFor(PureGold(r), parameters.saleable),
                    reserve |-> UnitsFor(PureGold(r), parameters.reserve), status |-> "Active"]
<1>1. /\ units' = [units EXCEPT ![nextUnit] = unit]
      /\ nextUnit' = nextUnit + 1 /\ UNCHANGED <<earmarks, nextEarmark>>
  BY DEF ExecuteMint, locks
<1>2. unit.status = "Active"
  OBVIOUS
<1> HIDE DEF unit
<1>3. \A v \in UnitId: units'[v] = IF v = nextUnit THEN unit ELSE units[v]
  BY <1>1 DEF IInv, TypeOK
<1>4. nextUnit \in Nat /\ UnitId \subseteq Int /\ \A e \in EarmarkId: earmarks[e].unit \in UnitId
  BY ContractConstants DEF IInv, TypeOK, EarmarkRecord, UnitId
<1>5. Owned'
  BY <1>1, <1>2, <1>3, <1>4 DEF IInv, Owned
<1>6. RecordsMade'
  <2>1. ASSUME NEW e \in EarmarkId, e < nextEarmark PROVE earmarks[e].unit < nextUnit + 1
    <3>1. earmarks[e].unit < nextUnit
      BY <2>1 DEF IInv, RecordsMade
    <3>2. earmarks[e].unit \in Int
      BY <1>4
    <3>3. QED
      BY <1>4, <3>1, <3>2
  <2>2. ASSUME NEW e \in EarmarkId, ~(e < nextEarmark) PROVE earmarks[e].unit = 0
    BY <2>2 DEF IInv, RecordsMade
  <2>3. QED
    BY <1>1, <2>1, <2>2 DEF RecordsMade
<1>7. \A v \in UnitId: Open(v)' = Open(v)
  BY <1>1 DEF Open
<1>8. Open(nextUnit) = {}
  BY <1>4 DEF IInv, RecordsMade, Open
<1>9. EarmarkHolds'
  BY <1>2, <1>3, <1>7, <1>8 DEF IInv, EarmarkHolds
<1>10. QED
  BY <1>5, <1>6, <1>9

\* A recall takes units from their owners and leaves the records open.
LEMMA RecallKeeps ==
    ASSUME IInv, NEW ids \in SUBSET UnitId, Recall(ids)
    PROVE  Owned' /\ RecordsMade' /\ EarmarkHolds'
<1> DEFINE recalled == {u \in ids: units[u].status # "Recalled"}
<1>1. /\ units' = [u \in UnitId |->
                      IF u \in recalled THEN [units[u] EXCEPT !.status = "Recalled", !.owner = Zero]
                      ELSE units[u]]
      /\ UNCHANGED <<nextUnit, earmarks, nextEarmark>>
  BY DEF Recall, locks
<1> HIDE DEF recalled
<1>2. \A v \in UnitId: IF v \in recalled THEN units'[v].status = "Recalled" /\ units'[v].owner = Zero
                                         ELSE units'[v] = units[v]
  BY <1>1 DEF IInv, TypeOK, GDPUnit
<1>3. Owned'
  BY <1>1, <1>2 DEF IInv, Owned
<1>4. RecordsMade' /\ \A v \in UnitId: Open(v)' = Open(v)
  BY <1>1 DEF IInv, RecordsMade, Open
<1>5. EarmarkHolds'
  BY <1>2, <1>4 DEF IInv, EarmarkHolds
<1>6. QED
  BY <1>3, <1>4, <1>5

-----------------------------------------------------------------------------
(* The invariants *)

\* A new contract satisfies the inductive invariant: nothing was made yet.
LEMMA Initially == Init => IInv
<1> SUFFICES ASSUME Init PROVE IInv
  OBVIOUS
<1>1. /\ nextRequest = 0 /\ nextUnit = 0 /\ nextEarmark = 0
      /\ \A r \in RequestId: requests[r] = NoRequest
      /\ \A u \in UnitId: units[u] = NoUnit
      /\ \A e \in EarmarkId: earmarks[e] = NoEarmark
  BY DEF Init
<1>2. RequestsMade
  BY <1>1 DEF RequestsMade, NoRequest
<1>3. Minted = {}
  BY <1>1 DEF Minted, NoRequest
<1>4. MintsAreChecked
  BY <1>1, <1>3, FS_EmptySet DEF MintsAreChecked
<1>5. Owned
  BY <1>1 DEF Owned, NoUnit
<1>6. RecordsMade
  BY <1>1 DEF RecordsMade, NoEarmark, EarmarkId
<1>7. EarmarkHolds
  <2>1. \A u \in UnitId: Open(u) = {}
    BY <1>1 DEF Open, EarmarkId
  <2>2. QED
    BY <1>1, <2>1 DEF EarmarkHolds, NoUnit
<1>8. QED
  BY <1>2, <1>4, <1>5, <1>6, <1>7, TypeInit DEF IInv

\* Every call keeps the inductive invariant.
LEMMA Stepwise == IInv /\ [Next]_vars => IInv'
<1> SUFFICES ASSUME IInv, [Next]_vars PROVE IInv'
  OBVIOUS
<1>1. TypeOK'
  BY TypeStep DEF IInv
<1> DEFINE Kept == /\ RequestsMade' /\ MintsAreChecked'
                   /\ Owned' /\ RecordsMade' /\ EarmarkHolds'
<1>2. ASSUME NEW s \in Account, OwnerCall(s) PROVE Kept
  <2>1. ASSUME NEW g \in Gold, NEW p \in Purity, RequestMinting(s, g, p) PROVE Kept
    BY <2>1, RequestMintingKeeps, LocksKept DEF RequestMinting, ledger, locks, Elsewhere
  <2>2. ASSUME NEW u \in UnitId, NEW t \in Account, Transfer(u, s, t) PROVE Kept
    BY <2>2, TransferKeeps, RequestsKept DEF Transfer, minting
  <2>3. ASSUME NEW u \in UnitId, Swap(u, s) PROVE Kept
    BY <2>3, SwapKeeps, RequestsKept DEF Swap, minting
  <2>4. ASSUME NEW u \in UnitId, NEW l \in 1..MaxTime, Earmark(u, s, l) PROVE Kept
    BY <2>4, EarmarkKeeps, RequestsKept DEF Earmark, minting
  <2>5. ASSUME NEW e \in EarmarkId, ReleaseEarmark(e, s) PROVE Kept
    BY <2>5, ReleaseKeeps, RequestsKept DEF ReleaseEarmark, minting
  <2>6. QED
    BY <1>2, <2>1, <2>2, <2>3, <2>4, <2>5 DEF OwnerCall
<1>3. ASSUME RoleCall PROVE Kept
  <2>1. ASSUME NEW r \in RequestId, NEW p \in Checkpoint, VerifyCheckpoint(r, p) PROVE Kept
    BY <2>1, VerifyCheckpointKeeps, LocksKept DEF VerifyCheckpoint, ledger, locks, Elsewhere
  <2>2. ASSUME NEW r \in RequestId, ExecuteMint(r) PROVE Kept
    BY <2>2, ExecuteMintKeeps, MintKeeps
  <2>3. ASSUME NEW ids \in SUBSET UnitId, Recall(ids) PROVE Kept
    BY <2>3, RecallKeeps, RequestsKept DEF Recall, minting
  <2>4. ASSUME NEW new \in Parameters, UpdateParameters(new) PROVE Kept
    BY <2>4, RequestsKept, LocksKept DEF UpdateParameters, minting, ledger, locks, Elsewhere
  <2>5. ASSUME Pause \/ Unpause PROVE Kept
    BY <2>5, RequestsKept, LocksKept DEF Pause, Unpause, minting, ledger, locks, Elsewhere
  <2>6. QED
    BY <1>3, <2>1, <2>2, <2>3, <2>4, <2>5 DEF RoleCall
<1>4. ASSUME Tick PROVE Kept
  BY <1>4, RequestsKept, LocksKept DEF Tick, minting, ledger, locks, Elsewhere
<1>5. ASSUME UNCHANGED vars PROVE Kept
  BY <1>5, RequestsKept, LocksKept DEF vars, minting, ledger, locks, Elsewhere
<1>6. Kept
  BY <1>2, <1>3, <1>4, <1>5 DEF Next
<1>7. QED
  BY <1>1, <1>6 DEF IInv

\* The inductive invariant holds in every reachable state.
THEOREM Inductive == Spec => []IInv
<1>1. QED
  BY Initially, Stepwise, PTL DEF Spec

\* Every unit comes from a request of its own with a complete checklist.
THEOREM MintsChecked == Spec => []MintsAreChecked
<1>1. IInv => MintsAreChecked
  BY DEF IInv
<1>2. QED
  BY <1>1, Inductive, PTL

\* An earmarked unit and its one open record hold each other.
THEOREM EarmarksHold == Spec => []EarmarkHolds
<1>1. IInv => EarmarkHolds
  BY DEF IInv
<1>2. QED
  BY <1>1, Inductive, PTL

-----------------------------------------------------------------------------
(* What a step does to the status of a unit *)

\* A unit that a step leaves alone, or that was active, is on its path.
LEMMA PathKept ==
    ASSUME IInv, NEW u \in UnitId,
           units'[u] = units[u] \/ units[u].status = "Active" \/ ~(u < nextUnit)
    PROVE  OnPath(u)
  BY DEF OnPath

\* Every call leaves every unit on its path.
LEMMA PathStep ==
    ASSUME IInv, [Next]_vars, NEW u \in UnitId
    PROVE  OnPath(u)
<1>1. ASSUME UNCHANGED units PROVE OnPath(u)
  BY <1>1, PathKept
<1>2. ASSUME NEW s \in Account, NEW v \in UnitId,
             \/ \E t \in Account: Transfer(v, s, t)
             \/ Swap(v, s)
             \/ \E l \in 1..MaxTime: Earmark(v, s, l)
      PROVE  OnPath(u)
  <2>1. units[v].status = "Active" /\ \A w \in UnitId: w # v => units'[w] = units[w]
    BY <1>2 DEF Transfer, Swap, Earmark, OwnedActive, IInv, TypeOK
  <2>2. QED
    BY <2>1, PathKept
<1>3. ASSUME NEW s \in Account, NEW e \in EarmarkId, ReleaseEarmark(e, s) PROVE OnPath(u)
  <2>1. PICK v \in UnitId: v = earmarks[e].unit
    BY DEF IInv, TypeOK, EarmarkRecord
  <2>2. /\ units' = [units EXCEPT ![v].status = "Active"]
        /\ earmarks' = [earmarks EXCEPT ![e].released = TRUE]
        /\ ~earmarks[e].released /\ now >= earmarks[e].release /\ units[v].owner = s
    BY <1>3, <2>1 DEF ReleaseEarmark
  <2>3. CASE u # v
    <3>1. units'[u] = units[u]
      BY <2>2, <2>3 DEF IInv, TypeOK
    <3>2. QED
      BY <3>1, PathKept
  <2>4. CASE u = v
    <3>1. units[u].status # "Recalled"
      BY <2>2, <2>4, OwnedMinted
    <3>2. u # 0 => e \in Open(u)
      BY <2>1, <2>2, <2>4 DEF IInv, RecordsMade, Open
    <3>3. u # 0 => units[u].status # "Swapped"
      BY <3>2 DEF IInv, EarmarkHolds
    <3>4. earmarks'[e].released
      BY <2>2 DEF IInv, TypeOK, EarmarkRecord
    <3>5. QED
      BY <2>2, <3>1, <3>2, <3>3, <3>4 DEF OnPath
  <2>5. QED
    BY <2>3, <2>4
<1>4. ASSUME NEW r \in RequestId, ExecuteMint(r) PROVE OnPath(u)
  <2>1. u < nextUnit => units'[u] = units[u]
    BY <1>4 DEF ExecuteMint, IInv, TypeOK, UnitId
  <2>2. QED
    BY <2>1, PathKept
<1>5. ASSUME NEW ids \in SUBSET UnitId, Recall(ids) PROVE OnPath(u)
  <2>1. \/ units'[u] = units[u]
        \/ units[u].status # "Recalled" /\ units'[u].status = "Recalled"
    <3> DEFINE recalled == {v \in ids: units[v].status # "Recalled"}
    <3>1. units' = [v \in UnitId |->
                      IF v \in recalled THEN [units[v] EXCEPT !.status = "Recalled", !.owner = Zero]
                      ELSE units[v]]
      BY <1>5 DEF Recall
    <3>2. QED
      BY <3>1 DEF IInv, TypeOK, GDPUnit
  <2>2. QED
    BY <2>1, PathKept DEF OnPath
<1>6. ASSUME NEW s \in Account, OwnerCall(s) PROVE OnPath(u)
  <2>1. ASSUME NEW g \in Gold, NEW p \in Purity, RequestMinting(s, g, p) PROVE OnPath(u)
    BY <2>1, <1>1 DEF RequestMinting, ledger
  <2>2. QED
    BY <1>2, <1>3, <1>6, <2>1 DEF OwnerCall
<1>7. ASSUME RoleCall PROVE OnPath(u)
  <2>1. ASSUME NEW r \in RequestId, NEW p \in Checkpoint, VerifyCheckpoint(r, p) PROVE OnPath(u)
    BY <2>1, <1>1 DEF VerifyCheckpoint, ledger
  <2>2. ASSUME NEW new \in Parameters, UpdateParameters(new) PROVE OnPath(u)
    BY <2>2, <1>1 DEF UpdateParameters, ledger
  <2>3. ASSUME Pause \/ Unpause PROVE OnPath(u)
    BY <2>3, <1>1 DEF Pause, Unpause, ledger
  <2>4. QED
    BY <1>4, <1>5, <1>7, <2>1, <2>2, <2>3 DEF RoleCall
<1>8. ASSUME Tick \/ UNCHANGED vars PROVE OnPath(u)
  BY <1>8, <1>1 DEF Tick, vars, ledger
<1>9. QED
  BY <1>6, <1>7, <1>8 DEF Next

\* Recalled units never come back, swapped ones only go to recall, and earmarked
\* ones other than unit 0 are freed by a record whose term has run.
THEOREM StatusPathHolds == Spec => StatusPath
<1>1. IInv /\ [Next]_vars => [\A u \in UnitId: OnPath(u)]_vars
  BY PathStep
<1>2. QED
  BY <1>1, Inductive, PTL DEF Spec, StatusPath

-----------------------------------------------------------------------------
(* The supply.  Beside what is known already, an id that was not given out is   *)
(* worth nothing: a recall may name it, and takes nothing off the supply.       *)

Unminted == \A u \in UnitId: u >= nextUnit => Value(u) = 0

Values == [u \in UnitId |-> Value(u)]

Supply == IInv /\ Unminted /\ SupplyIsCirculating

\* Units are finitely many, and what each is worth is a number.
LEMMA ValuesNat ==
    ASSUME TypeOK
    PROVE  /\ Values \in [UnitId -> Nat] /\ \A u \in UnitId: Values[u] = Value(u)
           /\ IsFiniteSet(UnitId)
           /\ Circulating \subseteq UnitId /\ IsFiniteSet(Circulating)
<1>1. IsFiniteSet(UnitId)
  BY FS_Interval, ContractConstants DEF UnitId
<1>2. ASSUME NEW u \in UnitId PROVE Value(u) \in Nat
  BY DEF TypeOK, GDPUnit, Value
<1>3. Circulating \subseteq UnitId /\ IsFiniteSet(Circulating)
  BY <1>1, FS_Subset DEF Circulating
<1>4. QED
  BY <1>1, <1>2, <1>3 DEF Values

\* A step that mints and recalls nothing leaves the supply as it is.
LEMMA SupplyKept ==
    ASSUME Supply, UNCHANGED <<nextUnit, totalSupply>>,
           \A u \in UnitId: /\ Value(u)' = Value(u)
                            /\ (units'[u].status = "Recalled") = (units[u].status = "Recalled")
    PROVE  Unminted' /\ SupplyIsCirculating'
<1>1. Circulating' = Circulating
  BY DEF Circulating
<1>2. Values' = Values
  BY DEF Values
<1>3. QED
  BY <1>1, <1>2 DEF Supply, Unminted, SupplyIsCirculating, Total, Values

\* What an owner may do is among that: the unit is the owner's, so not recalled.
LEMMA OwnerKeepsSupply ==
    ASSUME Supply, NEW s \in Account, OwnerCall(s)
    PROVE  Unminted' /\ SupplyIsCirculating'
<1>1. ASSUME NEW v \in UnitId,
             \/ \E t \in Account: Transfer(v, s, t)
             \/ Swap(v, s)
             \/ \E l \in 1..MaxTime: Earmark(v, s, l)
      PROVE  Unminted' /\ SupplyIsCirculating'
  <2>1. UNCHANGED <<nextUnit, totalSupply>> /\ units[v].status = "Active"
    BY <1>1 DEF Transfer, Swap, Earmark, OwnedActive
  <2>2. \A u \in UnitId: /\ Value(u)' = Value(u)
                         /\ (units'[u].status = "Recalled") = (units[u].status = "Recalled")
    BY <1>1, <2>1 DEF Transfer, Swap, Earmark, Supply, IInv, TypeOK, GDPUnit, Value
  <2>3. QED
    BY <2>1, <2>2, SupplyKept
<1>2. ASSUME NEW e \in EarmarkId, ReleaseEarmark(e, s) PROVE Unminted' /\ SupplyIsCirculating'
  <2>1. PICK v \in UnitId: v = earmarks[e].unit
    BY DEF Supply, IInv, TypeOK, EarmarkRecord
  <2>2. /\ units' = [units EXCEPT ![v].status = "Active"] /\ units[v].owner = s
        /\ UNCHANGED <<nextUnit, totalSupply>>
    BY <1>2, <2>1 DEF ReleaseEarmark
  <2>3. units[v].status # "Recalled"
    BY <2>2, OwnedMinted DEF Supply
  <2>4. \A u \in UnitId: /\ Value(u)' = Value(u)
                         /\ (units'[u].status = "Recalled") = (units[u].status = "Recalled")
    BY <2>2, <2>3 DEF Supply, IInv, TypeOK, GDPUnit, Value
  <2>5. QED
    BY <2>2, <2>4, SupplyKept
<1>3. ASSUME NEW g \in Gold, NEW p \in Purity, RequestMinting(s, g, p)
      PROVE  Unminted' /\ SupplyIsCirculating'
  BY <1>3, SupplyKept DEF RequestMinting, ledger, Value
<1>4. QED
  BY <1>1, <1>2, <1>3 DEF OwnerCall

\* A minting adds a unit that was not there, and its units to the supply.
LEMMA MintAddsSupply ==
    ASSUME Supply, TypeOK', NEW r \in RequestId, ExecuteMint(r)
    PROVE  Unminted' /\ SupplyIsCirculating'
<1> DEFINE saleable == UnitsFor(PureGold(r), parameters.saleable)
           reserve == UnitsFor(PureGold(r), parameters.reserve)
           unit == [owner |-> requests[r].requester, saleable |-> saleable,
                    reserve |-> reserve, status |-> "Active"]
<1>1. /\ units' = [units EXCEPT ![nextUnit] = unit] /\ nextUnit' = nextUnit + 1
      /\ totalSupply' = totalSupply + saleable + reserve
      /\ nextUnit < MaxUnit /\ requests[r].purity # 0
  BY DEF ExecuteMint
<1>2. saleable \in Nat /\ reserve \in Nat
  <2>1. parameters.saleable \in Nat /\ parameters.reserve \in Nat
    BY ContractConstants DEF Supply, IInv, TypeOK
  <2>2. QED
    BY <1>1, <2>1, UnitsNat DEF Supply, IInv
<1> HIDE DEF saleable, reserve
<1>3. PICK n \in UnitId: n = nextUnit
  BY <1>1, ContractConstants DEF Supply, IInv, TypeOK, UnitId
<1>4. /\ units'[n].saleable = saleable /\ units'[n].reserve = reserve /\ units'[n].status = "Active"
      /\ \A u \in UnitId \ {n}: units'[u] = units[u]
  BY <1>1, <1>3 DEF Supply, IInv, TypeOK
<1>5. /\ Circulating' = Circulating \cup {n} /\ n \notin Circulating
      /\ Circulating \subseteq UnitId
  <2>1. \A u \in UnitId: u < nextUnit' <=> u < nextUnit \/ u = n
    BY <1>1, <1>3 DEF UnitId
  <2>2. QED
    BY <1>3, <1>4, <2>1 DEF Circulating, UnitId
<1>6. /\ Values \in [UnitId -> Nat] /\ IsFiniteSet(Circulating)
      /\ Values' \in [UnitId -> Nat]
  <2>1. \A u \in UnitId: Value(u)' \in Nat
    BY DEF TypeOK, GDPUnit, Value
  <2>2. Values' \in [UnitId -> Nat]
    BY <2>1 DEF Values
  <2>3. QED
    BY <2>2, ValuesNat DEF Supply, IInv
<1>7. Values'[n] = saleable + reserve /\ \A u \in UnitId \ {n}: Values'[u] = Values[u]
  BY <1>4 DEF Values, Value
<1>8. SumFunctionOnSet(Values', Circulating') = Values'[n] + SumFunctionOnSet(Values', Circulating)
  <2>1. \A u \in Circulating \cup {n}: Values'[u] \in Int
    BY <1>5, <1>6
  <2>2. QED
    BY <1>5, <1>6, <2>1, SumAdd
<1>9. SumFunctionOnSet(Values', Circulating) = SumFunctionOnSet(Values, Circulating)
  <2>1. \A u \in Circulating: Values'[u] = Values[u]
    BY <1>5, <1>7
  <2>2. QED
    BY <1>6, <2>1, SumSame
<1>10. totalSupply = SumFunctionOnSet(Values, Circulating) /\ totalSupply \in Nat
  BY DEF Supply, SupplyIsCirculating, Total, Values, IInv, TypeOK
<1>11. totalSupply' = SumFunctionOnSet(Values', Circulating')
  BY <1>1, <1>2, <1>7, <1>8, <1>9, <1>10
<1>12. Unminted'
  <2>1. ASSUME NEW u \in UnitId, u >= nextUnit' PROVE Value(u)' = 0
    <3>1. u # n /\ u >= nextUnit
      BY <1>1, <1>3, <2>1 DEF UnitId
    <3>2. Value(u) = 0 /\ units'[u] = units[u]
      BY <1>4, <3>1 DEF Supply, Unminted
    <3>3. QED
      BY <3>2 DEF Value
  <2>2. QED
    BY <2>1 DEF Unminted
<1>13. QED
  BY <1>11, <1>12 DEF SupplyIsCirculating, Total, Values

\* A recall takes off the supply what its units are worth; those among them that were
\* never minted are worth nothing.
LEMMA RecallTakesSupply ==
    ASSUME Supply, NEW ids \in SUBSET UnitId, Recall(ids)
    PROVE  Unminted' /\ SupplyIsCirculating'
<1>0. PICK recalled: recalled = {u \in ids: units[u].status # "Recalled"}
  OBVIOUS
<1>1. /\ units' = [u \in UnitId |->
                      IF u \in recalled THEN [units[u] EXCEPT !.status = "Recalled", !.owner = Zero]
                      ELSE units[u]]
      /\ totalSupply' \in 0..totalSupply
      /\ totalSupply' + SumFunctionOnSet(Values, recalled) = totalSupply
      /\ nextUnit' = nextUnit
  BY <1>0 DEF Recall, Total, Values
<1>2. /\ recalled \subseteq UnitId /\ \A u \in recalled: units[u].status # "Recalled"
      /\ IsFiniteSet(recalled)
  <2>1. recalled \subseteq UnitId /\ \A u \in recalled: units[u].status # "Recalled"
    BY <1>0
  <2>2. IsFiniteSet(UnitId)
    BY ValuesNat DEF Supply, IInv
  <2>3. QED
    BY <2>1, <2>2, FS_Subset
<1>3. \A u \in UnitId: /\ Value(u)' = Value(u)
                       /\ units'[u].status = IF u \in recalled THEN "Recalled" ELSE units[u].status
  BY <1>1 DEF Supply, IInv, TypeOK, GDPUnit, Value
<1>4. Values' = Values
  BY <1>3 DEF Values
<1>5. Values \in [UnitId -> Nat] /\ IsFiniteSet(Circulating) /\ Circulating \subseteq UnitId
  BY ValuesNat DEF Supply, IInv
<1> DEFINE both == Circulating \cap recalled
<1>6. Circulating' = Circulating \ both
  BY <1>1, <1>3 DEF Circulating
<1>7. SumFunctionOnSet(Values, Circulating)
         = SumFunctionOnSet(Values, both) + SumFunctionOnSet(Values, Circulating \ both)
  <2>1. both \in SUBSET Circulating /\ \A u \in Circulating: Values[u] \in Int
    BY <1>5
  <2> HIDE DEF both
  <2>2. QED
    BY <1>5, <2>1, SumSplit
<1>8. SumFunctionOnSet(Values, recalled)
         = SumFunctionOnSet(Values, both) + SumFunctionOnSet(Values, recalled \ both)
  <2>1. both \in SUBSET recalled /\ \A u \in recalled: Values[u] \in Int
    BY <1>2, <1>5
  <2> HIDE DEF both
  <2>2. QED
    BY <1>2, <2>1, SumSplit
<1>9. SumFunctionOnSet(Values, recalled \ both) = 0
  <2>1. \A u \in recalled \ both: Values[u] = 0
    <3>1. ASSUME NEW u \in recalled \ both PROVE Value(u) = 0
      <4>1. u \in UnitId /\ ~(u < nextUnit)
        BY <1>2 DEF Circulating
      <4>2. u >= nextUnit
        BY <4>1, ContractConstants DEF UnitId, Supply, IInv, TypeOK
      <4>3. QED
        BY <4>1, <4>2 DEF Supply, Unminted
    <3>2. QED
      BY <3>1, <1>2 DEF Values
  <2>2. IsFiniteSet(recalled \ both)
    BY <1>2, FS_Subset
  <2> HIDE DEF both
  <2>3. QED
    BY <2>1, <2>2, SumOfZeros
<1>10. /\ SumFunctionOnSet(Values, both) \in Int
       /\ SumFunctionOnSet(Values, Circulating \ both) \in Int
  <2>1. /\ IsFiniteSet(both) /\ IsFiniteSet(Circulating \ both)
        /\ \A u \in both: Values[u] \in Int
        /\ \A u \in Circulating \ both: Values[u] \in Int
    BY <1>5, FS_Subset
  <2> HIDE DEF both
  <2>2. QED
    BY <2>1, SumIsInt
<1>11. totalSupply = SumFunctionOnSet(Values, Circulating) /\ totalSupply \in Nat
  BY DEF Supply, SupplyIsCirculating, Total, Values, IInv, TypeOK
<1>12. totalSupply' = SumFunctionOnSet(Values', Circulating')
  <2> HIDE DEF both
  <2>0. totalSupply' \in 0..totalSupply /\ totalSupply' + SumFunctionOnSet(Values, recalled) = totalSupply
    BY <1>1
  <2>1. totalSupply' + SumFunctionOnSet(Values, both) = totalSupply /\ totalSupply' \in Int
    BY <2>0, <1>8, <1>9, <1>10
  <2>2. totalSupply' = SumFunctionOnSet(Values, Circulating \ both)
    BY <1>7, <1>10, <1>11, <2>1
  <2>3. QED
    BY <1>4, <1>6, <2>2
<1>13. Unminted'
  BY <1>1, <1>3 DEF Supply, Unminted
<1>14. QED
  BY <1>12, <1>13 DEF SupplyIsCirculating, Total, Values

\* A new contract has no supply and no units.
LEMMA SupplyInit == Init => Supply
<1> SUFFICES ASSUME Init PROVE Supply
  OBVIOUS
<1>1. \A u \in UnitId: Value(u) = 0
  BY DEF Init, NoUnit, Value
<1>2. Circulating = {} /\ totalSupply = 0
  BY DEF Init, Circulating, UnitId
<1>3. SupplyIsCirculating
  BY <1>2, SumOfNone DEF SupplyIsCirculating, Total
<1>4. QED
  BY <1>1, <1>3, Initially DEF Supply, Unminted

\* Every call keeps the supply in step with the units.
LEMMA SupplyStep == Supply /\ [Next]_vars => Supply'
<1> SUFFICES ASSUME Supply, [Next]_vars PROVE Unminted' /\ SupplyIsCirculating'
  BY Stepwise DEF Supply
<1>1. TypeOK'
  BY TypeStep DEF Supply, IInv
<1>2. ASSUME UNCHANGED ledger PROVE Unminted' /\ SupplyIsCirculating'
  BY <1>2, SupplyKept DEF ledger, Value
<1>3. ASSUME RoleCall PROVE Unminted' /\ SupplyIsCirculating'
  <2>1. ASSUME NEW r \in RequestId, ExecuteMint(r) PROVE Unminted' /\ SupplyIsCirculating'
    BY <1>1, <2>1, MintAddsSupply
  <2>2. ASSUME NEW ids \in SUBSET UnitId, Recall(ids) PROVE Unminted' /\ SupplyIsCirculating'
    BY <2>2, RecallTakesSupply
  <2>3. QED
    BY <1>2, <1>3, <2>1, <2>2 DEF RoleCall, VerifyCheckpoint, UpdateParameters, Pause, Unpause
<1>4. QED
  BY <1>2, <1>3, OwnerKeepsSupply DEF Next, Tick, vars

\* The total supply is what the units in circulation are worth, under whichever
\* parameters they were minted and however a recall names them.
THEOREM SupplyCirculates == Spec => []SupplyIsCirculating
<1>1. Supply => SupplyIsCirculating
  BY DEF Supply
<1>2. QED
  BY <1>1, SupplyInit, SupplyStep, PTL DEF Spec
=============================================================================
